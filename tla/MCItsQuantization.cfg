SPECIFICATION RunnerSpec
CONSTANTS
    Keys = {k1, k2}
    Repo <- OneRepo
    Size <- OneEach
    Params <- OneEach
    Bpp <- OneEach
    Specs <- BothQuantizations
    InDirectory = {k1, k2}
    Unwanted = {}
    Room = 4
    Reserve = 1
    SizeLimits = {0}
    Ids = {i1}
    Modes = {"sequential"}
    MaxStarts = 2
    RunnerFaults = {"benchFails"}
INVARIANTS MeasuresItsQuantization
CHECK_DEADLOCK FALSE
