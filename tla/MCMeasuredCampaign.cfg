SPECIFICATION OneMachineSpec
CONSTANTS
    k1 = k1
    k2 = k2
    Keys = {k1, k2}
    Repo <- OwnRepo
    Size <- OneEach
    Params <- OneEach
    Bpp <- OneEach
    Specs <- BothRuns
    InDirectory = {}
    Unwanted = {}
    Room = 9
    Reserve = 1
    SizeLimits = {0}
    Ids = {i1}
    Modes = {"sequential"}
    MaxStarts = 2
    RunnerFaults = {"dies", "benchFails", "stopFails", "dockerFails", "orphan"}
    Runs = {r1, r2}
    NoRun = NoRun
    Service = Service
    Home = Home
    Settings <- RunSettings
    Items = 1
    BenchFaults = {"runTimesOut", "killed", "stopFails", "sweep"}
    EngineOf <- LlamaCpp
    NoKey = NoKey
SYMMETRY RunSymmetry
INVARIANTS SuccessIsReported CampaignMeasuresItsModel
PROPERTIES ImplementsParts
CHECK_DEADLOCK FALSE
