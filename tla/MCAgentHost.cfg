SPECIFICATION HostSpec
CONSTANTS
    Models = {m1}
    Dirs = {d1, d2}
    HomeDir = d1
    Threads = {t1, t2}
    OnShare = {m1}
    Faults = {"mountFails", "copyFails", "removeFails", "noRunner",
              "newSettings", "agentCrash"}
    Engines = {ollama, llama_cpp, vllm}
    Units = {ollama}
    Venvs = {vllm}
    Pids = {p1, p2}
    NoPid = NoPid
    Commands = {c1, c2, c3}
    EngineFaults = {"exitsEarly", "engineCrash", "spawnRaises", "unkillable", "unitRefuses",
                    "installFails", "dockerRaises", "unhealthy", "logsEnd",
                    "agentCrash"}
    Procs = {k1, k2}
    NoProc = NoProc
    MaxBuilds = 2
    ProcFaults = {"crash", "interrupt", "badDownload", "noDigest", "checkFails",
                  "serverRestart", "serviceFails"}
SYMMETRY HostSymmetry
INVARIANTS HostTypeOK RunsOnWholeModel CopiesGo NoEngineLost
           NoContainerForgotten ListenerIsReachable
CHECK_DEADLOCK FALSE
