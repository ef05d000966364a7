---------------------------- MODULE BenchmarkRun ----------------------------
(***************************************************************************)
(* kitt run: a process starts an inference engine (a container on the      *)
(* host's network, a native process, or mlx-lm in the process itself),     *)
(* waits until something answers on the engine's port, lets a suite's      *)
(* benchmarks send their prompts there, stops the engine and writes a      *)
(* report.                                                                 *)
(***************************************************************************)
EXTENDS Naturals, Sequences, FiniteSets, SequencesExt

CONSTANTS
    Runs,        \* kitt run processes
    NoRun,
    Service,     \* the Ollama that systemd runs
    Home,        \* the models of an Ollama process of the user
    Settings,    \* what a run may be asked: [kind, mode, port, model, gguf], with
                 \* mode "default" without --mode and port 0 without one in --config
    Items,       \* number of prompts that the suite's benchmarks send
    BenchFaults  \* subset of {"noModel", "spawnFails", "runTimesOut", "unhealthy",
                 \* "loadFails", "loadUnread", "answerFails", "raises", "killed", "dies",
                 \* "stopFails", "sweep"}

(* The ports that KITT's engines use, and those of --config.               *)
Ports == {8000, 8080, 8081, 8082, 11434} \cup ({s.port : s \in Settings} \ {0})
EngineKinds == {"vllm", "llama_cpp", "exllamav2", "ollama", "mlx"}

ASSUME BenchAssumption ==
    /\ {NoRun, Service, Home} \cap Runs = {} /\ Service \notin {NoRun, Home}
    /\ \A s \in Settings : /\ s.kind \in EngineKinds /\ s.mode \in {"default", "docker", "native"}
                         /\ s.port \in Nat
    /\ Items \in Nat \ {0}

VARIABLES
    host,        \* what the machine has
    kitt,        \* the processes; `late` is the Ollama that may still finish an import
                 \* whose outcome the run did not read, `unread` that there was one
                 \*                                            (properties only)
    server,      \* the engine each has started
    listener,    \* who listens on each port
    tags,        \* the models of each Ollama: <<name, what it holds>>
    report,      \* the report of each run: passed, and who answered each prompt with what
    met,         \* runs that were in progress together         (properties only)
    untidy       \* runs that ended and left their engine there (properties only)

benchVars == <<host, kitt, server, listener, tags, report, met, untidy>>

BenchPcs == {"off", "prepare", "init", "verify", "health", "load", "suite", "items", "stop",
             "write", "over"}
NoReport == [passed |-> FALSE, by |-> <<>>, there |-> FALSE]

DefaultPort == [vllm |-> 8000, llama_cpp |-> 8081, exllamav2 |-> 8082, ollama |-> 11434,
                mlx |-> 0]

BenchTypeOK ==
    /\ host.docker \in BOOLEAN /\ host.spark \in BOOLEAN /\ host.service \in BOOLEAN
    /\ host.images \subseteq EngineKinds /\ host.binaries \subseteq EngineKinds
    /\ \A r \in Runs :
          /\ kitt[r].pc \in BenchPcs /\ kitt[r].s \in Settings
          /\ kitt[r].item \in 0..Items /\ kitt[r].errors \in 0..kitt[r].item
          /\ Len(kitt[r].by) + kitt[r].errors = kitt[r].item
          /\ kitt[r].late # NoRun => kitt[r].unread /\ kitt[r].late \in Runs \cup {Service}
          /\ report[r].there => Len(report[r].by) = Items \/ ~report[r].passed
    /\ server \in [Runs -> {"none", "starting", "up", "exited"}]
    /\ listener \in [Ports -> Runs \cup {Service, NoRun}]
    /\ \A p \in Ports : listener[p] \in Runs => server[listener[p]] = "up"
    /\ met \in [Runs -> SUBSET Runs] /\ untidy \subseteq Runs

BenchInit ==
    /\ host \in [docker : BOOLEAN, spark : BOOLEAN, service : BOOLEAN,
                 images : SUBSET EngineKinds, binaries : SUBSET EngineKinds]
    /\ \E s \in [Runs -> Settings] :
          kitt = [r \in Runs |-> [pc |-> "off", s |-> s[r], item |-> 0, errors |-> 0,
                                  by |-> <<>>, unread |-> FALSE, late |-> NoRun]]
    /\ server = [r \in Runs |-> "none"]
    /\ listener = [p \in Ports |-> IF host.service /\ p = 11434 THEN Service ELSE NoRun]
    /\ tags = [e \in Runs \cup {Service, Home} |-> {}]
    /\ report = [r \in Runs |-> NoReport]
    /\ met = [r \in Runs |-> {}]
    /\ untidy = {}

-----------------------------------------------------------------------------

InProgress(r) == kitt[r].pc \notin {"off", "over"}
To(r, pc) == kitt' = [kitt EXCEPT ![r].pc = pc]
Kind(r) == kitt[r].s.kind

DefaultMode(kind) ==
    IF kind = "mlx" \/ (host.spark /\ kind \in {"llama_cpp", "ollama"}) THEN "native"
    ELSE "docker"

(* ExLlamaV2 ignores --mode; so does MLX.                                  *)
Mode(r) == CASE Kind(r) = "exllamav2"          -> "docker"
             [] Kind(r) = "mlx"                -> "native"
             [] kitt[r].s.mode # "default"     -> kitt[r].s.mode
             [] OTHER                          -> DefaultMode(Kind(r))

(* The port that the run polls and sends its prompts to ...                *)
Polled(r) == IF kitt[r].s.port = 0 THEN DefaultPort[Kind(r)] ELSE kitt[r].s.port

(* ... and the one its engine listens on: a container of vLLM, ExLlamaV2   *)
(* or Ollama is not told the port of --config.                             *)
Bound(r) == CASE Mode(r) = "docker" /\ Kind(r) = "exllamav2"          -> 8080
              [] Mode(r) = "docker" /\ Kind(r) \in {"vllm", "ollama"} -> DefaultPort[Kind(r)]
              [] OTHER                                                -> Polled(r)

Alive(r) == server[r] \in {"starting", "up"}
Hang(ports, e) == [p \in Ports |-> IF ports[p] = e THEN NoRun ELSE ports[p]]

(* The process ends without cleanup().                                     *)
EndsUntidy(r) ==
    /\ To(r, "over")
    /\ untidy' = IF Alive(r) THEN untidy \cup {r} ELSE untidy

Begin(r) ==
    /\ kitt[r].pc = "off"
    /\ To(r, "prepare")
    /\ met' = [s \in Runs |-> IF s = r THEN {t \in Runs : InProgress(t)}
                              ELSE IF InProgress(s) THEN met[s] \cup {r} ELSE met[s]]
    /\ UNCHANGED <<host, server, listener, tags, report, untidy>>

(* is_available, of the default mode whatever --mode says.                 *)
IsAvailable(kind) ==
    IF DefaultMode(kind) = "native" THEN kind \in host.binaries
    ELSE host.docker /\ kind \in host.images

(* Build the image if KITT has a recipe for it, pull it else.              *)
SetupEngine(kind) ==
    /\ host.docker
    /\ host' = [host EXCEPT !.images = @ \cup {kind}]

(* The engine has to be there, with --auto-pull its image is fetched; the  *)
(* model has to be of a format that the engine takes.                      *)
Prepare(r) ==
    /\ kitt[r].pc = "prepare"
    /\ \/ IsAvailable(Kind(r)) /\ To(r, "init") /\ UNCHANGED host
       \/ ~IsAvailable(Kind(r)) /\ Kind(r) # "mlx" /\ SetupEngine(Kind(r)) /\ To(r, "init")
       \/ /\ ~IsAvailable(Kind(r)) \/ "noModel" \in BenchFaults
          /\ To(r, "over") /\ UNCHANGED host
    /\ UNCHANGED <<server, listener, tags, report, met, untidy>>

(* kitt engines setup.                                                     *)
EnginesSetup(kind) ==
    /\ kind # "mlx" /\ kind \notin host.images
    /\ SetupEngine(kind)
    /\ UNCHANGED <<kitt, server, listener, tags, report, met, untidy>>

-----------------------------------------------------------------------------

ContainerStarts(r) ==
    /\ host.docker
    /\ server' = [server EXCEPT ![r] = "starting"]
    /\ host' = [host EXCEPT !.images = @ \cup {Kind(r)}]

(* docker run -d: it fetches an image that is missing.  Another engine     *)
(* that was started in the same second has the container's name.  The      *)
(* command may take longer than its 30 seconds and bring up a container    *)
(* whose id nobody knows.                                                  *)
RunContainer(r) ==
    \/ ContainerStarts(r) /\ To(r, "health") /\ UNCHANGED untidy
    \/ /\ "runTimesOut" \in BenchFaults
       /\ ContainerStarts(r) /\ To(r, "over")
       /\ untidy' = untidy \cup {r}
    \/ /\ ~host.docker \/ "spawnFails" \in BenchFaults
       /\ To(r, "over")
       /\ UNCHANGED <<server, host, untidy>>

StartProcess(r) ==
    /\ \/ /\ Kind(r) \in host.binaries
          /\ server' = [server EXCEPT ![r] = "starting"]
          /\ To(r, "verify")
       \/ /\ Kind(r) \notin host.binaries \/ "spawnFails" \in BenchFaults
          /\ To(r, "over")
          /\ UNCHANGED server
    /\ UNCHANGED <<host, untidy>>

InitVllm(r) ==
    /\ Kind(r) = "vllm"
    /\ IF Mode(r) = "docker" THEN RunContainer(r) ELSE StartProcess(r)

(* A directory without a .gguf file raises.                                *)
InitLlamaCpp(r) ==
    /\ Kind(r) = "llama_cpp"
    /\ IF kitt[r].s.gguf
       THEN IF Mode(r) = "docker" THEN RunContainer(r) ELSE StartProcess(r)
       ELSE To(r, "over") /\ UNCHANGED <<server, host, untidy>>

InitExllamaV2(r) == Kind(r) = "exllamav2" /\ RunContainer(r)

(* The service of systemd is taken as it is.                               *)
InitOllama(r) ==
    /\ Kind(r) = "ollama"
    /\ IF Mode(r) = "docker" THEN RunContainer(r)
       ELSE IF host.service THEN To(r, "health") /\ UNCHANGED <<server, host, untidy>>
       ELSE StartProcess(r)

(* mlx_lm loads the model into the process.                                *)
InitMlx(r) ==
    /\ Kind(r) = "mlx"
    /\ \/ "mlx" \in host.binaries /\ To(r, "suite")
       \/ ("mlx" \notin host.binaries \/ "loadFails" \in BenchFaults) /\ To(r, "over")
    /\ UNCHANGED <<server, host, untidy>>

Initialize(r) ==
    /\ kitt[r].pc = "init"
    /\ InitVllm(r) \/ InitLlamaCpp(r) \/ InitExllamaV2(r) \/ InitOllama(r) \/ InitMlx(r)
    /\ UNCHANGED <<listener, tags, report, met>>

(* The engine binds its port, unless somebody has it.                      *)
TakePort(r) ==
    /\ server[r] = "starting"
    /\ IF listener[Bound(r)] = NoRun
       THEN /\ listener' = [listener EXCEPT ![Bound(r)] = r]
            /\ server' = [server EXCEPT ![r] = "up"]
       ELSE server' = [server EXCEPT ![r] = "exited"] /\ UNCHANGED listener
    /\ UNCHANGED <<host, kitt, tags, report, met, untidy>>

(* The engine fails by itself.                                             *)
EngineFails(r) ==
    /\ "dies" \in BenchFaults
    /\ Alive(r)
    /\ server' = [server EXCEPT ![r] = "exited"]
    /\ listener' = Hang(listener, r)
    /\ UNCHANGED <<host, kitt, tags, report, met, untidy>>

(* start_process looks once, half a second later.                          *)
Verify(r) ==
    /\ kitt[r].pc = "verify"
    /\ To(r, IF Alive(r) THEN "health" ELSE "over")
    /\ UNCHANGED <<host, server, listener, tags, report, met, untidy>>

OllamaSpeaks(e) == e = Service \/ (e \in Runs /\ Kind(e) = "ollama")

(* Who answers the run, on /health or on /api/tags.                        *)
Peer(r) == LET e == listener[Polled(r)]
           IN  IF e # NoRun /\ (OllamaSpeaks(e) <=> Kind(r) = "ollama") THEN e ELSE NoRun

(* wait_for_healthy: who answers is not asked.  A timeout raises,          *)
(* initialize() fails and run exits.                                       *)
AwaitHealthy(r) ==
    /\ kitt[r].pc = "health"
    /\ \/ Peer(r) # NoRun /\ To(r, "load") /\ UNCHANGED untidy
       \/ /\ Peer(r) = NoRun
          /\ "unhealthy" \in BenchFaults \/ ~Alive(r) \/ Bound(r) # Polled(r)
          /\ EndsUntidy(r)
    /\ UNCHANGED <<host, server, listener, tags, report, met>>

(* A local GGUF file is always imported under the same name.               *)
Tag(r) == IF kitt[r].s.gguf THEN "kitt-local-model" ELSE kitt[r].s.model

(* The engine's own container keeps its models, a process of the user has  *)
(* those of the user's home.                                               *)
StoreOf(e) == IF e = Service THEN Service ELSE IF Mode(e) = "native" THEN Home ELSE e

(* The Ollama that is asked for a run's model: the one in the run's own    *)
(* container, which has to run, or whoever listens.                        *)
Loader(r) == IF Mode(r) = "native" THEN Peer(r) ELSE IF server[r] = "up" THEN r ELSE NoRun

Import(r, e) ==
    tags' = [tags EXCEPT ![StoreOf(e)] =
                {t \in @ : t[1] # Tag(r)} \cup {<<Tag(r), kitt[r].s.model>>}]

(* Ollama creates or pulls the model now; the other engines were started   *)
(* with theirs.  docker exec says how that ended.  The API says it in the  *)
(* body of its response, which is not read: the run goes on at the first   *)
(* byte, and the model may come later or never.                            *)
LoadModel(r) ==
    /\ kitt[r].pc = "load"
    /\ \/ Kind(r) # "ollama" /\ To(r, "suite") /\ UNCHANGED <<tags, untidy>>
       \/ /\ Kind(r) = "ollama" /\ Loader(r) # NoRun
          /\ Import(r, Loader(r))
          /\ To(r, "suite")
          /\ UNCHANGED untidy
       \/ /\ "loadUnread" \in BenchFaults
          /\ Kind(r) = "ollama" /\ Mode(r) = "native" /\ Loader(r) # NoRun
          /\ kitt' = [kitt EXCEPT ![r].pc = "suite", ![r].unread = TRUE, ![r].late = Loader(r)]
          /\ UNCHANGED <<tags, untidy>>
       \/ /\ Kind(r) = "ollama" /\ (Loader(r) = NoRun \/ "loadFails" \in BenchFaults)
          /\ EndsUntidy(r)
          /\ UNCHANGED tags
    /\ UNCHANGED <<host, server, listener, report, met>>

(* An import that nobody waits for ends, maybe after the run.              *)
ImportEnds(r) ==
    /\ kitt[r].late \in Runs => server[kitt[r].late] = "up"
    /\ kitt[r].late # NoRun
    /\ Import(r, kitt[r].late)
    /\ kitt' = [kitt EXCEPT ![r].late = NoRun]
    /\ UNCHANGED <<host, server, listener, report, met, untidy>>

-----------------------------------------------------------------------------

(* engine.cleanup(): a process that outlives its kill, a docker command    *)
(* that fails, leave the engine there; docker kill, when docker stop took  *)
(* too long, may take too long itself and raises.                          *)
Cleanup(r, next) ==
    \/ /\ server' = [server EXCEPT ![r] = "none"]
       /\ listener' = Hang(listener, r)
       /\ To(r, next)
       /\ UNCHANGED untidy
    \/ /\ "stopFails" \in BenchFaults /\ Alive(r)
       /\ To(r, next) \/ (Mode(r) = "docker" /\ To(r, "over"))
       /\ untidy' = untidy \cup {r}
       /\ UNCHANGED <<server, listener>>

(* The benchmarks that the suite names: without any the engine is stopped  *)
(* and run exits.                                                          *)
FindBenchmarks(r) ==
    /\ kitt[r].pc = "suite"
    /\ \/ To(r, "items") /\ UNCHANGED <<server, listener, untidy>>
       \/ Cleanup(r, "over")
    /\ UNCHANGED <<host, tags, report, met>>

Answer(e, model) == [engine |-> e, model |-> model]

(* vLLM refuses a request for another model than its own, and a container  *)
(* calls it by another path than a process; llama.cpp and ExLlamaV2 answer *)
(* any; an Ollama answers for the names it has.                            *)
OpenAiAnswers(r) ==
    LET e == Peer(r)
    IN  IF Kind(r) \in {"ollama", "mlx"} \/ e = NoRun THEN {}
        ELSE IF Kind(e) = "vllm" /\ (kitt[e].s.model # kitt[r].s.model \/ Mode(e) # Mode(r))
             THEN {}
             ELSE {Answer(e, kitt[e].s.model)}

OllamaAnswers(r) ==
    IF Kind(r) # "ollama" \/ Peer(r) = NoRun THEN {}
    ELSE {Answer(Peer(r), t[2]) : t \in {t \in tags[StoreOf(Peer(r))] : t[1] = Tag(r)}}

MlxAnswers(r) == IF Kind(r) = "mlx" THEN {Answer(r, kitt[r].s.model)} ELSE {}

Answers(r) == OpenAiAnswers(r) \cup OllamaAnswers(r) \cup MlxAnswers(r)

(* One prompt (BenchmarkSuite has the benchmarks).                         *)
Item(r) ==
    /\ kitt[r].pc = "items" /\ kitt[r].item < Items
    /\ \/ \E a \in Answers(r) :
             kitt' = [kitt EXCEPT ![r].item = @ + 1, ![r].by = Append(@, a)]
       \/ /\ Answers(r) = {} \/ "answerFails" \in BenchFaults
          /\ kitt' = [kitt EXCEPT ![r].item = @ + 1, ![r].errors = @ + 1]
    /\ UNCHANGED <<host, server, listener, tags, report, met, untidy>>

(* A benchmark that raises ends the run.                                   *)
Raise(r) ==
    /\ "raises" \in BenchFaults
    /\ kitt[r].pc = "items"
    /\ EndsUntidy(r)
    /\ UNCHANGED <<host, server, listener, tags, report, met>>

EndItems(r) ==
    /\ kitt[r].pc = "items" /\ kitt[r].item = Items
    /\ To(r, "stop")
    /\ UNCHANGED <<host, server, listener, tags, report, met, untidy>>

(* Mutant: the report is written and the engine is not stopped.            *)
LeaveEngine(r) ==
    /\ kitt[r].pc = "stop"
    /\ To(r, "write")
    /\ UNCHANGED <<host, server, listener, tags, report, met, untidy>>

StopEngine(r) ==
    /\ kitt[r].pc = "stop"
    /\ Cleanup(r, "write")
    /\ UNCHANGED <<host, tags, report, met>>

(* metrics.json and the rest of the report.                                *)
WriteReport(r) ==
    /\ kitt[r].pc = "write"
    /\ report' = [report EXCEPT ![r] = [passed |-> kitt[r].errors = 0, by |-> kitt[r].by,
                                        there |-> TRUE]]
    /\ To(r, "over")
    /\ UNCHANGED <<host, server, listener, tags, met, untidy>>

(* Ctrl-C, a timeout of the campaign runner, a kill: no handler stops the  *)
(* engine.                                                                 *)
Killed(r) ==
    /\ "killed" \in BenchFaults
    /\ InProgress(r)
    /\ EndsUntidy(r)
    /\ UNCHANGED <<host, server, listener, tags, report, met>>

(* docker rm -f                                                            *)
RemoveContainers(swept) ==
    /\ server' = [r \in Runs |-> IF r \in swept THEN "none" ELSE server[r]]
    /\ listener' = [p \in Ports |-> IF listener[p] \in swept THEN NoRun ELSE listener[p]]
    /\ UNCHANGED <<host, kitt, tags, report, met, untidy>>

(* A campaign runner's _cleanup_docker removes every kitt- container, as   *)
(* far as docker gets.                                                     *)
Sweep ==
    /\ "sweep" \in BenchFaults
    /\ \E swept \in SUBSET {r \in Runs : Mode(r) = "docker"} : RemoveContainers(swept)

RunGoesOn(r) ==
    \/ Prepare(r) \/ Initialize(r) \/ TakePort(r) \/ EngineFails(r)
    \/ Verify(r) \/ AwaitHealthy(r) \/ LoadModel(r) \/ ImportEnds(r) \/ FindBenchmarks(r)
    \/ Item(r) \/ Raise(r) \/ EndItems(r) \/ StopEngine(r) \/ WriteReport(r) \/ Killed(r)

BenchNext ==
    \/ \E r \in Runs : Begin(r) \/ RunGoesOn(r)
    \/ \E kind \in EngineKinds : EnginesSetup(kind)
    \/ Sweep

BenchSpec == BenchInit /\ [][BenchNext]_benchVars

-----------------------------------------------------------------------------

(* Whose engine may have answered a run: its own, the service's for a      *)
(* native Ollama, those of the runs that were in progress with it, and     *)
(* those that a run left behind.                                           *)
Company(r) == {r} \cup met[r] \cup untidy

(* The native Ollama runs whose model has the name that r uses.            *)
Namesakes(r) == {t \in Runs : Kind(t) = "ollama" /\ Mode(t) = "native" /\ Tag(t) = Tag(r)}

(* The models that they may have left in the Ollama of the user's home.    *)
LeftAtHome(r) == {kitt[s].s.model : s \in Namesakes(r)}

(* The models that r may find under its name because of an import that no  *)
(* run has read to its end: what stood there before, when it was its own;  *)
(* those of the others, which may come at any time.                        *)
Unread(r) ==
    {kitt[s].s.model : s \in {t \in Namesakes(r) : kitt[t].unread \/ kitt[r].unread}}

IsOwn(r, a) ==
    /\ a.engine \in Company(r) \/ (a.engine = Service /\ Kind(r) = "ollama")
    /\ \/ a.model \in {kitt[s].s.model : s \in Company(r)}
       \/ /\ Company(r) # {r} /\ a.engine \in Runs
          /\ Kind(a.engine) = "ollama" /\ Mode(a.engine) = "native"
          /\ a.model \in LeftAtHome(r)
       \/ Kind(r) = "ollama" /\ a.model \in Unread(r)

(* An answer in a report is of an engine and of a model that the run can   *)
(* have met: with no other run in progress beside it and no engine left    *)
(* behind, of its own engine and of its own model.  Two exceptions, both   *)
(* of an Ollama of the user, whose models outlive every run: it may answer *)
(* a run that had company with the model of one that was long over; and    *)
(* since a native run does not read how its import ends, that run may be   *)
(* answered with what stood under its name before, and another with what   *)
(* comes there late.  An engine that a run has stopped answers nobody, and *)
(* a run that is through its benchmarks has stopped its engine.            *)
MeasuresItsOwnEngine == \A r \in Runs : \A a \in ToSet(report[r].by) : IsOwn(r, a)

=============================================================================
