--------------------------- MODULE CampaignRunner ---------------------------
(***************************************************************************)
(* kitt campaign run: one process at a time plans the runs of a campaign,  *)
(* downloads, benchmarks and removes one model after another, and saves    *)
(* the outcome of each run in the campaign's state file, from which a      *)
(* later process may resume.  The parallel runner has a thread that        *)
(* downloads the model of the next run while the current one is measured.  *)
(***************************************************************************)
EXTENDS Naturals, Sequences, FiniteSets, FiniteSetsExt, SequencesExt

CONSTANTS
    Keys,         \* runs: model, engine and quantization
    Repo,         \* the repository that has a run's model: [Keys -> repositories]
    Size,         \* the room the model of a run takes: [Keys -> Nat]
    Params, Bpp,  \* parameters of its model, and bytes for each: 0 when not known
    Specs,        \* the models' engines in order: [how, keys] records, where how says
                  \* what finds the keys: "plain", "gguf" or "ollama"
    InDirectory,  \* quantizations in shards, in a directory of the repository
    Unwanted,     \* what quant_filter leaves out
    Room,         \* size of the disk
    Reserve,      \* disk.reserve_gb
    SizeLimits,   \* what resource_limits.max_model_size_gb may be
    Ids,          \* campaign ids
    Modes,        \* subset of {"sequential", "parallel"}
    MaxStarts,    \* bound: processes started
    RunnerFaults  \* subset of {"dies", "saveFails", "downloadFails", "benchFails",
                  \* "gated", "removeFails", "stopFails", "dockerFails", "orphan"}

ASSUME RunnerAssumption ==
    /\ {Size, Params, Bpp} \subseteq [Keys -> Nat]
    /\ Specs \in Seq([how : {"plain", "gguf", "ollama"}, keys : Seq(Keys)])
    /\ \A i \in 1..Len(Specs) : Specs[i].how = "ollama" => Specs[i].keys # <<>>
    /\ InDirectory \cup Unwanted \subseteq Keys
    /\ {Room, Reserve, MaxStarts} \cup SizeLimits \subseteq Nat
    /\ Ids # {} /\ Modes \subseteq {"sequential", "parallel"}

VARIABLES
    stateFile,  \* the state files
    runner,     \* the process and its memory of the campaign
    prefetch,   \* the download thread: the run it has and how far it is
    onDisk,     \* the models
    engineOn,   \* runs whose kitt container exists
    orphans,    \* runs whose kitt run outlived the runner and still goes on
    mode, cleanup, sizeLimit, \* configuration
    starts,
    earned,     \* per campaign, runs whose benchmark succeeded    (properties only)
    previewed,  \* campaigns that had a dry run                    (properties only)
    excused     \* models and engines that may be left over        (properties only)

runnerVars == <<stateFile, runner, prefetch, onDisk, engineOn, orphans, mode, cleanup, sizeLimit,
                starts, earned, previewed, excused>>
configured == <<mode, cleanup, sizeLimit>>
history  == <<earned, previewed>>

RunStatus == {"none", "pending", "running", "success", "failed", "skipped"}
DoneStatus == {"success", "failed", "skipped"}
RunnerPcs == {"off", "plan", "await", "check", "download", "loading", "bench", "measuring", "clean",
              "success", "failure", "docker", "remove", "finish"}

NoState == [status |-> "none", run |-> [k \in Keys |-> "none"]]
NoPrefetch == [todo |-> <<>>, at |-> "none"]

RunnerTypeOK ==
    /\ stateFile \in [Ids -> [status : {"none", "running", "completed"},
                              run : [Keys -> RunStatus]]]
    /\ runner.pc \in RunnerPcs /\ runner.id \in Ids /\ runner.dry \in BOOLEAN
    /\ runner.todo \in Seq(Keys) /\ runner.all \subseteq Keys
    /\ runner.path \in Seq(Keys) /\ Len(runner.path) <= 1
    /\ runner.mem \in [status : {"none", "running", "completed"}, run : [Keys -> RunStatus]]
    /\ prefetch.at \in {"none", "queued", "loading", "done"}
    /\ onDisk \in [Keys -> {"absent", "partial", "whole"}]
    /\ engineOn \subseteq Keys /\ orphans \subseteq Keys
    /\ excused \subseteq {"model", "engine"} \X Keys
    /\ mode \in {"sequential", "parallel"} /\ cleanup \in BOOLEAN /\ sizeLimit \in SizeLimits
    /\ starts \in 0..MaxStarts

Off == [pc |-> "off", id |-> CHOOSE i \in Ids : TRUE, dry |-> FALSE,
        todo |-> <<>>, all |-> {}, path |-> <<>>, mem |-> NoState]

RunnerInit ==
    /\ stateFile = [i \in Ids |-> NoState]
    /\ runner = Off
    /\ prefetch = NoPrefetch
    /\ onDisk = [k \in Keys |-> "absent"]
    /\ engineOn = {} /\ orphans = {} /\ excused = {}
    /\ mode \in Modes /\ cleanup \in BOOLEAN /\ sizeLimit \in SizeLimits
    /\ starts = 0
    /\ earned = [i \in Ids |-> {}]
    /\ previewed = {}

-----------------------------------------------------------------------------

Current == Head(runner.todo)
Plan == FlattenSeq([i \in 1..Len(Specs) |-> Specs[i].keys])

(* What is left of a list, in its order, when the members of a set are     *)
(* taken out.                                                              *)
Without(ks, S) ==
    LET left[n \in 0..Len(ks)] == IF n = 0 THEN <<>>
                                  ELSE IF ks[n] \in S THEN left[n - 1]
                                  ELSE Append(left[n - 1], ks[n])
    IN left[Len(ks)]

(* Ollama's models are pulled by the engine, in its container.             *)
InContainer == UNION {ToSet(s.keys) : s \in {t \in ToSet(Specs) : t.how = "ollama"}}

Stored  == {k \in Keys : onDisk[k] # "absent"}
Used    == MapThenSumSet(LAMBDA k : Size[k], Stored)
Free    == Room - Used

(* estimate_quant_size_gb: 0 when it cannot tell.                          *)
Estimate(k) == Params[k] * Bpp[k]
TooLarge(k) == sizeLimit > 0 /\ Estimate(k) > sizeLimit
NoRoom(k)   == Free < Reserve + Estimate(k)

(* is_gated: a repository that cannot be asked about is not; the terms are *)
(* Hugging Face's.                                                         *)
MayBeGated(k) == "gated" \in RunnerFaults /\ ~runner.dry /\ k \notin InContainer

(* find_model_path: the pattern of a quantization that has a directory     *)
(* ends in *.gguf, and the first such file of the whole repository is      *)
(* taken.                                                                  *)
FindPath(k, disk) ==
    IF k \in InDirectory
    THEN <<Head(Without(Plan, {l \in Keys : Repo[l] # Repo[k] \/ disk[l] = "absent"}))>>
    ELSE <<k>>

ModelMarks(ks)  == {"model"} \X ks
EngineMarks(ks) == {"engine"} \X ks

(* save: the state as it is in memory replaces the file in one step.       *)
SaveOf(mem) == stateFile' = [stateFile EXCEPT ![runner.id] = mem]

Marked(k, s) == [runner.mem EXCEPT !.run[k] = s]

(* What an exception out of run() leaves: the process ends, the pool waits *)
(* for its thread.                                                         *)
Abort ==
    /\ runner' = Off
    /\ prefetch' = NoPrefetch
    /\ onDisk' = IF prefetch.at \in {"queued", "loading"}
                    /\ Head(prefetch.todo) \notin InContainer
                 THEN [onDisk EXCEPT ![Head(prefetch.todo)] = "whole"] ELSE onDisk
    /\ excused' = excused \cup ModelMarks(Stored \cup ToSet(prefetch.todo)) \cup EngineMarks(engineOn)
    /\ UNCHANGED <<stateFile, engineOn, orphans, configured, starts, history>>

(* update_run and the step after it; a save that fails raises.             *)
Update(k, s, pc, todo, stays) ==
    \/ /\ SaveOf(Marked(k, s))
       /\ runner' = [runner EXCEPT !.mem = Marked(k, s), !.pc = pc, !.todo = todo]
       /\ excused' = excused \cup ModelMarks(stays)
       /\ UNCHANGED <<prefetch, onDisk, engineOn, orphans, configured, starts, history>>
    \/ "saveFails" \in RunnerFaults /\ Abort

(* kitt campaign run, with or without --resume, --campaign-id, --dry-run.  *)
(* Without an id a new one is generated; without --resume, or when there   *)
(* is no file, create() writes a new state.                                *)
StartRunner ==
    /\ runner.pc = "off" /\ starts < MaxStarts
    /\ starts' = starts + 1
    /\ \E i \in Ids, resume \in BOOLEAN, dry \in BOOLEAN :
          LET known == resume /\ stateFile[i] # NoState
              mem == IF known THEN stateFile[i] ELSE [NoState EXCEPT !.status = "running"]
          IN /\ runner' = [Off EXCEPT !.pc = "plan", !.id = i, !.dry = dry, !.mem = mem]
             /\ stateFile' = [stateFile EXCEPT ![i] = mem]
             /\ earned' = IF known THEN earned ELSE [earned EXCEPT ![i] = {}]
             /\ previewed' = IF dry THEN previewed \cup {i}
                             ELSE IF known THEN previewed ELSE previewed \ {i}
    /\ UNCHANGED <<prefetch, onDisk, engineOn, orphans, configured, excused>>

FilterQuants(ks) == Without(ks, Unwanted)

(* A repository that cannot be listed has no quantizations.                *)
DiscoverGguf(s) == IF s.how = "gguf" THEN {FilterQuants(s.keys), <<>>} ELSE {}

(* When the library's page cannot be read, the tag of the configuration.   *)
DiscoverOllama(s) == IF s.how = "ollama" THEN {s.keys, <<Head(s.keys)>>} ELSE {}

ExpandRuns ==
    LET Found(s) == DiscoverGguf(s) \cup DiscoverOllama(s)
                    \cup (IF s.how = "plain" THEN {s.keys} ELSE {})
    IN {FlattenSeq(f) : f \in {g \in [1..Len(Specs) -> UNION {Found(s) : s \in ToSet(Specs)}] :
                                 \A i \in 1..Len(Specs) : g[i] \in Found(Specs[i])}}

(* plan_runs, _expand_runs, _register_runs and the first save; what is     *)
(* done is left out.                                                       *)
PlanRuns ==
    /\ runner.pc = "plan"
    /\ \E plan \in ExpandRuns :
          LET mem == [runner.mem EXCEPT !.run =
                         [k \in Keys |-> IF @[k] = "none" /\ k \in ToSet(plan)
                                         THEN "pending" ELSE @[k]]]
              todo == Without(plan, {k \in Keys : mem.run[k] \in DoneStatus})
          IN \/ /\ SaveOf(mem)
                /\ runner' = [runner EXCEPT !.pc = "await", !.mem = mem, !.todo = todo,
                                            !.all = ToSet(plan)]
                /\ prefetch' = IF mode = "parallel" /\ todo # <<>>
                               THEN [todo |-> <<Head(todo)>>, at |-> "queued"]
                               ELSE NoPrefetch
                /\ UNCHANGED <<onDisk, engineOn, orphans, configured, starts, history, excused>>
             \/ "saveFails" \in RunnerFaults /\ Abort

(* The head of the loop; the parallel runner waits for the download of     *)
(* this run, whatever came of it, and submits the next one.                *)
NextRun ==
    /\ runner.pc = "await"
    /\ prefetch.at \in {"none", "done"}
    /\ runner' = [runner EXCEPT !.pc = IF runner.todo = <<>> THEN "finish" ELSE "check"]
    /\ prefetch' = IF mode = "parallel" /\ Len(runner.todo) > 1
                   THEN [todo |-> <<runner.todo[2]>>, at |-> "queued"]
                   ELSE NoPrefetch
    /\ UNCHANGED <<stateFile, onDisk, engineOn, orphans, configured, starts, history, excused>>

(* _safe_download in the thread.                                           *)
Prefetch ==
    /\ prefetch.at \in {"queued", "loading"}
    /\ LET k == Head(prefetch.todo)
       IN IF k \in InContainer
          THEN prefetch' = [prefetch EXCEPT !.at = "done"] /\ UNCHANGED onDisk
          ELSE IF prefetch.at = "queued"
          THEN /\ onDisk' = [onDisk EXCEPT ![k] = IF @ = "whole" THEN @ ELSE "partial"]
               /\ prefetch' = [prefetch EXCEPT !.at = "loading"]
          ELSE /\ \/ onDisk' = [onDisk EXCEPT ![k] = "whole"]
                  \/ onDisk[k] = "absent" /\ UNCHANGED onDisk   \* removed on the way
                  \/ "downloadFails" \in RunnerFaults /\ UNCHANGED onDisk
               /\ prefetch' = [prefetch EXCEPT !.at = "done"]
    /\ UNCHANGED <<stateFile, runner, engineOn, orphans, configured, starts, history, excused>>

(* should_skip_for_size, check_disk_space and the check for a gated model, *)
(* each of which skips the run; then the run is marked running.  A model   *)
(* that was fetched for a run now skipped stays.                           *)
CheckRun ==
    /\ runner.pc = "check"
    /\ LET k == Current
           skip == Update(k, "skipped", "await", Tail(runner.todo),
                          IF mode = "parallel" THEN {k} ELSE {})
       IN \/ TooLarge(k) /\ skip
          \/ /\ ~TooLarge(k)
             /\ \/ NoRoom(k) /\ skip
                \/ /\ ~NoRoom(k)
                   /\ \/ MayBeGated(k) /\ skip
                      \/ Update(k, "running", IF runner.dry THEN "success" ELSE "download",
                                runner.todo, {})

(* Mutant: a model that is on the disk already is not downloaded again.    *)
DownloadUnlessThere ==
    /\ runner.pc \in {"download", "loading"}
    /\ \/ /\ onDisk[Current] # "absent" \/ runner.pc = "loading"
          /\ runner' = [runner EXCEPT !.pc = "bench", !.path = <<Current>>]
          /\ onDisk' = IF runner.pc = "loading" THEN [onDisk EXCEPT ![Current] = "whole"]
                       ELSE onDisk
       \/ /\ onDisk[Current] = "absent" /\ runner.pc = "download"
          /\ runner' = [runner EXCEPT !.pc = "loading"]
          /\ onDisk' = [onDisk EXCEPT ![Current] = "partial"]
    /\ UNCHANGED <<stateFile, prefetch, engineOn, orphans, configured, starts, history, excused>>

(* _download_model: through Devon, its bridge or its command line, always  *)
(* anew, whatever the thread has fetched.                                  *)
Download ==
    /\ runner.pc \in {"download", "loading"}
    /\ LET k == Current
       IN IF k \in InContainer
          THEN /\ runner' = [runner EXCEPT !.pc = "bench", !.path = <<k>>]
               /\ UNCHANGED onDisk
          ELSE IF runner.pc = "download"
          THEN /\ onDisk' = [onDisk EXCEPT ![k] = IF @ = "whole" THEN @ ELSE "partial"]
               /\ runner' = [runner EXCEPT !.pc = "loading"]
          ELSE \/ /\ onDisk' = [onDisk EXCEPT ![k] = "whole"]
                  /\ runner' = [runner EXCEPT !.pc = "bench", !.path = FindPath(k, onDisk')]
               \/ /\ "downloadFails" \in RunnerFaults
                  /\ runner' = [runner EXCEPT !.pc = "failure"]
                  /\ UNCHANGED onDisk
    /\ UNCHANGED <<stateFile, prefetch, engineOn, orphans, configured, starts, history, excused>>

(* _run_benchmark: kitt run as a child, its container up meanwhile.        *)
StartBench ==
    /\ runner.pc = "bench"
    /\ engineOn' = engineOn \cup {Current}
    /\ runner' = [runner EXCEPT !.pc = "measuring"]
    /\ UNCHANGED <<stateFile, prefetch, onDisk, orphans, configured, starts, history,
                   excused>>

(* Mutant: the child's exit status is not looked at.                       *)
EndBenchUnread ==
    /\ runner.pc = "measuring"
    /\ engineOn' = engineOn \ {Current}
    /\ runner' = [runner EXCEPT !.pc = IF cleanup THEN "clean" ELSE "success", !.path = <<>>]
    /\ \/ earned' = [earned EXCEPT ![runner.id] = @ \cup {Current}]
       \/ "benchFails" \in RunnerFaults /\ UNCHANGED earned
    /\ UNCHANGED <<stateFile, prefetch, onDisk, orphans, configured, starts, previewed, excused>>

(* The child removes its container before it exits with 0, unless docker   *)
(* fails, whose status it does not look at; a child that failed or timed   *)
(* out may leave it.                                                       *)
EndBench ==
    /\ runner.pc = "measuring"
    /\ LET k == Current
       IN \/ /\ \/ engineOn' = engineOn \ {k} /\ UNCHANGED excused
                \/ /\ "stopFails" \in RunnerFaults
                   /\ UNCHANGED engineOn
                   /\ excused' = excused \cup EngineMarks({k})
             /\ earned' = [earned EXCEPT ![runner.id] = @ \cup {k}]
             /\ runner' = [runner EXCEPT !.pc = IF cleanup THEN "clean" ELSE "success",
                                         !.path = <<>>]
          \/ /\ "benchFails" \in RunnerFaults
             /\ engineOn' \in {engineOn, engineOn \ {k}}
             /\ runner' = [runner EXCEPT !.pc = "failure", !.path = <<>>]
             /\ UNCHANGED <<earned, excused>>
    /\ UNCHANGED <<stateFile, prefetch, onDisk, orphans, configured, starts, previewed>>

(* _cleanup_model removes the repository, with the files of every run that *)
(* has its model there; each way of doing it may fail, with a warning.     *)
RemoveRepo(k) ==
    \/ /\ onDisk' = [l \in Keys |-> IF Repo[l] = Repo[k] THEN "absent" ELSE onDisk[l]]
       /\ UNCHANGED excused
    \/ /\ "removeFails" \in RunnerFaults
       /\ excused' = excused \cup ModelMarks({l \in Keys : Repo[l] = Repo[k]})
       /\ UNCHANGED onDisk

RemoveModel ==
    /\ runner.pc = "clean"
    /\ RemoveRepo(Current)
    /\ runner' = [runner EXCEPT !.pc = "success"]
    /\ UNCHANGED <<stateFile, prefetch, engineOn, orphans, configured, starts, history>>

(* A success that cannot be saved is an exception like any other of a run. *)
RecordSuccess ==
    /\ runner.pc = "success"
    /\ \/ /\ SaveOf(Marked(Current, "success"))
          /\ runner' = [runner EXCEPT !.mem = Marked(Current, "success"), !.pc = "await",
                                      !.todo = Tail(@)]
          /\ excused' = IF cleanup /\ ~runner.dry THEN excused ELSE excused \cup ModelMarks({Current})
       \/ /\ "saveFails" \in RunnerFaults
          /\ runner' = [runner EXCEPT !.mem = Marked(Current, "success"), !.pc = "failure"]
          /\ UNCHANGED <<stateFile, excused>>
    /\ UNCHANGED <<prefetch, onDisk, engineOn, orphans, configured, starts, history>>

RecordFailure ==
    /\ runner.pc = "failure"
    /\ Update(Current, "failed", "docker", runner.todo, {})

(* _cleanup_docker: every container whose name has kitt- in it, and as far *)
(* as docker gets.  A kitt run whose container is taken from it goes on.   *)
CleanupDocker ==
    /\ runner.pc = "docker"
    /\ \/ engineOn' = {}
       \/ "dockerFails" \in RunnerFaults /\ engineOn' \in SUBSET engineOn
    /\ excused' = excused \cup EngineMarks(engineOn')
    /\ runner' = [runner EXCEPT !.pc = "remove"]
    /\ UNCHANGED <<stateFile, prefetch, onDisk, orphans, configured, starts, history>>

(* Mutant: the model of a failed run is left.                              *)
KeepFailed ==
    /\ runner.pc = "remove"
    /\ runner' = [runner EXCEPT !.pc = "await", !.todo = Tail(@)]
    /\ UNCHANGED <<stateFile, prefetch, onDisk, engineOn, orphans, configured, starts, history,
                   excused>>

RemoveFailed ==
    /\ runner.pc = "remove"
    /\ RemoveRepo(Current)
    /\ runner' = [runner EXCEPT !.pc = "await", !.todo = Tail(@)]
    /\ UNCHANGED <<stateFile, prefetch, engineOn, orphans, configured, starts, history>>

Finish ==
    /\ runner.pc = "finish"
    /\ \/ /\ SaveOf([runner.mem EXCEPT !.status = "completed"])
          /\ runner' = Off
          /\ UNCHANGED <<prefetch, onDisk, engineOn, orphans, configured, starts, history,
                         excused>>
       \/ "saveFails" \in RunnerFaults /\ Abort

(* The process is killed; its child is killed with it, and leaves what it  *)
(* has started, or goes on.                                                *)
RunnerDies ==
    /\ "dies" \in RunnerFaults
    /\ runner.pc # "off"
    /\ runner' = Off
    /\ prefetch' = NoPrefetch
    /\ IF runner.pc = "measuring"
       THEN /\ \/ UNCHANGED orphans
               \/ "orphan" \in RunnerFaults /\ orphans' = orphans \cup {Current}
            /\ engineOn' \in {engineOn, engineOn \ {Current}}
       ELSE UNCHANGED <<orphans, engineOn>>
    /\ excused' = excused \cup ModelMarks(Stored) \cup EngineMarks(engineOn)
    /\ UNCHANGED <<stateFile, onDisk, configured, starts, history>>

(* Another child for the same run may still go on; one that fails leaves   *)
(* its container.                                                          *)
OrphanEnds ==
    \E k \in orphans :
        /\ orphans' \in {orphans, orphans \ {k}}
        /\ engineOn' \in {engineOn, engineOn \cup {k}}
        /\ UNCHANGED <<stateFile, runner, prefetch, onDisk, configured, starts, history, excused>>

RunnerNext ==
    \/ StartRunner \/ PlanRuns \/ NextRun \/ Prefetch \/ CheckRun \/ Download
    \/ StartBench \/ EndBench \/ RemoveModel \/ RecordSuccess \/ RecordFailure
    \/ CleanupDocker \/ RemoveFailed \/ Finish \/ RunnerDies \/ OrphanEnds

RunnerSpec == RunnerInit /\ [][RunnerNext]_runnerVars

-----------------------------------------------------------------------------

(* A benchmark that has the right model never runs on one that is          *)
(* incomplete or removed under it, though a run's end removes the whole    *)
(* repository while the thread downloads into it: each run downloads again *)
(* before it measures.                                                     *)
MeasuresWholeModel ==
    runner.pc = "measuring" /\ runner.path = <<Current>> /\ Current \notin InContainer
        => onDisk[Current] = "whole"

(* "For GGUF files, find the specific file": what is measured is the       *)
(* quantization that the run names, whatever else the repository has.      *)
MeasuresItsQuantization ==
    runner.pc = "measuring" => runner.path = <<Current>>

(* The file of a campaign says that a run succeeded only if its benchmark  *)
(* did, in whatever process and however often that one died or failed to   *)
(* save, but for a campaign that was previewed under the same id.          *)
RecordedIsEarned ==
    \A i \in Ids \ previewed, k \in Keys :
        stateFile[i].run[k] = "success" => k \in earned[i]

(* A model on the disk or a container that is left when the runner is gone *)
(* was meant to stay, or could not be removed, or a process ended in the   *)
(* middle, or the model was fetched ahead for a run that was skipped, or   *)
(* by a dry run: the parallel runner fetches in a dry run too.             *)
LeftoverIsExplained ==
    runner.pc = "off" => ModelMarks(Stored) \cup EngineMarks(engineOn) \subseteq excused

=============================================================================
