--------------------------- MODULE CampaignScript ---------------------------
(***************************************************************************)
(* scripts/benchmark_campaign.py: for each model, vLLM, then every GGUF    *)
(* quantization on llama.cpp, then every tag of Ollama: download, kitt     *)
(* run, remove.  A state file has the outcomes; the outcomes of a batch    *)
(* (the quantizations or the tags of one model) are added and saved when   *)
(* the whole batch is over.                                                *)
(***************************************************************************)
EXTENDS Naturals, Sequences, FiniteSets, SequencesExt

CONSTANTS
    Cells,         \* model, engine and quantization
    Stages,        \* the models' engines in order: [engine, cells] records; the first
                   \* cell of an Ollama stage is the tag that MODELS names
    MaxScripts,    \* bound: processes started
    ScriptFaults   \* subset of {"killed", "lowDisk", "downloadFails", "noPath",
                   \* "runFails", "removeFails", "listFails", "dockerFails"}

ASSUME StagesAssumption ==
    /\ Stages \in Seq([engine : {"vllm", "llama_cpp", "ollama"}, cells : Seq(Cells)])
    /\ \A i \in 1..Len(Stages) : IsInjective(Stages[i].cells)
    /\ MaxScripts \in Nat

VARIABLES
    campaignState, \* campaign_state.json: absent, torn, or the outcomes
    script,        \* the process
    devonHas,      \* models under DEVON_STORAGE, whole or in part, by cell
    kittContainers,\* containers named kitt-, by cell
    scriptsRun,
    measured,      \* cells whose kitt run has returned                  (property only)
    dropped        \* of those, the ones a killed process had not saved  (property only)

scriptVars == <<campaignState, script, devonHas, kittContainers, scriptsRun, measured, dropped>>

Outcome == {"none", "success", "failed", "skipped"}
ScriptPcs == {"off", "stage", "cell", "download", "path", "run", "running", "remove", "record",
              "saving"}
NoOutcomes == [c \in Cells |-> "none"]
Absent == [there |-> FALSE, torn |-> FALSE, outcome |-> NoOutcomes]
FileOf(outcome) == [there |-> TRUE, torn |-> FALSE, outcome |-> outcome]
TornFile == [there |-> TRUE, torn |-> TRUE, outcome |-> NoOutcomes]

(* results and completed_keys are in outcome; batch has what the functions *)
(* of the engines have yet to return, from is the stage of --resume-from.  *)
Idle == [pc |-> "off", stage |-> 0, todo |-> <<>>, batch |-> <<>>, dry |-> FALSE, from |-> 0,
         outcome |-> NoOutcomes]

ScriptTypeOK ==
    /\ campaignState \in [there : BOOLEAN, torn : BOOLEAN, outcome : [Cells -> Outcome]]
    /\ script.pc \in ScriptPcs /\ script.stage \in 0..(Len(Stages) + 1)
    /\ script.outcome \in [Cells -> Outcome]
    /\ script.todo \in Seq(Cells)
    /\ script.batch \in Seq([cell : Cells, status : Outcome \ {"none"}])
    /\ script.dry \in BOOLEAN /\ script.from \in 0..(Len(Stages) + 1)
    /\ devonHas \in [Cells -> {"absent", "partial", "whole"}]
    /\ {kittContainers, measured, dropped} \subseteq SUBSET Cells
    /\ scriptsRun \in 0..MaxScripts

ScriptInit ==
    /\ campaignState = Absent
    /\ script = Idle
    /\ devonHas = [c \in Cells |-> "absent"]
    /\ kittContainers = {} /\ measured = {} /\ dropped = {}
    /\ scriptsRun = 0

-----------------------------------------------------------------------------

Stage == Stages[script.stage]
Cell  == Head(script.todo)
Engine == Stage.engine
Go(pc) == script' = [script EXCEPT !.pc = pc]

(* Mutant: a quantization of a batch is not looked up.                     *)
IsDoneOfVllm(c) == Engine = "vllm" /\ script.outcome[c] # "none"

(* is_done: a failed or a skipped cell is done too.                        *)
IsDone(c) == script.outcome[c] # "none"

(* The function of the engine goes on to the next cell, with an outcome.   *)
Appended(c, s) == [script EXCEPT !.pc = "cell", !.todo = Tail(@),
                                 !.batch = Append(@, [cell |-> c, status |-> s])]

(* main and CampaignState.load: a file that does not parse ends the        *)
(* process.  --resume-from names a model and an engine, or something that  *)
(* is not in MODELS; its quantization is not used.                         *)
StartScript ==
    /\ script.pc = "off" /\ scriptsRun < MaxScripts
    /\ scriptsRun' = scriptsRun + 1
    /\ IF campaignState.torn THEN UNCHANGED script
       ELSE \E dry \in BOOLEAN, from \in 0..(Len(Stages) + 1) :
               script' = [Idle EXCEPT !.pc = "stage", !.stage = 1, !.dry = dry, !.from = from,
                                      !.outcome = campaignState.outcome]
    /\ UNCHANGED <<campaignState, devonHas, kittContainers, measured, dropped>>

(* list_repo_files and the grouping of shards by quantization: the cells   *)
(* of a repository, none when it cannot be listed.                         *)
DiscoverQuants ==
    /\ Engine = "llama_cpp"
    /\ \/ script' = [script EXCEPT !.pc = "cell", !.todo = Stage.cells]
       \/ "listFails" \in ScriptFaults /\ script' = [script EXCEPT !.pc = "cell", !.todo = <<>>]

(* The tags of the library's page that fit the size, or the base tag.      *)
DiscoverTags ==
    /\ Engine = "ollama"
    /\ \/ script' = [script EXCEPT !.pc = "cell", !.todo = Stage.cells]
       \/ /\ "listFails" \in ScriptFaults /\ Stage.cells # <<>>
          /\ script' = [script EXCEPT !.pc = "cell", !.todo = <<Head(Stage.cells)>>]

(* bf16 from the safetensors repository, when the model has one.           *)
DiscoverVllm ==
    /\ Engine = "vllm"
    /\ script' = [script EXCEPT !.pc = "cell", !.todo = Stage.cells]

(* The loop of run_campaign; stages before the resume point are passed.    *)
NextStage ==
    /\ script.pc = "stage"
    /\ \/ /\ script.stage <= Len(Stages) /\ script.stage < script.from
          /\ script' = [script EXCEPT !.stage = @ + 1]
          /\ UNCHANGED campaignState
       \/ /\ script.stage <= Len(Stages) /\ script.stage >= script.from
          /\ DiscoverVllm \/ DiscoverQuants \/ DiscoverTags
          /\ UNCHANGED campaignState
       \/ /\ script.stage > Len(Stages)
          /\ Go("saving")
          /\ campaignState' = TornFile
    /\ UNCHANGED <<devonHas, kittContainers, scriptsRun, measured, dropped>>

(* cleanup_docker, before each cell: docker rm -f, its failure unseen.     *)
CleanupKittContainers ==
    \/ kittContainers' = IF script.dry THEN kittContainers ELSE {}
    \/ "dockerFails" \in ScriptFaults /\ UNCHANGED kittContainers

(* check_disk_space: RESERVE_GB are free, which the pull into an Ollama    *)
(* container does not ask.                                                 *)
LowDisk == "lowDisk" \in ScriptFaults /\ Engine # "ollama"

(* The head of each engine's function: done cells are passed over, the     *)
(* disk is checked before a download, Ollama downloads in its container.   *)
NextCell ==
    /\ script.pc = "cell"
    /\ \/ script.todo = <<>> /\ Go("record") /\ UNCHANGED kittContainers
       \/ /\ script.todo # <<>> /\ IsDone(Cell)
          /\ script' = [script EXCEPT !.todo = Tail(@)]
          /\ UNCHANGED kittContainers
       \/ /\ script.todo # <<>> /\ ~IsDone(Cell)
          /\ CleanupKittContainers
          /\ \/ Go(IF Engine = "ollama" THEN "run" ELSE "download")
             \/ LowDisk /\ script' = Appended(Cell, "skipped")
    /\ UNCHANGED <<campaignState, devonHas, scriptsRun, measured, dropped>>

(* devon download, within its two hours.  What a failed one has fetched    *)
(* stays.                                                                  *)
DevonDownload ==
    /\ script.pc = "download"
    /\ \/ /\ devonHas' = IF script.dry THEN devonHas ELSE [devonHas EXCEPT ![Cell] = "whole"]
          /\ Go("path")
       \/ /\ "downloadFails" \in ScriptFaults /\ ~script.dry
          /\ \E d \in {devonHas[Cell], "partial"} : devonHas' = [devonHas EXCEPT ![Cell] = d]
          /\ script' = Appended(Cell, "failed")
    /\ UNCHANGED <<campaignState, kittContainers, scriptsRun, measured, dropped>>

Repository == ToSet(Stage.cells)

(* devon remove takes the whole repository; a failure is logged.           *)
DevonRemove ==
    \/ devonHas' = IF script.dry THEN devonHas
                   ELSE [c \in Cells |-> IF c \in Repository THEN "absent" ELSE devonHas[c]]
    \/ "removeFails" \in ScriptFaults /\ UNCHANGED devonHas

(* find_model_path: the directory, or the first of the shards.             *)
FindModelPath ==
    /\ script.pc = "path"
    /\ \/ Go("run") /\ UNCHANGED devonHas
       \/ /\ "noPath" \in ScriptFaults /\ ~script.dry
          /\ DevonRemove
          /\ script' = Appended(Cell, "failed")
    /\ UNCHANGED <<campaignState, kittContainers, scriptsRun, measured, dropped>>

StartKitt ==
    /\ script.pc = "run"
    /\ Go("running")
    /\ kittContainers' = IF script.dry THEN kittContainers ELSE kittContainers \cup {Cell}
    /\ UNCHANGED <<campaignState, devonHas, scriptsRun, measured, dropped>>

(* run_cmd: an exit status, a timeout or an exception is a failure; a dry  *)
(* run is a success.                                                       *)
KittOutcomes == {"success"} \cup (IF "runFails" \in ScriptFaults /\ ~script.dry
                                  THEN {"failed"} ELSE {})

(* kitt run; one that fails may leave its container.                       *)
EndKitt ==
    /\ script.pc = "running"
    /\ measured' = IF script.dry THEN measured ELSE measured \cup {Cell}
    /\ \E s \in KittOutcomes :
          /\ script' = IF Engine = "ollama" THEN Appended(Cell, s)
                       ELSE [script EXCEPT !.pc = "remove",
                                           !.batch = Append(@, [cell |-> Cell, status |-> s])]
          /\ \/ kittContainers' = IF script.dry THEN kittContainers ELSE kittContainers \ {Cell}
             \/ s = "failed" /\ UNCHANGED kittContainers
    /\ UNCHANGED <<campaignState, devonHas, scriptsRun, dropped>>

RemoveCell ==
    /\ script.pc = "remove"
    /\ DevonRemove
    /\ script' = [script EXCEPT !.pc = "cell", !.todo = Tail(@)]
    /\ UNCHANGED <<campaignState, kittContainers, scriptsRun, measured, dropped>>

(* state.add and state.save, for one result after another; write_text      *)
(* truncates the file before it writes.                                    *)
RecordOutcome ==
    /\ script.pc = "record"
    /\ IF script.batch = <<>>
       THEN /\ script' = [script EXCEPT !.pc = "stage", !.stage = @ + 1]
            /\ UNCHANGED campaignState
       ELSE /\ script' = [script EXCEPT !.pc = "saving", !.batch = Tail(@),
                                        !.outcome[Head(script.batch).cell] =
                                            Head(script.batch).status]
            /\ campaignState' = TornFile
    /\ UNCHANGED <<devonHas, kittContainers, scriptsRun, measured, dropped>>

(* The file is written; after the last stage this is the last save.        *)
SaveOutcomes ==
    /\ script.pc = "saving"
    /\ campaignState' = FileOf(script.outcome)
    /\ script' = IF script.stage > Len(Stages) THEN Idle ELSE [script EXCEPT !.pc = "record"]
    /\ UNCHANGED <<devonHas, kittContainers, scriptsRun, measured, dropped>>

(* Killed, or Ctrl-C, which says that the state is saved.                  *)
KillScript ==
    /\ "killed" \in ScriptFaults
    /\ script.pc # "off"
    /\ script' = Idle
    /\ dropped' = dropped \cup {c \in measured : campaignState.outcome[c] = "none"}
    /\ UNCHANGED <<campaignState, devonHas, kittContainers, scriptsRun, measured>>

ScriptNext ==
    \/ StartScript \/ NextStage \/ NextCell \/ DevonDownload \/ FindModelPath \/ StartKitt
    \/ EndKitt \/ RemoveCell \/ RecordOutcome \/ SaveOutcomes \/ KillScript

ScriptSpec == ScriptInit /\ [][ScriptNext]_scriptVars

-----------------------------------------------------------------------------

(* A cell is measured for hours at most once, over all the processes of a  *)
(* campaign, unless a process was ended after it was measured and before   *)
(* its batch was saved.  A file torn by a killed save ends every later     *)
(* process, so nothing is measured again on its account.                   *)
MeasuredOnce ==
    script.pc = "running" /\ ~script.dry => Cell \notin measured \ dropped

=============================================================================
