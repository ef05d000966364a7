--------------------------- MODULE ItemCheckpoint ---------------------------
(***************************************************************************)
(* The checkpoint of a YAML benchmark: a file in ~/.kitt/checkpoints that  *)
(* the runs of the benchmark save their outputs in, read when they start   *)
(* and remove when they end without an error.  The file's name has the     *)
(* benchmark and a hash of its configuration, and nothing of the model or  *)
(* the engine.                                                             *)
(***************************************************************************)
EXTENDS Naturals, Sequences, FiniteSets, SequencesExt

CONSTANTS
    Attempts,         \* runs of one YAML benchmark, with one configuration
    ItemCount,        \* number of prompts
    Every,            \* items between two checkpoints (100 in the code)
    CheckpointFaults  \* subset of {"fails", "killed", "tornRead", "unsaved"}

ASSUME CheckpointAssumption == {ItemCount, Every} \subseteq Nat \ {0}

VARIABLES
    attempt,    \* the runs
    saved,      \* the file: index of the last item, and the outputs
    together,   \* runs that were in progress with another one  (properties only)
    given       \* items that a checkpoint passes over unanswered (properties only)

checkpointVars == <<attempt, saved, together, given>>

NoCheckpoint == [last |-> 0, out |-> <<>>, there |-> FALSE]

(* A save that is cut after open has emptied the file leaves a torn one:   *)
(* both reads take it for none, a save writes over it and a clear removes  *)
(* it, so that it is no more than no checkpoint.                           *)
TornCheckpoint == NoCheckpoint

Output == 0..(ItemCount - 1)    \* each is known by its prompt

CheckpointTypeOK ==
    /\ \A a \in Attempts :
          /\ attempt[a].pc \in {"off", "index", "outputs", "items", "passed", "failed", "dead"}
          /\ attempt[a].item \in 0..ItemCount /\ attempt[a].errors \in 0..ItemCount
          /\ attempt[a].out \in Seq(Output) /\ attempt[a].resumed \in BOOLEAN
    /\ saved.last \in 0..(ItemCount - 1) /\ saved.out \in Seq(Output) /\ saved.there \in BOOLEAN
    /\ together \subseteq Attempts
    /\ given \subseteq 0..(ItemCount - 1)

CheckpointInit ==
    /\ attempt = [a \in Attempts |-> [pc |-> "off", item |-> 0, errors |-> 0, out |-> <<>>,
                                      resumed |-> FALSE]]
    /\ saved = NoCheckpoint
    /\ together = {} /\ given = {}

-----------------------------------------------------------------------------

Busy(a) == attempt[a].pc \in {"index", "outputs", "items"}

StartAttempt(a) ==
    /\ attempt[a].pc = "off"
    /\ attempt' = [attempt EXCEPT ![a].pc = "index"]
    /\ together' = IF \E b \in Attempts : Busy(b)
                   THEN together \cup {a} \cup {b \in Attempts : Busy(b)} ELSE together
    /\ UNCHANGED <<saved, given>>

(* A file that is being written is half there: json.load raises, and the   *)
(* reader takes it for none.                                               *)
Torn(a) == "tornRead" \in CheckpointFaults /\ a \in together

(* Mutant: the item the checkpoint names is done again.                    *)
ReadIndexAgain(a) ==
    /\ attempt[a].pc = "index"
    /\ attempt' = [attempt EXCEPT ![a].pc = IF saved.there THEN "outputs" ELSE "items",
                                  ![a].item = IF saved.there THEN saved.last ELSE 0]
    /\ UNCHANGED <<saved, together, given>>

(* get_last_completed_index, the first of two reads of the file.           *)
ReadIndex(a) ==
    /\ attempt[a].pc = "index"
    /\ \/ attempt' = [attempt EXCEPT ![a].pc = IF saved.there THEN "outputs" ELSE "items",
                                     ![a].item = IF saved.there THEN saved.last + 1 ELSE 0]
       \/ Torn(a) /\ attempt' = [attempt EXCEPT ![a].pc = "items"]
    /\ UNCHANGED <<saved, together, given>>

(* load_partial_outputs, the second one.                                   *)
ReadOutputs(a) ==
    /\ attempt[a].pc = "outputs"
    /\ \E out \in {IF saved.there THEN saved.out ELSE <<>>} \cup (IF Torn(a) THEN {<<>>} ELSE {}) :
          attempt' = [attempt EXCEPT ![a].pc = "items", ![a].resumed = TRUE, ![a].out = out]
    /\ UNCHANGED <<saved, together, given>>

(* Mutant: the checkpoint names the next item.                             *)
SaveCheckpointNext(i, out) == saved' = [last |-> i + 1, out |-> out, there |-> TRUE]

(* save_checkpoint: an error of the file system is logged, no more.  When  *)
(* open raises the last checkpoint stays; later it is gone, as open has    *)
(* emptied the file before json.dump fills it.                             *)
SaveCheckpoint(i, out) ==
    \/ saved' = [last |-> i, out |-> out, there |-> TRUE]
    \/ "unsaved" \in CheckpointFaults /\ (UNCHANGED saved \/ saved' = TornCheckpoint)

(* One prompt: an error saves a checkpoint, too, which names the item that *)
(* failed as the last one.                                                 *)
NextItem(a) ==
    LET i == attempt[a].item
        out == Append(attempt[a].out, i)
    IN /\ attempt[a].pc = "items" /\ i < ItemCount
       /\ \/ /\ attempt' = [attempt EXCEPT ![a].item = i + 1, ![a].out = out]
             /\ IF (i + 1) % Every = 0 THEN SaveCheckpoint(i, out) ELSE UNCHANGED saved
             /\ UNCHANGED given
          \/ /\ "fails" \in CheckpointFaults
             /\ attempt' = [attempt EXCEPT ![a].item = i + 1, ![a].errors = @ + 1]
             /\ SaveCheckpoint(i, attempt[a].out)
             /\ given' = given \cup {i}
       /\ UNCHANGED together

(* The loop is over: without errors of its own the run has passed and the  *)
(* checkpoint goes (clear_checkpoint).                                     *)
EndAttempt(a) ==
    /\ attempt[a].pc = "items" /\ attempt[a].item = ItemCount
    /\ attempt' = [attempt EXCEPT ![a].pc = IF attempt[a].errors = 0 THEN "passed" ELSE "failed"]
    /\ IF attempt[a].errors = 0
       THEN saved' = NoCheckpoint \/ ("unsaved" \in CheckpointFaults /\ UNCHANGED saved)
       ELSE UNCHANGED saved
    /\ UNCHANGED <<together, given>>

(* The item it is at may be one whose checkpoint is being written.         *)
Saving(a) ==
    /\ attempt[a].pc = "items" /\ attempt[a].item < ItemCount
    /\ (attempt[a].item + 1) % Every = 0 \/ "fails" \in CheckpointFaults

(* A kill loses what was done since the last checkpoint, and that one, too, *)
(* when it comes while the next is written.                                *)
KillAttempt(a) ==
    /\ "killed" \in CheckpointFaults
    /\ Busy(a)
    /\ attempt' = [attempt EXCEPT ![a].pc = "dead"]
    /\ UNCHANGED saved \/ (Saving(a) /\ saved' = TornCheckpoint)
    /\ UNCHANGED <<together, given>>

CheckpointNext ==
    \E a \in Attempts :
        \/ StartAttempt(a) \/ ReadIndex(a) \/ ReadOutputs(a) \/ NextItem(a) \/ EndAttempt(a)
        \/ KillAttempt(a)

CheckpointSpec == CheckpointInit /\ [][CheckpointNext]_checkpointVars

-----------------------------------------------------------------------------

(* A run that passed has one output for each prompt, in order, whatever    *)
(* was killed or failed before it; one that resumed lacks only prompts     *)
(* that an earlier run failed on and its checkpoint passes over.  (As long *)
(* as no two runs share the file at one time.)                             *)
PassedIsWhole ==
    together = {} => \A a \in Attempts :
        LET items == attempt[a].out
        IN attempt[a].pc = "passed" =>
              /\ \A n \in 1..(Len(items) - 1) : items[n] < items[n + 1]
              /\ (0..(ItemCount - 1)) \ ToSet(items) \subseteq
                    IF attempt[a].resumed THEN given ELSE {}

=============================================================================
