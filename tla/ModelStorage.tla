----------------------------- MODULE ModelStorage -----------------------------
(***************************************************************************)
(* The model storage of an agent and the threads that use it: a benchmark  *)
(* thread resolves its model (copying it from the share when the storage   *)
(* directory has no entry of that name), runs, and removes the copy again; *)
(* cleanup commands remove entries; settings arrive with heartbeats and    *)
(* may change the storage directory while threads run.                     *)
(*                                                                         *)
(* A path is a place and a model: an entry of a storage directory, or      *)
(* somewhere else.  An entry is absent, partial (some file of it missing   *)
(* or truncated) or whole.                                                 *)
(***************************************************************************)
EXTENDS Naturals, FiniteSets

CONSTANTS
    Models,    \* model names (the last component of a model path)
    Dirs,      \* the directories that may be the storage directory
    HomeDir,   \* the one agent.yaml names
    Threads,   \* command threads of the daemon
    OnShare,   \* the models the share has
    Faults     \* the disturbances that may happen

StorageFaults == {"mountFails", "copyFails", "removeFails", "noRunner", "newSettings",
                  "agentCrash"}

ASSUME ModelsAssumption == Models # {} /\ OnShare \subseteq Models
ASSUME FaultsAssumption == Faults \subseteq StorageFaults

(* Paths outside every storage directory, and paths inside the storage     *)
(* directory that are not the entry of the model's name.                   *)
Elsewhere == "elsewhere"
Nested    == "nested"
Places    == Dirs \cup {Elsewhere, Nested}

ASSUME DirsAssumption == HomeDir \in Dirs /\ {Elsewhere, Nested} \cap Dirs = {}

VARIABLES
    setting,  \* ModelStorageManager: storage_dir and auto_cleanup
    tree,     \* what is at each place
    job,      \* the command threads
    trouble   \* what happened to an entry, for the properties only

storageVars == <<setting, tree, job, trouble>>

Contents == {"absent", "partial", "whole"}
Troubles == {"failed", "cut", "crash", "overlap", "noRunner", "refused", "unremoved", "kept",
             "own"}

TestPcs   == {"resolve", "create", "copy", "ready", "run", "clean"}
Pcs       == {"idle", "done", "evict", "evictAll", "remove", "removing"} \cup TestPcs

(* A job: the path it was given (asked), the storage directory it read     *)
(* last (dir), the path it uses or removes (place), whether its copy was   *)
(* written to by others (torn), what iterdir has yet to yield (left).      *)
Jobs == [pc : Pcs, model : Models, asked : Places, dir : Dirs,
         place : Places, torn : BOOLEAN, left : SUBSET Models]

StorageTypeOK ==
    /\ setting \in [dir : Dirs, cleanup : BOOLEAN]
    /\ tree \in [Places -> [Models -> Contents]]
    /\ job \in [Threads -> Jobs]
    /\ trouble \in [Places -> [Models -> SUBSET Troubles]]

NoJob == [pc |-> "idle", model |-> CHOOSE m \in Models : TRUE, asked |-> Elsewhere,
          dir |-> HomeDir, place |-> Elsewhere, torn |-> FALSE, left |-> {}]

(* The storage starts empty; paths elsewhere and nested ones are the       *)
(* user's own and there.                                                   *)
StorageInit ==
    /\ setting = [dir |-> HomeDir, cleanup |-> TRUE]
    /\ tree = [p \in Places |->
                  [m \in Models |-> IF p \in Dirs THEN "absent" ELSE "whole"]]
    /\ job = [t \in Threads |-> NoJob]
    /\ trouble = [p \in Places |-> [m \in Models |-> {}]]

-----------------------------------------------------------------------------

Copying(t, p, m) ==
    /\ job[t].pc = "copy"
    /\ job[t].dir = p
    /\ job[t].model = m

Removing(t, p, m) ==
    /\ job[t].pc = "removing"
    /\ job[t].place = p
    /\ job[t].model = m

Writes(t, p, m) == Copying(t, p, m) \/ Removing(t, p, m)

(* A thread between its look at the entry and its end.                     *)
Uses(t, p, m) ==
    /\ job[t].model = m
    /\ \/ job[t].pc \in {"create", "copy"} /\ job[t].dir = p
       \/ job[t].pc \in {"ready", "run", "clean", "remove", "removing"} /\ job[t].place = p

Users(p, m) == {t \in Threads : Uses(t, p, m)}

Note(p, m, what) == trouble' = [trouble EXCEPT ![p][m] = @ \cup {what}]

NoteIf(cond, p, m, what) ==
    IF cond THEN Note(p, m, what) ELSE UNCHANGED trouble

(* The copies other threads are writing there will not be whole.           *)
TearOthers(t, p, m, j) ==
    [u \in Threads |-> IF u = t THEN j
                       ELSE IF Copying(u, p, m) THEN [job[u] EXCEPT !.torn = TRUE]
                       ELSE job[u]]

-----------------------------------------------------------------------------
(* cleanup_model.                                                          *)

(* Its look: nothing to do for a path that does not exist, and only a path *)
(* under the storage directory of now is let through; j is the job as it   *)
(* goes on when there is nothing to remove.                                *)
CleanupModel(t, p, m, j) ==
    IF tree[p][m] = "absent"
    THEN job' = [job EXCEPT ![t] = j] /\ UNCHANGED trouble
    ELSE IF p \notin {setting.dir, Nested}
    THEN job' = [job EXCEPT ![t] = j] /\ Note(p, m, "refused")
    ELSE /\ job' = [job EXCEPT ![t] = [j EXCEPT !.pc = "remove", !.model = m,
                                                !.dir = setting.dir, !.place = p]]
         /\ NoteIf(Users(p, m) \ {t} # {}, p, m, "overlap")

(* Where a thread goes on from a removal: iterdir's next entry, or the end *)
(* of the finally block or of the command.                                 *)
AfterRemoval(j) == [j EXCEPT !.pc = IF j.left = {} THEN "done" ELSE "evictAll"]

(* rmtree takes the first file, whatever the settings say by now.          *)
BeginRemoval(t) ==
    LET p == job[t].place  m == job[t].model
    IN /\ job[t].pc = "remove"
       /\ tree[p][m] # "absent"
       /\ tree' = [tree EXCEPT ![p][m] = "partial"]
       /\ job' = TearOthers(t, p, m, [job[t] EXCEPT !.pc = "removing"])
       /\ UNCHANGED <<setting, trouble>>

(* Mutant: a removal that ignores errors.                                  *)
EndRemovalIgnoringErrors(t) ==
    LET p == job[t].place  m == job[t].model
    IN /\ job[t].pc = "removing"
       /\ tree[p][m] # "absent"
       /\ \E rest \in {"absent", "partial"} : tree' = [tree EXCEPT ![p][m] = rest]
       /\ job' = TearOthers(t, p, m, AfterRemoval(job[t]))
       /\ trouble' = [trouble EXCEPT ![p][m] =
                         IF Users(p, m) \ {t} # {} THEN @ \cup {"overlap"} ELSE {}]
       /\ UNCHANGED setting

(* rmtree or unlink is through.  Beside a thread that copies it may leave  *)
(* what that thread writes; one that nobody disturbs makes the entry as    *)
(* good as new.                                                            *)
EndRemoval(t) ==
    LET p == job[t].place  m == job[t].model
    IN /\ job[t].pc = "removing"
       /\ tree[p][m] # "absent"
       /\ \E rest \in IF \E u \in Threads : Copying(u, p, m)
                      THEN {"absent", "partial"} ELSE {"absent"} :
             tree' = [tree EXCEPT ![p][m] = rest]
       /\ job' = TearOthers(t, p, m, AfterRemoval(job[t]))
       /\ trouble' = [trouble EXCEPT ![p][m] =
                         IF Users(p, m) \ {t} # {} THEN @ \cup {"overlap"} ELSE {}]
       /\ UNCHANGED setting

(* It raises, before the first file is gone or halfway: a disk error, or   *)
(* another thread that has removed the files or writes new ones.  Nobody   *)
(* catches it, and the thread ends, in the middle of iterdir too.          *)
RemovalRaises(t) ==
    LET p == job[t].place  m == job[t].model
    IN /\ job[t].pc \in {"remove", "removing"}
       /\ \/ "removeFails" \in Faults
          \/ tree[p][m] = "absent"
          \/ \E u \in Threads \ {t} : Writes(u, p, m)
       /\ job' = TearOthers(t, p, m, [job[t] EXCEPT !.pc = "done"])
       /\ NoteIf(tree[p][m] # "absent", p, m,
                 IF job[t].pc = "removing" THEN "failed" ELSE "unremoved")
       /\ UNCHANGED <<setting, tree>>

-----------------------------------------------------------------------------
(* The benchmark thread.                                                   *)

StartTest(t, m, p) ==
    /\ job[t].pc = "idle"
    /\ job' = [job EXCEPT ![t] = [NoJob EXCEPT !.pc = "resolve", !.model = m, !.asked = p]]
    /\ UNCHANGED <<setting, tree, trouble>>

(* ensure_share_mounted: already mounted, or has content, or one of the    *)
(* two mounts works.                                                       *)
MountOutcomes == IF "mountFails" \in Faults THEN BOOLEAN ELSE {TRUE}

(* _find_on_share.                                                         *)
FoundOnShare(m) == m \in OnShare

(* resolve_model up to the copy.                                           *)
Resolve(t) ==
    LET m == job[t].model
        d == setting.dir
        At(p) == [job[t] EXCEPT !.pc = "ready", !.dir = d, !.place = p]
    IN /\ job[t].pc = "resolve"
       /\ \/ /\ tree[d][m] # "absent"
             /\ job' = [job EXCEPT ![t] = At(d)]
             /\ NoteIf(Users(d, m) # {}, d, m, "overlap")
          \/ /\ tree[d][m] = "absent"
             /\ job[t].asked = Nested
             /\ job' = [job EXCEPT ![t] = At(Nested)]
             /\ UNCHANGED trouble
          \/ /\ tree[d][m] = "absent"
             /\ job[t].asked # Nested
             /\ \E mounted \in MountOutcomes :
                   IF mounted /\ FoundOnShare(m)
                   THEN /\ job' = [job EXCEPT ![t].pc = "create", ![t].dir = d]
                        /\ NoteIf(Users(d, m) # {}, d, m, "overlap")
                   ELSE /\ job' = [job EXCEPT ![t] = At(job[t].asked)]
                        /\ UNCHANGED trouble
       /\ UNCHANGED <<setting, tree>>

(* copytree creates the directory, or writes into the one that is there.   *)
CreateCopy(t) ==
    LET d == job[t].dir  m == job[t].model
    IN /\ job[t].pc = "create"
       /\ tree' = [tree EXCEPT ![d][m] = "partial"]
       /\ job' = [job EXCEPT ![t].pc = "copy"]
       /\ NoteIf(d = job[t].asked, d, m, "own")
       /\ UNCHANGED setting

(* The copy is whole unless another thread still writes or removes there,  *)
(* or did so under this one.                                               *)
EndCopy(t) ==
    LET d == job[t].dir  m == job[t].model
    IN /\ job[t].pc = "copy"
       /\ job' = [job EXCEPT ![t].pc = "ready", ![t].place = d, ![t].torn = FALSE]
       /\ tree' = [tree EXCEPT ![d][m] =
                      IF job[t].torn \/ \E u \in Threads \ {t} : Writes(u, d, m)
                      THEN @ ELSE "whole"]
       /\ UNCHANGED <<setting, trouble>>

(* An exception of the copy is logged; the files copied so far stay, and   *)
(* the test goes on with the path it was given.                            *)
CopyFails(t) ==
    LET d == job[t].dir  m == job[t].model
    IN /\ job[t].pc = "copy"
       /\ "copyFails" \in Faults \/ job[t].torn
       /\ job' = TearOthers(t, d, m, [job[t] EXCEPT !.pc = "ready", !.torn = FALSE,
                                                    !.place = job[t].asked])
       /\ NoteIf(tree[d][m] # "absent", d, m, "failed")
       /\ UNCHANGED <<setting, tree>>

(* _execute_test chooses the image or the local CLI.  With neither it      *)
(* returns before the try block whose finally removes the copy.            *)
ChooseRunner(t) ==
    /\ job[t].pc = "ready"
    /\ \/ job' = [job EXCEPT ![t].pc = "run"] /\ UNCHANGED trouble
       \/ /\ "noRunner" \in Faults
          /\ job' = [job EXCEPT ![t].pc = "done"]
          /\ Note(job[t].place, job[t].model, "noRunner")
    /\ UNCHANGED <<setting, tree>>

(* The process ends, or could not be started.                              *)
RunEnds(t) ==
    /\ job[t].pc = "run"
    /\ job' = [job EXCEPT ![t].pc = "clean"]
    /\ UNCHANGED <<setting, tree, trouble>>

(* Mutant: whether the model was copied is told by its name.               *)
AutoCleanupByName(t) ==
    /\ job[t].pc = "clean"
    /\ job' = [job EXCEPT ![t].pc = "done"]
    /\ UNCHANGED <<setting, tree, trouble>>

(* The finally block: a path that was resolved to another is a copy.       *)
AutoCleanup(t) ==
    LET p == job[t].place
        m == job[t].model
        Ended == [job[t] EXCEPT !.pc = "done"]
    IN /\ job[t].pc = "clean"
       /\ IF setting.cleanup /\ p # job[t].asked
          THEN CleanupModel(t, p, m, Ended)
          ELSE /\ NoteIf(p # job[t].asked, p, m, "kept")
               /\ job' = [job EXCEPT ![t] = Ended]
       /\ UNCHANGED <<setting, tree>>

-----------------------------------------------------------------------------
(* _execute_cleanup: one entry, or every entry iterdir lists.              *)

StartCleanup(t, m) ==
    /\ job[t].pc = "idle"
    /\ job' = [job EXCEPT ![t] = [NoJob EXCEPT !.pc = "evict", !.model = m,
                                               !.place = setting.dir]]
    /\ UNCHANGED <<setting, tree, trouble>>

Evict(t) ==
    /\ job[t].pc = "evict"
    /\ CleanupModel(t, job[t].place, job[t].model, [job[t] EXCEPT !.pc = "done"])
    /\ UNCHANGED <<setting, tree>>

StartCleanupAll(t) ==
    /\ job[t].pc = "idle"
    /\ job' = [job EXCEPT ![t] =
                  [NoJob EXCEPT !.pc = "evictAll", !.place = setting.dir,
                                !.left = {m \in Models : tree[setting.dir][m] # "absent"}]]
    /\ UNCHANGED <<setting, tree, trouble>>

EvictNext(t) ==
    /\ job[t].pc = "evictAll"
    /\ \/ \E m \in job[t].left :
             CleanupModel(t, job[t].place, m, [job[t] EXCEPT !.left = @ \ {m}])
       \/ /\ job[t].left = {}
          /\ job' = [job EXCEPT ![t].pc = "done"]
          /\ UNCHANGED trouble
    /\ UNCHANGED <<setting, tree>>

-----------------------------------------------------------------------------
(* Mutant: any directory is taken for the storage directory.               *)
UpdateSettingsUnchecked(d, c) ==
    /\ "newSettings" \in Faults
    /\ setting' = [dir |-> Elsewhere, cleanup |-> c]
    /\ UNCHANGED <<tree, job, trouble>>

(* The settings of a heartbeat response.  The server always sends a        *)
(* storage directory and auto_cleanup.                                     *)
UpdateSettings(d, c) ==
    /\ "newSettings" \in Faults
    /\ setting' = [dir |-> d, cleanup |-> c]
    /\ setting' # setting
    /\ UNCHANGED <<tree, job, trouble>>

(* The daemon stops; its threads are daemon threads.  What they wrote and  *)
(* had yet to remove stays, and the next daemon starts with the directory  *)
(* of agent.yaml.                                                          *)
StorageRestart ==
    /\ "agentCrash" \in Faults
    /\ setting' = [dir |-> HomeDir, cleanup |-> TRUE]
    /\ trouble' = [p \in Places |-> [m \in Models |->
                      trouble[p][m]
                      \cup (IF Users(p, m) # {} THEN {"crash"} ELSE {})
                      \cup (IF \E t \in Threads : Writes(t, p, m) THEN {"cut"} ELSE {})]]
    /\ job' = [t \in Threads |-> IF job[t].pc = "idle" THEN job[t]
                                 ELSE [job[t] EXCEPT !.pc = "done"]]
    /\ UNCHANGED tree

StorageThread(t) ==
    \/ Resolve(t) \/ CreateCopy(t) \/ EndCopy(t) \/ CopyFails(t)
    \/ ChooseRunner(t) \/ RunEnds(t) \/ AutoCleanup(t)
    \/ Evict(t) \/ EvictNext(t)
    \/ BeginRemoval(t) \/ EndRemoval(t) \/ RemovalRaises(t)

StorageNext ==
    \/ \E t \in Threads, m \in Models, p \in Places : StartTest(t, m, p)
    \/ \E t \in Threads, m \in Models : StartCleanup(t, m)
    \/ \E t \in Threads : StartCleanupAll(t) \/ StorageThread(t)
    \/ \E d \in Dirs, c \in BOOLEAN : UpdateSettings(d, c)
    \/ StorageRestart

StorageSpec == StorageInit /\ [][StorageNext]_storageVars

-----------------------------------------------------------------------------

(* A benchmark that runs on a copy in the storage directory runs on a      *)
(* whole one, unless, since the entry was last removed, a copy to it or a  *)
(* removal of it raised halfway or was cut off by a crash, or two threads  *)
(* used the entry at a time.  resolve_model takes whatever exists for the  *)
(* model (model_storage.py:219), what such a removal left included; nothing*)
(* else breaks "copies to local storage, runs benchmarks" (README.md:316). *)
RunsOnWholeModel ==
    \A t \in Threads :
        /\ job[t].pc = "run"
        /\ job[t].place \in Dirs \ {job[t].asked}
        /\ tree[job[t].place][job[t].model] # "whole"
        => trouble[job[t].place][job[t].model] \cap {"failed", "cut", "overlap"} # {}

(* When no thread works, a copy is left behind only for a known reason: a  *)
(* copy or a removal that raised or was interrupted, threads that shared   *)
(* the entry, no runner, a changed storage directory, auto_cleanup switched*)
(* off, or a test that was given the entry's own path.  The others are     *)
(* gone, as the guide to auto_cleanup promises.                            *)
CopiesGo ==
    (\A t \in Threads : job[t].pc \in {"idle", "done"}) =>
        \A d \in Dirs, m \in Models :
            tree[d][m] # "absent" => trouble[d][m] # {}

(* Whatever settings arrive meanwhile, an entry goes only in a directory   *)
(* of the settings, and by a thread whose check found it in the directory  *)
(* that was the storage directory at the check: never the share's path of  *)
(* a model, nor a path of the user's own.  By the time rmtree gets there   *)
(* the storage directory may be another (model_storage.py:271-284).        *)
OnlyStorageShrinks ==
    [][\A p \in Places, m \in Models :
          tree[p][m] # "absent" /\ tree'[p][m] = "absent" =>
              p \in Dirs /\ \E t \in Threads : Removing(t, p, m) /\ job[t].dir = p]_storageVars

=============================================================================
