--------------------------- MODULE SchemaMigration ---------------------------
(***************************************************************************)
(* The migration of a SQLite database when a process opens it: the version *)
(* is read, each pending migration's statements run and commit one by one, *)
(* the version is recorded, and three versions have a step in Python after *)
(* that.  The web server and kitt commands open the same file; any of them *)
(* may die on the way.                                                     *)
(***************************************************************************)
EXTENDS Naturals, Sequences, FiniteSets

CONSTANTS
    Target,      \* SCHEMA_VERSION
    Script,      \* the statements of each version: "safe" ones may be repeated
                 \* (CREATE ... IF NOT EXISTS), "once" ones fail when repeated
    Hooks,       \* parts of the step in Python after each version is recorded
    Columns,     \* versions whose parts add a column each, if it is missing
    Openers,     \* processes that open the database
    MaxDeaths    \* bound: processes that die while they migrate

ASSUME TargetAssumption == Target \in Nat \ {0}
ASSUME ScriptAssumption == Script \in [1..Target -> Seq({"safe", "once"})]
ASSUME DeathsAssumption == MaxDeaths \in Nat
ASSUME HooksAssumption == Hooks \in [1..Target -> Nat]

VARIABLES
    ran,       \* statements and hooks whose effect is in the database
    recorded,  \* schema_version
    opener,    \* the processes
    deaths,    \* processes that died while migrating
    cut        \* parts of hooks that a death prevented (properties only)

schemaVars == <<ran, recorded, opener, deaths, cut>>

(* The steps of a version: its statements, then the parts of its hook.     *)
LastPlace(v)  == Len(Script[v]) + Hooks[v]
HookPlaces(v) == (Len(Script[v]) + 1)..LastPlace(v)
AllSteps      == UNION {{<<v, i>> : i \in 1..LastPlace(v)} : v \in 1..Target}

OpenerPcs == {"closed", "read", "script", "record", "hook", "alter", "up", "failed"}

SchemaTypeOK ==
    /\ ran \subseteq AllSteps
    /\ recorded \in SUBSET (1..Target)
    /\ opener \in [Openers -> [pc : OpenerPcs, at : 1..(Target + 1), next : Nat]]
    /\ deaths \in 0..MaxDeaths
    /\ cut \subseteq AllSteps

Closed == [pc |-> "closed", at |-> 1, next |-> 1]

(* A new file, or one that an older release left behind.                   *)
SchemaInit ==
    /\ \E v \in 0..Target :
          /\ recorded = 1..v
          /\ ran = {s \in AllSteps : s[1] <= v}
    /\ opener = [o \in Openers |-> Closed]
    /\ deaths = 0
    /\ cut = {}

-----------------------------------------------------------------------------

SetOpener(o, pc, at, next) ==
    opener' = [opener EXCEPT ![o] = [pc |-> pc, at |-> at, next |-> next]]

Open(o) ==
    /\ opener[o].pc \in {"closed", "failed"}
    /\ SetOpener(o, "read", 1, 1)
    /\ UNCHANGED <<ran, recorded, deaths, cut>>

(* get_current_version_sqlite: the highest version recorded.               *)
Version == CHOOSE v \in 0..Target :
               /\ v = 0 \/ v \in recorded
               /\ \A w \in recorded : w <= v

(* _ensure_schema: a version below the target is where the work starts.    *)
ReadVersion(o) ==
    /\ opener[o].pc = "read"
    /\ IF Version = Target THEN SetOpener(o, "up", 1, 1)
                           ELSE SetOpener(o, "script", Version + 1, 1)
    /\ UNCHANGED <<ran, recorded, deaths, cut>>

(* One statement of executescript, which commits as it goes.               *)
Statement(o) ==
    LET v == opener[o].at  i == opener[o].next
    IN /\ opener[o].pc = "script"
       /\ IF i > Len(Script[v]) THEN SetOpener(o, "record", v, 1) /\ UNCHANGED ran
          ELSE IF Script[v][i] = "once" /\ <<v, i>> \in ran
          THEN SetOpener(o, "failed", 1, 1) /\ UNCHANGED ran
          ELSE SetOpener(o, "script", v, i + 1) /\ ran' = ran \cup {<<v, i>>}
       /\ UNCHANGED <<recorded, deaths, cut>>

GoOn(o, v) == IF v = Target THEN SetOpener(o, "up", 1, 1)
                            ELSE SetOpener(o, "script", v + 1, 1)

(* Mutant: the steps in Python are forgotten.                              *)
RecordVersionOnly(o) ==
    /\ opener[o].pc = "record"
    /\ recorded' = recorded \cup {opener[o].at}
    /\ GoOn(o, opener[o].at)
    /\ UNCHANGED <<ran, deaths, cut>>

(* set_version_sqlite: the column has no constraint, so that two processes *)
(* that ran the same version both record it.                               *)
RecordVersion(o) ==
    LET v == opener[o].at
    IN /\ opener[o].pc = "record"
       /\ recorded' = recorded \cup {v}
       /\ IF Hooks[v] > 0 THEN SetOpener(o, "hook", v, Len(Script[v]) + 1) ELSE GoOn(o, v)
       /\ UNCHANGED <<ran, deaths, cut>>

PartDone(o) ==
    LET v == opener[o].at  i == opener[o].next
    IN IF i = LastPlace(v) THEN GoOn(o, v) ELSE SetOpener(o, "hook", v, i + 1)

(* _migrate_token_hashes and _insert_default_agent_settings: one commit,   *)
(* which may be repeated.                                                  *)
RunHook(o) ==
    /\ opener[o].pc = "hook" /\ opener[o].at \notin Columns
    /\ ran' = ran \cup {<<opener[o].at, opener[o].next>>}
    /\ PartDone(o)
    /\ UNCHANGED <<recorded, deaths, cut>>

(* _add_column_if_missing looks first, and then adds the column ...        *)
LookForColumn(o) ==
    /\ opener[o].pc = "hook" /\ opener[o].at \in Columns
    /\ IF <<opener[o].at, opener[o].next>> \in ran THEN PartDone(o)
       ELSE SetOpener(o, "alter", opener[o].at, opener[o].next)
    /\ UNCHANGED <<ran, recorded, deaths, cut>>

(* ... which raises when another process has added it in between.          *)
AddColumn(o) ==
    LET step == <<opener[o].at, opener[o].next>>
    IN /\ opener[o].pc = "alter"
       /\ IF step \in ran THEN SetOpener(o, "failed", 1, 1) /\ UNCHANGED ran
          ELSE PartDone(o) /\ ran' = ran \cup {step}
       /\ UNCHANGED <<recorded, deaths, cut>>

(* The parts of a hook that a process has still to do.                     *)
Owed(o) ==
    IF opener[o].pc \in {"hook", "alter"}
    THEN {<<opener[o].at, i>> : i \in opener[o].next..LastPlace(opener[o].at)} ELSE {}

Die(o) ==
    /\ opener[o].pc \in {"read", "script", "record", "hook", "alter"}
    /\ deaths < MaxDeaths
    /\ deaths' = deaths + 1
    /\ cut' = cut \cup Owed(o)
    /\ SetOpener(o, "closed", 1, 1)
    /\ UNCHANGED <<ran, recorded>>

Close(o) ==
    /\ opener[o].pc = "up"
    /\ SetOpener(o, "closed", 1, 1)
    /\ UNCHANGED <<ran, recorded, deaths, cut>>

SchemaNext ==
    \E o \in Openers :
        \/ Open(o) \/ ReadVersion(o) \/ Statement(o) \/ RecordVersion(o) \/ RunHook(o)
        \/ LookForColumn(o) \/ AddColumn(o) \/ Die(o) \/ Close(o)

SchemaSpec == SchemaInit /\ [][SchemaNext]_schemaVars

-----------------------------------------------------------------------------

(* A process that has opened the database finds everything of every        *)
(* version, but for parts of the Python step of a version that another     *)
(* process has still to do, or would have had to do when it died: nothing  *)
(* repeats that step later.  (Of two processes that add the same column,   *)
(* the one that fails leaves nothing undone.)                              *)
OpenMeansWhole ==
    \A o \in Openers :
        opener[o].pc = "up" => AllSteps \ ran \subseteq cut \cup UNION {Owed(p) : p \in Openers}

(* A version that is recorded has all its statements in the database, and  *)
(* so have the versions before it, whoever ran them and wherever they died.*)
RecordedMeansRun ==
    \A v \in recorded : \A w \in 1..v : \A i \in 1..Len(Script[w]) : <<w, i>> \in ran

=============================================================================
