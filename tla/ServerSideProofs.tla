-------------------------- MODULE ServerSideProofs --------------------------
(***************************************************************************)
(* Theorems about what the server keeps: the schema of its database, for   *)
(* every number of versions and processes, every script and every set of   *)
(* Python steps; the saves of the result store, for every number of        *)
(* request threads; the event streams, for every number of events, of      *)
(* subscribers, and every size of history and queue; and the table of      *)
(* agents, for every number of machines and names.  The parts share no     *)
(* state; the last theorem is of the four together.                        *)
(***************************************************************************)
EXTENDS MCServerSide, SequenceTheorems, FiniteSetTheorems, WellFoundedInduction, TLAPS

(* A set of numbers has a least one: what an induction rests on here.      *)
LEMMA LeastNumber == \A T \in SUBSET Nat : T # {} => \E n \in T : \A m \in T : n <= m
<1> SUFFICES ASSUME NEW T, T \subseteq Nat, T # {} PROVE \E n \in T : \A m \in T : n <= m
  OBVIOUS
<1>1. PICK n \in T : \A m \in T : ~(<<m, n>> \in OpToRel(<, Nat))
  BY WFMin, NatLessThanWellFounded, Zenon
<1>2. \A m \in T : ~(m < n)
  BY <1>1 DEF OpToRel
<1>3. QED
  BY <1>2

-----------------------------------------------------------------------------
(* The schema.                                                             *)

(* The versions that are recorded are those up to the current one.         *)
RecordedUpTo == \E v \in 0..Target : recorded = 1..v

(* A version that is recorded has its statements in the database.          *)
StatementsRan == \A v \in recorded : \A i \in 1..Len(Script[v]) : <<v, i>> \in ran

(* A process at work has the versions below its own recorded, and the      *)
(* steps that it has left behind in the database.                          *)
AtWork(o) ==
    LET x == opener[o]
    IN  x.pc \in {"script", "record", "hook", "alter"} =>
           /\ x.at \in 1..Target
           /\ 1..(x.at - 1) \subseteq recorded
           /\ x.pc = "script" => x.next # 0
           /\ x.pc = "script" => \A i \in 1..Len(Script[x.at]) : i < x.next => <<x.at, i>> \in ran
           /\ x.pc = "record" => \A i \in 1..Len(Script[x.at]) : <<x.at, i>> \in ran
           /\ x.pc \in {"hook", "alter"} =>
                 /\ x.at \in recorded /\ x.next \in HookPlaces(x.at)
                 /\ \A i \in HookPlaces(x.at) : i < x.next => <<x.at, i>> \in ran

(* Hooks run after the version is recorded, and in order.                  *)
HooksInOrder ==
    \A v \in 1..Target : \A i \in HookPlaces(v) :
        <<v, i>> \in ran => /\ v \in recorded
                           /\ \A j \in HookPlaces(v) : j < i => <<v, j>> \in ran

(* A part of a recorded version's hook has run, was cut off, or is still   *)
(* to be done by a process that is at the first part that has not run: one *)
(* that fails is at a part that another process has run.                   *)
Owes(p, v, i) ==
    /\ opener[p].pc \in {"hook", "alter"}
    /\ opener[p].at = v /\ opener[p].next <= i
    /\ <<v, opener[p].next>> \notin ran
IsKnown(v, i) == <<v, i>> \in ran \cup cut \/ \E p \in Openers : Owes(p, v, i)
HooksAreKnown == \A v \in recorded : \A i \in HookPlaces(v) : IsKnown(v, i)

(* A process is at a part that has not run.                                *)
PartOwed(p, v, i) ==
    opener[p].pc = "hook" /\ opener[p].at = v /\ opener[p].next = i /\ <<v, i>> \notin ran

UpToDate == \A o \in Openers : opener[o].pc = "up" => Target \in recorded

SchemaInv ==
    /\ SchemaTypeOK
    /\ RecordedUpTo
    /\ StatementsRan
    /\ \A o \in Openers : AtWork(o)
    /\ HooksInOrder
    /\ HooksAreKnown
    /\ UpToDate

Openings == [Openers -> [pc : OpenerPcs, at : 1..(Target + 1), next : Nat]]

-----------------------------------------------------------------------------

(* get_current_version_sqlite returns the last of the recorded versions.   *)
LEMMA VersionIsLast ==
    ASSUME NEW v \in 0..Target, recorded = 1..v
    PROVE  Version = v
<1>1. Target \in Nat
  BY TargetAssumption
<1> DEFINE IsLast(u) == /\ u = 0 \/ u \in recorded
                      /\ \A w \in recorded : w <= u
<1>2. IsLast(v)
  BY <1>1
<1>3. \A u \in 0..Target : IsLast(u) => u = v
  BY <1>1
<1>4. Version = CHOOSE u \in 0..Target : IsLast(u)
  BY DEF Version
<1> HIDE DEF IsLast
<1>5. QED
  BY <1>2, <1>3, <1>4

LEMMA SetOpenerKeeps ==
    ASSUME opener \in Openings, NEW o \in Openers, NEW pc \in OpenerPcs,
           NEW at \in 1..(Target + 1), NEW next \in Nat, SetOpener(o, pc, at, next)
    PROVE  /\ opener' \in Openings
           /\ opener'[o] = [pc |-> pc, at |-> at, next |-> next]
           /\ \A p \in Openers \ {o} : opener'[p] = opener[p]
  BY DEF SetOpener, Openings

(* What SetOpener(o, ...) leaves of the invariant, when nothing that was   *)
(* recorded or run is undone: all but what is about o itself.  What o owed *)
(* is cut, or still owed by it.                                            *)
LEMMA OthersKeep ==
    ASSUME SchemaInv, NEW o \in Openers, NEW pc \in OpenerPcs, NEW at \in 1..(Target + 1),
           NEW next \in Nat, SetOpener(o, pc, at, next),
           recorded \subseteq recorded', ran \subseteq ran', cut \subseteq cut',
           \A v \in recorded : \A i \in HookPlaces(v) :
               /\ Owes(o, v, i) => IsKnown(v, i)'
               /\ \A p \in Openers \ {o} :
                     Owes(p, v, i) => <<v, opener[p].next>> \notin ran' \/ IsKnown(v, i)',
           \A v \in recorded' \ recorded : \A i \in HookPlaces(v) : IsKnown(v, i)',
           AtWork(o)', pc = "up" => Target \in recorded'
    PROVE  /\ opener' \in Openings
           /\ \A p \in Openers : AtWork(p)'
           /\ HooksAreKnown'
           /\ UpToDate'
<1>1. /\ opener' \in Openings
      /\ opener'[o] = [pc |-> pc, at |-> at, next |-> next]
      /\ \A p \in Openers \ {o} : opener'[p] = opener[p]
  BY SetOpenerKeeps DEF SchemaInv, SchemaTypeOK, Openings
<1>2. ASSUME NEW p \in Openers PROVE AtWork(p)'
  <2>1. CASE p = o
    BY <2>1
  <2>2. CASE p # o
    BY <1>1, <2>2 DEF SchemaInv, AtWork
  <2>3. QED
    BY <2>1, <2>2
<1>3. ASSUME NEW v \in recorded', NEW i \in HookPlaces(v) PROVE IsKnown(v, i)'
  <2>1. CASE v \notin recorded
    BY <2>1
  <2>2. CASE v \in recorded /\ <<v, i>> \in ran \cup cut
    BY <2>2 DEF IsKnown
  <2>3. CASE v \in recorded /\ <<v, i>> \notin ran \cup cut
    <3>1. PICK p \in Openers : Owes(p, v, i)
      BY <2>3 DEF SchemaInv, HooksAreKnown, IsKnown
    <3>2. CASE p = o
      BY <2>3, <3>1, <3>2
    <3>3. CASE p # o /\ <<v, opener[p].next>> \notin ran'
      BY <1>1, <3>1, <3>3 DEF IsKnown, Owes
    <3>4. QED
      BY <2>3, <3>1, <3>2, <3>3
  <2>4. QED
    BY <2>1, <2>2, <2>3
<1>4. UpToDate'
  BY <1>1 DEF SchemaInv, UpToDate
<1>5. QED
  BY <1>1, <1>2, <1>3, <1>4 DEF HooksAreKnown

-----------------------------------------------------------------------------

LEMMA StepsAre ==
    ASSUME NEW v \in 1..Target
    PROVE  /\ Len(Script[v]) \in Nat /\ Hooks[v] \in Nat /\ LastPlace(v) \in Nat
           /\ 1..LastPlace(v) = 1..Len(Script[v]) \cup HookPlaces(v)
           /\ HookPlaces(v) \cap 1..Len(Script[v]) = {}
           /\ HookPlaces(v) \subseteq Nat
           /\ \A i \in 1..LastPlace(v) : <<v, i>> \in AllSteps
<1>1. Len(Script[v]) \in Nat /\ Hooks[v] \in Nat
  BY ScriptAssumption, HooksAssumption
<1>2. ASSUME NEW i \in 1..LastPlace(v) PROVE <<v, i>> \in AllSteps
  <2>1. <<v, i>> \in {<<v, j>> : j \in 1..LastPlace(v)}
    OBVIOUS
  <2>2. {<<v, j>> : j \in 1..LastPlace(v)} \in {{<<w, j>> : j \in 1..LastPlace(w)} : w \in 1..Target}
    OBVIOUS
  <2>3. QED
    BY <2>1, <2>2 DEF AllSteps
<1>3. QED
  BY <1>1, <1>2 DEF LastPlace, HookPlaces

LEMMA InitIsSound == SchemaInit => SchemaInv
<1> SUFFICES ASSUME SchemaInit PROVE SchemaInv
  OBVIOUS
<1>1. PICK v \in 0..Target : recorded = 1..v /\ ran = {s \in AllSteps : s[1] <= v}
  BY DEF SchemaInit
<1>2. Target \in Nat \ {0}
  BY TargetAssumption
<1>3. \A w \in 1..v : w \in 1..Target /\ w <= v
  BY <1>2
<1>4. SchemaTypeOK
  BY <1>1, <1>2, <1>3, DeathsAssumption
     DEF SchemaInit, SchemaTypeOK, Closed, OpenerPcs
<1>5. \A w \in recorded : \A i \in 1..LastPlace(w) : <<w, i>> \in ran
  BY <1>1, <1>3, StepsAre
<1>6. StatementsRan
  BY <1>1, <1>3, <1>5, StepsAre DEF StatementsRan
<1>7. HooksAreKnown
  BY <1>1, <1>3, <1>5, StepsAre DEF HooksAreKnown, IsKnown
<1>8. HooksInOrder
  <2> SUFFICES ASSUME NEW w \in 1..Target, NEW i \in HookPlaces(w), <<w, i>> \in ran
               PROVE  w \in recorded /\ \A j \in HookPlaces(w) : <<w, j>> \in ran
    BY DEF HooksInOrder
  <2>1. w <= v
    BY <1>1
  <2>2. w \in recorded
    BY <1>1, <1>2, <2>1
  <2>3. QED
    BY <1>5, <2>2, StepsAre
<1>9. \A o \in Openers : opener[o].pc = "closed"
  BY DEF SchemaInit, Closed
<1>10. QED
  BY <1>1, <1>4, <1>6, <1>7, <1>8, <1>9 DEF SchemaInv, RecordedUpTo, AtWork, UpToDate

(* A step that only moves a process to a place where it owes nothing, and  *)
(* owed nothing that is not cut or run.                                    *)
LEMMA RestKeeps ==
    ASSUME SchemaInv, NEW o \in Openers, NEW pc \in {"closed", "read", "failed"},
           SetOpener(o, pc, 1, 1), ran' = ran, recorded' = recorded,
           cut \subseteq cut', cut' \subseteq AllSteps,
           \A v \in recorded : \A i \in HookPlaces(v) : Owes(o, v, i) => <<v, i>> \in cut',
           deaths' \in 0..MaxDeaths
    PROVE  SchemaInv'
<1>1. Target \in Nat \ {0} /\ pc \in OpenerPcs /\ 1 \in 1..(Target + 1) /\ 1 \in Nat
  BY TargetAssumption DEF OpenerPcs
<1>2. opener'[o].pc = pc
  BY DEF SchemaInv, SchemaTypeOK, SetOpener
<1>3. AtWork(o)'
  BY <1>2 DEF AtWork
<1>4. \A v \in recorded : \A i \in HookPlaces(v) :
         /\ Owes(o, v, i) => IsKnown(v, i)'
         /\ \A p \in Openers \ {o} : Owes(p, v, i) => <<v, opener[p].next>> \notin ran'
  BY DEF IsKnown, Owes
<1>5. /\ opener' \in Openings
      /\ \A p \in Openers : AtWork(p)'
      /\ HooksAreKnown' /\ UpToDate'
  BY <1>1, <1>3, <1>4, OthersKeep
<1>6. SchemaTypeOK'
  BY <1>5 DEF SchemaInv, SchemaTypeOK, Openings
<1>7. RecordedUpTo' /\ StatementsRan' /\ HooksInOrder'
  BY DEF SchemaInv, RecordedUpTo, StatementsRan, HooksInOrder
<1>8. QED
  BY <1>5, <1>6, <1>7 DEF SchemaInv

(* What a process that owes nothing does to the database, and where it     *)
(* goes on.                                                                *)
LEMMA WorkKeeps ==
    ASSUME SchemaInv, NEW o \in Openers, NEW pc \in OpenerPcs, NEW at \in 1..(Target + 1),
           NEW next \in Nat, SetOpener(o, pc, at, next),
           recorded \subseteq recorded', ran \subseteq ran', UNCHANGED <<deaths, cut>>,
           ran' \subseteq AllSteps, recorded' \subseteq 1..Target, RecordedUpTo', StatementsRan',
           HooksInOrder',
           \A v \in recorded : \A i \in HookPlaces(v) :
               /\ Owes(o, v, i) => IsKnown(v, i)'
               /\ \A p \in Openers \ {o} :
                     Owes(p, v, i) => <<v, opener[p].next>> \notin ran' \/ IsKnown(v, i)',
           \A v \in recorded' \ recorded : \A i \in HookPlaces(v) : IsKnown(v, i)',
           AtWork(o)', pc = "up" => Target \in recorded'
    PROVE  SchemaInv'
<1>1. /\ opener' \in Openings
      /\ \A p \in Openers : AtWork(p)'
      /\ HooksAreKnown' /\ UpToDate'
  BY OthersKeep
<1>2. SchemaTypeOK'
  BY <1>1 DEF SchemaInv, SchemaTypeOK, Openings
<1>3. QED
  BY <1>1, <1>2 DEF SchemaInv

(* The same where no part of a hook is run and no version recorded.        *)
LEMMA PlainWorkKeeps ==
    ASSUME SchemaInv, NEW o \in Openers, NEW pc \in OpenerPcs, NEW at \in 1..(Target + 1),
           NEW next \in Nat, SetOpener(o, pc, at, next),
           recorded' = recorded, ran \subseteq ran', UNCHANGED <<deaths, cut>>,
           ran' \subseteq AllSteps,
           \A v \in 1..Target : \A i \in HookPlaces(v) : <<v, i>> \in ran' => <<v, i>> \in ran,
           \A v \in recorded : \A i \in HookPlaces(v) : Owes(o, v, i) => IsKnown(v, i)',
           AtWork(o)', pc = "up" => Target \in recorded'
    PROVE  SchemaInv'
<1>1. /\ recorded \subseteq 1..Target /\ RecordedUpTo' /\ StatementsRan'
  BY DEF SchemaInv, SchemaTypeOK, RecordedUpTo, StatementsRan
<1>2. HooksInOrder'
  BY DEF SchemaInv, HooksInOrder
<1>3. ASSUME NEW v \in recorded, NEW i \in HookPlaces(v), NEW p \in Openers \ {o}, Owes(p, v, i)
      PROVE  <<v, opener[p].next>> \notin ran'
  <2>1. AtWork(p)
    BY DEF SchemaInv
  <2>2. opener[p].next \in HookPlaces(v)
    BY <1>3, <2>1 DEF Owes, AtWork
  <2>3. QED
    BY <1>1, <1>3, <2>2 DEF Owes
<1>4. QED
  BY <1>1, <1>2, <1>3, WorkKeeps

LEMMA ReadVersionKeeps ==
    ASSUME SchemaInv, NEW o \in Openers, ReadVersion(o)
    PROVE  SchemaInv'
<1>1. PICK v \in 0..Target : recorded = 1..v
  BY DEF SchemaInv, RecordedUpTo
<1>2. Version = v
  BY <1>1, VersionIsLast
<1>3. Target \in Nat \ {0} /\ {"up", "script"} \subseteq OpenerPcs
  BY TargetAssumption DEF OpenerPcs
<1>4. UNCHANGED <<ran, recorded, deaths, cut>> /\ opener[o].pc = "read"
  BY DEF ReadVersion
<1>5. ran' \subseteq AllSteps /\ \A w, i : ~Owes(o, w, i)
  BY <1>4 DEF SchemaInv, SchemaTypeOK, Owes
<1>6. CASE v = Target
  <2>1. SetOpener(o, "up", 1, 1)
    BY <1>2, <1>6 DEF ReadVersion
  <2>2. opener'[o] = [pc |-> "up", at |-> 1, next |-> 1]
    BY <2>1 DEF SetOpener, SchemaInv, SchemaTypeOK
  <2>3. AtWork(o)'
    BY <2>2 DEF AtWork
  <2>4. Target \in recorded' /\ "up" \in OpenerPcs /\ 1 \in 1..(Target + 1) /\ 1 \in Nat
    BY <1>1, <1>3, <1>4, <1>6
  <2>5. QED
    BY <1>4, <1>5, <2>1, <2>3, <2>4, PlainWorkKeeps
<1>7. CASE v # Target
  <2>1. SetOpener(o, "script", v + 1, 1)
    BY <1>2, <1>7 DEF ReadVersion
  <2>2. opener'[o] = [pc |-> "script", at |-> v + 1, next |-> 1]
    BY <2>1 DEF SetOpener, SchemaInv, SchemaTypeOK
  <2>3. v + 1 \in 1..Target /\ 1..((v + 1) - 1) \subseteq recorded'
    BY <1>1, <1>3, <1>4, <1>7
  <2>4. \A i \in 1..Len(Script[v + 1]) : ~(i < 1)
    BY <2>3, ScriptAssumption
  <2>5. AtWork(o)'
    BY <2>2, <2>3, <2>4 DEF AtWork
  <2>6. "script" \in OpenerPcs /\ v + 1 \in 1..(Target + 1) /\ 1 \in Nat
    BY <1>3, <2>3
  <2>7. QED
    BY <1>4, <1>5, <2>1, <2>5, <2>6, PlainWorkKeeps
<1>8. QED
  BY <1>6, <1>7

LEMMA StatementKeeps ==
    ASSUME SchemaInv, NEW o \in Openers, Statement(o)
    PROVE  SchemaInv'
<1> DEFINE v == opener[o].at
           i == opener[o].next
<1>1. /\ opener[o].pc = "script" /\ v \in 1..Target /\ i \in Nat \ {0}
      /\ 1..(v - 1) \subseteq recorded
      /\ \A j \in 1..Len(Script[v]) : j < i => <<v, j>> \in ran
  BY DEF SchemaInv, SchemaTypeOK, AtWork, Statement
<1>2. Target \in Nat \ {0} /\ Len(Script[v]) \in Nat
  BY <1>1, TargetAssumption, ScriptAssumption
<1>3. UNCHANGED <<recorded, deaths, cut>>
  BY DEF Statement
<1>4. \A w, j : ~Owes(o, w, j)
  BY <1>1 DEF Owes
<1>5. CASE i > Len(Script[v])
  <2>1. SetOpener(o, "record", v, 1) /\ ran' = ran
    BY <1>5 DEF Statement
  <2>2. opener'[o] = [pc |-> "record", at |-> v, next |-> 1]
    BY <2>1 DEF SetOpener, SchemaInv, SchemaTypeOK
  <2>3. \A j \in 1..Len(Script[v]) : <<v, j>> \in ran'
    BY <1>1, <1>2, <1>5, <2>1
  <2>4. AtWork(o)'
    BY <1>1, <1>3, <2>2, <2>3 DEF AtWork
  <2>5. "record" \in OpenerPcs /\ v \in 1..(Target + 1) /\ 1 \in Nat
    BY <1>1, <1>2 DEF OpenerPcs
  <2>6. ran' \subseteq AllSteps
    BY <2>1 DEF SchemaInv, SchemaTypeOK
  <2>7. QED
    BY <1>1, <1>3, <1>4, <2>1, <2>4, <2>5, <2>6, PlainWorkKeeps
<1>6. CASE ~(i > Len(Script[v])) /\ Script[v][i] = "once" /\ <<v, i>> \in ran
  <2>1. SetOpener(o, "failed", 1, 1) /\ ran' = ran
    BY <1>6 DEF Statement
  <2>2. cut' \subseteq AllSteps /\ deaths' \in 0..MaxDeaths
    BY <1>3 DEF SchemaInv, SchemaTypeOK
  <2>3. QED
    BY <1>3, <1>4, <2>1, <2>2, RestKeeps
<1>7. CASE ~(i > Len(Script[v])) /\ ~(Script[v][i] = "once" /\ <<v, i>> \in ran)
  <2>1. SetOpener(o, "script", v, i + 1) /\ ran' = ran \cup {<<v, i>>}
    BY <1>7 DEF Statement
  <2>2. opener'[o] = [pc |-> "script", at |-> v, next |-> i + 1]
    BY <2>1 DEF SetOpener, SchemaInv, SchemaTypeOK
  <2>3. \A j \in 1..Len(Script[v]) : j < i + 1 => <<v, j>> \in ran'
    <3>1. \A j \in 1..Len(Script[v]) : j < i + 1 => j < i \/ j = i
      BY <1>1, <1>2
    <3>2. QED
      BY <1>1, <2>1, <3>1
  <2>4. i + 1 \in Nat /\ i + 1 # 0
    BY <1>1
  <2>5. AtWork(o)'
    BY <1>1, <1>3, <2>2, <2>3, <2>4 DEF AtWork
  <2>6. "script" \in OpenerPcs /\ v \in 1..(Target + 1)
    BY <1>1, <1>2 DEF OpenerPcs
  <2>7. /\ ran' \subseteq AllSteps
        /\ \A w \in 1..Target : \A j \in HookPlaces(w) : <<w, j>> \in ran' => <<w, j>> \in ran
    <3>1. i \in 1..Len(Script[v])
      BY <1>1, <1>2, <1>7
    <3>2. <<v, i>> \in AllSteps /\ i \notin HookPlaces(v)
      BY <1>1, <3>1, StepsAre
    <3>3. QED
      BY <2>1, <3>2 DEF SchemaInv, SchemaTypeOK
  <2>8. QED
    BY <1>1, <1>3, <1>4, <2>1, <2>4, <2>5, <2>6, <2>7, PlainWorkKeeps
<1>8. QED
  BY <1>5, <1>6, <1>7

(* The end of a version's work, when the version is recorded.              *)
LEMMA GoOnKeeps ==
    ASSUME SchemaInv, NEW o \in Openers, NEW v \in 1..Target, GoOn(o, v),
           recorded \subseteq recorded', ran \subseteq ran', UNCHANGED <<deaths, cut>>,
           ran' \subseteq AllSteps, recorded' \subseteq 1..Target, RecordedUpTo', StatementsRan',
           HooksInOrder',
           \A w \in recorded : \A i \in HookPlaces(w) :
               /\ Owes(o, w, i) => IsKnown(w, i)'
               /\ \A p \in Openers \ {o} :
                     Owes(p, w, i) => <<w, opener[p].next>> \notin ran' \/ IsKnown(w, i)',
           \A w \in recorded' \ recorded : \A i \in HookPlaces(w) : IsKnown(w, i)',
           1..v \subseteq recorded'
    PROVE  SchemaInv'
<1>1. Target \in Nat \ {0} /\ v \in recorded'
  BY TargetAssumption
<1>2. CASE v = Target
  <2>1. SetOpener(o, "up", 1, 1)
    BY <1>2 DEF GoOn
  <2>2. opener'[o] = [pc |-> "up", at |-> 1, next |-> 1]
    BY <2>1 DEF SetOpener, SchemaInv, SchemaTypeOK
  <2>3. AtWork(o)'
    BY <2>2 DEF AtWork
  <2>4. "up" \in OpenerPcs /\ 1 \in 1..(Target + 1) /\ 1 \in Nat
    BY <1>1 DEF OpenerPcs
  <2>5. QED
    BY <1>1, <1>2, <2>1, <2>3, <2>4, WorkKeeps
<1>3. CASE v # Target
  <2>1. SetOpener(o, "script", v + 1, 1)
    BY <1>3 DEF GoOn
  <2>2. opener'[o] = [pc |-> "script", at |-> v + 1, next |-> 1]
    BY <2>1 DEF SetOpener, SchemaInv, SchemaTypeOK
  <2>3. v + 1 \in 1..Target /\ 1..((v + 1) - 1) \subseteq recorded'
    BY <1>1, <1>3
  <2>4. \A i \in 1..Len(Script[v + 1]) : ~(i < 1)
    BY <2>3, ScriptAssumption
  <2>5. AtWork(o)'
    BY <2>2, <2>3, <2>4 DEF AtWork
  <2>6. "script" \in OpenerPcs /\ v + 1 \in 1..(Target + 1) /\ 1 \in Nat
    BY <1>1, <2>3 DEF OpenerPcs
  <2>7. QED
    BY <2>1, <2>5, <2>6, WorkKeeps
<1>4. QED
  BY <1>2, <1>3

LEMMA RecordVersionKeeps ==
    ASSUME SchemaInv, NEW o \in Openers, RecordVersion(o)
    PROVE  SchemaInv'
<1> DEFINE v == opener[o].at
           n == Len(Script[v]) + 1
<1>1. /\ opener[o].pc = "record" /\ v \in 1..Target /\ 1..(v - 1) \subseteq recorded
      /\ \A i \in 1..Len(Script[v]) : <<v, i>> \in ran
  BY DEF SchemaInv, AtWork, RecordVersion
<1>2. recorded' = recorded \cup {v} /\ UNCHANGED <<ran, deaths, cut>>
  BY DEF RecordVersion
<1>3. Target \in Nat \ {0}
  BY TargetAssumption
<1>4. RecordedUpTo'
  <2>1. PICK u \in 0..Target : recorded = 1..u
    BY DEF SchemaInv, RecordedUpTo
  <2>2. CASE v <= u
    <3>1. recorded' = 1..u
      BY <1>1, <1>2, <1>3, <2>1, <2>2
    <3>2. QED
      BY <3>1 DEF RecordedUpTo
  <2>3. CASE v > u
    <3>1. v = u + 1
      <4>1. v - 1 \in 0..u
        BY <1>1, <1>3, <2>1
      <4>2. QED
        BY <1>1, <1>3, <2>3, <4>1
    <3>2. recorded' = 1..v
      BY <1>1, <1>2, <1>3, <2>1, <3>1
    <3>3. v \in 0..Target
      BY <1>1, <1>3
    <3>4. QED
      BY <3>2, <3>3 DEF RecordedUpTo
  <2>4. QED
    BY <1>1, <1>3, <2>1, <2>2, <2>3
<1>5. /\ StatementsRan' /\ ran' \subseteq AllSteps /\ recorded' \subseteq 1..Target
      /\ recorded \subseteq recorded' /\ ran \subseteq ran'
  BY <1>1, <1>2 DEF SchemaInv, SchemaTypeOK, StatementsRan
<1>6. HooksInOrder'
  BY <1>2 DEF SchemaInv, HooksInOrder
<1>7. ASSUME NEW w \in recorded, NEW i \in HookPlaces(w)
      PROVE  /\ Owes(o, w, i) => IsKnown(w, i)'
             /\ \A p \in Openers \ {o} :
                   Owes(p, w, i) => <<w, opener[p].next>> \notin ran' \/ IsKnown(w, i)'
  BY <1>1, <1>2 DEF Owes
<1>8. CASE Hooks[v] > 0
  <2>1. SetOpener(o, "hook", v, n)
    BY <1>8 DEF RecordVersion
  <2>2. opener'[o] = [pc |-> "hook", at |-> v, next |-> n]
    BY <2>1 DEF SetOpener, SchemaInv, SchemaTypeOK
  <2>3. n \in HookPlaces(v) /\ n \in Nat /\ \A i \in HookPlaces(v) : n <= i
    BY <1>1, <1>8, StepsAre DEF HookPlaces, LastPlace
  <2>4. AtWork(o)'
    <3>1. \A i \in HookPlaces(v) : ~(i < n)
      BY <1>1, <2>3, StepsAre
    <3>2. QED
      BY <1>1, <1>2, <2>2, <2>3, <3>1 DEF AtWork
  <2>5. "hook" \in OpenerPcs /\ v \in 1..(Target + 1)
    BY <1>1, <1>3 DEF OpenerPcs
  <2>6. ASSUME NEW w \in recorded' \ recorded, NEW i \in HookPlaces(w) PROVE IsKnown(w, i)'
    <3>1. w = v /\ w \notin recorded
      BY <1>2
    <3>2. <<v, n>> \notin ran'
      BY <1>1, <1>2, <2>3, <3>1 DEF SchemaInv, HooksInOrder
    <3>3. Owes(o, w, i)'
      BY <2>2, <2>3, <3>1, <3>2 DEF Owes
    <3>4. QED
      BY <3>3 DEF IsKnown
  <2>7. QED
    BY <1>2, <1>4, <1>5, <1>6, <1>7, <2>1, <2>3, <2>4, <2>5, <2>6, WorkKeeps
<1>9. CASE ~(Hooks[v] > 0)
  <2>1. GoOn(o, v)
    BY <1>9 DEF RecordVersion
  <2>2. HookPlaces(v) = {}
    BY <1>1, <1>9, StepsAre DEF HookPlaces, LastPlace
  <2>3. \A w \in recorded' \ recorded : \A i \in HookPlaces(w) : IsKnown(w, i)'
    BY <1>2, <2>2
  <2>4. 1..v \subseteq recorded'
    BY <1>1, <1>2, <1>3
  <2>5. QED
    BY <1>1, <1>2, <1>4, <1>5, <1>6, <1>7, <2>1, <2>3, <2>4, GoOnKeeps
<1>10. QED
  BY <1>8, <1>9

(* A part of a hook is done, by this process or, for a column, before it:  *)
(* whoever was to do the same part has left the rest of it to this one.    *)
LEMMA PartDoneKeeps ==
    ASSUME SchemaInv, NEW o \in Openers, opener[o].pc \in {"hook", "alter"}, PartDone(o),
           ran' = ran \cup {<<opener[o].at, opener[o].next>>},
           UNCHANGED <<recorded, deaths, cut>>
    PROVE  SchemaInv'
<1>1. PICK v \in 1..Target : v = opener[o].at
  BY DEF SchemaInv, AtWork
<1>2. PICK n \in HookPlaces(v) : n = opener[o].next
  BY <1>1 DEF SchemaInv, AtWork
<1>3. /\ v \in recorded /\ 1..(v - 1) \subseteq recorded
      /\ \A i \in HookPlaces(v) : i < n => <<v, i>> \in ran
  BY <1>1, <1>2 DEF SchemaInv, AtWork
<1>4. ran' = ran \cup {<<v, n>>}
  BY <1>1, <1>2
<1>5. Target \in Nat \ {0} /\ n \in Nat /\ n \in 1..LastPlace(v) /\ n \notin 1..Len(Script[v])
  BY <1>2, StepsAre, TargetAssumption
<1>6. LastPlace(v) \in Nat /\ Len(Script[v]) \in Nat /\ n > Len(Script[v]) /\ n <= LastPlace(v)
  BY <1>5, StepsAre
<1>7. /\ ran' \subseteq AllSteps /\ recorded' \subseteq 1..Target
      /\ RecordedUpTo' /\ StatementsRan' /\ 1..v \subseteq recorded'
  <2>1. <<v, n>> \in AllSteps
    BY <1>5, StepsAre
  <2>2. 1..v \subseteq recorded'
    BY <1>3, <1>5
  <2>3. QED
    BY <1>4, <2>1, <2>2 DEF SchemaInv, SchemaTypeOK, RecordedUpTo, StatementsRan
<1>8. HooksInOrder'
  <2> SUFFICES ASSUME NEW w \in 1..Target, NEW i \in HookPlaces(w), <<w, i>> \in ran'
               PROVE  w \in recorded /\ \A j \in HookPlaces(w) : j < i => <<w, j>> \in ran'
    BY DEF HooksInOrder
  <2>1. CASE <<w, i>> \in ran
    BY <1>4, <2>1 DEF SchemaInv, HooksInOrder
  <2>2. CASE w = v /\ i = n
    BY <1>3, <1>4, <2>2
  <2>3. QED
    BY <1>4, <2>1, <2>2
<1>9. /\ \A w \in recorded' \ recorded : \A i \in HookPlaces(w) : IsKnown(w, i)'
      /\ <<v, n>> \in ran' /\ IsKnown(v, n)'
  BY <1>4 DEF IsKnown
<1>10. ASSUME NEW i \in HookPlaces(v), n <= i, <<v, n>> \notin ran,
              PartOwed(o, v, n + 1)' \/ n = LastPlace(v)
       PROVE  IsKnown(v, i)'
  <2>1. CASE i = n
    BY <1>9, <2>1
  <2>2. CASE i # n
    <3>1. i \in Nat /\ i <= LastPlace(v) /\ n + 1 <= i
      BY <1>1, <1>5, <1>6, <1>10, <2>2 DEF HookPlaces
    <3>2. PartOwed(o, v, n + 1)'
      BY <1>6, <1>10, <3>1
    <3>3. Owes(o, v, i)'
      BY <3>1, <3>2 DEF Owes, PartOwed
    <3>4. QED
      BY <3>3 DEF IsKnown
  <2>3. QED
    BY <2>1, <2>2
<1>11. CASE n = LastPlace(v)
  <2>1. GoOn(o, v)
    BY <1>1, <1>2, <1>11 DEF PartDone
  <2>2. ASSUME NEW w \in recorded, NEW i \in HookPlaces(w)
        PROVE  /\ Owes(o, w, i) => IsKnown(w, i)'
               /\ \A p \in Openers \ {o} :
                     Owes(p, w, i) => <<w, opener[p].next>> \notin ran' \/ IsKnown(w, i)'
    <3>1. Owes(o, w, i) => IsKnown(w, i)'
      BY <1>1, <1>2, <1>10, <1>11 DEF Owes
    <3>2. ASSUME NEW p \in Openers \ {o}, Owes(p, w, i)
          PROVE  <<w, opener[p].next>> \notin ran' \/ IsKnown(w, i)'
      <4>1. CASE w = v /\ opener[p].next = n
        BY <1>10, <1>11, <3>2, <4>1 DEF Owes
      <4>2. CASE ~(w = v /\ opener[p].next = n)
        BY <1>4, <3>2, <4>2 DEF Owes
      <4>3. QED
        BY <4>1, <4>2
    <3>3. QED
      BY <3>1, <3>2
  <2>3. QED
    BY <1>7, <1>8, <1>9, <2>1, <2>2, GoOnKeeps
<1>12. CASE n # LastPlace(v)
  <2>1. SetOpener(o, "hook", v, n + 1)
    BY <1>1, <1>2, <1>12 DEF PartDone
  <2>2. opener'[o] = [pc |-> "hook", at |-> v, next |-> n + 1]
    BY <2>1 DEF SetOpener, SchemaInv, SchemaTypeOK
  <2>3. n + 1 \in HookPlaces(v)
    BY <1>5, <1>6, <1>12 DEF HookPlaces
  <2>4. AtWork(o)'
    <3>1. \A i \in HookPlaces(v) : i < n + 1 => i < n \/ i = n
      BY <1>5, StepsAre
    <3>2. \A i \in HookPlaces(v) : i < n + 1 => <<v, i>> \in ran'
      BY <1>3, <1>4, <3>1
    <3>3. v \in recorded' /\ 1..(v - 1) \subseteq recorded'
      BY <1>3
    <3>4. QED
      BY <2>2, <2>3, <3>2, <3>3 DEF AtWork
  <2>5. "hook" \in OpenerPcs /\ v \in 1..(Target + 1) /\ n + 1 \in Nat
    BY <1>5 DEF OpenerPcs
  <2>6. <<v, n>> \notin ran => PartOwed(o, v, n + 1)'
    <3>1. SUFFICES ASSUME <<v, n>> \notin ran PROVE <<v, n + 1>> \notin ran'
      BY <2>2 DEF PartOwed
    <3>2. n < n + 1 /\ n # n + 1
      BY <1>5
    <3>3. <<v, n + 1>> \notin ran
      BY <1>2, <2>3, <3>1, <3>2 DEF SchemaInv, HooksInOrder
    <3>4. QED
      BY <1>4, <3>2, <3>3
  <2>7. ASSUME NEW w \in recorded, NEW i \in HookPlaces(w)
        PROVE  /\ Owes(o, w, i) => IsKnown(w, i)'
               /\ \A p \in Openers \ {o} :
                     Owes(p, w, i) => <<w, opener[p].next>> \notin ran' \/ IsKnown(w, i)'
    <3>1. Owes(o, w, i) => IsKnown(w, i)'
      BY <1>1, <1>2, <1>10, <2>6 DEF Owes
    <3>2. ASSUME NEW p \in Openers \ {o}, Owes(p, w, i)
          PROVE  <<w, opener[p].next>> \notin ran' \/ IsKnown(w, i)'
      <4>1. CASE w = v /\ opener[p].next = n
        BY <1>10, <2>6, <3>2, <4>1 DEF Owes
      <4>2. CASE ~(w = v /\ opener[p].next = n)
        BY <1>4, <3>2, <4>2 DEF Owes
      <4>3. QED
        BY <4>1, <4>2
    <3>3. QED
      BY <3>1, <3>2
  <2>8. QED
    BY <1>7, <1>8, <1>9, <2>1, <2>4, <2>5, <2>7, WorkKeeps
<1>13. QED
  BY <1>11, <1>12

LEMMA RunHookKeeps ==
    ASSUME SchemaInv, NEW o \in Openers, RunHook(o)
    PROVE  SchemaInv'
  BY PartDoneKeeps DEF RunHook

(* A process that looks for a column owes what it owed before.             *)
LEMMA LookForColumnKeeps ==
    ASSUME SchemaInv, NEW o \in Openers, LookForColumn(o)
    PROVE  SchemaInv'
<1>1. PICK v \in 1..Target : v = opener[o].at
  BY DEF SchemaInv, AtWork, LookForColumn
<1>2. PICK n \in Nat : n = opener[o].next
  BY DEF SchemaInv, SchemaTypeOK
<1>3. opener[o].pc = "hook" /\ UNCHANGED <<ran, recorded, deaths, cut>>
  BY DEF LookForColumn
<1>4. CASE <<v, n>> \in ran
  <2>1. PartDone(o) /\ ran' = ran \cup {<<opener[o].at, opener[o].next>>}
    BY <1>1, <1>2, <1>3, <1>4 DEF LookForColumn
  <2>2. QED
    BY <1>3, <2>1, PartDoneKeeps
<1>5. CASE <<v, n>> \notin ran
  <2>1. SetOpener(o, "alter", v, n)
    BY <1>1, <1>2, <1>5 DEF LookForColumn
  <2>2. opener'[o] = [pc |-> "alter", at |-> v, next |-> n]
    BY <2>1 DEF SetOpener, SchemaInv, SchemaTypeOK
  <2>3. AtWork(o)'
    <3>1. AtWork(o)
      BY DEF SchemaInv
    <3>2. QED
      BY <1>1, <1>2, <1>3, <2>2, <3>1 DEF AtWork
  <2>4. \A w \in recorded : \A i \in HookPlaces(w) : Owes(o, w, i) => IsKnown(w, i)'
    <3>1. \A w \in recorded : \A i \in HookPlaces(w) : Owes(o, w, i) => Owes(o, w, i)'
      BY <1>1, <1>2, <1>3, <2>2 DEF Owes
    <3>2. QED
      BY <3>1 DEF IsKnown
  <2>5. "alter" \in OpenerPcs /\ v \in 1..(Target + 1) /\ ran' \subseteq AllSteps
    BY <1>3, TargetAssumption DEF OpenerPcs, SchemaInv, SchemaTypeOK
  <2>6. QED
    BY <1>3, <2>1, <2>3, <2>4, <2>5, PlainWorkKeeps
<1>6. QED
  BY <1>4, <1>5

LEMMA AddColumnKeeps ==
    ASSUME SchemaInv, NEW o \in Openers, AddColumn(o)
    PROVE  SchemaInv'
<1>1. opener[o].pc = "alter" /\ UNCHANGED <<recorded, deaths, cut>>
  BY DEF AddColumn
<1>2. CASE <<opener[o].at, opener[o].next>> \in ran
  <2>1. SetOpener(o, "failed", 1, 1) /\ ran' = ran
    BY <1>2 DEF AddColumn
  <2>2. \A v, i : ~Owes(o, v, i)
    BY <1>2 DEF Owes
  <2>3. cut' \subseteq AllSteps /\ deaths' \in 0..MaxDeaths
    BY <1>1 DEF SchemaInv, SchemaTypeOK
  <2>4. QED
    BY <1>1, <2>1, <2>2, <2>3, RestKeeps
<1>3. CASE <<opener[o].at, opener[o].next>> \notin ran
  BY <1>1, <1>3, PartDoneKeeps DEF AddColumn
<1>4. QED
  BY <1>2, <1>3

(* What a process owes is what its death cuts off.                         *)
LEMMA OwedIs ==
    ASSUME SchemaInv, NEW o \in Openers
    PROVE  /\ Owed(o) \subseteq AllSteps
           /\ \A v \in 1..Target : \A i \in HookPlaces(v) : Owes(o, v, i) => <<v, i>> \in Owed(o)
<1>1. CASE opener[o].pc \in {"hook", "alter"}
  <2>1. PICK v \in 1..Target : v = opener[o].at
    BY <1>1 DEF SchemaInv, AtWork
  <2>2. PICK n \in HookPlaces(v) : n = opener[o].next
    BY <1>1, <2>1 DEF SchemaInv, AtWork
  <2>3. /\ Owed(o) = {<<v, i>> : i \in n..LastPlace(v)}
        /\ n \in 1..LastPlace(v) /\ LastPlace(v) \in Nat /\ Len(Script[v]) \in Nat
    BY <1>1, <2>1, <2>2, StepsAre DEF Owed
  <2>4. Owed(o) \subseteq AllSteps
    <3>1. n..LastPlace(v) \subseteq 1..LastPlace(v)
      BY <2>3
    <3>2. QED
      BY <2>3, <3>1, StepsAre
  <2>5. ASSUME NEW w \in 1..Target, NEW i \in HookPlaces(w), Owes(o, w, i)
        PROVE  <<w, i>> \in Owed(o)
    <3>1. w = v /\ n <= i
      BY <2>1, <2>2, <2>5 DEF Owes
    <3>2. i \in n..LastPlace(v)
      BY <2>3, <3>1 DEF HookPlaces
    <3>3. QED
      BY <2>3, <3>1, <3>2
  <2>6. QED
    BY <2>4, <2>5
<1>2. CASE opener[o].pc \notin {"hook", "alter"}
  BY <1>2 DEF Owed, Owes
<1>3. QED
  BY <1>1, <1>2

LEMMA StepKeeps == SchemaInv /\ [SchemaNext]_schemaVars => SchemaInv'
<1> SUFFICES ASSUME SchemaInv, [SchemaNext]_schemaVars PROVE SchemaInv'
  OBVIOUS
<1> USE DEF OpenerPcs
<1>1. ASSUME NEW o \in Openers, Open(o) \/ Close(o) PROVE SchemaInv'
  <2>1. /\ SetOpener(o, "read", 1, 1) \/ SetOpener(o, "closed", 1, 1)
        /\ UNCHANGED <<ran, recorded, deaths, cut>>
        /\ opener[o].pc \notin {"hook", "alter"}
    BY <1>1 DEF Open, Close
  <2>2. cut' \subseteq AllSteps /\ deaths' \in 0..MaxDeaths
    BY <2>1 DEF SchemaInv, SchemaTypeOK
  <2>3. \A v, i : ~Owes(o, v, i)
    BY <2>1 DEF Owes
  <2>4. QED
    BY <2>1, <2>2, <2>3, RestKeeps
<1>2. ASSUME NEW o \in Openers, Die(o) PROVE SchemaInv'
  <2>1. SetOpener(o, "closed", 1, 1) /\ UNCHANGED <<ran, recorded>>
    BY <1>2 DEF Die
  <2>2. deaths' \in 0..MaxDeaths
    BY <1>2, DeathsAssumption DEF Die, SchemaInv, SchemaTypeOK
  <2>3. cut' = cut \cup Owed(o)
    BY <1>2 DEF Die
  <2>4. cut \subseteq cut' /\ cut' \subseteq AllSteps
    BY <2>3, OwedIs DEF SchemaInv, SchemaTypeOK
  <2>5. \A v \in recorded : \A i \in HookPlaces(v) : Owes(o, v, i) => <<v, i>> \in cut'
    BY <2>3, OwedIs DEF SchemaInv, SchemaTypeOK
  <2>6. QED
    BY <2>1, <2>2, <2>4, <2>5, RestKeeps
<1>3. CASE UNCHANGED schemaVars
  BY <1>3 DEF schemaVars, SchemaInv, SchemaTypeOK, RecordedUpTo, StatementsRan, AtWork,
              HooksInOrder, HooksAreKnown, IsKnown, Owes, UpToDate
<1>4. QED
  BY <1>1, <1>2, <1>3, ReadVersionKeeps, StatementKeeps, RecordVersionKeeps, RunHookKeeps,
     LookForColumnKeeps, AddColumnKeeps
     DEF SchemaNext

(* The inductive invariant of the migration, for every number of openers   *)
(* and of deaths, and every script.                                        *)
THEOREM SchemaInvariant == SchemaSpec => []SchemaInv
  BY InitIsSound, StepKeeps, PTL DEF SchemaSpec

-----------------------------------------------------------------------------

(* What the invariant says of a recorded version: its statements, and      *)
(* those of all versions before it, are in the database.                   *)
THEOREM RecordedMeansRunAlways == SchemaSpec => []RecordedMeansRun
<1>1. SchemaInv => RecordedMeansRun
  <2> SUFFICES ASSUME SchemaInv, NEW v \in recorded, NEW w \in 1..v,
                      NEW i \in 1..Len(Script[w])
               PROVE  <<w, i>> \in ran
    BY DEF RecordedMeansRun
  <2>1. PICK u \in 0..Target : recorded = 1..u
    BY DEF SchemaInv, RecordedUpTo
  <2>2. w \in recorded
    BY <2>1, TargetAssumption
  <2>3. QED
    BY <2>2 DEF SchemaInv, StatementsRan
<1>2. QED
  BY <1>1, SchemaInvariant, PTL

(* Whoever has the database open finds all of every version in it, but for *)
(* the parts of Python steps that a death cut off or that another process  *)
(* has still to run: two processes that add the same column at once leave  *)
(* nothing undone.                                                         *)
THEOREM OpenIsWhole == SchemaSpec => []OpenMeansWhole
<1>1. SchemaInv => OpenMeansWhole
  <2> SUFFICES ASSUME SchemaInv, NEW o \in Openers, opener[o].pc = "up",
                      NEW s \in AllSteps, s \notin ran
               PROVE  s \in cut \cup UNION {Owed(p) : p \in Openers}
    BY DEF OpenMeansWhole
  <2>1. PICK u \in 0..Target : recorded = 1..u
    BY DEF SchemaInv, RecordedUpTo
  <2>2. recorded = 1..Target
    BY <2>1, TargetAssumption DEF SchemaInv, UpToDate
  <2>3. PICK v \in 1..Target : s \in {<<v, i>> : i \in 1..LastPlace(v)}
    BY DEF AllSteps
  <2>4. PICK i \in 1..LastPlace(v) : s = <<v, i>>
    BY <2>3
  <2>5. i \notin 1..Len(Script[v])
    BY <2>2, <2>4 DEF SchemaInv, StatementsRan
  <2>6. v \in recorded /\ i \in HookPlaces(v)
    BY <2>2, <2>4, <2>5, StepsAre
  <2>7. IsKnown(v, i)
    BY <2>6 DEF SchemaInv, HooksAreKnown
  <2>8. s \in cut \/ \E p \in Openers : <<v, i>> \in Owed(p)
    BY <2>4, <2>6, <2>7, OwedIs DEF IsKnown
  <2>9. QED
    BY <2>4, <2>8
<1>2. QED
  BY <1>1, SchemaInvariant, PTL

-----------------------------------------------------------------------------
(* The result store: SavesAreAtomic for every number of request threads.   *)

(* What a save has inserted is pending or on the disk, and it is all       *)
(* pending as long as no other thread had a transaction open beside it.    *)

(* The rows a save has inserted when it is about to do its next step.      *)
RowsBefore(pc) == CASE pc = "bench"    -> {"run"}
                    [] pc = "rowid"    -> {"run", "bench"}
                    [] pc = "metrics"  -> {"run", "bench"}
                    [] pc = "hardware" -> {"run", "bench", "metrics"}
                    [] OTHER           -> ResultRows

Deleted(s) == \E c \in Cleaners : cleaner[c].pc # "new" /\ cleaner[c].of = s

SaveSound(s) ==
    /\ saver[s] = "new" => disk[s] = {} /\ pending[s] = {}
    /\ Saving(s) => pending[s] \cup disk[s] = RowsBefore(saver[s])
    /\ Saving(s) /\ s \notin rival => disk[s] = {}
    /\ saver[s] = "saved" => /\ pending[s] = {}
                             /\ disk[s] = ResultRows \/ (disk[s] = {} /\ Deleted(s))
    /\ saver[s] = "error" => s \in broken
    /\ saver[s] = "lost" => pending[s] = {} /\ (disk[s] = {} \/ s \in rival)

(* A row id that another save took is of a save that ran beside it.        *)
RowSound(s) ==
    /\ saver[s] = "rowid" => lastRow \ {s} \subseteq rival
    /\ benchOf[s] \ {s} \subseteq rival

(* Only results whose save is over are deleted.                            *)
RemovedSound == \A s \in removed : saver[s] \in {"saved", "error"} /\ Deleted(s)

(* Whoever shares the transaction of the connection is known as a rival.   *)
RivalsKnown ==
    /\ \A s, t \in Savers : Saving(s) /\ Saving(t) /\ s # t => s \in rival /\ t \in rival
    /\ \A s \in Savers : Saving(s) /\ Deleting => s \in rival

StoreTypes ==
    /\ saver \in [Savers -> SaverPcs]
    /\ cleaner \in [Cleaners -> [pc : {"new", "commit", "done", "lost"}, of : Savers]]
    /\ pending \in [Savers -> SUBSET ResultRows]
    /\ disk \in [Savers -> SUBSET ResultRows]
    /\ removed \subseteq Savers
    /\ benchOf \in [Savers -> SUBSET Savers]
    /\ lastRow \subseteq Savers

StoreInv ==
    /\ StoreTypes
    /\ \A s \in Savers : SaveSound(s)
    /\ \A s \in Savers : RowSound(s)
    /\ RemovedSound
    /\ RivalsKnown
    /\ strays \subseteq rival

-----------------------------------------------------------------------------

LEMMA StoreInitIsSound == StoreInit => StoreInv
  BY DEF StoreInit, StoreInv, StoreTypes, SaverPcs, SaveSound, RowSound, RemovedSound,
         RivalsKnown, Saving, Deleting

(* A save that inserts a row.                                              *)
LEMMA InsertKeeps ==
    ASSUME StoreInv, NEW s \in Savers, NEW r \in ResultRows, NEW pc,
           Saving(s), Insert(s, r, pc), pc \in {"rowid", "metrics", "hardware", "commit"},
           RowsBefore(pc) = RowsBefore(saver[s]) \cup {r},
           UNCHANGED <<cleaner, disk, removed, rival, broken>>
    PROVE  /\ saver' \in [Savers -> SaverPcs] /\ saver'[s] = pc
           /\ \A t \in Savers \ {s} : saver'[t] = saver[t]
           /\ pending' \in [Savers -> SUBSET ResultRows]
           /\ \A t \in Savers : SaveSound(t)' /\ (Saving(t)' <=> Saving(t))
           /\ RemovedSound' /\ RivalsKnown'
<1>1. StoreTypes
  BY DEF StoreInv
<1>2. /\ saver' \in [Savers -> SaverPcs] /\ saver'[s] = pc
      /\ \A t \in Savers \ {s} : saver'[t] = saver[t]
  BY <1>1 DEF Insert, StoreTypes, SaverPcs
<1>3. /\ pending' \in [Savers -> SUBSET ResultRows] /\ pending'[s] = pending[s] \cup {r}
      /\ \A t \in Savers \ {s} : pending'[t] = pending[t]
  BY <1>1 DEF Insert, StoreTypes
<1>4. ASSUME NEW t \in Savers PROVE SaveSound(t)' /\ (Saving(t)' <=> Saving(t))
  <2>1. SaveSound(t)
    BY DEF StoreInv
  <2>2. CASE t = s
    <3>1. Saving(s)' /\ saver'[s] \notin {"new", "saved", "error", "lost"}
      BY <1>2 DEF Saving
    <3>2. pending'[s] \cup disk'[s] = RowsBefore(saver'[s])
      <4>1. pending[s] \cup disk[s] = RowsBefore(saver[s])
        BY <2>1, <2>2 DEF SaveSound
      <4>2. QED
        BY <1>2, <1>3, <4>1
    <3>3. s \notin rival' => disk'[s] = {}
      BY <2>1, <2>2 DEF SaveSound
    <3>4. QED
      BY <2>2, <3>1, <3>2, <3>3 DEF SaveSound
  <2>3. CASE t # s
    BY <1>2, <1>3, <2>1, <2>3 DEF SaveSound, Saving, Deleted
  <2>4. QED
    BY <2>2, <2>3
<1>5. RemovedSound'
  <2>1. s \notin removed
    BY DEF StoreInv, RemovedSound, Saving
  <2>2. QED
    BY <1>1, <1>2, <2>1 DEF StoreInv, RemovedSound, Deleted, StoreTypes
<1>6. RivalsKnown'
  BY <1>4 DEF StoreInv, RivalsKnown, Deleting
<1>7. QED
  BY <1>2, <1>3, <1>4, <1>5, <1>6

LEMMA SaveRunKeeps ==
    ASSUME StoreInv, NEW s \in Savers, SaveRun(s)
    PROVE  StoreInv'
<1>1. StoreTypes /\ saver[s] = "new"
  BY DEF StoreInv, SaveRun
<1>2. /\ saver' \in [Savers -> SaverPcs] /\ saver'[s] = "bench"
      /\ \A t \in Savers \ {s} : saver'[t] = saver[t]
  BY <1>1 DEF SaveRun, Insert, StoreTypes, SaverPcs
<1>3. /\ pending' \in [Savers -> SUBSET ResultRows] /\ pending'[s] = pending[s] \cup {"run"}
      /\ \A t \in Savers \ {s} : pending'[t] = pending[t]
  BY <1>1 DEF SaveRun, Insert, StoreTypes, ResultRows
<1>4. UNCHANGED <<cleaner, disk, removed, lastRow, benchOf, strays, broken>>
  BY DEF SaveRun
<1>5. /\ rival \subseteq rival'
      /\ \A t \in Savers : Saving(t) => s \in rival' /\ t \in rival'
      /\ Deleting => s \in rival'
  BY DEF SaveRun
<1>6. StoreTypes'
  BY <1>1, <1>2, <1>3, <1>4 DEF StoreTypes
<1>7. ASSUME NEW t \in Savers PROVE SaveSound(t)'
  <2>1. SaveSound(t)
    BY DEF StoreInv
  <2>2. CASE t = s
    <3>1. pending'[s] = {"run"} /\ disk'[s] = {}
      BY <1>1, <1>3, <1>4, <2>1, <2>2 DEF SaveSound
    <3>2. QED
      BY <1>2, <2>2, <3>1 DEF SaveSound, RowsBefore
  <2>3. CASE t # s
    BY <1>2, <1>3, <1>4, <1>5, <2>1, <2>3 DEF SaveSound, Saving, Deleted
  <2>4. QED
    BY <2>2, <2>3
<1>8. \A t \in Savers : RowSound(t)'
  BY <1>2, <1>4, <1>5 DEF StoreInv, RowSound
<1>9. RemovedSound'
  BY <1>1, <1>2, <1>4 DEF StoreInv, RemovedSound, Deleted, StoreTypes
<1>10. RivalsKnown'
  <2>1. \A t \in Savers \ {s} : Saving(t)' <=> Saving(t)
    BY <1>2 DEF Saving
  <2>2. Deleting' <=> Deleting
    BY <1>4 DEF Deleting
  <2>3. QED
    BY <1>5, <2>1, <2>2 DEF StoreInv, RivalsKnown
<1>11. strays' \subseteq rival'
  BY <1>4, <1>5 DEF StoreInv
<1>12. QED
  BY <1>6, <1>7, <1>8, <1>9, <1>10, <1>11 DEF StoreInv

LEMMA SaveRowsKeeps ==
    ASSUME StoreInv, NEW s \in Savers, SaveBenchmark(s) \/ SaveMetrics(s) \/ SaveHardware(s)
    PROVE  StoreInv'
<1>1. StoreTypes /\ RivalsKnown /\ strays \subseteq rival /\ \A t \in Savers : RowSound(t)
  BY DEF StoreInv
<1>2. CASE SaveBenchmark(s)
  <2>1. /\ saver[s] = "bench" /\ Insert(s, "bench", "rowid") /\ lastRow' = {s}
        /\ UNCHANGED <<cleaner, disk, removed, benchOf, strays, rival, broken>>
    BY <1>2 DEF SaveBenchmark, storeHistory
  <2>2. Saving(s) /\ RowsBefore("rowid") = RowsBefore(saver[s]) \cup {"bench"}
    BY <2>1 DEF Saving, RowsBefore
  <2>3. /\ saver' \in [Savers -> SaverPcs] /\ pending' \in [Savers -> SUBSET ResultRows]
        /\ \A t \in Savers \ {s} : saver'[t] = saver[t]
        /\ \A t \in Savers : SaveSound(t)' /\ (Saving(t)' <=> Saving(t))
        /\ RemovedSound' /\ RivalsKnown'
    BY <2>1, <2>2, InsertKeeps DEF ResultRows
  <2>4. ASSUME NEW t \in Savers PROVE RowSound(t)'
    <3>1. t # s /\ saver'[t] = "rowid" => s \in rival
      BY <1>1, <2>2, <2>3 DEF RivalsKnown, Saving
    <3>2. QED
      BY <1>1, <2>1, <3>1 DEF RowSound
  <2>5. StoreTypes'
    BY <1>1, <2>1, <2>3 DEF StoreTypes
  <2>6. QED
    BY <1>1, <2>1, <2>3, <2>4, <2>5 DEF StoreInv
<1>3. CASE SaveMetrics(s)
  <2>1. /\ saver[s] = "metrics" /\ Insert(s, "metrics", "hardware")
        /\ strays' = strays \cup (benchOf[s] \ {s})
        /\ UNCHANGED <<cleaner, disk, removed, lastRow, benchOf, rival, broken>>
    BY <1>3 DEF SaveMetrics, storeHistory
  <2>2. Saving(s) /\ RowsBefore("hardware") = RowsBefore(saver[s]) \cup {"metrics"}
    BY <2>1 DEF Saving, RowsBefore
  <2>3. /\ saver' \in [Savers -> SaverPcs] /\ pending' \in [Savers -> SUBSET ResultRows]
        /\ saver'[s] = "hardware"
        /\ \A t \in Savers \ {s} : saver'[t] = saver[t]
        /\ \A t \in Savers : SaveSound(t)'
        /\ RemovedSound' /\ RivalsKnown'
    BY <2>1, <2>2, InsertKeeps DEF ResultRows
  <2>4. \A t \in Savers : RowSound(t)'
    BY <1>1, <2>1, <2>3 DEF RowSound
  <2>5. strays' \subseteq rival'
    BY <1>1, <2>1 DEF RowSound
  <2>6. StoreTypes'
    BY <1>1, <2>1, <2>3 DEF StoreTypes
  <2>7. QED
    BY <2>3, <2>4, <2>5, <2>6 DEF StoreInv
<1>4. CASE SaveHardware(s)
  <2>1. /\ saver[s] = "hardware" /\ Insert(s, "hardware", "commit")
        /\ UNCHANGED <<cleaner, disk, removed, lastRow, benchOf, strays, rival, broken>>
    BY <1>4 DEF SaveHardware, storeHistory
  <2>2. Saving(s) /\ RowsBefore("commit") = RowsBefore(saver[s]) \cup {"hardware"}
    BY <2>1 DEF Saving, RowsBefore, ResultRows
  <2>3. /\ saver' \in [Savers -> SaverPcs] /\ pending' \in [Savers -> SUBSET ResultRows]
        /\ saver'[s] = "commit"
        /\ \A t \in Savers \ {s} : saver'[t] = saver[t]
        /\ \A t \in Savers : SaveSound(t)'
        /\ RemovedSound' /\ RivalsKnown'
    BY <2>1, <2>2, InsertKeeps DEF ResultRows
  <2>4. \A t \in Savers : RowSound(t)'
    BY <1>1, <2>1, <2>3 DEF RowSound
  <2>5. StoreTypes'
    BY <1>1, <2>1, <2>3 DEF StoreTypes
  <2>6. QED
    BY <1>1, <2>1, <2>3, <2>4, <2>5 DEF StoreInv
<1>5. QED
  BY <1>2, <1>3, <1>4

LEMMA LastRowIdKeeps ==
    ASSUME StoreInv, NEW s \in Savers, LastRowId(s)
    PROVE  StoreInv'
<1>1. StoreTypes /\ saver[s] = "rowid" /\ RowSound(s)
  BY DEF StoreInv, LastRowId
<1>2. /\ saver' \in [Savers -> SaverPcs] /\ saver'[s] = "metrics"
      /\ \A t \in Savers \ {s} : saver'[t] = saver[t]
  BY <1>1 DEF LastRowId, StoreTypes, SaverPcs
<1>3. /\ benchOf' \in [Savers -> SUBSET Savers] /\ benchOf'[s] = lastRow
      /\ \A t \in Savers \ {s} : benchOf'[t] = benchOf[t]
  BY <1>1 DEF LastRowId, StoreTypes
<1>4. UNCHANGED <<cleaner, pending, disk, removed, lastRow, strays, rival, broken>>
  BY DEF LastRowId, connection, storeHistory
<1>5. \A t \in Savers : Saving(t)' <=> Saving(t)
  BY <1>1, <1>2 DEF Saving
<1>6. StoreTypes'
  BY <1>1, <1>2, <1>3, <1>4 DEF StoreTypes
<1>7. ASSUME NEW t \in Savers PROVE SaveSound(t)'
  <2>1. SaveSound(t)
    BY DEF StoreInv
  <2>2. CASE t = s
    BY <1>1, <1>2, <1>4, <2>1, <2>2 DEF SaveSound, Saving, RowsBefore
  <2>3. CASE t # s
    BY <1>2, <1>4, <2>1, <2>3 DEF SaveSound, Saving, Deleted
  <2>4. QED
    BY <2>2, <2>3
<1>8. ASSUME NEW t \in Savers PROVE RowSound(t)'
  <2>1. RowSound(t)
    BY DEF StoreInv
  <2>2. QED
    BY <1>1, <1>2, <1>3, <1>4, <2>1 DEF RowSound
<1>9. RemovedSound'
  BY <1>1, <1>2, <1>4 DEF StoreInv, RemovedSound, Deleted, StoreTypes
<1>10. RivalsKnown'
  BY <1>4, <1>5 DEF StoreInv, RivalsKnown, Deleting
<1>11. QED
  BY <1>4, <1>6, <1>7, <1>8, <1>9, <1>10 DEF StoreInv

LEMMA SaveRaisesKeeps ==
    ASSUME StoreInv, NEW s \in Savers, SaveRaises(s)
    PROVE  StoreInv'
<1>1. StoreTypes /\ saver[s] \in {"bench", "metrics", "hardware"}
  BY DEF StoreInv, SaveRaises
<1>2. /\ saver' \in [Savers -> SaverPcs] /\ saver'[s] = "error"
      /\ \A t \in Savers \ {s} : saver'[t] = saver[t]
  BY <1>1 DEF SaveRaises, StoreTypes, SaverPcs
<1>3. /\ UNCHANGED <<cleaner, pending, disk, removed, lastRow, benchOf, strays, rival>>
      /\ broken' = broken \cup {s}
  BY DEF SaveRaises, connection
<1>4. \A t \in Savers : Saving(t)' => Saving(t)
  BY <1>2 DEF Saving
<1>5. StoreTypes'
  BY <1>1, <1>2, <1>3 DEF StoreTypes
<1>6. ASSUME NEW t \in Savers PROVE SaveSound(t)'
  <2>1. SaveSound(t)
    BY DEF StoreInv
  <2>2. CASE t = s
    BY <1>2, <1>3, <2>2 DEF SaveSound, Saving
  <2>3. CASE t # s
    BY <1>2, <1>3, <2>1, <2>3 DEF SaveSound, Saving, Deleted
  <2>4. QED
    BY <2>2, <2>3
<1>7. \A t \in Savers : RowSound(t)'
  BY <1>2, <1>3 DEF StoreInv, RowSound
<1>8. RemovedSound'
  BY <1>1, <1>2, <1>3 DEF StoreInv, RemovedSound, Deleted, StoreTypes
<1>9. RivalsKnown'
  BY <1>3, <1>4 DEF StoreInv, RivalsKnown, Deleting
<1>10. QED
  BY <1>3, <1>5, <1>6, <1>7, <1>8, <1>9 DEF StoreInv

-----------------------------------------------------------------------------

(* A commit of a thread that saves or deletes, for a save of another one:  *)
(* what it inserted so far is on the disk, and it is known as a rival.     *)
LEMMA CommitAllKeeps ==
    ASSUME StoreInv, NEW t \in Savers, CommitAll, saver'[t] = saver[t],
           Deleted(t) => Deleted(t)', Saving(t) => t \in rival, rival' = rival, broken' = broken
    PROVE  SaveSound(t)'
<1>1. StoreTypes /\ SaveSound(t)
  BY DEF StoreInv
<1>2. /\ disk'[t] = (IF t \in removed THEN {} ELSE disk[t]) \cup pending[t]
      /\ pending'[t] = {}
  BY DEF CommitAll
<1>3. CASE t \in removed
  <2>1. saver[t] \in {"saved", "error"} /\ Deleted(t)
    BY <1>3 DEF StoreInv, RemovedSound
  <2>2. QED
    BY <1>1, <1>2, <1>3, <2>1 DEF SaveSound, Saving
<1>4. CASE t \notin removed
  <2>1. disk'[t] = pending[t] \cup disk[t]
    BY <1>2, <1>4
  <2>2. Saving(t)' <=> Saving(t)
    BY DEF Saving
  <2>3. QED
    BY <1>1, <1>2, <2>1, <2>2 DEF SaveSound
<1>5. QED
  BY <1>3, <1>4

LEMMA CommitTypes ==
    ASSUME StoreTypes, CommitAll
    PROVE  /\ pending' \in [Savers -> SUBSET ResultRows]
           /\ disk' \in [Savers -> SUBSET ResultRows]
           /\ removed' = {} /\ lastRow' = lastRow
  BY DEF StoreTypes, CommitAll

LEMMA SaveCommitsKeeps ==
    ASSUME StoreInv, NEW s \in Savers, SaveCommits(s)
    PROVE  StoreInv'
<1>1. StoreTypes /\ RivalsKnown /\ saver[s] = "commit" /\ Saving(s) /\ CommitAll
  BY DEF StoreInv, SaveCommits, Saving
<1>2. /\ saver' \in [Savers -> SaverPcs] /\ saver'[s] = "saved"
      /\ \A t \in Savers \ {s} : saver'[t] = saver[t]
  BY <1>1 DEF SaveCommits, StoreTypes, SaverPcs
<1>3. UNCHANGED <<cleaner, benchOf, strays, rival, broken>>
  BY DEF SaveCommits
<1>4. \A t \in Savers : Saving(t)' => Saving(t)
  BY <1>2 DEF Saving
<1>5. StoreTypes'
  BY <1>1, <1>2, <1>3, CommitTypes DEF StoreTypes
<1>6. ASSUME NEW t \in Savers PROVE SaveSound(t)'
  <2>1. CASE t = s
    <3>1. s \notin removed
      BY <1>1 DEF StoreInv, RemovedSound
    <3>2. pending[s] \cup disk[s] = ResultRows
      BY <1>1 DEF StoreInv, SaveSound, RowsBefore
    <3>3. disk'[s] = ResultRows /\ pending'[s] = {}
      BY <1>1, <3>1, <3>2 DEF CommitAll
    <3>4. QED
      BY <1>2, <2>1, <3>3 DEF SaveSound, Saving
  <2>2. CASE t # s
    <3>1. Saving(t) => t \in rival
      BY <1>1, <2>2 DEF RivalsKnown
    <3>2. Deleted(t) => Deleted(t)'
      BY <1>3 DEF Deleted
    <3>3. QED
      BY <1>1, <1>2, <1>3, <2>2, <3>1, <3>2, CommitAllKeeps
  <2>3. QED
    BY <2>1, <2>2
<1>7. \A t \in Savers : RowSound(t)'
  BY <1>1, <1>2, <1>3, CommitTypes DEF StoreInv, RowSound
<1>8. RemovedSound' /\ RivalsKnown'
  BY <1>1, <1>3, <1>4, CommitTypes DEF RemovedSound, RivalsKnown, Deleting
<1>9. QED
  BY <1>3, <1>5, <1>6, <1>7, <1>8 DEF StoreInv

LEMMA DeleteRunKeeps ==
    ASSUME StoreInv, NEW c \in Cleaners, DeleteRun(c)
    PROVE  StoreInv'
<1>1. StoreTypes /\ cleaner[c].of \in Savers
  BY DEF StoreInv, StoreTypes
<1> PICK s \in Savers : s = cleaner[c].of
  BY <1>1
<1>2. /\ saver[s] \in {"saved", "error"} /\ removed' = removed \cup {s}
      /\ rival' = rival \cup {t \in Savers : Saving(t)}
      /\ UNCHANGED <<saver, disk, lastRow, benchOf, strays, broken>>
  BY DEF DeleteRun
<1>3. /\ cleaner' \in [Cleaners -> [pc : {"new", "commit", "done", "lost"}, of : Savers]]
      /\ cleaner'[c].pc = "commit" /\ cleaner'[c].of = s
      /\ \A d \in Cleaners \ {c} : cleaner'[d] = cleaner[d]
  BY <1>1 DEF DeleteRun, StoreTypes
<1>4. /\ pending' \in [Savers -> SUBSET ResultRows] /\ pending'[s] = {}
      /\ \A t \in Savers \ {s} : pending'[t] = pending[t]
  BY <1>1 DEF DeleteRun, StoreTypes
<1>5. \A t \in Savers : (Saving(t)' <=> Saving(t)) /\ (Deleted(t) => Deleted(t)')
  BY <1>2, <1>3 DEF Saving, Deleted
<1>6. Deleted(s)'
  BY <1>3 DEF Deleted
<1>7. StoreTypes'
  BY <1>1, <1>2, <1>3, <1>4 DEF StoreTypes
<1>8. ASSUME NEW t \in Savers PROVE SaveSound(t)'
  <2>1. SaveSound(t)
    BY DEF StoreInv
  <2>2. CASE t = s
    BY <1>2, <1>4, <1>5, <2>1, <2>2 DEF SaveSound, Saving
  <2>3. CASE t # s
    BY <1>2, <1>4, <1>5, <2>1, <2>3 DEF SaveSound
  <2>4. QED
    BY <2>2, <2>3
<1>9. \A t \in Savers : RowSound(t)'
  BY <1>2 DEF StoreInv, RowSound
<1>10. RemovedSound'
  BY <1>1, <1>2, <1>5, <1>6 DEF StoreInv, RemovedSound, StoreTypes
<1>11. RivalsKnown'
  BY <1>2, <1>5 DEF StoreInv, RivalsKnown
<1>12. QED
  BY <1>2, <1>7, <1>8, <1>9, <1>10, <1>11 DEF StoreInv

LEMMA DeleteCommitsKeeps ==
    ASSUME StoreInv, NEW c \in Cleaners, DeleteCommits(c)
    PROVE  StoreInv'
<1>1. StoreTypes /\ RivalsKnown /\ CommitAll /\ Deleting
  BY DEF StoreInv, DeleteCommits, Deleting
<1>2. /\ cleaner' \in [Cleaners -> [pc : {"new", "commit", "done", "lost"}, of : Savers]]
      /\ \A d \in Cleaners : /\ cleaner'[d].of = cleaner[d].of
                             /\ cleaner[d].pc # "new" => cleaner'[d].pc # "new"
                             /\ cleaner'[d].pc = "commit" => cleaner[d].pc = "commit"
  <2>1. \A d \in Cleaners : cleaner[d] \in [pc : {"new", "commit", "done", "lost"}, of : Savers]
    BY <1>1 DEF StoreTypes
  <2>2. QED
    BY <1>1, <2>1 DEF DeleteCommits, StoreTypes
<1>3. UNCHANGED <<saver, benchOf, strays, rival, broken>>
  BY DEF DeleteCommits
<1>4. \A t \in Savers : (Saving(t)' <=> Saving(t)) /\ (Deleted(t) => Deleted(t)')
  BY <1>2, <1>3 DEF Saving, Deleted
<1>5. StoreTypes'
  BY <1>1, <1>2, <1>3, CommitTypes DEF StoreTypes
<1>6. \A t \in Savers : SaveSound(t)'
  BY <1>1, <1>3, <1>4, CommitAllKeeps DEF RivalsKnown
<1>7. \A t \in Savers : RowSound(t)'
  BY <1>1, <1>3, CommitTypes DEF StoreInv, RowSound
<1>8. RemovedSound'
  BY <1>1, CommitTypes DEF RemovedSound
<1>9. RivalsKnown'
  BY <1>1, <1>3, <1>4 DEF RivalsKnown
<1>10. QED
  BY <1>3, <1>5, <1>6, <1>7, <1>8, <1>9 DEF StoreInv

LEMMA RestartKeeps ==
    ASSUME StoreInv, RestartStore
    PROVE  StoreInv'
<1>1. StoreTypes
  BY DEF StoreInv
<1>2. /\ saver' \in [Savers -> SaverPcs]
      /\ \A t \in Savers : /\ ~Saving(t)'
                           /\ Saving(t) => saver'[t] = "lost"
                           /\ ~Saving(t) => saver'[t] = saver[t]
  BY <1>1 DEF RestartStore, StoreTypes, SaverPcs, Saving
<1>3. /\ cleaner' \in [Cleaners -> [pc : {"new", "commit", "done", "lost"}, of : Savers]]
      /\ \A d \in Cleaners : /\ cleaner'[d].of = cleaner[d].of
                             /\ cleaner[d].pc # "new" => cleaner'[d].pc # "new"
  <2>1. \A d \in Cleaners : cleaner[d] \in [pc : {"new", "commit", "done", "lost"}, of : Savers]
    BY <1>1 DEF StoreTypes
  <2>2. QED
    BY <1>1, <2>1 DEF RestartStore, StoreTypes
<1>4. /\ \A t \in Savers : pending'[t] = {}
      /\ pending' \in [Savers -> SUBSET ResultRows]
      /\ removed' = {} /\ lastRow' = {}
      /\ UNCHANGED <<disk, benchOf, strays, rival, broken>>
  BY DEF RestartStore
<1>5. StoreTypes'
  BY <1>1, <1>2, <1>3, <1>4 DEF StoreTypes
<1>6. ASSUME NEW t \in Savers PROVE SaveSound(t)'
  <2>1. SaveSound(t) /\ (Deleted(t) => Deleted(t)')
    BY <1>3 DEF StoreInv, Deleted
  <2>2. QED
    BY <1>2, <1>4, <2>1 DEF SaveSound
<1>7. \A t \in Savers : RowSound(t)'
  BY <1>4 DEF StoreInv, RowSound
<1>8. RemovedSound' /\ RivalsKnown'
  BY <1>2, <1>4 DEF RemovedSound, RivalsKnown
<1>9. QED
  BY <1>4, <1>5, <1>6, <1>7, <1>8 DEF StoreInv

-----------------------------------------------------------------------------

LEMMA StoreStep == StoreInv /\ [StoreNext]_storeVars => StoreInv'
<1> SUFFICES ASSUME StoreInv, [StoreNext]_storeVars PROVE StoreInv'
  OBVIOUS
<1>1. ASSUME UNCHANGED <<saver, cleaner, connection, benchOf, strays, storeHistory>>
      PROVE  StoreInv'
  BY <1>1 DEF connection, storeHistory, StoreInv, StoreTypes, SaveSound, RowSound, RemovedSound,
              RivalsKnown, Saving, Deleting, Deleted
<1>2. CASE UNCHANGED storeVars
  BY <1>1, <1>2 DEF storeVars, connection, storeHistory
<1>3. ASSUME NEW w \in Writers, Write(w) PROVE StoreInv'
  BY <1>1, <1>3 DEF Write
<1>4. QED
  BY <1>2, <1>3, SaveRunKeeps, SaveRowsKeeps, LastRowIdKeeps, SaveRaisesKeeps, SaveCommitsKeeps,
     DeleteRunKeeps, DeleteCommitsKeeps, RestartKeeps DEF StoreNext

(* The invariant of the shared connection, by induction over its           *)
(* statements: what is saved is pending or stored, and who shares the      *)
(* transaction is known.                                                   *)
THEOREM StoreInvariant == StoreSpec => []StoreInv
<1>1. QED
  BY StoreInitIsSound, StoreStep, PTL DEF StoreSpec

(* A save of any number of request threads is all or nothing: on the disk  *)
(* as a whole once save_result returns, and never half of it unless it     *)
(* raised or another thread used the connection beside it.                 *)
THEOREM SavesAreAtomicAlways == StoreSpec => []SavesAreAtomic
<1>1. StoreInv => AcknowledgedIsStored
  BY DEF StoreInv, SaveSound, AcknowledgedIsStored, Deleted
<1>2. StoreInv => PartialIsExplained
  <2> SUFFICES ASSUME StoreInv, NEW s \in Savers, disk[s] \notin {{}, ResultRows}
               PROVE  s \in rival \cup broken
    BY DEF PartialIsExplained, StoreInv
  <2>1. SaveSound(s) /\ saver[s] \in SaverPcs
    BY DEF StoreInv, StoreTypes
  <2>2. QED
    BY <2>1 DEF SaveSound, Saving, SaverPcs
<1>3. QED
  BY <1>1, <1>2, StoreInvariant, PTL DEF SavesAreAtomic

-----------------------------------------------------------------------------
(* Event streams.                                                          *)

(* Rising sequences of event numbers: what a head, an end and the first    *)
(* part of one are.                                                        *)
LEMMA RestOfQueue ==
    ASSUME NEW s \in Seq(Nat), s # <<>>, InOrder(s)
    PROVE  /\ Head(s) \in Nat /\ Tail(s) \in Seq(Nat) /\ InOrder(Tail(s))
           /\ ToSet(s) = {Head(s)} \cup ToSet(Tail(s))
           /\ \A e \in ToSet(Tail(s)) : Head(s) < e
<1>1. /\ Head(s) \in Nat /\ Head(s) = s[1] /\ Tail(s) \in Seq(Nat) /\ Len(Tail(s)) = Len(s) - 1
      /\ \A i \in 1..Len(Tail(s)) : Tail(s)[i] = s[i + 1]
      /\ Len(s) \in Nat \ {0} /\ DOMAIN s = 1..Len(s) /\ DOMAIN Tail(s) = 1..(Len(s) - 1)
  BY HeadTailProperties, EmptySeq, LenProperties
<1>2. ToSet(s) = {Head(s)} \cup ToSet(Tail(s))
  <2>1. ASSUME NEW i \in 1..Len(s) PROVE s[i] = Head(s) \/ s[i] \in ToSet(Tail(s))
    <3>1. i = 1 \/ (i - 1 \in 1..(Len(s) - 1) /\ s[i] = Tail(s)[i - 1])
      BY <1>1
    <3>2. QED
      BY <1>1, <3>1 DEF ToSet
  <2>2. ASSUME NEW i \in 1..(Len(s) - 1) PROVE Tail(s)[i] \in ToSet(s)
    <3>1. i + 1 \in 1..Len(s) /\ Tail(s)[i] = s[i + 1]
      BY <1>1
    <3>2. QED
      BY <1>1, <3>1 DEF ToSet
  <2>3. ToSet(s) \subseteq {Head(s)} \cup ToSet(Tail(s))
    BY <1>1, <2>1 DEF ToSet
  <2>4. Head(s) \in ToSet(s)
    BY <1>1 DEF ToSet
  <2>5. ToSet(Tail(s)) \subseteq ToSet(s)
    <3>1. \A e \in ToSet(Tail(s)) : \E i \in 1..(Len(s) - 1) : e = Tail(s)[i]
      BY <1>1 DEF ToSet
    <3>2. QED
      BY <2>2, <3>1
  <2>6. QED
    BY <2>3, <2>4, <2>5
<1>3. InOrder(Tail(s)) /\ \A e \in ToSet(Tail(s)) : Head(s) < e
  BY <1>1 DEF InOrder, ToSet
<1>4. QED
  BY <1>1, <1>2, <1>3

LEMMA NextInQueue ==
    ASSUME NEW s \in Seq(Nat), NEW e \in Nat, InOrder(s), \A f \in ToSet(s) : f < e
    PROVE  /\ Append(s, e) \in Seq(Nat) /\ InOrder(Append(s, e))
           /\ ToSet(Append(s, e)) = ToSet(s) \cup {e}
<1>1. /\ Append(s, e) \in Seq(Nat) /\ Len(Append(s, e)) = Len(s) + 1
      /\ \A i \in 1..Len(s) : Append(s, e)[i] = s[i]
      /\ Append(s, e)[Len(s) + 1] = e
      /\ Len(s) \in Nat /\ DOMAIN s = 1..Len(s) /\ DOMAIN Append(s, e) = 1..(Len(s) + 1)
  BY AppendProperties, LenProperties
<1>2. \A i \in 1..Len(s) : s[i] \in ToSet(s)
  BY <1>1 DEF ToSet
<1>3. \A i \in 1..(Len(s) + 1) : Append(s, e)[i] \in ToSet(s) \cup {e}
  BY <1>1, <1>2
<1>4. \A f \in ToSet(s) \cup {e} : \E i \in 1..(Len(s) + 1) : Append(s, e)[i] = f
  BY <1>1 DEF ToSet
<1>5. ToSet(Append(s, e)) = ToSet(s) \cup {e}
  BY <1>1, <1>3, <1>4 DEF ToSet
<1>6. InOrder(Append(s, e))
  <2>1. ASSUME NEW i \in 1..Len(s) PROVE Append(s, e)[i] = s[i] /\ s[i] < e
    BY <1>1, <1>2
  <2>2. \A i, j \in 1..Len(s) : i < j => Append(s, e)[i] < Append(s, e)[j]
    BY <2>1 DEF InOrder
  <2>3. QED
    BY <1>1, <2>1, <2>2 DEF InOrder
<1>7. QED
  BY <1>1, <1>5, <1>6

LEMMA NumbersOnly ==
    ASSUME NEW s \in Seq(Nat) PROVE ToSet(s) \subseteq Nat
  BY ElementOfSeq, LenProperties DEF ToSet

LEMMA NoEvents == <<>> \in Seq(Nat) /\ ToSet(<<>>) = {} /\ InOrder(<<>>) /\ Len(<<>>) = 0
  BY DEF ToSet, InOrder

-----------------------------------------------------------------------------

SubStates == [pc : {"away", "loaded", "on"}, seen : Nat, since : Nat, got : Seq(Nat),
              dropped : SUBSET Nat]

StreamTypes ==
    /\ replays \in BOOLEAN
    /\ source \in Seq(Sources) /\ Len(source) <= MaxEvents
    /\ history \in Seq(Nat)
    /\ queue \in [Subscribers -> Seq(Nat)]
    /\ sub \in [Subscribers -> SubStates]

(* The history has the numbers of the last events, up to its bound; a log  *)
(* has one source.                                                         *)
HistoryIsRecent ==
    /\ Len(history) = IF Len(source) > HistoryMax THEN HistoryMax ELSE Len(source)
    /\ \A i \in 1..Len(history) : history[i] = Len(source) - Len(history) + i
    /\ replays => \A e \in 1..Len(source) : source[e] = Mine

(* What a subscriber got comes before what its queue holds; the two and    *)
(* what was dropped share nothing and have every event of the source since *)
(* the subscription.                                                       *)
HeardOrQueued(x, q) ==
    /\ InOrder(x.got) /\ InOrder(q)
    /\ \A e \in ToSet(x.got), f \in ToSet(q) : e < f
    /\ \A e \in ToSet(x.got) \cup ToSet(q) : e > x.since /\ e <= Len(source)
    /\ \A e \in ToSet(x.got) : source[e] = Mine
    /\ x.dropped \cap (ToSet(x.got) \cup ToSet(q)) = {} /\ x.dropped \subseteq 1..Len(source)
    /\ \A e \in 1..Len(source) : e > x.since /\ source[e] = Mine =>
           e \in ToSet(x.got) \cup ToSet(q) \cup x.dropped
    /\ x.since <= Len(source)
    /\ replays /\ x.since > 0 => Len(source) > HistoryMax

StreamInv ==
    /\ StreamTypes
    /\ HistoryIsRecent
    /\ \A s \in Subscribers :
          IF sub[s].pc = "on" THEN HeardOrQueued(sub[s], queue[s])
          ELSE sub[s].got = <<>> /\ queue[s] = <<>>

-----------------------------------------------------------------------------

LEMMA StreamInitIsSound == StreamInit => StreamInv
  BY SizesAssumption, NoEvents
     DEF StreamInit, StreamInv, StreamTypes, HistoryIsRecent, Away, SubStates

LEMMA StreamIsTyped ==
    ASSUME StreamInv
    PROVE  /\ Len(source) \in Nat /\ Len(history) \in Nat /\ HistoryMax \in Nat /\ HistoryMax > 0
           /\ QueueMax \in Nat /\ QueueMax > 0 /\ MaxEvents \in Nat
           /\ \A s \in Subscribers : sub[s] \in SubStates /\ queue[s] \in Seq(Nat)
  BY SizesAssumption, LenProperties DEF StreamInv, StreamTypes

(* One subscriber goes on to x with queue q; nothing is published.         *)
LEMMA SubscriberGoesOn ==
    ASSUME StreamInv, NEW s \in Subscribers, NEW x \in SubStates, NEW q \in Seq(Nat),
           sub' = [sub EXCEPT ![s] = x], queue' = [queue EXCEPT ![s] = q],
           UNCHANGED <<replays, source, history>>,
           IF x.pc = "on" THEN HeardOrQueued(x, q) ELSE x.got = <<>> /\ q = <<>>
    PROVE  StreamInv'
<1>1. /\ sub' \in [Subscribers -> SubStates] /\ queue' \in [Subscribers -> Seq(Nat)]
      /\ sub'[s] = x /\ queue'[s] = q
      /\ \A t \in Subscribers : t # s => sub'[t] = sub[t] /\ queue'[t] = queue[t]
  BY DEF StreamInv, StreamTypes
<1>2. StreamTypes' /\ HistoryIsRecent'
  BY <1>1 DEF StreamInv, StreamTypes, HistoryIsRecent
<1>3. \A t \in Subscribers : IF sub'[t].pc = "on" THEN HeardOrQueued(sub[t], queue[t])'
                             ELSE sub'[t].got = <<>> /\ queue'[t] = <<>>
  BY <1>1 DEF StreamInv, HeardOrQueued
<1>4. QED
  BY <1>2, <1>3 DEF StreamInv

LEMMA LoadKeeps == ASSUME StreamInv, NEW s \in Subscribers, LoadPage(s) PROVE StreamInv'
<1> DEFINE x == [Away EXCEPT !.pc = "loaded", !.seen = Len(source)]
<1>1. x \in SubStates /\ x.pc = "loaded" /\ x.got = <<>>
  BY StreamIsTyped, NoEvents DEF Away, SubStates
<1>2. queue[s] = <<>> /\ queue' = [queue EXCEPT ![s] = <<>>]
  BY DEF LoadPage, StreamInv, StreamTypes
<1>3. sub' = [sub EXCEPT ![s] = x] /\ UNCHANGED <<replays, source, history>>
  BY DEF LoadPage
<1> HIDE DEF x
<1>4. QED
  BY <1>1, <1>2, <1>3, NoEvents, SubscriberGoesOn

LEMMA LeaveKeeps == ASSUME StreamInv, NEW s \in Subscribers, Leave(s) PROVE StreamInv'
<1>1. Away \in SubStates /\ Away.pc = "away" /\ Away.got = <<>>
  BY NoEvents DEF Away, SubStates
<1>2. QED
  BY <1>1, NoEvents, SubscriberGoesOn DEF Leave

LEMMA DeliverKeeps == ASSUME StreamInv, NEW s \in Subscribers, Deliver(s) PROVE StreamInv'
<1> DEFINE q == queue[s]
           e == Head(q)
<1>1. /\ sub[s].pc = "on" /\ q # <<>> /\ q \in Seq(Nat) /\ sub[s] \in SubStates
      /\ HeardOrQueued(sub[s], q) /\ queue' = [queue EXCEPT ![s] = Tail(q)]
      /\ UNCHANGED <<replays, source, history>>
  BY StreamIsTyped DEF Deliver, StreamInv, StreamTypes
<1>2. /\ e \in Nat /\ Tail(q) \in Seq(Nat) /\ InOrder(Tail(q))
      /\ ToSet(q) = {e} \cup ToSet(Tail(q)) /\ \A f \in ToSet(Tail(q)) : e < f
  BY <1>1, RestOfQueue DEF HeardOrQueued
<1>3. CASE source[e] = Mine
  <2> DEFINE x == [sub[s] EXCEPT !.got = Append(@, e)]
  <2>1. /\ sub[s].got \in Seq(Nat) /\ InOrder(sub[s].got) /\ \A f \in ToSet(sub[s].got) : f < e
    BY <1>1, <1>2 DEF SubStates, HeardOrQueued
  <2>2. /\ Append(sub[s].got, e) \in Seq(Nat) /\ InOrder(Append(sub[s].got, e))
        /\ ToSet(Append(sub[s].got, e)) = ToSet(sub[s].got) \cup {e}
    BY <1>2, <2>1, NextInQueue
  <2>3. /\ x \in SubStates /\ x.pc = "on" /\ x.got = Append(sub[s].got, e)
        /\ x.since = sub[s].since /\ x.dropped = sub[s].dropped
    BY <1>1, <2>2 DEF SubStates
  <2>4. sub' = [sub EXCEPT ![s] = x]
    BY <1>3 DEF Deliver, StreamInv, StreamTypes
  <2> HIDE DEF x, e
  <2> HIDE DEF q
  <2>5. HeardOrQueued(x, Tail(q))
    <3>1. /\ ToSet(x.got) = ToSet(sub[s].got) \cup {e} /\ InOrder(x.got)
          /\ ToSet(q) = {e} \cup ToSet(Tail(q))
      BY <1>2, <2>2, <2>3
    <3>2. \A f \in ToSet(x.got), g \in ToSet(Tail(q)) : f < g
      BY <1>1, <1>2, <3>1 DEF HeardOrQueued
    <3>3. \A f \in ToSet(x.got) \cup ToSet(Tail(q)) : f > x.since /\ f <= Len(source)
      BY <1>1, <2>3, <3>1 DEF HeardOrQueued
    <3>4. \A f \in ToSet(x.got) : source[f] = Mine
      BY <1>1, <1>3, <3>1 DEF HeardOrQueued
    <3>5. /\ x.dropped \cap (ToSet(x.got) \cup ToSet(Tail(q))) = {}
          /\ x.dropped \subseteq 1..Len(source)
      BY <1>1, <2>3, <3>1 DEF HeardOrQueued
    <3>6. \A f \in 1..Len(source) : f > x.since /\ source[f] = Mine =>
              f \in ToSet(x.got) \cup ToSet(Tail(q)) \cup x.dropped
      BY <1>1, <2>3, <3>1 DEF HeardOrQueued
    <3>7. x.since <= Len(source) /\ (replays /\ x.since > 0 => Len(source) > HistoryMax)
      BY <1>1, <2>3 DEF HeardOrQueued
    <3>8. QED
      BY <1>2, <3>1, <3>2, <3>3, <3>4, <3>5, <3>6, <3>7 DEF HeardOrQueued
  <2>6. QED
    BY <1>1, <1>2, <2>3, <2>4, <2>5, SubscriberGoesOn
<1>4. CASE source[e] # Mine
  <2>1. sub' = [sub EXCEPT ![s] = sub[s]]
    BY <1>4 DEF Deliver, StreamInv, StreamTypes
  <2>2. HeardOrQueued(sub[s], Tail(q))
    BY <1>1, <1>2, <1>4 DEF HeardOrQueued
  <2>3. QED
    BY <1>1, <1>2, <2>1, <2>2, SubscriberGoesOn
<1>5. QED
  BY <1>3, <1>4

(* What is replayed to a new subscriber, and where that begins.            *)
LEMMA Replayed ==
    ASSUME StreamInv, NEW old, old = IF replays THEN history ELSE <<>>,
           NEW since, since = IF old = <<>> THEN Len(source) ELSE Head(old) - 1
    PROVE  /\ old \in Seq(Nat) /\ Len(old) \in Nat /\ since \in Nat
           /\ since = Len(source) - Len(old)
           /\ \A i \in 1..Len(old) : old[i] = since + i
           /\ replays /\ since > 0 => Len(source) > HistoryMax
<1>1. CASE old = <<>>
  <2>1. replays => Len(source) = 0
    BY <1>1, StreamIsTyped, NoEvents DEF StreamInv, HistoryIsRecent
  <2>2. since = Len(source) /\ Len(source) \in Nat /\ Len(old) = 0 /\ old \in Seq(Nat)
    BY <1>1, StreamIsTyped, NoEvents
  <2>3. QED
    BY <2>1, <2>2
<1>2. CASE old # <<>>
  <2>1. replays /\ old = history /\ history \in Seq(Nat)
    BY <1>2 DEF StreamInv, StreamTypes
  <2>2. Len(history) # 0 /\ Head(history) = history[1]
    BY <1>2, <2>1, EmptySeq, HeadTailProperties
  <2>3. /\ Len(history) = IF Len(source) > HistoryMax THEN HistoryMax ELSE Len(source)
        /\ \A i \in 1..Len(history) : history[i] = Len(source) - Len(history) + i
    BY DEF StreamInv, HistoryIsRecent
  <2>4. history[1] = Len(source) - Len(history) + 1
    BY <2>2, <2>3, StreamIsTyped
  <2>5. since = Len(source) - Len(history) /\ since \in Nat
    BY <1>2, <2>1, <2>2, <2>3, <2>4, StreamIsTyped
  <2>6. QED
    BY <2>1, <2>3, <2>5, StreamIsTyped
<1>3. QED
  BY <1>1, <1>2

LEMMA SubscribeKeeps == ASSUME StreamInv, NEW s \in Subscribers, Subscribe(s) PROVE StreamInv'
<1> DEFINE old == IF replays THEN history ELSE <<>>
           m == IF Len(old) < QueueMax THEN Len(old) ELSE QueueMax
           fit == SubSeq(old, 1, m)
           since == IF old = <<>> THEN Len(source) ELSE Head(old) - 1
           x == [sub[s] EXCEPT !.pc = "on", !.since = since, !.dropped = ToSet(old) \ ToSet(fit)]
<1>1. /\ sub[s].pc = "loaded" /\ queue' = [queue EXCEPT ![s] = fit] /\ sub[s] \in SubStates
      /\ sub[s].got = <<>> /\ UNCHANGED <<replays, source, history>>
  BY StreamIsTyped DEF Subscribe, StreamInv
<1>2. sub' = [sub EXCEPT ![s] = x]
  BY DEF Subscribe, StreamInv, StreamTypes
<1>3. /\ old \in Seq(Nat) /\ Len(old) \in Nat /\ since \in Nat
      /\ since = Len(source) - Len(old)
      /\ \A i \in 1..Len(old) : old[i] = since + i
      /\ replays /\ since > 0 => Len(source) > HistoryMax
  BY Replayed
<1>4. m \in 0..Len(old)
  BY <1>3, StreamIsTyped
<1> HIDE DEF old, m, since
<1>5. fit \in Seq(Nat) /\ Len(fit) = m /\ \A i \in 1..m : fit[i] = old[i]
  BY <1>3, <1>4, SubSeqProperties
<1> HIDE DEF fit
<1>6. DOMAIN fit = 1..m /\ DOMAIN old = 1..Len(old)
  BY <1>3, <1>4, <1>5, LenProperties
<1>7. ToSet(old) = (since + 1)..Len(source)
  <2>1. \A i \in 1..Len(old) : old[i] \in (since + 1)..Len(source)
    BY <1>3, StreamIsTyped
  <2>2. ASSUME NEW e \in (since + 1)..Len(source) PROVE \E i \in 1..Len(old) : old[i] = e
    <3>1. e - since \in 1..Len(old) /\ since + (e - since) = e
      BY <1>3, StreamIsTyped
    <3>2. QED
      BY <1>3, <3>1
  <2>3. QED
    BY <1>6, <2>1, <2>2 DEF ToSet
<1>8. ToSet(fit) \subseteq ToSet(old)
  BY <1>4, <1>5, <1>6 DEF ToSet
<1>9. InOrder(fit)
  <2>1. \A i \in 1..m : fit[i] = since + i
    <3>1. 1..m \subseteq 1..Len(old)
      BY <1>3, <1>4
    <3>2. QED
      BY <1>3, <1>5, <3>1
  <2>2. QED
    BY <1>3, <1>4, <1>5, <2>1 DEF InOrder
<1>10. ToSet(old) \ ToSet(fit) \in SUBSET Nat
  BY <1>3, <1>7
<1>11. /\ x \in SubStates /\ x.pc = "on" /\ x.got = <<>> /\ x.since = since
       /\ x.dropped = ToSet(old) \ ToSet(fit)
  BY <1>1, <1>3, <1>10 DEF SubStates
<1> HIDE DEF x
<1>12. HeardOrQueued(x, fit)
  <2>1. \A e \in ToSet(old) : e \in 1..Len(source) /\ e > since
    BY <1>3, <1>7, StreamIsTyped
  <2>2. \A e \in 1..Len(source) : e > since => e \in ToSet(old)
    BY <1>3, <1>7, StreamIsTyped
  <2>3. QED
    BY <1>3, <1>8, <1>9, <1>11, <2>1, <2>2, NoEvents, StreamIsTyped DEF HeardOrQueued
<1>13. QED
  BY <1>1, <1>2, <1>5, <1>11, <1>12, SubscriberGoesOn

(* One event more: it is in the queue, or dropped.                         *)
LEMMA HeardMore ==
    ASSUME NEW s \in Subscribers, sub[s] \in SubStates, queue[s] \in Seq(Nat),
           HeardOrQueued(sub[s], queue[s]),
           Len(source) \in Nat, Len(source') = Len(source) + 1, UNCHANGED replays,
           \A i \in 1..Len(source) : source'[i] = source[i], HistoryMax \in Nat,
           sub'[s].got = sub[s].got, sub'[s].since = sub[s].since, InOrder(queue'[s]),
           \/ /\ ToSet(queue'[s]) = ToSet(queue[s]) \cup {Len(source) + 1}
              /\ sub'[s].dropped = sub[s].dropped
           \/ /\ ToSet(queue'[s]) = ToSet(queue[s])
              /\ sub'[s].dropped = sub[s].dropped \cup {Len(source) + 1},
           queue'[s] \in Seq(Nat)
    PROVE  HeardOrQueued(sub[s], queue[s])'
<1> DEFINE n == Len(source)
           G == ToSet(sub[s].got)
           Q == ToSet(queue[s])
           D == sub[s].dropped
           k == sub[s].since
<1>1. G \subseteq Nat /\ Q \subseteq Nat /\ D \subseteq 1..n /\ k \in Nat /\ n \in Nat
  BY NumbersOnly DEF SubStates, HeardOrQueued
<1>2. /\ \A e \in G, f \in Q : e < f
      /\ \A e \in G \cup Q : e > k /\ e <= n
      /\ \A e \in G : source[e] = Mine
      /\ D \cap (G \cup Q) = {}
      /\ \A e \in 1..n : e > k /\ source[e] = Mine => e \in G \cup Q \cup D
      /\ InOrder(sub[s].got) /\ k <= n /\ (replays /\ k > 0 => n > HistoryMax)
  BY DEF HeardOrQueued
<1>3. \A e \in 1..Len(source') : e \in 1..n \/ e = n + 1
  BY <1>1
<1>4. PICK Q2, D2 : /\ Q2 = ToSet(queue'[s]) /\ D2 = sub'[s].dropped
                    /\ \/ Q2 = Q \cup {n + 1} /\ D2 = D
                       \/ Q2 = Q /\ D2 = D \cup {n + 1}
  OBVIOUS
<1>5. G = ToSet(sub'[s].got) /\ k = sub'[s].since /\ n + 1 = Len(source')
  OBVIOUS
<1> HIDE DEF G, Q, D, k, n
<1>6. \A e \in G : e \in 1..n /\ source'[e] = Mine
  <2>1. \A e \in G : e \in 1..n
    BY <1>1, <1>2
  <2>2. QED
    BY <1>2, <2>1 DEF n
<1>7. \A e \in G, f \in Q2 : e < f
  <2>1. \A e \in G : e \in Nat /\ e < n + 1
    BY <1>1, <1>2
  <2>2. \A f \in Q2 : f \in Q \/ f = n + 1
    BY <1>4
  <2>3. QED
    BY <1>2, <2>1, <2>2
<1>8. \A e \in G \cup Q2 : e > k /\ e <= n + 1
  BY <1>1, <1>2, <1>4
<1>9. D2 \cap (G \cup Q2) = {} /\ D2 \subseteq 1..(n + 1)
  <2>1. 1..n \subseteq 1..(n + 1) /\ n + 1 \in 1..(n + 1) /\ n + 1 \notin 1..n
    BY <1>1
  <2>2. n + 1 \notin G \cup Q
    BY <1>1, <1>2
  <2>3. QED
    <3>1. n + 1 \notin D
      BY <1>1, <2>1
    <3>2. D2 \subseteq 1..(n + 1)
      BY <1>1, <1>4, <2>1
    <3>3. CASE Q2 = Q \cup {n + 1} /\ D2 = D
      BY <1>2, <2>2, <3>1, <3>2, <3>3
    <3>4. CASE Q2 = Q /\ D2 = D \cup {n + 1}
      BY <1>2, <2>2, <3>2, <3>4
    <3>5. QED
      BY <1>4, <3>3, <3>4
<1>10. \A e \in 1..(n + 1) : e > k /\ source'[e] = Mine => e \in G \cup Q2 \cup D2
  <2>1. \A e \in 1..n : source'[e] = source[e]
    BY DEF n
  <2>2. QED
    BY <1>2, <1>3, <1>4, <1>5, <2>1
<1>11. replays' /\ k > 0 => n + 1 > HistoryMax
  BY <1>1, <1>2
<1>12. HeardOrQueued(sub[s], queue[s])'
  BY <1>1, <1>2, <1>4, <1>5, <1>6, <1>7, <1>8, <1>9, <1>10, <1>11 DEF HeardOrQueued
<1>13. QED
  BY <1>12

LEMMA PublishKeeps == ASSUME StreamInv, NEW src \in Sources, Publish(src) PROVE StreamInv'
<1> DEFINE n == Len(source)
           e == n + 1
<1>1. /\ n < MaxEvents /\ (replays => src = Mine) /\ source' = Append(source, src)
      /\ history' = LastOf(Append(history, e), HistoryMax) /\ UNCHANGED replays
      /\ queue' = [s \in Subscribers |->
                       IF sub[s].pc = "on" /\ HasRoom(s) THEN Append(queue[s], e) ELSE queue[s]]
      /\ sub' = [s \in Subscribers |->
                     IF sub[s].pc = "on" /\ ~HasRoom(s)
                     THEN [sub[s] EXCEPT !.dropped = @ \cup {e}] ELSE sub[s]]
  BY DEF Publish
<1>2. /\ source' \in Seq(Sources) /\ Len(source') = n + 1 /\ n \in Nat /\ e \in Nat
      /\ source'[n + 1] = src /\ \A i \in 1..n : source'[i] = source[i]
      /\ Len(source') <= MaxEvents
  BY <1>1, AppendProperties, LenProperties, StreamIsTyped DEF StreamInv, StreamTypes
<1>3. history' \in Seq(Nat) /\ HistoryIsRecent'
  <2> DEFINE h == Append(history, e)
             from == IF Len(h) > HistoryMax THEN Len(h) - HistoryMax + 1 ELSE 1
  <2>1. /\ h \in Seq(Nat) /\ Len(h) = Len(history) + 1 /\ h[Len(history) + 1] = e
        /\ \A i \in 1..Len(history) : h[i] = history[i]
    BY <1>2, AppendProperties DEF StreamInv, StreamTypes
  <2>2. /\ Len(history) = IF n > HistoryMax THEN HistoryMax ELSE n
        /\ \A i \in 1..Len(history) : history[i] = n - Len(history) + i
        /\ Len(history) \in Nat /\ HistoryMax \in Nat /\ HistoryMax > 0
    BY StreamIsTyped DEF StreamInv, HistoryIsRecent
  <2> HIDE DEF h
  <2>3. ASSUME NEW i \in 1..Len(h) PROVE h[i] = n + 1 - Len(h) + i
    <3>1. CASE i = Len(history) + 1
      BY <1>2, <2>1, <2>2, <3>1
    <3>2. CASE i # Len(history) + 1
      <4>1. i \in 1..Len(history)
        BY <2>1, <2>2, <3>2
      <4>2. h[i] = n - Len(history) + i
        BY <2>1, <2>2, <4>1
      <4>3. QED
        BY <1>2, <2>1, <2>2, <4>2
    <3>3. QED
      BY <3>1, <3>2
  <2>4. from \in 1..Len(h) /\ Len(h) \in Nat
    BY <2>1, <2>2
  <2>5. history' = SubSeq(h, from, Len(h))
    BY <1>1 DEF LastOf, h
  <2> HIDE DEF from
  <2>6. /\ history' \in Seq(Nat) /\ Len(history') = Len(h) - from + 1
        /\ \A i \in 1..(Len(h) - from + 1) : history'[i] = h[from + i - 1]
    <3>1. /\ SubSeq(h, from, Len(h)) \in Seq(Nat)
          /\ Len(SubSeq(h, from, Len(h))) = Len(h) - from + 1
          /\ \A i \in 1..(Len(h) - from + 1) : SubSeq(h, from, Len(h))[i] = h[from + i - 1]
      BY <2>1, <2>4, SubSeqProperties
    <3>2. QED
      BY <2>5, <3>1
  <2>7. Len(history') = IF n + 1 > HistoryMax THEN HistoryMax ELSE n + 1
    <3>1. /\ Len(history') = Len(h) - from + 1 /\ Len(h) = Len(history) + 1
          /\ from = IF Len(h) > HistoryMax THEN Len(h) - HistoryMax + 1 ELSE 1
      BY <2>1, <2>6 DEF from
    <3>2. CASE n > HistoryMax
      <4>1. HistoryMax \in Nat /\ n + 1 > HistoryMax
        BY <1>2, <3>2, SizesAssumption
      <4>2. Len(h) = HistoryMax + 1
        BY <2>2, <3>1, <3>2
      <4>3. from = 2
        BY <3>1, <4>1, <4>2
      <4>4. QED
        BY <3>1, <4>1, <4>2, <4>3
    <3>3. CASE ~(n > HistoryMax)
      <4>1. Len(history) = n
        BY <2>2, <3>3
      <4>2. QED
        BY <1>2, <2>2, <3>1, <3>3, <4>1
    <3>4. QED
      BY <3>2, <3>3
  <2>8. ASSUME NEW i \in 1..Len(history') PROVE history'[i] = n + 1 - Len(history') + i
    <3>1. from + i - 1 \in 1..Len(h) /\ history'[i] = h[from + i - 1] /\ Len(h) \in Nat
      BY <2>1, <2>2, <2>4, <2>6
    <3>2. history'[i] = n + 1 - Len(h) + (from + i - 1)
      BY <2>3, <3>1
    <3>3. QED
      BY <1>2, <2>4, <2>6, <3>1, <3>2
  <2>9. replays' => \A j \in 1..Len(source') : source'[j] = Mine
    BY <1>1, <1>2 DEF StreamInv, HistoryIsRecent
  <2>10. QED
    BY <1>2, <2>6, <2>7, <2>8, <2>9 DEF HistoryIsRecent
<1>4. ASSUME NEW s \in Subscribers
      PROVE  /\ queue'[s] \in Seq(Nat) /\ sub'[s] \in SubStates
             /\ IF sub'[s].pc = "on" THEN HeardOrQueued(sub[s], queue[s])'
                ELSE sub'[s].got = <<>> /\ queue'[s] = <<>>
  <2>1. queue[s] \in Seq(Nat) /\ sub[s] \in SubStates
    BY StreamIsTyped
  <2>2. CASE sub[s].pc # "on"
    BY <1>1, <2>1, <2>2 DEF StreamInv
  <2>3. CASE sub[s].pc = "on" /\ HasRoom(s)
    <3>1. HeardOrQueued(sub[s], queue[s])
      BY <2>3 DEF StreamInv
    <3>2. \A f \in ToSet(queue[s]) : f < e /\ f <= n
      BY <1>2, <2>1, <3>1, NumbersOnly DEF HeardOrQueued
    <3>3. /\ Append(queue[s], e) \in Seq(Nat) /\ InOrder(Append(queue[s], e))
          /\ ToSet(Append(queue[s], e)) = ToSet(queue[s]) \cup {e}
      BY <1>2, <2>1, <3>1, <3>2, NextInQueue DEF HeardOrQueued
    <3>4. queue'[s] = Append(queue[s], e) /\ sub'[s] = sub[s]
      BY <1>1, <2>3
    <3>5. HeardOrQueued(sub[s], queue[s])'
      <4>1. sub'[s] \in SubStates /\ sub'[s].got = sub[s].got /\ sub'[s].since = sub[s].since
            /\ sub'[s].dropped = sub[s].dropped
        BY <2>1, <3>4
      <4>2. /\ queue'[s] \in Seq(Nat) /\ InOrder(queue'[s])
            /\ ToSet(queue'[s]) = ToSet(queue[s]) \cup {Len(source) + 1}
        BY <3>3, <3>4
      <4>3. QED
        BY <1>1, <1>2, <2>1, <3>1, <4>1, <4>2, StreamIsTyped, HeardMore
    <3>6. QED
      BY <2>1, <2>3, <3>3, <3>4, <3>5
  <2>4. CASE sub[s].pc = "on" /\ ~HasRoom(s)
    <3>1. HeardOrQueued(sub[s], queue[s])
      BY <2>4 DEF StreamInv
    <3>2. queue'[s] = queue[s] /\ sub'[s] = [sub[s] EXCEPT !.dropped = @ \cup {e}]
      BY <1>1, <2>4
    <3>3. /\ sub'[s] \in SubStates /\ sub'[s].pc = "on" /\ sub'[s].got = sub[s].got
          /\ sub'[s].since = sub[s].since /\ sub'[s].dropped = sub[s].dropped \cup {e}
      <4>1. sub[s] \in SubStates /\ sub[s].dropped \cup {e} \in SUBSET Nat
        BY <1>2, <2>1 DEF SubStates
      <4> DEFINE d == sub[s].dropped \cup {e}
      <4>2. d \in SUBSET Nat /\ sub'[s] = [sub[s] EXCEPT !.dropped = d]
        BY <3>2, <4>1
      <4> HIDE DEF d
      <4>3. /\ sub'[s] \in SubStates /\ sub'[s].pc = "on" /\ sub'[s].got = sub[s].got
            /\ sub'[s].since = sub[s].since /\ sub'[s].dropped = d
        BY <2>4, <4>1, <4>2 DEF SubStates
      <4>4. QED
        BY <4>3 DEF d
    <3>4. HeardOrQueued(sub[s], queue[s])'
      <4>1. queue'[s] \in Seq(Nat) /\ InOrder(queue'[s]) /\ ToSet(queue'[s]) = ToSet(queue[s])
        BY <2>1, <3>1, <3>2 DEF HeardOrQueued
      <4>2. QED
        BY <1>1, <1>2, <2>1, <3>1, <3>3, <4>1, StreamIsTyped, HeardMore
    <3>5. QED
      BY <2>1, <3>2, <3>3, <3>4
  <2>5. QED
    BY <2>2, <2>3, <2>4
<1>5. StreamTypes'
  BY <1>1, <1>2, <1>3, <1>4 DEF StreamInv, StreamTypes
<1>6. QED
  BY <1>3, <1>4, <1>5 DEF StreamInv

LEMMA StreamStepKeeps == StreamInv /\ [StreamNext]_streamVars => StreamInv'
<1> SUFFICES ASSUME StreamInv, [StreamNext]_streamVars PROVE StreamInv'
  OBVIOUS
<1>1. CASE UNCHANGED streamVars
  BY <1>1 DEF streamVars, StreamInv, StreamTypes, HistoryIsRecent, HeardOrQueued
<1>2. QED
  BY <1>1, PublishKeeps, LoadKeeps, SubscribeKeeps, DeliverKeeps, LeaveKeeps DEF StreamNext

(* With any number of publishers and subscribers: one that has drained its *)
(* queue got exactly the events of its source since it subscribed, in      *)
(* order, but for those that found its queue full.                         *)
THEOREM NothingElseIsLostAlways == StreamSpec => []NothingElseIsLost
<1>1. StreamInv => NothingElseIsLost
  <2> SUFFICES ASSUME StreamInv, NEW s \in Subscribers, sub[s].pc = "on", queue[s] = <<>>
               PROVE  /\ ToSet(sub[s].got) = Of(sub[s].since) \ sub[s].dropped
                      /\ InOrder(sub[s].got)
    BY DEF NothingElseIsLost
  <2>1. HeardOrQueued(sub[s], queue[s]) /\ ToSet(queue[s]) = {}
    BY NoEvents DEF StreamInv
  <2>2. Len(source) <= MaxEvents /\ sub[s] \in SubStates
    BY DEF StreamInv, StreamTypes
  <2>3. sub[s].since \in Nat /\ sub[s].got \in Seq(Nat)
    BY <2>2 DEF SubStates
  <2>4. ToSet(sub[s].got) \subseteq Nat
    BY <2>3, ElementOfSeq, LenProperties DEF ToSet
  <2>5. \A e \in ToSet(sub[s].got) : e \in Of(sub[s].since) \ sub[s].dropped
    BY <2>1, <2>2, <2>3, <2>4, StreamIsTyped DEF HeardOrQueued, Of, Events
  <2>6. \A e \in Of(sub[s].since) \ sub[s].dropped : e \in ToSet(sub[s].got)
    BY <2>1, StreamIsTyped DEF HeardOrQueued, Of, Events
  <2>7. QED
    BY <2>1, <2>5, <2>6 DEF HeardOrQueued
<1>2. QED
  BY <1>1, StreamInitIsSound, StreamStepKeeps, PTL DEF StreamSpec

(* A page whose subscriber lost nothing lacks only events from before its  *)
(* subscription, and of a log only when its history did not reach so far.  *)
THEOREM PageLacksOnlyTheGapAlways == StreamSpec => []PageLacksOnlyTheGap
<1>1. StreamInv => PageLacksOnlyTheGap
  <2> SUFFICES ASSUME StreamInv, NEW s \in Subscribers, sub[s].pc = "on", queue[s] = <<>>,
                      sub[s].dropped = {}, NEW e \in Of(sub[s].seen) \ ToSet(sub[s].got)
               PROVE  e <= sub[s].since /\ (replays => Len(source) > HistoryMax)
    BY DEF PageLacksOnlyTheGap
  <2>1. HeardOrQueued(sub[s], queue[s]) /\ ToSet(queue[s]) = {}
    BY NoEvents DEF StreamInv
  <2>2. sub[s].since \in Nat
    BY StreamIsTyped DEF SubStates
  <2>3. e \in 1..Len(source) /\ source[e] = Mine
    BY StreamIsTyped DEF Of, Events
  <2>4. ~(e > sub[s].since)
    BY <2>1, <2>3 DEF HeardOrQueued
  <2>5. e <= sub[s].since /\ sub[s].since > 0
    BY <2>2, <2>3, <2>4, StreamIsTyped
  <2>6. QED
    BY <2>1, <2>5 DEF HeardOrQueued
<1>2. QED
  BY <1>1, StreamInitIsSound, StreamStepKeeps, PTL DEF StreamSpec

-----------------------------------------------------------------------------
(* The registry.                                                           *)

RegistryRows ==
    [id : Nat, token : Nat, status : {"provisioned", "online", "idle", "offline"},
     age : Nat, known : BOOLEAN, interval : Intervals]
RegistryAgents ==
    [pc : AgentPcs, id : Nat, token : Nat, target : Nat, base : Intervals, told : Intervals,
     wait : Nat, again : BOOLEAN, missed : BOOLEAN, late : 0..Latency]

RegistryTypes ==
    /\ row \in [Names -> RegistryRows]
    /\ agent \in [Machines -> RegistryAgents]
    /\ yaml \in [Machines -> Nat]
    /\ ids \in Nat /\ tokens \in Nat

(* Ids are not given twice: no two rows share one, and an id that an agent *)
(* holds, or that a beat of it was resolved to, is of no row but its own.  *)
IdsDiffer ==
    /\ \A n \in Names : row[n].id <= ids
    /\ \A n, k \in Names : n # k /\ row[n].id # 0 => row[n].id # row[k].id

OwnId(m, id) == id <= ids /\ \A n \in Names : id # 0 /\ row[n].id = id => n = NameOf[m]

(* The age of the row and the time to the next beat make up the interval,  *)
(* but for what the agent is late; while the server's answer is on its way *)
(* the row is no older than that.                                          *)
Answering == {"registered", "answered"}
Timely(a, r) ==
    /\ a.pc # "off" /\ ~a.missed /\ a.base + Latency <= Timeout =>
          r.status # "offline" /\ r.age + a.wait <= a.base + a.late
    /\ a.pc \in Answering =>
          r.age <= a.late /\ (Latency <= Timeout => r.status # "offline")

AgentSound(m) ==
    /\ OwnId(m, agent[m].id) /\ OwnId(m, agent[m].target)
    /\ agent[m].wait <= agent[m].base
    /\ agent[m].pc # "idle" => agent[m].wait = 0
    /\ Timely(agent[m], row[NameOf[m]])

RegistryInv == RegistryTypes /\ IdsDiffer /\ \A m \in Machines : AgentSound(m)

-----------------------------------------------------------------------------

LEMMA EmptyRowAndAgent ==
    NoRow \in RegistryRows /\ NoAgent \in RegistryAgents /\ Default \in Intervals
  BY IntervalsAssumption, BoundsAssumption
     DEF NoRow, NoAgent, RegistryRows, RegistryAgents, AgentPcs, Default

LEMMA RegistryInitIsSound == RegistryInit => RegistryInv
<1> SUFFICES ASSUME RegistryInit PROVE RegistryInv
  OBVIOUS
<1>1. RegistryTypes
  BY EmptyRowAndAgent DEF RegistryInit, RegistryTypes
<1>2. IdsDiffer
  BY DEF RegistryInit, IdsDiffer, NoRow
<1>3. ASSUME NEW m \in Machines PROVE AgentSound(m)
  BY DEF RegistryInit, AgentSound, OwnId, Timely, Answering, NoRow, NoAgent, Default
<1>4. QED
  BY <1>1, <1>2, <1>3 DEF RegistryInv

(* A step in which no time passes: rows keep their ids, lose them or get a *)
(* new one, no row grows older, and only a stale one goes offline.         *)
LEMMA TimelessKeeps ==
    ASSUME RegistryInv, RegistryTypes', ids' \in {ids, ids + 1},
           \A n \in Names : row'[n].id \in {0, row[n].id} \/ (row'[n].id = ids + 1 /\ ids' = ids + 1),
           \A n, k \in Names : row'[n].id = ids + 1 /\ row'[k].id = ids + 1 => n = k,
           \A n \in Names :
               /\ row'[n].age \in {0, row[n].age}
               /\ row'[n].status = "offline" => row[n].status = "offline" \/ row[n].age > Timeout,
           \A m \in Machines : agent'[m] = agent[m] \/ AgentSound(m)'
    PROVE  RegistryInv'
<1>1. IdsDiffer'
  <2>1. ids \in Nat /\ \A n \in Names : row[n].id \in Nat /\ row'[n].id \in Nat
    BY DEF RegistryInv, RegistryTypes, RegistryRows
  <2>2. QED
    BY <2>1 DEF RegistryInv, IdsDiffer
<1>2. ASSUME NEW m \in Machines, agent'[m] = agent[m] PROVE AgentSound(m)'
  <2>1. /\ ids \in Nat /\ Timeout \in Nat /\ Latency \in Nat
        /\ \A n \in Names : row[n].id \in Nat /\ row'[n].id \in Nat
    BY BoundsAssumption DEF RegistryInv, RegistryTypes, RegistryRows
  <2>2. /\ agent[m].id \in Nat /\ agent[m].target \in Nat
        /\ agent[m].wait \in Nat /\ agent[m].base \in Nat
        /\ agent[m].late \in 0..Latency
    BY IntervalsAssumption DEF RegistryInv, RegistryTypes, RegistryAgents
  <2>3. ASSUME NEW id \in Nat, OwnId(m, id) PROVE OwnId(m, id)'
    BY <2>1, <2>3 DEF OwnId
  <2>4. Timely(agent[m], row[NameOf[m]])'
    <3>1. NameOf[m] \in Names
      BY NameOfAssumption
    <3>2. row[NameOf[m]].age \in Nat
      BY <3>1 DEF RegistryInv, RegistryTypes, RegistryRows
    <3>3. Timely(agent[m], row[NameOf[m]])
      BY DEF RegistryInv, AgentSound
    <3>4. QED
      BY <1>2, <2>1, <2>2, <3>1, <3>2, <3>3 DEF Timely
  <2>5. QED
    BY <1>2, <2>2, <2>3, <2>4 DEF RegistryInv, AgentSound
<1>3. QED
  BY <1>1, <1>2 DEF RegistryInv

(* Only the agent of one machine moves.                                    *)
LEMMA AgentMoves ==
    ASSUME RegistryInv, NEW m \in Machines, NEW x \in RegistryAgents,
           agent' = [agent EXCEPT ![m] = x], UNCHANGED <<row, ids, tokens, yaml>>,
           OwnId(m, x.id), OwnId(m, x.target), x.wait <= x.base,
           x.pc # "idle" => x.wait = 0,
           Timely(x, row[NameOf[m]])
    PROVE  RegistryInv'
<1>1. agent'[m] = x /\ \A k \in Machines \ {m} : agent'[k] = agent[k]
  BY DEF RegistryInv, RegistryTypes
<1>2. RegistryTypes'
  BY DEF RegistryInv, RegistryTypes
<1>3. AgentSound(m)'
  BY <1>1 DEF RegistryInv, AgentSound, OwnId, Timely
<1>4. ids \in Nat /\ \A n \in Names : row[n].id <= ids /\ row[n].id \in Nat
  BY DEF RegistryInv, RegistryTypes, RegistryRows, IdsDiffer
<1>5. QED
  BY <1>1, <1>2, <1>3, <1>4, TimelessKeeps

(* An agent whose last request did not arrive is excused.                  *)
LEMMA MissedIsTimely ==
    ASSUME NEW x, NEW r, x.pc \notin Answering, x.pc = "off" \/ x.missed
    PROVE  Timely(x, r)
  BY DEF Timely

(* Only rows change.                                                       *)
LEMMA RowsChange ==
    ASSUME RegistryInv, row' \in [Names -> RegistryRows], UNCHANGED <<ids, agent>>,
           yaml' \in [Machines -> Nat], tokens' \in Nat,
           \A n \in Names :
               /\ row'[n].id \in {0, row[n].id}
               /\ row'[n].age \in {0, row[n].age}
               /\ row'[n].status = "offline" => row[n].status = "offline" \/ row[n].age > Timeout
    PROVE  RegistryInv'
<1>1. ids \in Nat /\ \A n \in Names : row[n].id <= ids /\ row[n].id \in Nat
  BY DEF RegistryInv, RegistryTypes, RegistryRows, IdsDiffer
<1>2. RegistryTypes'
  BY DEF RegistryInv, RegistryTypes
<1>3. QED
  BY <1>1, <1>2, TimelessKeeps

-----------------------------------------------------------------------------

LEMMA ServerKeeps ==
    ASSUME RegistryInv
    PROVE  /\ \A n \in Names : RotateToken(n) \/ DeleteAgent(n) => RegistryInv'
           /\ \A n \in Names, i \in Intervals : UpdateAgentSettings(n, i) => RegistryInv'
           /\ DatabaseReset \/ CheckStaleAgents => RegistryInv'
<1>1. /\ row \in [Names -> RegistryRows] /\ tokens \in Nat /\ yaml \in [Machines -> Nat]
      /\ NoRow \in RegistryRows /\ NoRow.id = 0 /\ NoRow.age = 0 /\ NoRow.status = "provisioned"
  BY EmptyRowAndAgent DEF RegistryInv, RegistryTypes, NoRow
<1>2. ASSUME NEW n \in Names, RotateToken(n) PROVE RegistryInv'
  <2> DEFINE x == [row[n] EXCEPT !.token = tokens + 1]
  <2>1. /\ x \in RegistryRows /\ x.id = row[n].id /\ x.age = row[n].age
        /\ x.status = row[n].status
    BY <1>1 DEF RegistryRows
  <2>2. row' = [row EXCEPT ![n] = x] /\ tokens' \in Nat /\ UNCHANGED <<ids, yaml, agent>>
    BY <1>1, <1>2 DEF RotateToken
  <2> HIDE DEF x
  <2>3. QED
    BY <1>1, <2>1, <2>2, RowsChange
<1>3. ASSUME NEW n \in Names, DeleteAgent(n) PROVE RegistryInv'
  <2>1. row' = [row EXCEPT ![n] = NoRow] /\ UNCHANGED <<tokens, ids, yaml, agent>>
    BY <1>3 DEF DeleteAgent
  <2>2. QED
    BY <1>1, <2>1, RowsChange
<1>4. ASSUME NEW n \in Names, NEW i \in Intervals, UpdateAgentSettings(n, i) PROVE RegistryInv'
  <2> DEFINE x == [row[n] EXCEPT !.interval = i]
  <2>1. /\ x \in RegistryRows /\ x.id = row[n].id /\ x.age = row[n].age
        /\ x.status = row[n].status
    BY <1>1 DEF RegistryRows
  <2>2. row' = [row EXCEPT ![n] = x] /\ UNCHANGED <<tokens, ids, yaml, agent>>
    BY <1>4 DEF UpdateAgentSettings
  <2> HIDE DEF x
  <2>3. QED
    BY <1>1, <2>1, <2>2, RowsChange
<1>5. ASSUME DatabaseReset PROVE RegistryInv'
  <2>1. row' = [n \in Names |-> NoRow] /\ UNCHANGED <<tokens, ids, yaml, agent>>
    BY <1>5 DEF DatabaseReset
  <2>2. QED
    BY <1>1, <2>1, RowsChange
<1>6. ASSUME CheckStaleAgents PROVE RegistryInv'
  <2> DEFINE x(n) == [row[n] EXCEPT !.status = "offline"]
  <2>1. ASSUME NEW n \in Names
        PROVE  x(n) \in RegistryRows /\ x(n).id = row[n].id /\ x(n).age = row[n].age
    BY <1>1 DEF RegistryRows
  <2>2. /\ row' = [n \in Names |-> IF Stale(n) THEN x(n) ELSE row[n]]
        /\ UNCHANGED <<tokens, ids, yaml, agent>>
    BY <1>6 DEF CheckStaleAgents
  <2> HIDE DEF x
  <2>3. QED
    BY <1>1, <2>1, <2>2, RowsChange DEF Stale
<1>7. QED
  BY <1>2, <1>3, <1>4, <1>5, <1>6

(* A row that is made anew has an id that nobody has.                      *)
LEMMA ProvisionKeeps ==
    ASSUME RegistryInv, NEW m \in Machines, NEW n \in Names, InstallScript(m, n)
    PROVE  RegistryInv'
<1>1. /\ row \in [Names -> RegistryRows] /\ tokens \in Nat /\ yaml \in [Machines -> Nat]
      /\ ids \in Nat
      /\ NoRow \in RegistryRows
  BY EmptyRowAndAgent DEF RegistryInv, RegistryTypes
<1>2. Provision(n) /\ UNCHANGED agent
  BY DEF InstallScript
<1>3. tokens' \in Nat /\ yaml' \in [Machines -> Nat]
  <2>1. tokens' = tokens + 1 /\ tokens + 1 \in Nat
    BY <1>1, <1>2 DEF Provision
  <2>2. yaml' = yaml \/ yaml' = [yaml EXCEPT ![m] = tokens + 1]
    BY DEF InstallScript
  <2>3. QED
    BY <1>1, <2>1, <2>2
<1>4. CASE HasRow(n)
  <2> DEFINE x == [row[n] EXCEPT !.token = tokens + 1]
  <2>1. /\ x \in RegistryRows /\ x.id = row[n].id /\ x.age = row[n].age
        /\ x.status = row[n].status
    BY <1>1 DEF RegistryRows
  <2>2. row' = [row EXCEPT ![n] = x] /\ UNCHANGED ids
    BY <1>2, <1>4 DEF Provision
  <2> HIDE DEF x
  <2>3. QED
    BY <1>1, <1>2, <1>3, <2>1, <2>2, RowsChange
<1>5. CASE ~HasRow(n)
  <2> DEFINE x == [NoRow EXCEPT !.id = ids + 1, !.token = tokens + 1]
  <2>1. /\ x \in RegistryRows /\ x.id = ids + 1 /\ x.age = 0 /\ x.status = "provisioned"
    <3>1. ids + 1 \in Nat /\ tokens + 1 \in Nat
      BY <1>1
    <3>2. x \in RegistryRows
      BY <1>1, <3>1 DEF RegistryRows
    <3>3. x.id = ids + 1 /\ x.age = 0 /\ x.status = "provisioned"
      BY DEF NoRow
    <3>4. QED
      BY <3>2, <3>3
  <2>2. row' = [row EXCEPT ![n] = x] /\ ids' = ids + 1
    BY <1>2, <1>5 DEF Provision
  <2> HIDE DEF x
  <2>3. row'[n] = x /\ \A k \in Names \ {n} : row'[k] = row[k]
    BY <1>1, <2>2
  <2>4. \A k \in Names : row[k].id <= ids /\ row[k].id \in Nat
    BY <1>1 DEF RegistryInv, IdsDiffer, RegistryRows
  <2>5. RegistryTypes'
    BY <1>1, <1>2, <1>3, <2>1, <2>2 DEF RegistryInv, RegistryTypes
  <2>6. \A k \in Names :
            /\ row'[k].id \in {0, row[k].id} \/ (row'[k].id = ids + 1 /\ ids' = ids + 1)
            /\ row'[k].age \in {0, row[k].age}
            /\ row'[k].status = "offline" => row[k].status = "offline"
    BY <2>1, <2>2, <2>3
  <2>7. \A j, k \in Names : row'[j].id = ids + 1 /\ row'[k].id = ids + 1 => j = k
    BY <1>1, <2>3, <2>4
  <2>8. QED
    BY <1>2, <2>2, <2>5, <2>6, <2>7, TimelessKeeps
<1>6. QED
  BY <1>4, <1>5

-----------------------------------------------------------------------------

(* What an agent has in hand when it gives up, rests or goes on.           *)
LEMMA AgentIsTyped ==
    ASSUME RegistryInv, NEW m \in Machines
    PROVE  /\ agent[m] \in RegistryAgents
           /\ agent[m].id \in Nat /\ agent[m].base \in Intervals /\ agent[m].base \in Nat
           /\ agent[m].wait \in Nat /\ agent[m].target \in Nat /\ agent[m].told \in Intervals
           /\ agent[m].late \in 0..Latency /\ Latency \in Nat /\ Timeout \in Nat
           /\ OwnId(m, agent[m].id) /\ OwnId(m, agent[m].target) /\ OwnId(m, 0)
           /\ agent[m].wait <= agent[m].base /\ 0 <= agent[m].base
           /\ agent[m].pc # "idle" => agent[m].wait = 0
           /\ Timely(agent[m], row[NameOf[m]]) /\ NameOf[m] \in Names
           /\ row[NameOf[m]] \in RegistryRows /\ row[NameOf[m]].age \in Nat
<1>1. agent[m] \in RegistryAgents /\ ids \in Nat
  BY DEF RegistryInv, RegistryTypes
<1>2. /\ agent[m].id \in Nat /\ agent[m].base \in Intervals /\ agent[m].base \in Nat
      /\ agent[m].wait \in Nat /\ agent[m].target \in Nat /\ 0 <= agent[m].base
      /\ agent[m].told \in Intervals /\ agent[m].late \in 0..Latency
  <2>1. /\ agent[m].id \in Nat /\ agent[m].base \in Intervals
        /\ agent[m].wait \in Nat /\ agent[m].target \in Nat
        /\ agent[m].told \in Intervals /\ agent[m].late \in 0..Latency
    BY <1>1 DEF RegistryAgents
  <2>2. Intervals \subseteq Nat /\ \A i \in Nat : 0 <= i
    BY IntervalsAssumption
  <2>3. QED
    BY <2>1, <2>2
<1>3. OwnId(m, 0)
  BY <1>1 DEF OwnId
<1>4. AgentSound(m)
  BY DEF RegistryInv
<1>5. /\ NameOf[m] \in Names /\ row[NameOf[m]] \in RegistryRows /\ row[NameOf[m]].age \in Nat
  BY NameOfAssumption DEF RegistryInv, RegistryTypes, RegistryRows
<1>6. Latency \in Nat /\ Timeout \in Nat
  BY BoundsAssumption
<1>7. QED
  BY <1>1, <1>2, <1>3, <1>4, <1>5, <1>6 DEF AgentSound

(* Both ends of a request that fails: a first registration is given up,    *)
(* any other one leaves the agent at rest.                                 *)
LEMMA AfterFailureIs ==
    ASSUME NEW a \in RegistryAgents, a.pc # "idle" => a.wait = 0, a.base \in Nat
    PROVE  LET x == AfterFailure(a)
           IN  /\ x \in RegistryAgents /\ x.pc = "idle" /\ x.id = a.id /\ x.target = 0
               /\ x.base = a.base /\ x.late = a.late /\ x.missed = a.missed
               /\ x.wait \in {0, x.base}
<1> DEFINE x == [a EXCEPT !.pc = "idle", !.target = 0]
           y == Rest(a)
<1>1. /\ x \in RegistryAgents /\ x.pc = "idle" /\ x.id = a.id /\ x.target = 0
      /\ x.base = a.base /\ x.late = a.late /\ x.missed = a.missed /\ x.wait = a.wait
  BY DEF RegistryAgents, AgentPcs
<1>2. /\ y \in RegistryAgents /\ y.pc = "idle" /\ y.id = a.id /\ y.target = 0
      /\ y.base = a.base /\ y.late = a.late /\ y.missed = a.missed /\ y.wait = a.base
  BY IntervalsAssumption DEF Rest, RegistryAgents, AgentPcs, Default
<1>3. (AfterFailure(a) = x /\ a.wait = 0) \/ AfterFailure(a) = y
  BY DEF AfterFailure
<1> HIDE DEF x, y
<1>4. QED
  BY <1>1, <1>2, <1>3

LEMMA GiveUpKeeps ==
    ASSUME RegistryInv, NEW m \in Machines, UNCHANGED <<row, ids, tokens, yaml>>, GiveUp(m)
    PROVE  RegistryInv'
<1>1. /\ agent[m] \in RegistryAgents /\ agent[m].base \in Nat
      /\ OwnId(m, agent[m].id) /\ OwnId(m, 0)
      /\ agent[m].pc # "idle" => agent[m].wait = 0
      /\ 0 \in 0..Latency
  BY AgentIsTyped
<1> DEFINE a == [agent[m] EXCEPT !.missed = TRUE, !.late = 0]
<1>2. /\ a \in RegistryAgents /\ a.pc = agent[m].pc /\ a.wait = agent[m].wait
      /\ a.base = agent[m].base /\ a.missed /\ a.id = agent[m].id
  BY <1>1 DEF RegistryAgents
<1>3. agent' = [agent EXCEPT ![m] = AfterFailure(a)]
  BY DEF GiveUp
<1> HIDE DEF a
<1> DEFINE x == AfterFailure(a)
<1>4. /\ x \in RegistryAgents /\ x.pc = "idle" /\ x.id = a.id /\ x.target = 0
      /\ x.base = a.base /\ x.missed /\ x.wait \in {0, x.base}
  BY <1>1, <1>2, AfterFailureIs
<1> HIDE DEF x
<1>5. x.wait <= x.base
  BY <1>1, <1>2, <1>4
<1>6. Timely(x, row[NameOf[m]])
  BY <1>4, MissedIsTimely DEF Answering
<1>7. agent' = [agent EXCEPT ![m] = x]
  BY <1>3 DEF x
<1>8. QED
  BY <1>1, <1>2, <1>4, <1>5, <1>6, <1>7, AgentMoves

(* The answer arrives, or is lost.                                         *)
LEMMA AnswerKeeps ==
    ASSUME RegistryInv, NEW m \in Machines, TakeId(m) \/ TakeAnswer(m) \/ AnswerLost(m)
    PROVE  RegistryInv'
<1>1. /\ agent[m] \in RegistryAgents /\ agent[m].base \in Nat
      /\ agent[m].id \in Nat /\ agent[m].target \in Nat /\ agent[m].told \in Intervals
      /\ agent[m].late \in 0..Latency /\ Latency \in Nat /\ Timeout \in Nat
      /\ OwnId(m, agent[m].id) /\ OwnId(m, agent[m].target) /\ OwnId(m, 0)
      /\ agent[m].pc # "idle" => agent[m].wait = 0
      /\ Timely(agent[m], row[NameOf[m]]) /\ row[NameOf[m]].age \in Nat
  BY AgentIsTyped
<1>2. agent[m].pc \in Answering /\ UNCHANGED <<row, ids, tokens, yaml>>
  BY DEF TakeId, TakeAnswer, AnswerLost, Answering
<1>3. agent[m].wait = 0 /\ agent[m].told \in Nat
  BY <1>1, <1>2, IntervalsAssumption DEF Answering
<1>4. /\ row[NameOf[m]].age <= agent[m].late
      /\ Latency <= Timeout => row[NameOf[m]].status # "offline"
  BY <1>1, <1>2 DEF Timely
<1>5. ASSUME NEW x \in RegistryAgents, agent' = [agent EXCEPT ![m] = x],
             x.pc \in {"idle", "resolve"}, x.id \in {agent[m].id, agent[m].target}, x.target = 0,
             x.base \in Nat, x.wait \in {0, x.base}, x.pc # "idle" => x.wait = 0,
             x.late = agent[m].late
      PROVE  RegistryInv'
  <2>1. Timely(x, row[NameOf[m]])
    BY <1>1, <1>4, <1>5 DEF Timely, Answering
  <2>2. OwnId(m, x.id) /\ OwnId(m, x.target) /\ x.wait <= x.base
    BY <1>1, <1>5
  <2>3. QED
    BY <1>2, <1>5, <2>1, <2>2, AgentMoves
<1>6. CASE TakeId(m)
  <2> DEFINE goal == IF agent[m].again THEN "resolve" ELSE "idle"
             x == [agent[m] EXCEPT !.id = agent[m].target, !.target = 0, !.pc = goal]
  <2>1. /\ x \in RegistryAgents /\ x.pc \in {"idle", "resolve"} /\ x.id = agent[m].target
        /\ x.target = 0 /\ x.base = agent[m].base /\ x.wait = agent[m].wait
        /\ x.late = agent[m].late
    BY <1>1 DEF RegistryAgents, AgentPcs
  <2>2. agent' = [agent EXCEPT ![m] = x]
    BY <1>6 DEF TakeId, RegistryInv, RegistryTypes
  <2> HIDE DEF x
  <2>3. QED
    BY <1>1, <1>3, <1>5, <2>1, <2>2
<1>7. CASE TakeAnswer(m)
  <2> DEFINE a == [agent[m] EXCEPT !.id = agent[m].target, !.base = agent[m].told]
             x == Rest(a)
  <2>1. /\ a \in RegistryAgents /\ a.id = agent[m].target /\ a.base = agent[m].told
        /\ a.late = agent[m].late
    BY <1>1 DEF RegistryAgents
  <2>2. agent' = [agent EXCEPT ![m] = x]
    BY <1>7 DEF TakeAnswer
  <2> HIDE DEF a
  <2>3. /\ x \in RegistryAgents /\ x.pc = "idle" /\ x.id = a.id /\ x.target = 0
        /\ x.base = a.base /\ x.wait = a.base /\ x.late = a.late
    BY <1>3, <2>1, IntervalsAssumption DEF Rest, RegistryAgents, AgentPcs, Default
  <2> HIDE DEF x
  <2>4. QED
    BY <1>3, <1>5, <2>1, <2>2, <2>3
<1>8. CASE AnswerLost(m)
  <2> DEFINE x == AfterFailure(agent[m])
  <2>1. /\ x \in RegistryAgents /\ x.pc = "idle" /\ x.id = agent[m].id /\ x.target = 0
        /\ x.base = agent[m].base /\ x.late = agent[m].late /\ x.wait \in {0, x.base}
    BY <1>1, AfterFailureIs
  <2>2. agent' = [agent EXCEPT ![m] = x]
    BY <1>8 DEF AnswerLost
  <2> HIDE DEF x
  <2>3. QED
    BY <1>1, <1>5, <2>1, <2>2
<1>9. QED
  BY <1>6, <1>7, <1>8

LEMMA RequestKeeps ==
    ASSUME RegistryInv, NEW m \in Machines
    PROVE  /\ StartRegistering(m) \/ Stop(m) => RegistryInv'
           /\ RegisterCheck(m) \/ RequestLost(m) => RegistryInv'
           /\ Beat(m) => RegistryInv'
           /\ ResolveBeat(m) => RegistryInv'
<1>1. /\ agent[m] \in RegistryAgents
      /\ OwnId(m, agent[m].id) /\ OwnId(m, agent[m].target) /\ OwnId(m, 0)
      /\ agent[m].wait <= agent[m].base
      /\ agent[m].pc # "idle" => agent[m].wait = 0
      /\ Timely(agent[m], row[NameOf[m]])
  BY AgentIsTyped
<1>2. ASSUME StartRegistering(m) \/ Stop(m) PROVE RegistryInv'
  <2>1. \E x \in RegistryAgents :
            /\ agent' = [agent EXCEPT ![m] = x]
            /\ x.id = 0 /\ x.target = 0 /\ x.wait = 0 /\ x.base = Default
            /\ x.missed /\ x.pc \in {"check", "off"}
    <3>1. CASE StartRegistering(m)
      <4> DEFINE x == [NoAgent EXCEPT !.pc = "check", !.token = yaml[m]]
      <4>1. x \in RegistryAgents /\ x.missed /\ x.id = 0 /\ x.target = 0 /\ x.wait = 0
                                 /\ x.base = Default /\ x.pc = "check"
        BY EmptyRowAndAgent DEF RegistryInv, RegistryTypes, RegistryAgents, AgentPcs, NoAgent
      <4>2. agent' = [agent EXCEPT ![m] = x]
        BY <3>1 DEF StartRegistering
      <4> HIDE DEF x
      <4>3. QED
        BY <4>1, <4>2
    <3>2. CASE Stop(m)
      BY <3>2, EmptyRowAndAgent DEF Stop, NoAgent
    <3>3. QED
      BY <1>2, <3>1, <3>2
  <2>2. PICK x \in RegistryAgents :
            /\ agent' = [agent EXCEPT ![m] = x]
            /\ x.id = 0 /\ x.target = 0 /\ x.wait = 0 /\ x.base = Default
            /\ x.missed /\ x.pc \in {"check", "off"}
    BY <2>1
  <2>3. x.wait <= x.base
    BY <2>2 DEF Default
  <2>4. UNCHANGED <<row, ids, tokens, yaml>>
    BY <1>2 DEF StartRegistering, Stop
  <2>5. Timely(x, row[NameOf[m]])
    BY <2>2, MissedIsTimely DEF Answering
  <2>6. QED
    BY <1>1, <2>2, <2>3, <2>4, <2>5, AgentMoves
<1>3. ASSUME NEW x \in RegistryAgents, agent' = [agent EXCEPT ![m] = x],
             UNCHANGED <<row, ids, tokens, yaml>>,
             agent[m].pc # "off", agent[m].wait = 0,
             x.pc \notin {"off", "idle"} \cup Answering, x.id = agent[m].id, OwnId(m, x.target),
             x.wait = agent[m].wait, x.base = agent[m].base, x.missed = agent[m].missed,
             x.late = agent[m].late
      PROVE  RegistryInv'
  <2>1. Timely(x, row[NameOf[m]])
    BY <1>1, <1>3 DEF Timely
  <2>2. QED
    BY <1>1, <1>3, <2>1, AgentMoves
<1>4. ASSUME RegisterCheck(m) \/ RequestLost(m) PROVE RegistryInv'
  <2>1. UNCHANGED <<row, ids, tokens, yaml>> /\ agent[m].pc \notin {"idle", "off"}
    BY <1>4 DEF RegisterCheck, RequestLost
  <2>2. CASE GiveUp(m)
    BY <2>1, <2>2, GiveUpKeeps
  <2>3. CASE agent' = [agent EXCEPT ![m].pc = "commit"]
    <3> DEFINE x == [agent[m] EXCEPT !.pc = "commit"]
    <3>1. /\ x \in RegistryAgents /\ x.pc = "commit" /\ x.late = agent[m].late /\ x.id = agent[m].id
          /\ x.target = agent[m].target /\ x.wait = agent[m].wait /\ x.base = agent[m].base
          /\ x.missed = agent[m].missed
      BY <1>1 DEF RegistryAgents, AgentPcs
    <3>2. agent' = [agent EXCEPT ![m] = x]
      BY <2>3
    <3> HIDE DEF x
    <3>3. QED
      BY <1>1, <1>3, <2>1, <3>1, <3>2 DEF Answering
  <2>4. QED
    BY <1>4, <2>2, <2>3 DEF RegisterCheck, RequestLost
<1>5. ASSUME Beat(m) PROVE RegistryInv'
  <2> DEFINE x == [agent[m] EXCEPT !.pc = "resolve"]
  <2>1. /\ x \in RegistryAgents /\ x.pc = "resolve" /\ x.late = agent[m].late /\ x.id = agent[m].id
        /\ x.target = agent[m].target /\ x.wait = agent[m].wait /\ x.base = agent[m].base
        /\ x.missed = agent[m].missed
    BY <1>1 DEF RegistryAgents, AgentPcs
  <2>2. /\ agent' = [agent EXCEPT ![m] = x] /\ UNCHANGED <<row, ids, tokens, yaml>>
        /\ agent[m].pc = "idle" /\ agent[m].wait = 0
    BY <1>5 DEF Beat
  <2> HIDE DEF x
  <2>3. QED
    BY <1>1, <1>3, <2>1, <2>2 DEF Answering
<1>6. ASSUME ResolveBeat(m) PROVE RegistryInv'
  <2>1. UNCHANGED <<row, ids, tokens, yaml>> /\ agent[m].pc = "resolve"
    BY <1>6 DEF ResolveBeat
  <2>2. CASE GiveUp(m)
    BY <2>1, <2>2, GiveUpKeeps
  <2>3. CASE agent' = [agent EXCEPT ![m].pc = "check", ![m].again = TRUE]
    <3> DEFINE x == [agent[m] EXCEPT !.pc = "check", !.again = TRUE]
    <3>1. /\ x \in RegistryAgents /\ x.pc = "check" /\ x.late = agent[m].late /\ x.id = agent[m].id
          /\ x.target = agent[m].target /\ x.wait = agent[m].wait /\ x.base = agent[m].base
          /\ x.missed = agent[m].missed
      BY <1>1 DEF RegistryAgents, AgentPcs
    <3>2. agent' = [agent EXCEPT ![m] = x]
      BY <2>3 DEF RegistryInv, RegistryTypes
    <3> HIDE DEF x
    <3>3. QED
      BY <1>1, <1>3, <2>1, <3>1, <3>2 DEF Answering
  <2>4. ASSUME NEW n \in Resolved(m),
               agent' = [agent EXCEPT ![m].pc = "serve", ![m].target = row[n].id]
        PROVE  RegistryInv'
    <3>1. n \in Names /\ n = NameOf[m]
      <4>1. CASE agent[m].id = 0
        BY <2>4, <4>1 DEF Resolved
      <4>2. CASE agent[m].id # 0
        BY <1>1, <2>4, <4>2 DEF Resolved, WithId, OwnId
      <4>3. QED
        BY <4>1, <4>2
    <3>2. OwnId(m, row[n].id)
      BY <3>1 DEF OwnId, RegistryInv, IdsDiffer
    <3> DEFINE x == [agent[m] EXCEPT !.pc = "serve", !.target = row[n].id]
    <3>3. row[n].id \in Nat
      BY <3>1 DEF RegistryInv, RegistryTypes, RegistryRows
    <3>4. /\ x \in RegistryAgents /\ x.pc = "serve" /\ x.late = agent[m].late /\ x.id = agent[m].id
          /\ x.target = row[n].id /\ x.wait = agent[m].wait /\ x.base = agent[m].base
          /\ x.missed = agent[m].missed
      BY <1>1, <3>3 DEF RegistryAgents, AgentPcs
    <3>5. agent' = [agent EXCEPT ![m] = x]
      BY <2>4 DEF RegistryInv, RegistryTypes
    <3> HIDE DEF x
    <3>6. QED
      BY <1>1, <1>3, <2>1, <3>2, <3>4, <3>5 DEF Answering
  <2>5. QED
    BY <1>6, <2>2, <2>3, <2>4 DEF ResolveBeat
<1>7. QED
  BY <1>2, <1>4, <1>5, <1>6

(* A beat or a registration that arrives: the row becomes r, the agent x.  *)
LEMMA ArrivalKeeps ==
    ASSUME RegistryInv, NEW m \in Machines, NEW x \in RegistryAgents, NEW r \in RegistryRows,
           row' = [row EXCEPT ![NameOf[m]] = r], agent' = [agent EXCEPT ![m] = x],
           UNCHANGED <<tokens, yaml>>,
           \/ r.id = row[NameOf[m]].id /\ ids' = ids
           \/ r.id = ids + 1 /\ ids' = ids + 1,
           r.age = 0, r.status # "offline",
           x.id = agent[m].id, x.target \in {r.id, agent[m].target},
           x.wait <= x.base, x.late = 0, x.pc # "idle" => x.wait = 0
    PROVE  RegistryInv'
<1> DEFINE n == NameOf[m]
<1>1. n \in Names
  BY NameOfAssumption
<1>2. /\ agent'[m] = x /\ \A k \in Machines \ {m} : agent'[k] = agent[k]
      /\ row'[n] = r /\ \A k \in Names \ {n} : row'[k] = row[k]
  BY <1>1 DEF RegistryInv, RegistryTypes
<1>3. ids \in Nat /\ \A k \in Names : row[k].id <= ids /\ row[k].id \in Nat
  BY DEF RegistryInv, RegistryTypes, RegistryRows, IdsDiffer
<1>4. RegistryTypes'
  BY <1>1, <1>3 DEF RegistryInv, RegistryTypes
<1>5. OwnId(m, x.id)' /\ OwnId(m, x.target)'
  <2>1. ASSUME NEW id \in Nat, OwnId(m, id) PROVE OwnId(m, id)'
    BY <1>1, <1>2, <1>3, <2>1 DEF OwnId
  <2>2. OwnId(m, r.id)'
    BY <1>1, <1>2, <1>3 DEF OwnId, RegistryInv, IdsDiffer
  <2>3. QED
    BY <2>1, <2>2, AgentIsTyped DEF OwnId
<1>6. AgentSound(m)'
  <2>1. x.wait \in Nat /\ x.base \in Nat
    BY IntervalsAssumption DEF RegistryAgents
  <2>2. QED
    BY <1>1, <1>2, <1>5, <2>1 DEF AgentSound, Timely
<1>7. \A k \in Names :
          /\ row'[k].id \in {0, row[k].id} \/ (row'[k].id = ids + 1 /\ ids' = ids + 1)
          /\ row'[k].age \in {0, row[k].age}
          /\ row'[k].status = "offline" => row[k].status = "offline"
  BY <1>1, <1>2
<1>8. \A j, k \in Names : row'[j].id = ids + 1 /\ row'[k].id = ids + 1 => j = k
  BY <1>2, <1>3
<1>9. QED
  BY <1>2, <1>4, <1>6, <1>7, <1>8, TimelessKeeps

LEMMA CommitKeeps ==
    ASSUME RegistryInv, NEW m \in Machines, RegisterCommit(m)
    PROVE  RegistryInv'
<1> DEFINE n  == NameOf[m]
           id == IF HasRow(n) THEN row[n].id ELSE ids + 1
           old == IF HasRow(n) THEN row[n] ELSE [NoRow EXCEPT !.id = id, !.token = agent[m].token]
           r  == [old EXCEPT !.status = "online", !.age = 0, !.known = TRUE]
           x  == [agent[m] EXCEPT !.target = id, !.missed = FALSE, !.late = 0,
                                  !.pc = "registered"]
<1>1. /\ agent[m] \in RegistryAgents /\ agent[m].pc = "commit"
      /\ agent[m].wait = 0 /\ agent[m].wait <= agent[m].base /\ 0 \in 0..Latency
  BY AgentIsTyped DEF RegisterCommit
<1>2. n \in Names /\ ids \in Nat /\ row[n] \in RegistryRows
  BY NameOfAssumption DEF RegistryInv, RegistryTypes
<1>3. id \in Nat
  BY <1>2 DEF RegistryRows
<1>4. old \in RegistryRows /\ old.id = id
  <2>1. CASE HasRow(n)
    BY <1>2, <2>1
  <2>2. CASE ~HasRow(n)
    <3>1. [NoRow EXCEPT !.id = id, !.token = agent[m].token] \in RegistryRows
      BY <1>1, <1>3, EmptyRowAndAgent DEF RegistryRows, RegistryAgents
    <3>2. [NoRow EXCEPT !.id = id, !.token = agent[m].token].id = id
      BY DEF NoRow
    <3>3. QED
      BY <2>2, <3>1, <3>2
  <2>3. QED
    BY <2>1, <2>2
<1>5. row' = [row EXCEPT ![n] = r]
  BY DEF RegisterCommit
<1>6. agent' = [agent EXCEPT ![m] = x]
  BY DEF RegisterCommit, RegistryInv, RegistryTypes
<1>7. /\ UNCHANGED <<tokens, yaml>>
      /\ \/ id = row[n].id /\ ids' = ids
         \/ id = ids + 1 /\ ids' = ids + 1
  BY DEF RegisterCommit
<1> HIDE DEF old, id
<1>8. r \in RegistryRows /\ r.id = id /\ r.age = 0 /\ r.status = "online"
  BY <1>4 DEF RegistryRows
<1>9. /\ x \in RegistryAgents /\ x.id = agent[m].id /\ x.target = id
      /\ x.wait = 0 /\ x.base = agent[m].base /\ x.late = 0
  BY <1>1, <1>3 DEF RegistryAgents, AgentPcs
<1> HIDE DEF r, x
<1>10. QED
  BY <1>1, <1>5, <1>6, <1>7, <1>8, <1>9, ArrivalKeeps

LEMMA ServeKeeps ==
    ASSUME RegistryInv, NEW m \in Machines, ServeBeat(m)
    PROVE  RegistryInv'
<1>1. agent[m].pc = "serve" /\ UNCHANGED <<ids, tokens, yaml>>
  BY DEF ServeBeat
<1>2. /\ agent[m] \in RegistryAgents /\ OwnId(m, agent[m].target)
      /\ agent[m].wait = 0 /\ agent[m].wait <= agent[m].base /\ 0 \in 0..Latency
      /\ UNCHANGED <<ids, tokens, yaml>>
  BY <1>1, AgentIsTyped
<1>3. CASE WithId(agent[m].target) = {}
  BY <1>2, <1>3, GiveUpKeeps DEF ServeBeat
<1>4. CASE WithId(agent[m].target) # {}
  <2>1. PICK n \in WithId(agent[m].target) :
            /\ row' = [row EXCEPT ![n].status = "idle", ![n].age = 0, ![n].known = TRUE]
            /\ agent' = [agent EXCEPT ![m].pc = "answered", ![m].told = row[n].interval,
                                      ![m].missed = FALSE, ![m].late = 0]
    BY <1>4 DEF ServeBeat
  <2>2. n \in Names /\ n = NameOf[m] /\ row[n] \in RegistryRows
    BY <1>2 DEF WithId, OwnId, RegistryInv, RegistryTypes
  <2> DEFINE r == [row[n] EXCEPT !.status = "idle", !.age = 0, !.known = TRUE]
             x == [agent[m] EXCEPT !.pc = "answered", !.told = row[n].interval,
                                   !.missed = FALSE, !.late = 0]
  <2>3. r \in RegistryRows /\ r.id = row[n].id /\ r.age = 0 /\ r.status = "idle"
    BY <2>2 DEF RegistryRows
  <2>4. row' = [row EXCEPT ![n] = r]
    BY <2>1, <2>2 DEF RegistryInv, RegistryTypes
  <2>5. /\ x \in RegistryAgents /\ x.id = agent[m].id /\ x.target = agent[m].target
        /\ x.wait = 0 /\ x.base = agent[m].base /\ x.late = 0
    BY <1>2, <2>2 DEF RegistryRows, RegistryAgents, AgentPcs
  <2>6. agent' = [agent EXCEPT ![m] = x]
    BY <2>1 DEF RegistryInv, RegistryTypes
  <2> HIDE DEF r, x
  <2>7. QED
    BY <1>2, <2>2, <2>3, <2>4, <2>5, <2>6, ArrivalKeeps
<1>5. QED
  BY <1>3, <1>4

(* Time passes for all: a wait gets shorter, or an agent later.            *)
LEMMA TickKeeps == ASSUME RegistryInv, Tick PROVE RegistryInv'
<1> DEFINE older(n) == IF row[n].known /\ row[n].age <= Timeout
                       THEN [row[n] EXCEPT !.age = @ + 1] ELSE row[n]
           later(m) == IF agent[m].pc = "off" THEN agent[m]
                       ELSE IF Waits(m) THEN [agent[m] EXCEPT !.wait = @ - 1]
                       ELSE [agent[m] EXCEPT !.late = @ + 1]
<1>1. ASSUME NEW n \in Names
      PROVE  /\ older(n) \in RegistryRows /\ older(n).id = row[n].id
             /\ older(n).status = row[n].status
             /\ row[n].age \in Nat /\ older(n).age \in {row[n].age, row[n].age + 1}
  BY DEF RegistryInv, RegistryTypes, RegistryRows
<1>2. ASSUME NEW m \in Machines
      PROVE  /\ later(m) \in RegistryAgents /\ later(m).pc = agent[m].pc
             /\ later(m).id = agent[m].id /\ later(m).target = agent[m].target
             /\ later(m).base = agent[m].base /\ later(m).missed = agent[m].missed
             /\ \/ agent[m].pc = "off" /\ later(m) = agent[m]
                \/ /\ agent[m].pc = "idle" /\ agent[m].wait > 0
                   /\ later(m).wait = agent[m].wait - 1 /\ later(m).late = agent[m].late
                \/ later(m).wait = agent[m].wait /\ later(m).late = agent[m].late + 1
             /\ agent[m].wait \in Nat /\ agent[m].base \in Nat /\ agent[m].late \in Nat
  <2>1. /\ agent[m] \in RegistryAgents /\ agent[m].wait \in Nat /\ agent[m].base \in Nat
        /\ agent[m].late \in 0..Latency /\ Latency \in Nat
    BY AgentIsTyped
  <2>2. agent[m].pc = "off" \/ Waits(m) \/ agent[m].late < Latency
    BY DEF Tick
  <2>3. CASE agent[m].pc = "off"
    BY <2>1, <2>3
  <2>4. CASE Waits(m)
    <3>1. agent[m].pc = "idle" /\ agent[m].wait > 0 /\ agent[m].wait - 1 \in Nat
      BY <2>1, <2>4 DEF Waits
    <3>2. QED
      BY <2>1, <2>4, <3>1 DEF RegistryAgents
  <2>5. CASE agent[m].pc # "off" /\ ~Waits(m)
    <3>1. agent[m].late + 1 \in 0..Latency
      BY <2>1, <2>2, <2>5
    <3>2. QED
      BY <2>1, <2>5, <3>1 DEF RegistryAgents
  <2>6. QED
    BY <2>3, <2>4, <2>5
<1>3. /\ row' = [n \in Names |-> older(n)] /\ agent' = [m \in Machines |-> later(m)]
      /\ UNCHANGED <<ids, tokens, yaml>>
  BY DEF Tick
<1> HIDE DEF older, later
<1>4. RegistryTypes'
  BY <1>1, <1>2, <1>3 DEF RegistryInv, RegistryTypes
<1>5. IdsDiffer'
  BY <1>1, <1>3 DEF RegistryInv, IdsDiffer
<1>6. ASSUME NEW m \in Machines PROVE AgentSound(m)'
  <2>1. OwnId(m, agent[m].id)' /\ OwnId(m, agent[m].target)'
    <3>1. agent'[m].id = agent[m].id /\ agent'[m].target = agent[m].target
      BY <1>2, <1>3
    <3>2. \A n \in Names : row'[n].id = row[n].id
      BY <1>1, <1>3
    <3>3. QED
      BY <1>3, <3>1, <3>2 DEF OwnId, RegistryInv, AgentSound
  <2>2. NameOf[m] \in Names
    BY NameOfAssumption
  <2>3. AgentSound(m)
    BY DEF RegistryInv
  <2>4. Timely(agent[m], row[NameOf[m]])'
    BY <1>1, <1>2, <1>3, <2>2, <2>3 DEF AgentSound, Timely, Answering
  <2>5. QED
    BY <1>2, <1>3, <2>1, <2>3, <2>4 DEF AgentSound
<1>7. QED
  BY <1>4, <1>5, <1>6 DEF RegistryInv

LEMMA RegistryStepKeeps == RegistryInv /\ [RegistryNext]_registryVars => RegistryInv'
<1> SUFFICES ASSUME RegistryInv, [RegistryNext]_registryVars PROVE RegistryInv'
  OBVIOUS
<1>1. ASSUME UNCHANGED <<row, ids, tokens, yaml, agent>> PROVE RegistryInv'
  BY <1>1 DEF RegistryInv, RegistryTypes, IdsDiffer, AgentSound, OwnId, Timely
<1>2. CASE UNCHANGED registryVars
  BY <1>1, <1>2 DEF registryVars
<1>3. ASSUME NEW m \in Machines, AgentStep(m) PROVE RegistryInv'
  BY <1>3, RequestKeeps, CommitKeeps, ServeKeeps, AnswerKeeps DEF AgentStep
<1>4. ASSUME NEW m \in Machines, Report(m) PROVE RegistryInv'
  BY <1>1, <1>4 DEF Report
<1>5. QED
  BY <1>2, <1>3, <1>4, ServerKeeps, ProvisionKeeps, RequestKeeps, AnswerKeeps,
     TickKeeps DEF RegistryNext

(* Whoever rotates, deletes, resets and provisions meanwhile: an agent     *)
(* whose last beat arrived, answered or not, and whose interval and        *)
(* latency are within the server's patience, is not shown offline.         *)
THEOREM OfflineIsSilentAlways == RegistrySpec => []OfflineIsSilent
<1>1. RegistryInv => OfflineIsSilent
  <2> SUFFICES ASSUME RegistryInv, NEW m \in Machines,
                      row[NameOf[m]].status = "offline", agent[m].pc # "off",
                      ~agent[m].missed
               PROVE  agent[m].base + Latency > Timeout
    BY DEF OfflineIsSilent
  <2>1. agent[m].base \in Nat /\ Timeout \in Nat /\ Latency \in Nat
    BY AgentIsTyped
  <2>2. QED
    BY <2>1 DEF RegistryInv, AgentSound, Timely
<1>2. QED
  BY <1>1, RegistryInitIsSound, RegistryStepKeeps, PTL DEF RegistrySpec

-----------------------------------------------------------------------------
(* The four parts together: what the invariants above leave open of the    *)
(* types.                                                                  *)

(* Bounds of the registry: ids and tokens are given out one by one, an age *)
(* stops at the timeout.                                                   *)
RegistryBounds ==
    /\ ids <= MaxIds /\ tokens <= MaxTokens
    /\ \A n \in Names : row[n].token <= tokens /\ row[n].age <= Timeout + 1
    /\ \A m \in Machines : yaml[m] <= tokens /\ agent[m].token <= tokens
    /\ result \in [Machines -> {"none", "accepted", "unknown", "refused"}]

LEMMA RegistryBoundsInit == RegistryInit => RegistryBounds
  BY BoundsAssumption DEF RegistryInit, RegistryBounds, NoRow, NoAgent

LEMMA RowBoundsKeep ==
    ASSUME RegistryInv, RegistryBounds,
           \/ \E n \in Names : RotateToken(n) \/ DeleteAgent(n)
           \/ \E n \in Names, i \in Intervals : UpdateAgentSettings(n, i)
           \/ DatabaseReset
           \/ CheckStaleAgents
    PROVE  RegistryBounds'
<1>1. /\ row \in [Names -> RegistryRows] /\ ids \in Nat /\ tokens \in Nat
      /\ yaml \in [Machines -> Nat] /\ agent \in [Machines -> RegistryAgents]
  BY DEF RegistryInv, RegistryTypes
<1>2. /\ UNCHANGED <<ids, yaml, agent, result>>
      /\ tokens' \in Nat /\ tokens <= tokens' /\ tokens' <= MaxTokens
  BY <1>1, BoundsAssumption
     DEF RotateToken, DeleteAgent, UpdateAgentSettings, DatabaseReset, CheckStaleAgents,
         RegistryBounds
<1>3. \A n \in Names : row'[n].token <= tokens' /\ row'[n].age <= Timeout + 1
  <2>1. \A n \in Names : /\ row[n] \in RegistryRows
                         /\ row[n].token <= tokens /\ row[n].age <= Timeout + 1
    BY <1>1 DEF RegistryBounds
  <2>2. CASE \E n \in Names : RotateToken(n) \/ DeleteAgent(n)
    BY <1>1, <2>1, <2>2, BoundsAssumption DEF RotateToken, DeleteAgent, NoRow, RegistryRows
  <2>3. CASE \E n \in Names, i \in Intervals : UpdateAgentSettings(n, i)
    BY <1>1, <2>1, <2>3 DEF UpdateAgentSettings, RegistryRows
  <2>4. CASE DatabaseReset
    BY <1>1, <2>4, BoundsAssumption DEF DatabaseReset, NoRow
  <2>5. CASE CheckStaleAgents
    BY <1>1, <2>1, <2>5 DEF CheckStaleAgents, RegistryRows
  <2>6. QED
    BY <2>2, <2>3, <2>4, <2>5
<1>4. \A m \in Machines : yaml[m] <= tokens' /\ agent[m].token <= tokens'
  BY <1>1, <1>2 DEF RegistryBounds, RegistryAgents
<1>5. QED
  BY <1>2, <1>3, <1>4 DEF RegistryBounds

LEMMA InstallBoundsKeep ==
    ASSUME RegistryInv, RegistryBounds, NEW m \in Machines, NEW n \in Names, InstallScript(m, n)
    PROVE  RegistryBounds'
<1>1. /\ row \in [Names -> RegistryRows] /\ ids \in Nat /\ tokens \in Nat
      /\ yaml \in [Machines -> Nat] /\ agent \in [Machines -> RegistryAgents]
  BY DEF RegistryInv, RegistryTypes
<1>2. /\ UNCHANGED <<agent, result>> /\ ids' <= MaxIds
      /\ tokens' = tokens + 1 /\ tokens' <= MaxTokens
  BY <1>1, BoundsAssumption DEF InstallScript, Provision, RegistryBounds
<1>3. ASSUME NEW k \in Names PROVE row'[k].token <= tokens' /\ row'[k].age <= Timeout + 1
  <2>1. row[k] \in RegistryRows /\ row[k].token <= tokens /\ row[k].age <= Timeout + 1
    BY <1>1 DEF RegistryBounds
  <2>2. \/ row' = [row EXCEPT ![n].token = tokens + 1]
        \/ row' = [row EXCEPT ![n] = [NoRow EXCEPT !.id = ids + 1, !.token = tokens + 1]]
    BY DEF InstallScript, Provision
  <2>3. row'[k].token \in {row[k].token, tokens + 1} /\ row'[k].age \in {row[k].age, 0}
    <3> DEFINE old == [row[n] EXCEPT !.token = tokens + 1]
               new == [NoRow EXCEPT !.id = ids + 1, !.token = tokens + 1]
    <3>1. /\ old.token = tokens + 1 /\ old.age = row[n].age
          /\ new.token = tokens + 1 /\ new.age = 0
      BY <1>1 DEF NoRow, RegistryRows
    <3>2. row' = [row EXCEPT ![n] = old] \/ row' = [row EXCEPT ![n] = new]
      BY <2>2
    <3> HIDE DEF old, new
    <3>3. QED
      BY <1>1, <3>1, <3>2
  <2>4. row[k].token \in Nat /\ row[k].age \in Nat
    BY <2>1 DEF RegistryRows
  <2>5. QED
    BY <1>1, <1>2, <2>1, <2>3, <2>4, BoundsAssumption
<1>4. \A k \in Machines : yaml'[k] <= tokens'
  BY <1>1, <1>2 DEF InstallScript, RegistryBounds
<1>5. \A k \in Machines : agent'[k].token <= tokens'
  BY <1>1, <1>2 DEF RegistryBounds, RegistryAgents
<1>6. QED
  BY <1>2, <1>3, <1>4, <1>5 DEF RegistryBounds

LEMMA AgentBoundsKeep ==
    ASSUME RegistryInv, RegistryBounds, NEW m \in Machines,
           StartRegistering(m) \/ Stop(m) \/ AgentStep(m) \/ RequestLost(m) \/ AnswerLost(m) \/ Report(m)
    PROVE  RegistryBounds'
<1>1. /\ row \in [Names -> RegistryRows] /\ ids \in Nat /\ tokens \in Nat
      /\ yaml \in [Machines -> Nat] /\ agent \in [Machines -> RegistryAgents]
      /\ agent[m] \in RegistryAgents /\ NameOf[m] \in Names
  BY NameOfAssumption DEF RegistryInv, RegistryTypes
<1>2. UNCHANGED <<tokens, yaml>>
  BY DEF StartRegistering, Stop, AgentStep, RegisterCheck, RegisterCommit, Beat, ResolveBeat,
         ServeBeat, TakeId, TakeAnswer, RequestLost, AnswerLost, Report
<1>3. result' \in [Machines -> {"none", "accepted", "unknown", "refused"}]
  <2>1. CASE Report(m)
    BY <2>1 DEF Report, RegistryBounds
  <2>2. CASE ~Report(m)
    BY <2>2 DEF StartRegistering, Stop, AgentStep, RegisterCheck, RegisterCommit, Beat,
                ResolveBeat, ServeBeat, TakeId, TakeAnswer, RequestLost, AnswerLost, RegistryBounds
  <2>3. QED
    BY <2>1, <2>2
<1>4. agent' \in [Machines -> RegistryAgents] =>
        \A k \in Machines : agent'[k].token <= tokens
  <2> DEFINE Known(t) == t \in {agent[m].token, yaml[m], 0}
             Becomes(x) == agent' = [agent EXCEPT ![m] = x]
  <2>1. ASSUME NEW x, Becomes(x), Known(x.token)
        PROVE  \A k \in Machines : agent'[k].token <= tokens
    <3>1. agent'[m] = x /\ \A k \in Machines \ {m} : agent'[k] = agent[k]
      BY <1>1, <2>1
    <3>2. QED
      BY <1>1, <2>1, <3>1 DEF RegistryBounds
  <2>2. CASE StartRegistering(m) \/ Stop(m)
    <3> DEFINE x == [NoAgent EXCEPT !.pc = "check", !.token = yaml[m]]
    <3>1. Becomes(x) \/ Becomes(NoAgent)
      BY <2>2 DEF StartRegistering, Stop
    <3>2. x.token = yaml[m] /\ NoAgent.token = 0
      BY DEF NoAgent
    <3> HIDE DEF x, Becomes
    <3>3. QED
      BY <2>1, <3>1, <3>2
  <2>3. CASE (AgentStep(m) /\ ~RegisterCommit(m)) \/ RequestLost(m) \/ AnswerLost(m)
    <3> DEFINE a == agent[m]
               toPc(pc) == [a EXCEPT !.pc = pc]
               gone == AfterFailure([a EXCEPT !.missed = TRUE, !.late = 0])
               lost == AfterFailure(a)
               anew == [a EXCEPT !.pc = "check", !.again = TRUE]
               serve(id) == [a EXCEPT !.pc = "serve", !.target = id]
               answer(i) == [a EXCEPT !.pc = "answered", !.told = i, !.missed = FALSE, !.late = 0]
               named(pc) == [a EXCEPT !.id = a.target, !.target = 0, !.pc = pc]
               heard == Rest([a EXCEPT !.id = a.target, !.base = a.told])
    <3>1. /\ \A pc : toPc(pc).token = a.token /\ named(pc).token = a.token
          /\ gone.token = a.token /\ lost.token = a.token /\ anew.token = a.token
          /\ \A id : serve(id).token = a.token /\ answer(id).token = a.token
          /\ heard.token = a.token
      BY <1>1 DEF Rest, AfterFailure, RegistryAgents
    <3>2. \/ \E pc : Becomes(toPc(pc)) \/ Becomes(named(pc))
          \/ Becomes(gone) \/ Becomes(lost) \/ Becomes(anew) \/ Becomes(heard)
          \/ \E id : Becomes(serve(id)) \/ Becomes(answer(id))
      <4>1. CASE RegisterCheck(m) \/ RequestLost(m) \/ AnswerLost(m)
        BY <4>1 DEF RegisterCheck, RequestLost, AnswerLost, GiveUp
      <4>2. CASE TakeId(m)
        BY <4>2 DEF TakeId
      <4>3. CASE TakeAnswer(m)
        BY <4>3 DEF TakeAnswer
      <4>4. CASE Beat(m)
        BY <4>4 DEF Beat
      <4>5. CASE ResolveBeat(m)
        BY <1>1, <4>5 DEF ResolveBeat, GiveUp
      <4>6. CASE ServeBeat(m)
        <5>1. CASE GiveUp(m)
          BY <5>1 DEF GiveUp
        <5>2. CASE ~GiveUp(m)
          <6>1. PICK n \in WithId(a.target) :
                    agent' = [agent EXCEPT ![m].pc = "answered", ![m].told = row[n].interval,
                                           ![m].missed = FALSE, ![m].late = 0]
            BY <4>6, <5>2 DEF ServeBeat
          <6>2. Becomes(answer(row[n].interval))
            BY <1>1, <6>1
          <6>3. QED
            BY <6>2
        <5>3. QED
          BY <5>1, <5>2
      <4>7. QED
        BY <2>3, <4>1, <4>2, <4>3, <4>4, <4>5, <4>6 DEF AgentStep
    <3> HIDE DEF toPc, gone, lost, anew, serve, answer, named, heard, Becomes
    <3>3. QED
      BY <2>1, <3>1, <3>2
  <2>4. CASE Report(m)
    BY <2>4 DEF Report, RegistryBounds
  <2>5. CASE RegisterCommit(m)
    <3>1. \A k \in Machines : agent'[k].token = agent[k].token
      BY <1>1, <2>5 DEF RegisterCommit, RegistryAgents
    <3>2. QED
      BY <3>1 DEF RegistryBounds
  <2>6. QED
    BY <2>2, <2>3, <2>4, <2>5 DEF AgentStep
<1>5. agent' \in [Machines -> RegistryAgents]
  BY RegistryStepKeeps DEF RegistryNext, RegistryInv, RegistryTypes
<1>6. ids' <= MaxIds
  BY <1>1 DEF StartRegistering, Stop, AgentStep, RegisterCheck, RegisterCommit, Beat, ResolveBeat,
         ServeBeat, TakeId, TakeAnswer, RequestLost, AnswerLost, Report, RegistryBounds
<1>7. ASSUME NEW n \in Names PROVE row'[n].token <= tokens /\ row'[n].age <= Timeout + 1
  <2>1. row[n] \in RegistryRows /\ row[n].token <= tokens /\ row[n].age <= Timeout + 1
    BY <1>1 DEF RegistryBounds
  <2>2. CASE RegisterCommit(m)
    BY <1>1, <2>1, <2>2, BoundsAssumption DEF RegisterCommit, RegistryRows, RegistryBounds, NoRow
  <2>3. CASE ServeBeat(m)
    <3>1. \/ row' = row
          \/ \E k \in Names : row' = [row EXCEPT ![k].status = "idle", ![k].age = 0, ![k].known = TRUE]
      BY <2>3 DEF ServeBeat, WithId
    <3>2. row'[n].token = row[n].token /\ row'[n].age \in {row[n].age, 0}
      <4>1. CASE row' = row
        BY <4>1
      <4>2. ASSUME NEW k \in Names,
                   row' = [row EXCEPT ![k].status = "idle", ![k].age = 0, ![k].known = TRUE]
            PROVE  row'[n].token = row[n].token /\ row'[n].age \in {row[n].age, 0}
        <5>1. CASE n = k
          BY <1>1, <2>1, <4>2, <5>1 DEF RegistryRows
        <5>2. CASE n # k
          BY <1>1, <4>2, <5>2
        <5>3. QED
          BY <5>1, <5>2
      <4>3. QED
        BY <3>1, <4>1, <4>2
    <3>3. QED
      BY <2>1, <3>2, BoundsAssumption
  <2>4. CASE ~RegisterCommit(m) /\ ~ServeBeat(m)
    BY <2>1, <2>4 DEF StartRegistering, Stop, AgentStep, RegisterCheck, Beat, ResolveBeat,
         TakeId, TakeAnswer, RequestLost, AnswerLost, Report
  <2>5. QED
    BY <2>2, <2>3, <2>4
<1>8. QED
  BY <1>1, <1>2, <1>3, <1>4, <1>5, <1>6, <1>7 DEF RegistryBounds

LEMMA RegistryBoundsKeep == RegistryInv /\ RegistryBounds /\ [RegistryNext]_registryVars => RegistryBounds'
<1> SUFFICES ASSUME RegistryInv, RegistryBounds, [RegistryNext]_registryVars
             PROVE  RegistryBounds'
  OBVIOUS
<1>1. CASE UNCHANGED registryVars
  BY <1>1 DEF registryVars, RegistryBounds
<1>2. CASE Tick
  <2>1. /\ row \in [Names -> RegistryRows] /\ agent \in [Machines -> RegistryAgents]
        /\ UNCHANGED <<ids, tokens, yaml, result>>
    BY <1>2 DEF Tick, RegistryInv, RegistryTypes
  <2>2. \A n \in Names : row'[n].token <= tokens /\ row'[n].age <= Timeout + 1
    BY <1>2, <2>1, BoundsAssumption DEF Tick, RegistryBounds, RegistryRows
  <2>3. \A m \in Machines : agent'[m].token <= tokens
    BY <1>2, <2>1 DEF Tick, RegistryBounds, RegistryAgents
  <2>4. QED
    BY <2>1, <2>2, <2>3 DEF RegistryBounds
<1>3. QED
  BY <1>1, <1>2, RowBoundsKeep, InstallBoundsKeep, AgentBoundsKeep DEF RegistryNext

LEMMA RegistryIsTyped == RegistryInv /\ RegistryBounds => RegistryTypeOK
<1> SUFFICES ASSUME RegistryInv, RegistryBounds PROVE RegistryTypeOK
  OBVIOUS
<1> DEFINE longest == CHOOSE i \in Intervals : \A j \in Intervals : j <= i
<1>1. longest \in Intervals /\ \A j \in Intervals : j <= longest
  BY LongestAssumption
<1>2. longest \in Nat
  BY <1>1, IntervalsAssumption
<1>3. /\ row \in [Names -> RegistryRows] /\ ids \in Nat /\ tokens \in Nat
      /\ yaml \in [Machines -> Nat] /\ agent \in [Machines -> RegistryAgents]
  BY DEF RegistryInv, RegistryTypes
<1>4. ASSUME NEW n \in Names PROVE row[n] \in Rows
  <2>1. row[n] \in RegistryRows /\ row[n].id <= ids /\ row[n].token <= tokens /\ row[n].age <= Timeout + 1
    BY <1>3 DEF RegistryInv, IdsDiffer, RegistryBounds
  <2>2. QED
    BY <1>3, <2>1, BoundsAssumption DEF RegistryRows, Rows, Ids, Tokens, Ages, RegistryBounds
<1>5. ASSUME NEW m \in Machines PROVE agent[m] \in Agents
  <2>1. /\ agent[m] \in RegistryAgents /\ agent[m].token <= tokens
        /\ agent[m].id <= ids /\ agent[m].target <= ids /\ agent[m].wait <= agent[m].base
    BY <1>3 DEF RegistryInv, AgentSound, OwnId, RegistryBounds
  <2>2. agent[m].wait \in 0..longest
    <3>1. agent[m].base \in Intervals /\ agent[m].wait \in Nat
      BY <2>1 DEF RegistryAgents
    <3>2. agent[m].base \in Nat /\ agent[m].base <= longest
      BY <1>1, <3>1, IntervalsAssumption
    <3> HIDE DEF longest
    <3>3. QED
      BY <1>2, <2>1, <3>1, <3>2
  <2>3. /\ agent[m].id \in Ids /\ agent[m].target \in Ids /\ agent[m].token \in Tokens
    BY <1>3, <2>1, BoundsAssumption DEF RegistryAgents, Ids, Tokens, RegistryBounds
  <2>4. QED
    BY <2>1, <2>2, <2>3 DEF RegistryAgents, Agents
<1>6. \A m \in Machines : yaml[m] \in Tokens
  BY <1>3, BoundsAssumption DEF RegistryBounds, Tokens
<1>7. ids \in Ids /\ tokens \in Tokens
  BY <1>3, BoundsAssumption DEF RegistryBounds, Ids, Tokens
<1>8. QED
  BY <1>3, <1>4, <1>5, <1>6, <1>7 DEF RegistryTypeOK, RegistryBounds

(* Bounds of the streams: no queue and no subscriber is ahead of the       *)
(* events that were published.                                             *)
StreamBounds ==
    \A s \in Subscribers :
        /\ sub[s].seen <= Len(source) /\ sub[s].since <= Len(source)
        /\ sub[s].dropped \subseteq 1..Len(source)
        /\ Len(queue[s]) <= QueueMax

LEMMA StreamBoundsInit == StreamInit => StreamBounds
  BY SizesAssumption, NoEvents DEF StreamInit, StreamBounds, Away

LEMMA StreamBoundsKeep ==
    ASSUME StreamInv, StreamInv', StreamBounds, [StreamNext]_streamVars PROVE StreamBounds'
<1>1. /\ source \in Seq(Sources) /\ Len(source) \in Nat /\ Len(source') \in Nat
      /\ Len(source) <= Len(source')
  <2>1. source \in Seq(Sources) /\ source' \in Seq(Sources)
    BY DEF StreamInv, StreamTypes
  <2>2. source' = source \/ \E src \in Sources : source' = Append(source, src)
    BY DEF StreamNext, streamVars, Publish, LoadPage, Subscribe, Deliver, Leave
  <2>3. QED
    BY <2>1, <2>2, LenProperties, AppendProperties
<1>2. SUFFICES ASSUME NEW s \in Subscribers
               PROVE  /\ sub'[s].seen <= Len(source') /\ sub'[s].since <= Len(source')
                      /\ sub'[s].dropped \subseteq 1..Len(source')
                      /\ Len(queue'[s]) <= QueueMax
  BY DEF StreamBounds
<1>3. /\ sub[s] \in SubStates /\ sub'[s] \in SubStates
      /\ queue[s] \in Seq(Nat) /\ queue'[s] \in Seq(Nat)
      /\ sub[s].seen <= Len(source) /\ sub[s].since <= Len(source)
      /\ sub[s].dropped \subseteq 1..Len(source) /\ Len(queue[s]) <= QueueMax
      /\ Len(queue[s]) \in Nat /\ QueueMax \in Nat /\ Len(history) \in Nat
      /\ Len(queue'[s]) \in Nat /\ QueueMax > 0
      /\ sub \in [Subscribers -> SubStates] /\ queue \in [Subscribers -> Seq(Nat)]
      /\ history \in Seq(Nat)
  BY StreamIsTyped, SizesAssumption, LenProperties DEF StreamInv, StreamTypes, StreamBounds
<1>4. sub'[s].pc = "on" => /\ sub'[s].since <= Len(source')
                           /\ sub'[s].dropped \subseteq 1..Len(source')
  BY DEF StreamInv, HeardOrQueued
<1>5. CASE UNCHANGED streamVars
  BY <1>3, <1>5 DEF streamVars
<1>6. ASSUME NEW src \in Sources, Publish(src)
      PROVE  /\ sub'[s].seen <= Len(source') /\ sub'[s].since <= Len(source')
             /\ sub'[s].dropped \subseteq 1..Len(source')
             /\ Len(queue'[s]) <= QueueMax
  <2>1. /\ sub'[s].seen = sub[s].seen /\ sub'[s].since = sub[s].since /\ sub'[s].pc = sub[s].pc
        /\ sub[s].pc # "on" => sub'[s] = sub[s]
    BY <1>3, <1>6 DEF Publish, SubStates
  <2>2. sub'[s].dropped \subseteq 1..Len(source')
    BY <1>1, <1>3, <1>4, <2>1
  <2>3. Len(queue'[s]) <= QueueMax
    <3>1. \/ queue'[s] = queue[s]
          \/ queue'[s] = Append(queue[s], Len(source) + 1) /\ Len(queue[s]) < QueueMax
      BY <1>3, <1>6 DEF Publish, HasRoom
    <3>2. Len(source) + 1 \in Nat
      BY <1>1
    <3>3. QED
      BY <1>3, <3>1, <3>2, AppendProperties
  <2>4. sub[s].seen \in Nat /\ sub[s].since \in Nat
    BY <1>3 DEF SubStates
  <2>5. QED
    BY <1>1, <1>3, <2>1, <2>2, <2>3, <2>4
<1>7. ASSUME NEW t \in Subscribers, LoadPage(t) \/ Subscribe(t) \/ Deliver(t) \/ Leave(t)
      PROVE  /\ sub'[s].seen <= Len(source') /\ sub'[s].since <= Len(source')
             /\ sub'[s].dropped \subseteq 1..Len(source')
             /\ Len(queue'[s]) <= QueueMax
  <2>1. source' = source
    BY <1>7 DEF LoadPage, Subscribe, Deliver, Leave
  <2>2. CASE t # s
    BY <1>3, <1>7, <2>1, <2>2 DEF LoadPage, Subscribe, Deliver, Leave
  <2>3. CASE LoadPage(s)
    BY <1>1, <1>3, <2>1, <2>3 DEF LoadPage, Away
  <2>4. CASE Leave(s)
    BY <1>1, <1>3, <2>1, <2>4, NoEvents DEF Leave, Away
  <2>5. CASE Deliver(s)
    <3>1. /\ sub'[s].seen = sub[s].seen /\ sub'[s].since = sub[s].since
          /\ sub'[s].dropped = sub[s].dropped
      BY <1>3, <2>5 DEF Deliver, SubStates
    <3>2. Len(queue'[s]) = Len(queue[s]) - 1
      BY <1>3, <2>5, HeadTailProperties DEF Deliver
    <3>3. QED
      BY <1>3, <2>1, <3>1, <3>2
  <2>6. CASE Subscribe(s)
    <3>1. sub'[s].seen = sub[s].seen /\ sub'[s].pc = "on"
      BY <1>3, <2>6 DEF Subscribe, SubStates
    <3>2. Len(queue'[s]) <= QueueMax
      <4> DEFINE old == IF replays THEN history ELSE <<>>
                 n == IF Len(old) < QueueMax THEN Len(old) ELSE QueueMax
      <4>1. old \in Seq(Nat) /\ Len(old) \in Nat
        BY <1>3, NoEvents
      <4>2. queue'[s] = SubSeq(old, 1, n)
        BY <1>3, <2>6 DEF Subscribe
      <4>3. n \in Nat /\ n <= Len(old) /\ n <= QueueMax
        BY <1>3, <4>1
      <4> HIDE DEF old, n
      <4>4. Len(SubSeq(old, 1, n)) = n
        BY <4>1, <4>3, SubSeqProperties
      <4>5. QED
        BY <4>2, <4>3, <4>4
    <3>3. QED
      BY <1>3, <1>4, <2>1, <3>1, <3>2
  <2>7. QED
    BY <1>7, <2>2, <2>3, <2>4, <2>5, <2>6
<1>8. QED
  BY <1>5, <1>6, <1>7 DEF StreamNext

LEMMA ShortSequence ==
    ASSUME NEW S, NEW k \in Nat, NEW seq \in Seq(Nat), Len(seq) <= k, ToSet(seq) \subseteq S
    PROVE  seq \in Upto(k, S)
<1>1. Len(seq) \in 0..k /\ DOMAIN seq = 1..Len(seq)
  BY LenProperties
<1>2. \A i \in 1..Len(seq) : seq[i] \in S
  BY <1>1 DEF ToSet
<1>3. seq = [i \in 1..Len(seq) |-> seq[i]]
  BY <1>1
<1>4. seq \in [1..Len(seq) -> S]
  BY <1>2, <1>3
<1>5. QED
  BY <1>1, <1>4 DEF Upto

(* A rising sequence of numbers from 1 to k is not longer than k.          *)
LEMMA RisingIsShort ==
    ASSUME NEW k \in Nat, NEW seq \in Seq(Nat), InOrder(seq), ToSet(seq) \subseteq 1..k
    PROVE  Len(seq) <= k
<1>1. Len(seq) \in Nat /\ \A i \in 1..Len(seq) : seq[i] \in 1..k
  BY LenProperties DEF ToSet
<1> DEFINE T == {i \in 1..Len(seq) : seq[i] < i}
<1>2. T = {}
  <2> SUFFICES ASSUME T # {} PROVE FALSE
    OBVIOUS
  <2>1. T \in SUBSET Nat
    OBVIOUS
  <2>2. PICK i \in T : \A j \in T : i <= j
    BY <2>1, LeastNumber
  <2>3. i \in 1..Len(seq) /\ seq[i] < i /\ seq[i] \in 1..k
    BY <1>1
  <2>4. i - 1 \in 1..Len(seq)
    BY <1>1, <2>3
  <2>5. seq[i - 1] < seq[i] /\ seq[i - 1] \in 1..k
    BY <1>1, <2>3, <2>4 DEF InOrder
  <2>6. i - 1 \in T
    BY <2>3, <2>4, <2>5
  <2>7. QED
    BY <2>2, <2>3, <2>6
<1>3. CASE Len(seq) = 0
  BY <1>3
<1>4. CASE Len(seq) # 0
  <2>1. Len(seq) \in 1..Len(seq)
    BY <1>1, <1>4
  <2>2. ~(seq[Len(seq)] < Len(seq)) /\ seq[Len(seq)] \in 1..k
    BY <1>1, <1>2, <2>1
  <2>3. QED
    BY <1>1, <2>2
<1>5. QED
  BY <1>3, <1>4

LEMMA StreamTypesHold == StreamInv /\ StreamBounds => StreamTypeOK
<1> SUFFICES ASSUME StreamInv, StreamBounds PROVE StreamTypeOK
  OBVIOUS
<1>1. /\ Len(source) \in Nat /\ Len(source) <= MaxEvents /\ MaxEvents \in Nat
      /\ HistoryMax \in Nat /\ QueueMax \in Nat
  BY StreamIsTyped DEF StreamInv, StreamTypes
<1>2. source \in Upto(MaxEvents, Sources)
  <2>1. source \in [1..Len(source) -> Sources]
    BY LenProperties, ElementOfSeq DEF StreamInv, StreamTypes
  <2>2. Len(source) \in 0..MaxEvents
    BY <1>1
  <2>3. QED
    BY <2>1, <2>2 DEF Upto
<1>3. history \in Upto(HistoryMax, Events)
  <2>1. history \in Seq(Nat) /\ Len(history) \in Nat /\ DOMAIN history = 1..Len(history)
    BY LenProperties DEF StreamInv, StreamTypes
  <2>2. Len(history) <= HistoryMax /\ Len(history) <= Len(source)
    BY <1>1 DEF StreamInv, HistoryIsRecent
  <2>3. \A i \in 1..Len(history) : history[i] \in Events
    <3> SUFFICES ASSUME NEW i \in 1..Len(history) PROVE history[i] \in Events
      OBVIOUS
    <3>1. history[i] = Len(source) - Len(history) + i /\ i \in Nat /\ 1 <= i /\ i <= Len(history)
      BY <2>1 DEF StreamInv, HistoryIsRecent
    <3>2. QED
      BY <1>1, <2>1, <2>2, <3>1 DEF Events
  <2>4. QED
    BY <1>1, <2>1, <2>2, <2>3, ShortSequence DEF ToSet
<1>4. ASSUME NEW s \in Subscribers
      PROVE  queue[s] \in Upto(QueueMax, Events) /\ sub[s] \in Subs
  <2>1. /\ sub[s] \in SubStates /\ queue[s] \in Seq(Nat) /\ sub[s].got \in Seq(Nat)
        /\ sub[s].since \in Nat /\ sub[s].seen \in Nat
        /\ ToSet(sub[s].got) \subseteq Nat /\ ToSet(queue[s]) \subseteq Nat
    BY StreamIsTyped, NumbersOnly DEF SubStates
  <2>2. /\ sub[s].seen <= Len(source) /\ sub[s].since <= Len(source)
        /\ sub[s].dropped \subseteq 1..Len(source) /\ Len(queue[s]) <= QueueMax
    BY DEF StreamBounds
  <2>3. /\ ToSet(sub[s].got) \subseteq Events /\ ToSet(queue[s]) \subseteq Events
        /\ InOrder(sub[s].got)
    <3>1. CASE sub[s].pc = "on"
      <4>1. \A e \in ToSet(sub[s].got) \cup ToSet(queue[s]) :
               e \in Nat /\ e > sub[s].since /\ e <= Len(source)
        BY <2>1, <3>1 DEF StreamInv, HeardOrQueued
      <4>2. \A e \in ToSet(sub[s].got) \cup ToSet(queue[s]) : e \in Events
        BY <1>1, <2>1, <4>1 DEF Events
      <4>3. QED
        BY <3>1, <4>2 DEF StreamInv, HeardOrQueued
    <3>2. CASE sub[s].pc # "on"
      BY <3>2, NoEvents DEF StreamInv
    <3>3. QED
      BY <3>1, <3>2
  <2>4. queue[s] \in Upto(QueueMax, Events)
    BY <1>1, <2>1, <2>2, <2>3, ShortSequence
  <2>5. sub[s].got \in Upto(MaxEvents, Events)
    <3>1. Len(sub[s].got) <= MaxEvents
      BY <1>1, <2>1, <2>3, RisingIsShort DEF Events
    <3>2. QED
      BY <1>1, <2>1, <2>3, <3>1, ShortSequence
  <2>6. sub[s].seen \in 0..MaxEvents /\ sub[s].since \in 0..MaxEvents
    BY <1>1, <2>1, <2>2
  <2>7. sub[s].dropped \in SUBSET Events
    BY <1>1, <2>2 DEF Events
  <2>8. QED
    BY <2>1, <2>4, <2>5, <2>6, <2>7 DEF SubStates, Subs
<1>5. QED
  BY <1>2, <1>3, <1>4 DEF StreamTypeOK, StreamInv, StreamTypes, Subs

(* What the saves' invariant does not need.                                *)
StoreSets ==
    /\ writer \in [Writers -> {"idle", "locked", "done"}]
    /\ lastRow = {} \/ \E s \in Savers : lastRow = {s}
    /\ strays \subseteq Savers
    /\ rival \subseteq Savers /\ broken \subseteq Savers /\ left \in BOOLEAN

LEMMA StoreSetsInit == StoreInit => StoreSets
  BY DEF StoreInit, StoreSets

LEMMA StoreSetsKeep == StoreInv /\ StoreSets /\ [StoreNext]_storeVars => StoreSets'
<1> SUFFICES ASSUME StoreInv, StoreSets, [StoreNext]_storeVars PROVE StoreSets'
  OBVIOUS
<1>1. CASE UNCHANGED storeVars
  BY <1>1 DEF storeVars, StoreSets
<1>2. ASSUME NEW s \in Savers,
             \/ SaveRun(s) \/ SaveBenchmark(s) \/ LastRowId(s) \/ SaveMetrics(s)
             \/ SaveHardware(s) \/ SaveRaises(s) \/ SaveCommits(s)
      PROVE  StoreSets'
  <2>1. benchOf[s] \subseteq Savers
    BY DEF StoreInv, StoreTypes
  <2>2. CASE SaveRun(s) \/ SaveBenchmark(s) \/ LastRowId(s)
    BY <2>2 DEF SaveRun, SaveBenchmark, LastRowId, StoreSets, connection, storeHistory
  <2>3. CASE SaveMetrics(s) \/ SaveHardware(s)
    BY <2>1, <2>3 DEF SaveMetrics, SaveHardware, StoreSets, storeHistory
  <2>4. CASE SaveRaises(s) \/ SaveCommits(s)
    BY <2>4 DEF SaveRaises, SaveCommits, CommitAll, StoreSets, connection
  <2>5. QED
    BY <1>2, <2>2, <2>3, <2>4
<1>3. ASSUME NEW c \in Cleaners, DeleteRun(c) \/ DeleteCommits(c) PROVE StoreSets'
  BY <1>3 DEF DeleteRun, DeleteCommits, CommitAll, StoreSets
<1>4. ASSUME NEW w \in Writers, Write(w) PROVE StoreSets'
  BY <1>4 DEF Write, StoreSets, connection, storeHistory
<1>5. CASE RestartStore
  BY <1>5 DEF RestartStore, StoreSets
<1>6. QED
  BY <1>1, <1>2, <1>3, <1>4, <1>5 DEF StoreNext

LEMMA StoreTypesHold == StoreInv /\ StoreSets => StoreTypeOK
<1> SUFFICES ASSUME StoreInv, StoreSets PROVE StoreTypeOK
  OBVIOUS
<1>1. Cardinality(lastRow) <= 1
  BY FS_EmptySet, FS_Singleton DEF StoreSets
<1>2. QED
  BY <1>1 DEF StoreInv, StoreTypes, StoreSets, StoreTypeOK

ServerInv ==
    /\ RegistryInv /\ RegistryBounds
    /\ StreamInv /\ StreamBounds
    /\ SchemaInv
    /\ StoreInv /\ StoreSets

(* The server keeps its state typed: the rows of the agents, the history   *)
(* and the queues within their sizes, the version table, the rows of the   *)
(* results, whatever requests, processes and restarts interleave.          *)
THEOREM ServerTypesAlways == ServerSpec => []ServerTypeOK
<1> DEFINE serverVars == <<part, registryVars, streamVars, schemaVars, storeVars>>
<1>1. ServerInit => ServerInv
  BY RegistryInitIsSound, RegistryBoundsInit, StreamInitIsSound, StreamBoundsInit, InitIsSound,
     StoreInitIsSound, StoreSetsInit DEF ServerInit, ServerInv
<1>2. ServerInv /\ [ServerNext]_serverVars => ServerInv'
  <2> SUFFICES ASSUME ServerInv, [ServerNext]_serverVars PROVE ServerInv'
    OBVIOUS
  <2>1. /\ [RegistryNext]_registryVars /\ [StreamNext]_streamVars
        /\ [SchemaNext]_schemaVars /\ [StoreNext]_storeVars
    BY DEF ServerNext
  <2>2. RegistryInv' /\ RegistryBounds'
    BY <2>1, RegistryStepKeeps, RegistryBoundsKeep DEF ServerInv
  <2>3. StreamInv' /\ StreamBounds'
    BY <2>1, StreamStepKeeps, StreamBoundsKeep DEF ServerInv
  <2>4. SchemaInv'
    BY <2>1, StepKeeps DEF ServerInv
  <2>5. StoreInv' /\ StoreSets'
    BY <2>1, StoreStep, StoreSetsKeep DEF ServerInv
  <2>6. QED
    BY <2>2, <2>3, <2>4, <2>5 DEF ServerInv
<1>3. ServerInv => ServerTypeOK
  BY RegistryIsTyped, StreamTypesHold, StoreTypesHold DEF ServerInv, ServerTypeOK, SchemaInv
<1>4. QED
  BY <1>1, <1>2, <1>3, PTL DEF ServerSpec

=============================================================================
