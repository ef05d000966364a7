--------------------------- MODULE AgentHostProofs ---------------------------
(***************************************************************************)
(* Theorems about what an agent keeps on its machine: the engine starts of *)
(* EngineOps, the kitt-agent processes of AgentProcess, the copies of      *)
(* models of ModelStorage, for every number of commands, processes,        *)
(* engines, models, directories and threads, and every set of faults.  The *)
(* three parts share no state; the last theorem is of the three together.  *)
(***************************************************************************)
EXTENDS MCAgentHost, TLAPS

-----------------------------------------------------------------------------
(* Engine operations.                                                      *)

EngineTypes ==
    /\ proc \in [Pids -> [engine : Engines, state : ProcStates, child : BOOLEAN]]
    /\ table \in [Engines -> Pids \cup {NoPid}]
    /\ call \in [Commands -> Calls]
    /\ container \in [Commands -> [state : {"none", "running", "exited", "removed"},
                                   active : BOOLEAN]]

(* A process in the hands of a thread, or in the table, is one of its      *)
(* engine that was started.                                                *)
CallSound(c) ==
    call[c].pc \in {"verify", "kill"} =>
        /\ call[c].pid \in Pids
        /\ proc[call[c].pid].state # "free"
        /\ proc[call[c].pid].engine = call[c].engine

TableSound(e) ==
    table[e] \in Pids => proc[table[e]].state # "free" /\ proc[table[e]].engine = e

(* Unless starts of an engine have overlapped, a thread that starts one is *)
(* the only one, and the table has no live process it could overwrite.     *)
Starting(c) == call[c].pc \in {"spawn", "verify"}

StartAlone(c) ==
    Starting(c) /\ call[c].engine \notin overlap =>
        /\ ~Alive(table[call[c].engine])
        /\ \A d \in Commands \ {c} : ~(Starting(d) /\ call[d].engine = call[c].engine)

(* A running container has its thread, or was given up.                    *)
ContainerSound(c) ==
    container[c].state = "running" =>
        call[c].pc \in {"register", "health", "logs"} \/ c \in abandoned

EngineInv ==
    /\ EngineTypes
    /\ \A c \in Commands : CallSound(c) /\ StartAlone(c) /\ ContainerSound(c)
    /\ \A e \in Engines : TableSound(e)
    /\ NoEngineLost

-----------------------------------------------------------------------------

LEMMA EngineInitIsSound == EngineInit => EngineInv
<1> SUFFICES ASSUME EngineInit PROVE EngineInv
  OBVIOUS
<1>1. SomeEngine \in Engines
  BY EnginesAssumption DEF SomeEngine
<1>2. EngineTypes
  BY <1>1 DEF EngineInit, EngineTypes, ProcStates, Calls, EnginePcs, NoCall
<1>3. QED
  BY <1>2, EnginesAssumption
     DEF EngineInit, EngineInv, NoCall, CallSound, TableSound, StartAlone, Starting, Alive,
         ContainerSound, NoEngineLost

(* A step of a command's thread that leaves processes and table alone, and *)
(* does not begin, end or have in hand the start or the stop of a process. *)
LEMMA ThreadKeeps ==
    ASSUME EngineInv, NEW c \in Commands, NEW x \in Calls,
           call' = [call EXCEPT ![c] = x],
           UNCHANGED <<proc, table, overlap>>, abandoned \subseteq abandoned',
           container' \in [Commands -> [state : {"none", "running", "exited", "removed"},
                                        active : BOOLEAN]],
           \A d \in Commands \ {c} : container'[d] = container[d],
           x.pc \notin {"spawn", "verify", "kill"},
           call[c].pc \in {"verify", "kill"} =>
               LET p == call[c].pid
               IN  ~Alive(p) \/ p \in abandoned',
           container'[c].state = "running" =>
               x.pc \in {"register", "health", "logs"} \/ c \in abandoned'
    PROVE  EngineInv'
<1>1. /\ call'[c] = x /\ \A d \in Commands \ {c} : call'[d] = call[d]
      /\ EngineTypes'
  BY DEF EngineInv, EngineTypes
<1>2. \A d \in Commands : CallSound(d)'
  BY <1>1 DEF EngineInv, CallSound
<1>3. \A d \in Commands : StartAlone(d)'
  BY <1>1 DEF EngineInv, StartAlone, Starting, Alive
<1>4. \A d \in Commands : ContainerSound(d)'
  BY <1>1 DEF EngineInv, ContainerSound
<1>5. \A e \in Engines : TableSound(e)'
  BY DEF EngineInv, TableSound
<1>6. NoEngineLost'
  <2> SUFFICES ASSUME NEW p \in Pids, Alive(p), proc[p].child, proc[p].engine \notin overlap,
                      p \notin abandoned'
               PROVE  table[proc[p].engine] = p \/ InHand(p)'
    BY DEF NoEngineLost, Alive
  <2>1. table[proc[p].engine] = p \/ InHand(p)
    BY DEF EngineInv, NoEngineLost
  <2>2. ASSUME NEW d \in Commands, call[d].pc \in {"verify", "kill"}, call[d].pid = p
        PROVE  InHand(p)'
    BY <1>1, <2>2 DEF InHand
  <2>3. QED
    BY <2>1, <2>2 DEF InHand
<1>7. QED
  BY <1>1, <1>2, <1>3, <1>4, <1>5, <1>6 DEF EngineInv

(* The same for a thread that goes on to pc and leaves the containers.     *)
LEMMA GotoKeeps ==
    ASSUME EngineInv, NEW c \in Commands, NEW pc \in EnginePcs, Goto(c, pc),
           UNCHANGED <<proc, table, overlap, container>>, abandoned \subseteq abandoned',
           pc \notin {"spawn", "verify", "kill"},
           call[c].pc \notin {"register", "health", "logs"},
           call[c].pc \in {"verify", "kill"} =>
               ~Alive(call[c].pid) \/ call[c].pid \in abandoned'
    PROVE  EngineInv'
<1> DEFINE x == [call[c] EXCEPT !.pc = pc]
<1>1. /\ x \in Calls /\ x.pc = pc /\ call' = [call EXCEPT ![c] = x]
  BY DEF EngineInv, EngineTypes, Calls, Goto
<1>2. container[c].state = "running" => c \in abandoned
  BY DEF EngineInv, ContainerSound
<1>3. container' \in [Commands -> [state : {"none", "running", "exited", "removed"},
                                   active : BOOLEAN]]
  BY DEF EngineInv, EngineTypes
<1> HIDE DEF x
<1>4. QED
  BY <1>1, <1>2, <1>3, ThreadKeeps

LEMMA TakeCommandKeeps ==
    ASSUME EngineInv, NEW c \in Commands, NEW e \in Engines, NEW first \in FirstSteps,
           TakeCommand(c, e, first)
    PROVE  EngineInv'
<1> DEFINE x == [NoCall EXCEPT !.pc = first, !.engine = e]
<1>1. x \in Calls /\ x.pc = first
  BY DEF NoCall, Calls, EnginePcs, FirstSteps
<1>2. call' = [call EXCEPT ![c] = x] /\ call[c].pc = "idle"
  BY DEF TakeCommand
<1>3. container[c].state = "running" => c \in abandoned
  BY <1>2 DEF EngineInv, ContainerSound
<1>4. container' \in [Commands -> [state : {"none", "running", "exited", "removed"},
                                   active : BOOLEAN]]
  BY DEF EngineInv, EngineTypes, TakeCommand
<1>5. first \notin {"spawn", "verify", "kill"}
  BY DEF FirstSteps
<1>6. UNCHANGED <<proc, table, overlap, container, abandoned>>
  BY DEF TakeCommand
<1> HIDE DEF x
<1>7. QED
  BY <1>1, <1>2, <1>3, <1>4, <1>5, <1>6, ThreadKeeps

-----------------------------------------------------------------------------

LEMMA EngineStartKeeps ==
    ASSUME EngineInv, NEW c \in Commands
    PROVE  StartCheck(c) \/ Spawn(c) \/ Verify(c) => EngineInv'
<1>1. EngineTypes /\ call[c] \in Calls /\ call[c].engine \in Engines
  BY DEF EngineInv, EngineTypes, Calls
<1>2. ASSUME StartCheck(c) PROVE EngineInv'
  <2>1. CASE Running(call[c].engine) \/ ~FindEngine(call[c].engine)
    <3>1. End(c) /\ UNCHANGED <<proc, table, overlap, container, abandoned>>
      BY <1>2, <2>1 DEF StartCheck
    <3>2. call[c].pc = "check"
      BY <1>2 DEF StartCheck
    <3>3. QED
      BY <3>1, <3>2, GotoKeeps DEF End, EnginePcs
  <2>2. CASE ~(Running(call[c].engine) \/ ~FindEngine(call[c].engine))
    <3>1. /\ call' = [call EXCEPT ![c].pc = "spawn"]
          /\ overlap' = IF StartsOf(call[c].engine) = {} THEN overlap
                        ELSE overlap \cup {call[c].engine}
          /\ UNCHANGED <<proc, table, container, abandoned>>
          /\ call[c].pc = "check"
          /\ ~Alive(table[call[c].engine])
      BY <1>2, <2>2 DEF StartCheck, Goto, Running
    <3>2. /\ call' \in [Commands -> Calls]
          /\ call'[c].pc = "spawn" /\ call'[c].engine = call[c].engine
          /\ \A d \in Commands \ {c} : call'[d] = call[d]
      BY <1>1, <3>1 DEF EngineTypes, Calls, EnginePcs
    <3>3. EngineTypes'
      BY <1>1, <3>1, <3>2 DEF EngineTypes
    <3>4. \A d \in Commands : CallSound(d)' /\ ContainerSound(d)'
      BY <3>1, <3>2 DEF EngineInv, CallSound, ContainerSound
    <3>5. \A d \in Commands : StartAlone(d)'
      <4>1. call[c].engine \notin overlap' =>
                \A d \in Commands \ {c} : ~(Starting(d) /\ call[d].engine = call[c].engine)
        BY <3>1 DEF StartsOf, Starting
      <4>2. overlap \subseteq overlap'
        BY <3>1
      <4>3. QED
        BY <3>1, <3>2, <4>1, <4>2 DEF EngineInv, StartAlone, Starting, Alive
    <3>6. \A e \in Engines : TableSound(e)'
      BY <3>1 DEF EngineInv, TableSound
    <3>7. NoEngineLost'
      BY <3>1, <3>2 DEF EngineInv, NoEngineLost, InHand, Alive
    <3>8. QED
      BY <3>3, <3>4, <3>5, <3>6, <3>7 DEF EngineInv
  <2>3. QED
    BY <2>1, <2>2
<1>3. ASSUME Spawn(c) PROVE EngineInv'
  <2>1. CASE End(c) /\ UNCHANGED proc
    BY <1>3, <2>1, GotoKeeps DEF Spawn, End, EnginePcs
  <2>2. ASSUME NEW p \in Pids, proc[p].state = "free",
               proc' = [proc EXCEPT ![p] = [engine |-> call[c].engine, state |-> "up",
                                            child |-> TRUE]],
               call' = [call EXCEPT ![c].pc = "verify", ![c].pid = p]
        PROVE  EngineInv'
    <3>1. /\ UNCHANGED <<table, container, overlap, abandoned>>
          /\ call[c].pc = "spawn"
      BY <1>3 DEF Spawn
    <3>2. /\ call' \in [Commands -> Calls]
          /\ call'[c].pc = "verify" /\ call'[c].engine = call[c].engine /\ call'[c].pid = p
          /\ \A d \in Commands \ {c} : call'[d] = call[d]
      BY <1>1, <2>2 DEF EngineTypes, Calls, EnginePcs
    <3>3. /\ proc'[p].state = "up" /\ proc'[p].engine = call[c].engine
          /\ \A q \in Pids \ {p} : proc'[q] = proc[q]
          /\ EngineTypes'
      BY <1>1, <2>2, <3>1, <3>2 DEF EngineTypes, ProcStates
    <3>4. \A e \in Engines : table[e] # p
      BY <2>2 DEF EngineInv, TableSound
    <3>5. \A d \in Commands : CallSound(d)' /\ ContainerSound(d)'
      BY <2>2, <3>1, <3>2, <3>3 DEF EngineInv, CallSound, ContainerSound
    <3>6. \A d \in Commands : StartAlone(d)'
      <4> SUFFICES ASSUME NEW d \in Commands, Starting(d)', call'[d].engine \notin overlap
                   PROVE  /\ LET u == table'[call'[d].engine]
                             IN  ~(u # NoPid /\ proc'[u].state = "up")
                          /\ \A f \in Commands \ {d} :
                                ~(Starting(f)' /\ call'[f].engine = call'[d].engine)
        BY <3>1 DEF StartAlone, Alive
      <4>1. \A f \in Commands : /\ Starting(f)' <=> Starting(f)
                                 /\ call'[f].engine = call[f].engine
                                 /\ call[f].engine \in Engines
        BY <1>1, <3>1, <3>2 DEF Starting, EngineTypes, Calls
      <4>2. StartAlone(d)
        BY DEF EngineInv
      <4>3. table[call[d].engine] # p /\ table[call[d].engine] \in Pids \cup {NoPid}
        BY <1>1, <3>4, <4>1 DEF EngineTypes
      <4>4. QED
        BY <3>1, <3>3, <4>1, <4>2, <4>3 DEF StartAlone, Alive
    <3>7. \A e \in Engines : TableSound(e)'
      BY <3>1, <3>3, <3>4 DEF EngineInv, TableSound
    <3>8. NoEngineLost'
      <4> SUFFICES ASSUME NEW q \in Pids, Alive(q)', proc'[q].child,
                          proc'[q].engine \notin overlap, q \notin abandoned
                   PROVE  table[proc'[q].engine] = q \/ InHand(q)'
        BY <3>1 DEF NoEngineLost
      <4>1. CASE q = p
        BY <3>2, <4>1 DEF InHand
      <4>2. CASE q # p
        BY <3>1, <3>2, <3>3, <4>2 DEF EngineInv, NoEngineLost, InHand, Alive
      <4>3. QED
        BY <4>1, <4>2
    <3>9. QED
      BY <3>3, <3>5, <3>6, <3>7, <3>8 DEF EngineInv
  <2>3. QED
    BY <1>3, <2>1, <2>2 DEF Spawn
<1>4. ASSUME Verify(c) PROVE EngineInv'
  <2> DEFINE p == call[c].pid  e == call[c].engine
  <2>1. /\ p \in Pids /\ e \in Engines /\ proc[p].state # "free" /\ proc[p].engine = e
        /\ call[c].pc = "verify"
    BY <1>1, <1>4 DEF Verify, EngineInv, CallSound
  <2>2. CASE ~Alive(p)
    BY <1>4, <2>1, <2>2, GotoKeeps DEF Verify, End, EnginePcs
  <2>3. CASE Alive(p)
    <3>1. /\ table' = [table EXCEPT ![e] = p]
          /\ call' = [call EXCEPT ![c].pc = "done"]
          /\ UNCHANGED <<proc, container, overlap, abandoned>>
      BY <1>4, <2>3 DEF Verify, End, Goto
    <3>2. /\ call' \in [Commands -> Calls]
          /\ call'[c].pc = "done"
          /\ \A d \in Commands \ {c} : call'[d] = call[d]
          /\ table'[e] = p /\ \A f \in Engines \ {e} : table'[f] = table[f]
          /\ EngineTypes'
      BY <1>1, <2>1, <3>1 DEF EngineTypes, Calls, EnginePcs
    <3>3. \A d \in Commands : CallSound(d)' /\ ContainerSound(d)'
      BY <2>1, <3>1, <3>2 DEF EngineInv, CallSound, ContainerSound
    <3>4. \A d \in Commands : StartAlone(d)'
      <4> SUFFICES ASSUME NEW d \in Commands, Starting(d)', call'[d].engine \notin overlap
                   PROVE  /\ ~Alive(table'[call'[d].engine])
                          /\ \A f \in Commands \ {d} :
                                ~(Starting(f)' /\ call'[f].engine = call'[d].engine)
        BY <3>1 DEF StartAlone, Alive
      <4>1. d # c /\ Starting(d) /\ call'[d] = call[d] /\ call[d].engine \in Engines
        BY <1>1, <3>2 DEF Starting, EngineTypes, Calls
      <4>2. StartAlone(d)
        BY DEF EngineInv
      <4>3. Starting(c)
        BY <2>1 DEF Starting
      <4>4. call[d].engine # e
        BY <4>1, <4>2, <4>3 DEF StartAlone
      <4>5. QED
        BY <3>2, <4>1, <4>2, <4>4 DEF StartAlone, Starting
    <3>5. \A f \in Engines : TableSound(f)'
      BY <2>1, <3>1, <3>2 DEF EngineInv, TableSound
    <3>6. NoEngineLost'
      <4> SUFFICES ASSUME NEW q \in Pids, Alive(q), proc[q].child,
                          proc[q].engine \notin overlap, q \notin abandoned
                   PROVE  table'[proc[q].engine] = q \/ InHand(q)'
        BY <3>1 DEF NoEngineLost, Alive
      <4>1. CASE q = p
        BY <2>1, <3>2, <4>1
      <4>2. CASE q # p
        <5>1. table[proc[q].engine] = q \/ InHand(q)
          BY DEF EngineInv, NoEngineLost
        <5>2. InHand(q) => InHand(q)'
          BY <3>2, <4>2 DEF InHand
        <5>3. ASSUME table[proc[q].engine] = q PROVE table'[proc[q].engine] = q
          <6>1. proc[q].engine # e
            BY <2>1, <5>3 DEF EngineInv, StartAlone, Starting
          <6>2. QED
            BY <1>1, <3>2, <5>3, <6>1 DEF EngineTypes
        <5>4. QED
          BY <5>1, <5>2, <5>3
      <4>3. QED
        BY <4>1, <4>2
    <3>7. QED
      BY <3>2, <3>3, <3>4, <3>5, <3>6 DEF EngineInv
  <2>4. QED
    BY <2>2, <2>3
<1>5. QED
  BY <1>2, <1>3, <1>4

LEMMA StopKeeps ==
    ASSUME EngineInv, NEW c \in Commands
    PROVE  StopPop(c) \/ StopKill(c) \/ StopUnit(c) => EngineInv'
<1> DEFINE p == call[c].pid  e == call[c].engine
<1>1. EngineTypes /\ call[c] \in Calls /\ e \in Engines
  BY DEF EngineInv, EngineTypes, Calls
<1>2. ASSUME StopPop(c) PROVE EngineInv'
  <2> DEFINE q == table[e]
  <2>1. /\ table' = [table EXCEPT ![e] = NoPid]
        /\ call' = [call EXCEPT ![c].pid = q,
                                ![c].pc = IF Alive(q) THEN "kill" ELSE "unitStop"]
        /\ UNCHANGED <<proc, container, overlap, abandoned>>
        /\ call[c].pc = "pop"
    BY <1>2 DEF StopPop
  <2>2. q \in Pids \cup {NoPid} /\ (Alive(q) => q \in Pids)
    BY <1>1 DEF EngineTypes, Alive
  <2>3. /\ call' \in [Commands -> Calls]
        /\ call'[c].pid = q /\ call'[c].pc = (IF Alive(q) THEN "kill" ELSE "unitStop")
        /\ call'[c].engine = e
        /\ \A d \in Commands \ {c} : call'[d] = call[d]
        /\ table'[e] = NoPid /\ \A f \in Engines \ {e} : table'[f] = table[f]
        /\ EngineTypes'
    BY <1>1, <2>1, <2>2 DEF EngineTypes, Calls, EnginePcs
  <2>4. \A d \in Commands : CallSound(d)' /\ ContainerSound(d)'
    <3>1. Alive(q) => proc[q].state # "free" /\ proc[q].engine = e
      BY <1>1, <2>2 DEF EngineInv, TableSound
    <3>2. QED
      BY <2>1, <2>2, <2>3, <3>1 DEF EngineInv, CallSound, ContainerSound
  <2>5. \A d \in Commands : StartAlone(d)'
    <3> SUFFICES ASSUME NEW d \in Commands, Starting(d)', call'[d].engine \notin overlap
                 PROVE  /\ ~Alive(table'[call'[d].engine])
                        /\ \A f \in Commands \ {d} :
                              ~(Starting(f)' /\ call'[f].engine = call'[d].engine)
      BY <2>1 DEF StartAlone, Alive
    <3>1. d # c /\ Starting(d) /\ call'[d] = call[d] /\ call[d].engine \in Engines
      BY <1>1, <2>3 DEF Starting, EngineTypes, Calls
    <3>2. StartAlone(d)
      BY DEF EngineInv
    <3>3. ~Starting(c)'
      BY <2>3 DEF Starting
    <3>4. ~Alive(NoPid)
      BY DEF Alive
    <3>5. QED
      BY <2>3, <3>1, <3>2, <3>3, <3>4 DEF StartAlone, Starting
  <2>6. \A f \in Engines : TableSound(f)'
    BY <2>1, <2>3, EnginesAssumption DEF EngineInv, TableSound
  <2>7. NoEngineLost'
    <3> SUFFICES ASSUME NEW r \in Pids, Alive(r), proc[r].child,
                        proc[r].engine \notin overlap, r \notin abandoned
                 PROVE  table'[proc[r].engine] = r \/ InHand(r)'
      BY <2>1 DEF NoEngineLost, Alive
    <3>1. table[proc[r].engine] = r \/ InHand(r)
      BY DEF EngineInv, NoEngineLost
    <3>2. InHand(r) => InHand(r)'
      BY <2>1, <2>3 DEF InHand
    <3>3. proc[r].engine = e /\ table[e] = r => InHand(r)'
      BY <2>3 DEF InHand
    <3>4. proc[r].engine \in Engines
      BY <1>1 DEF EngineTypes
    <3>5. QED
      BY <2>3, <3>1, <3>2, <3>3, <3>4
  <2>8. QED
    BY <2>3, <2>4, <2>5, <2>6, <2>7 DEF EngineInv
<1>3. ASSUME StopKill(c) PROVE EngineInv'
  <2>1. /\ call[c].pc = "kill" /\ p \in Pids
        /\ UNCHANGED <<table, container, overlap>>
    BY <1>3 DEF StopKill, EngineInv, CallSound
  <2>2. CASE End(c) /\ abandoned' = abandoned \cup {p} /\ UNCHANGED proc
    BY <2>1, <2>2, GotoKeeps DEF End, EnginePcs
  <2>3. CASE proc' = [proc EXCEPT ![p].state = "dead"] /\ End(c) /\ UNCHANGED abandoned
    <3>1. /\ call' \in [Commands -> Calls]
          /\ call'[c].pc = "done"
          /\ \A d \in Commands \ {c} : call'[d] = call[d]
          /\ \A r \in Pids : /\ proc'[r].engine = proc[r].engine
                             /\ proc'[r].child = proc[r].child
                             /\ proc'[r].state = IF r = p THEN "dead" ELSE proc[r].state
          /\ EngineTypes'
      BY <1>1, <2>1, <2>3 DEF EngineTypes, Calls, EnginePcs, End, Goto, ProcStates
    <3>2. \A d \in Commands : CallSound(d)' /\ ContainerSound(d)'
      BY <2>1, <2>3, <3>1 DEF EngineInv, CallSound, ContainerSound
    <3>3. \A f \in Engines : TableSound(f)'
      BY <2>1, <3>1 DEF EngineInv, TableSound
    <3>4. \A r \in Pids \cup {NoPid} : Alive(r)' => Alive(r)
      BY <3>1 DEF Alive
    <3>5. \A d \in Commands : StartAlone(d)'
      <4> SUFFICES ASSUME NEW d \in Commands, Starting(d)', call'[d].engine \notin overlap
                   PROVE  /\ LET u == table'[call'[d].engine]
                             IN  ~(u # NoPid /\ proc'[u].state = "up")
                          /\ \A f \in Commands \ {d} :
                                ~(Starting(f)' /\ call'[f].engine = call'[d].engine)
        BY <2>1 DEF StartAlone, Alive
      <4>1. d # c /\ Starting(d) /\ call'[d] = call[d] /\ call[d].engine \in Engines
        BY <1>1, <3>1 DEF Starting, EngineTypes, Calls
      <4>2. StartAlone(d) /\ ~Starting(c)'
        BY <3>1 DEF EngineInv, Starting
      <4>3. table[call[d].engine] \in Pids \cup {NoPid}
        BY <1>1, <4>1 DEF EngineTypes
      <4>4. QED
        BY <2>1, <3>1, <3>4, <4>1, <4>2, <4>3 DEF StartAlone, Starting, Alive
    <3>6. NoEngineLost'
      BY <2>1, <2>3, <3>1, <3>4 DEF EngineInv, NoEngineLost, InHand, Alive
    <3>7. QED
      BY <3>1, <3>2, <3>3, <3>5, <3>6 DEF EngineInv
  <2>4. QED
    BY <1>3, <2>2, <2>3 DEF StopKill
<1>4. ASSUME StopUnit(c) PROVE EngineInv'
  BY <1>4, GotoKeeps DEF StopUnit, End, EnginePcs
<1>5. QED
  BY <1>2, <1>3, <1>4

LEMMA InstallKeeps ==
    ASSUME EngineInv, NEW c \in Commands
    PROVE  InstallLook(c) \/ InstallOllama(c) \/ InstallLlamaCpp(c) \/ MakeVenv(c)
               \/ InstallWheels(c) => EngineInv'
<1>1. ASSUME InstallLook(c) \/ InstallOllama(c) \/ InstallLlamaCpp(c) \/ MakeVenv(c)
                 \/ InstallWheels(c)
      PROVE  /\ \E pc \in {"done", "install", "wheels"} : Goto(c, pc)
             /\ UNCHANGED <<proc, table, overlap, container, abandoned>>
             /\ call[c].pc \in {"look", "install", "wheels"}
  BY <1>1 DEF InstallLook, InstallOllama, InstallLlamaCpp, MakeVenv, InstallWheels, End
<1>2. {"done", "install", "wheels"} \subseteq EnginePcs
  BY DEF EnginePcs
<1>3. QED
  BY <1>1, <1>2, GotoKeeps

LEMMA ContainerKeeps ==
    ASSUME EngineInv, NEW c \in Commands
    PROVE  PullAndRun(c) \/ RegisterContainer(c) \/ AwaitHealth(c) \/ FollowLogs(c)
               => EngineInv'
<1> SUFFICES ASSUME PullAndRun(c) \/ RegisterContainer(c) \/ AwaitHealth(c) \/ FollowLogs(c)
             PROVE  EngineInv'
  OBVIOUS
<1> DEFINE Boxes == [state : {"none", "running", "exited", "removed"}, active : BOOLEAN]
<1>1. container \in [Commands -> Boxes] /\ call[c] \in Calls
  BY DEF EngineInv, EngineTypes
<1>2. /\ UNCHANGED <<proc, table, overlap>>
      /\ abandoned \subseteq abandoned'
      /\ call[c].pc \in {"runContainer", "register", "health", "logs"}
  BY DEF PullAndRun, RegisterContainer, AwaitHealth, FollowLogs
<1>3. \E pc \in {"register", "health", "logs", "done"} :
          /\ Goto(c, pc)
          /\ container' \in [Commands -> Boxes]
          /\ \A d \in Commands \ {c} : container'[d] = container[d]
          /\ container'[c].state = "running" =>
                 pc \in {"register", "health", "logs"} \/ c \in abandoned'
  <2>1. CASE PullAndRun(c)
    <3>1. CASE /\ Goto(c, "register")
               /\ container' = [container EXCEPT ![c].state = "running"]
      BY <1>1, <3>1
    <3>2. CASE /\ Goto(c, "done") /\ abandoned' = abandoned \cup {c}
               /\ \E s \in {"none", "running"} : Forget(c, s)
      BY <1>1, <3>2 DEF Forget
    <3>3. QED
      BY <2>1, <3>1, <3>2 DEF PullAndRun, End
  <2>2. CASE RegisterContainer(c)
    <3>1. /\ Goto(c, "health")
          /\ container' = [container EXCEPT ![c].active = TRUE]
      BY <2>2 DEF RegisterContainer
    <3>2. QED
      BY <1>1, <3>1
  <2>3. CASE AwaitHealth(c)
    <3>1. CASE Goto(c, "logs") /\ UNCHANGED container
      BY <1>1, <3>1
    <3>2. CASE Goto(c, "done") /\ Forget(c, "removed")
      BY <1>1, <3>2 DEF Forget
    <3>3. CASE /\ Goto(c, "done") /\ Forget(c, container[c].state)
               /\ abandoned' = abandoned \cup {c}
      BY <1>1, <3>3 DEF Forget
    <3>4. QED
      BY <2>3, <3>1, <3>2, <3>3 DEF AwaitHealth, End
  <2>4. CASE FollowLogs(c)
    <3>1. /\ Goto(c, "done") /\ Forget(c, container[c].state)
          /\ container[c].state # "running" \/ c \in abandoned'
      BY <2>4 DEF FollowLogs, End
    <3>2. QED
      BY <1>1, <3>1 DEF Forget
  <2>5. QED
    BY <2>1, <2>2, <2>3, <2>4
<1>4. PICK pc \in {"register", "health", "logs", "done"} :
          /\ Goto(c, pc)
          /\ container' \in [Commands -> Boxes]
          /\ \A d \in Commands \ {c} : container'[d] = container[d]
          /\ container'[c].state = "running" =>
                 pc \in {"register", "health", "logs"} \/ c \in abandoned'
  BY <1>3
<1> DEFINE x == [call[c] EXCEPT !.pc = pc]
<1>5. x \in Calls /\ x.pc = pc /\ call' = [call EXCEPT ![c] = x]
  BY <1>1, <1>4 DEF Goto, Calls, EnginePcs
<1> HIDE DEF x
<1>6. QED
  BY <1>2, <1>4, <1>5, ThreadKeeps

LEMMA HostStepKeeps == EngineInv /\ HostStep => EngineInv'
<1> SUFFICES ASSUME EngineInv, HostStep PROVE EngineInv'
  OBVIOUS
<1>1. EngineTypes
  BY DEF EngineInv
<1>2. ASSUME NEW p \in Pids, EngineDies(p) PROVE EngineInv'
  <2>1. /\ proc' = [proc EXCEPT ![p].state = "dead"]
        /\ UNCHANGED <<table, call, container, overlap, abandoned>>
    BY <1>2 DEF EngineDies
  <2>2. /\ \A r \in Pids : /\ proc'[r].engine = proc[r].engine
                           /\ proc'[r].child = proc[r].child
                           /\ proc'[r].state = IF r = p THEN "dead" ELSE proc[r].state
        /\ EngineTypes'
    BY <1>1, <2>1 DEF EngineTypes, ProcStates
  <2>3. \A r \in Pids \cup {NoPid} : Alive(r)' => Alive(r)
    BY <2>2 DEF Alive
  <2>4. \A d \in Commands : CallSound(d)' /\ ContainerSound(d)'
    BY <2>1, <2>2 DEF EngineInv, CallSound, ContainerSound
  <2>5. \A f \in Engines : TableSound(f)'
    BY <2>1, <2>2 DEF EngineInv, TableSound
  <2>6. \A d \in Commands : StartAlone(d)'
    <3>1. \A d \in Commands : table[call[d].engine] \in Pids \cup {NoPid}
      BY <1>1 DEF EngineTypes, Calls
    <3>2. QED
      BY <2>1, <2>3, <3>1 DEF EngineInv, StartAlone, Starting
  <2>7. NoEngineLost'
    BY <2>1, <2>2, <2>3 DEF EngineInv, NoEngineLost, InHand
  <2>8. QED
    BY <2>2, <2>4, <2>5, <2>6, <2>7 DEF EngineInv
<1>3. ASSUME NEW c \in Commands, ContainerExits(c) \/ StopContainer(c) PROVE EngineInv'
  <2>1. /\ UNCHANGED <<proc, table, call, overlap, abandoned>>
        /\ container'[c].state # "running"
        /\ \A d \in Commands \ {c} : container'[d] = container[d]
        /\ EngineTypes'
    BY <1>1, <1>3 DEF ContainerExits, StopContainer, EngineTypes
  <2>2. \A d \in Commands : ContainerSound(d)'
    BY <2>1 DEF EngineInv, ContainerSound
  <2>3. /\ \A d \in Commands : CallSound(d)' /\ StartAlone(d)'
        /\ \A f \in Engines : TableSound(f)'
        /\ NoEngineLost'
    BY <2>1 DEF EngineInv, CallSound, StartAlone, Starting, Alive, TableSound, NoEngineLost, InHand
  <2>4. QED
    BY <2>1, <2>2, <2>3 DEF EngineInv
<1>4. QED
  BY <1>2, <1>3 DEF HostStep

LEMMA EngineRestartKeeps == EngineInv /\ EngineRestart => EngineInv'
<1> SUFFICES ASSUME EngineInv, EngineRestart PROVE EngineInv'
  OBVIOUS
<1>1. /\ table' = [f \in Engines |-> NoPid]
      /\ call' = [c \in Commands |-> IF call[c].pc = "idle" THEN call[c]
                                     ELSE [call[c] EXCEPT !.pc = "done"]]
      /\ container' = [c \in Commands |-> [container[c] EXCEPT !.active = FALSE]]
      /\ abandoned' = abandoned \cup {c \in Commands : call[c].pc \notin {"idle", "done"}}
  BY DEF EngineRestart
<1>2. /\ \A p \in Pids : ~proc'[p].child
      /\ proc' \in [Pids -> [engine : Engines, state : ProcStates, child : BOOLEAN]]
  <2>1. PICK survives \in BOOLEAN :
            proc' = [p \in Pids |-> [proc[p] EXCEPT
                        !.state = IF @ = "up" /\ proc[p].child /\ ~survives THEN "dead" ELSE @,
                        !.child = FALSE]]
    BY DEF EngineRestart
  <2>2. \A p \in Pids :
            /\ proc[p] \in [engine : Engines, state : ProcStates, child : BOOLEAN]
            /\ [proc[p] EXCEPT
                   !.state = IF @ = "up" /\ proc[p].child /\ ~survives THEN "dead" ELSE @,
                   !.child = FALSE]
               \in [engine : Engines, state : ProcStates, child : {FALSE}]
    BY DEF EngineInv, EngineTypes, ProcStates
  <2>3. QED
    BY <2>1, <2>2
<1>3. \A c \in Commands : /\ call'[c] \in Calls
                          /\ call'[c].pc = IF call[c].pc = "idle" THEN "idle" ELSE "done"
                          /\ container'[c].state = container[c].state
  BY <1>1 DEF EngineInv, EngineTypes, Calls, EnginePcs
<1>4. EngineTypes'
  BY <1>1, <1>2, <1>3 DEF EngineInv, EngineTypes
<1>5. \A c \in Commands : CallSound(c)' /\ StartAlone(c)' /\ ContainerSound(c)'
  <2> TAKE c \in Commands
  <2>1. CallSound(c)' /\ StartAlone(c)'
    BY <1>3 DEF CallSound, StartAlone, Starting
  <2>2. ContainerSound(c) /\ (call[c].pc \notin {"idle", "done"} => c \in abandoned')
    BY <1>1 DEF EngineInv
  <2>3. abandoned \subseteq abandoned'
    BY <1>1
  <2>4. ContainerSound(c)'
    BY <1>3, <2>2, <2>3 DEF ContainerSound
  <2>5. QED
    BY <2>1, <2>4
<1>6. (\A f \in Engines : TableSound(f)') /\ NoEngineLost'
  BY <1>1, <1>2, EnginesAssumption DEF TableSound, NoEngineLost
<1>7. QED
  BY <1>4, <1>5, <1>6 DEF EngineInv

LEMMA EngineStepKeeps == EngineInv /\ [EngineNext]_engineVars => EngineInv'
<1> SUFFICES ASSUME EngineInv, [EngineNext]_engineVars PROVE EngineInv'
  OBVIOUS
<1>1. CASE UNCHANGED engineVars
  BY <1>1 DEF engineVars, EngineInv, EngineTypes, CallSound, TableSound, StartAlone, Starting,
              Alive, ContainerSound, NoEngineLost, InHand
<1>2. ASSUME NEW c \in Commands, EngineThread(c) PROVE EngineInv'
  BY <1>2, EngineStartKeeps, StopKeeps, InstallKeeps, ContainerKeeps DEF EngineThread
<1>3. QED
  BY <1>1, <1>2, TakeCommandKeeps, HostStepKeeps, EngineRestartKeeps DEF EngineNext

(* No native engine escapes the process table, whatever commands arrive    *)
(* together and whatever fails, but where two starts have overlapped or a  *)
(* stop gave up.                                                           *)
THEOREM NoEngineLostAlways == EngineSpec => []NoEngineLost
<1>1. EngineInv => NoEngineLost
  BY DEF EngineInv
<1>2. QED
  BY <1>1, EngineInitIsSound, EngineStepKeeps, PTL DEF EngineSpec

(* No container of a finished command runs on, but where docker failed or  *)
(* the daemon was restarted.                                               *)
THEOREM NoContainerForgottenAlways == EngineSpec => []NoContainerForgotten
<1>1. EngineInv => NoContainerForgotten
  BY DEF EngineInv, ContainerSound, NoContainerForgotten
<1>2. QED
  BY <1>1, EngineInitIsSound, EngineStepKeeps, PTL DEF EngineSpec

-----------------------------------------------------------------------------
(* Agent processes.                                                        *)

Processes == [pc : ProcPcs, aim : Aims, unit : BOOLEAN, file : Download]

Asking == {"fetch", "digest", "install", "halt"}

(* A command and the agent it may meet without being in its way: it has    *)
(* not signalled the agent that the pid file names, or it has.             *)
Attends(p, q) ==
    \/ ps[p].pc \in Asking /\ ps[q].pc \in {"listen", "unwind", "signalled"} /\ pidFile = q
    \/ ps[p].pc = "unlink" /\ ps[q].pc = "signalled"

InTurn == \A p, q \in Procs : p # q /\ Exists(p) /\ Exists(q) => Attends(p, q) \/ Attends(q, p)

FileNamesAgent == \A p \in Procs : ps[p].pc \in {"bind", "listen", "unwind"} => pidFile = p

ListenerHasPort == \A p \in Procs : ps[p].pc = "listen" => port = p

(* What systemd started is an agent, not a command.                        *)
UnitsServe == \A p \in Procs : ps[p].unit => ps[p].pc \notin Asking \cup {"unlink", "free"}

ProcessInv ==
    /\ ProcessTypeOK
    /\ UnitsServe
    /\ alone => InTurn /\ FileNamesAgent /\ ListenerHasPort

-----------------------------------------------------------------------------

LEMMA GoneIsProcess == Gone \in Processes /\ Gone.pc = "free" /\ ~Gone.unit
  BY ProcAssumption DEF Gone, Processes, ProcPcs, Aims, NoDownload, Download

LEMMA ProcessInitIsSound == ProcessInit => ProcessInv
<1> SUFFICES ASSUME ProcessInit PROVE ProcessInv
  OBVIOUS
<1>1. ps \in [Procs -> Processes] /\ served \in [Files -> 0..MaxBuilds] /\ builds \in 0..MaxBuilds
  <2>1. 0 \in 0..MaxBuilds
    BY ProcAssumption
  <2>2. QED
    BY <2>1, GoneIsProcess DEF ProcessInit
<1>2. ProcessTypeOK
  BY <1>1 DEF ProcessInit, ProcessTypeOK, Processes
<1>3. QED
  BY <1>2, GoneIsProcess
     DEF ProcessInit, ProcessInv, UnitsServe, InTurn, FileNamesAgent, ListenerHasPort, Exists

(* One process becomes x.  While nothing has overlapped, x may not break   *)
(* the turn, nor leave the file and the port to another one.               *)
LEMMA BecomesKeeps ==
    ASSUME ProcessInv, NEW p \in Procs, NEW x \in Processes, ps' = [ps EXCEPT ![p] = x],
           conf' \in BOOLEAN, port' \in Procs \cup {NoProc}, pidFile' \in Procs \cup {NoProc},
           service' \in [file : BOOLEAN, state : {"off", "on", "failed"}],
           served' \in [Files -> 0..MaxBuilds], builds' \in 0..MaxBuilds, alone' \in BOOLEAN,
           alone' => alone,
           x.unit => x.pc \notin Asking \cup {"unlink", "free"},
           alone' => /\ x.pc \in {"bind", "listen", "unwind"} => pidFile' = p
                     /\ x.pc = "listen" => port' = p
                     /\ \A q \in Procs \ {p} :
                           Exists(q) =>
                               /\ x.pc # "free" => Attends(p, q)' \/ Attends(q, p)'
                               /\ ps[q].pc \in {"bind", "listen", "unwind"} => pidFile' = q
                               /\ ps[q].pc = "listen" => port' = q,
           \A q, r \in Procs \ {p} :
               alone' /\ q # r /\ Exists(q) /\ Exists(r) => Attends(q, r)' \/ Attends(r, q)'
    PROVE  ProcessInv'
<1>1. ps'[p] = x /\ \A q \in Procs \ {p} : ps'[q] = ps[q]
  BY DEF ProcessInv, ProcessTypeOK
<1>2. ProcessTypeOK'
  BY DEF ProcessInv, ProcessTypeOK, Processes
<1>3. UnitsServe'
  BY <1>1 DEF ProcessInv, UnitsServe
<1>4. ASSUME alone' PROVE InTurn'
  BY <1>1, <1>4 DEF InTurn, Exists
<1>5. ASSUME alone' PROVE FileNamesAgent' /\ ListenerHasPort'
  BY <1>1, <1>5 DEF FileNamesAgent, ListenerHasPort, Exists
<1>6. QED
  BY <1>2, <1>3, <1>4, <1>5 DEF ProcessInv

-----------------------------------------------------------------------------

(* What the rest of a step leaves as it is: the types of all other         *)
(* variables, and the turn of the others.                                  *)
Types(p) ==
    /\ conf \in BOOLEAN /\ port \in Procs \cup {NoProc} /\ pidFile \in Procs \cup {NoProc}
    /\ service \in [file : BOOLEAN, state : {"off", "on", "failed"}]
    /\ served \in [Files -> 0..MaxBuilds] /\ builds \in 0..MaxBuilds /\ alone \in BOOLEAN
    /\ ps[p] \in Processes

LEMMA TypesHold == ASSUME ProcessInv, NEW p \in Procs PROVE Types(p)
  BY DEF ProcessInv, ProcessTypeOK, Types, Processes

(* Of two other processes that exist, one attends the other; neither is    *)
(* then in the way of p, so that nothing p does matters to them: with p    *)
(* there would be three.                                                   *)
LEMMA AtMostTwo ==
    ASSUME ProcessInv, alone, NEW p \in Procs, NEW q \in Procs, NEW r \in Procs,
           p # q, p # r, q # r, Exists(p), Exists(q), Exists(r)
    PROVE  FALSE
  BY DEF ProcessInv, InTurn, Attends, Asking

(* A process that has to do with no file or port, and whose next state     *)
(* attends whom it attended.                                               *)
LEMMA QuietKeeps ==
    ASSUME ProcessInv, NEW p \in Procs, NEW x \in Processes, ps' = [ps EXCEPT ![p] = x],
           UNCHANGED <<conf, port, pidFile, service, alone>>,
           served' \in [Files -> 0..MaxBuilds], builds' \in 0..MaxBuilds,
           Exists(p),
           x.unit => x.pc \notin Asking \cup {"unlink", "free"},
           \/ x.pc = "free"
           \/ ps[p].pc \in Asking /\ x.pc \in Asking
           \/ ps[p].pc \in {"preflight", "register"} /\ x.pc \in {"register", "beat"}
    PROVE  ProcessInv'
<1>1. Types(p)
  BY TypesHold
<1>2. ps'[p] = x /\ \A q \in Procs \ {p} : ps'[q] = ps[q]
  BY DEF ProcessInv, ProcessTypeOK
<1>3. ASSUME NEW q \in Procs \ {p}, NEW r \in Procs \ {p}, alone', q # r, Exists(q), Exists(r)
      PROVE  Attends(q, r)' \/ Attends(r, q)'
  BY <1>3, AtMostTwo
<1>4. ASSUME NEW q \in Procs \ {p}, alone', Exists(q)
      PROVE  /\ x.pc # "free" => Attends(p, q)' \/ Attends(q, p)'
             /\ ps[q].pc \in {"bind", "listen", "unwind"} => pidFile' = q
             /\ ps[q].pc = "listen" => port' = q
  BY <1>2, <1>4 DEF ProcessInv, InTurn, Attends, Asking, FileNamesAgent, ListenerHasPort
<1>5. x.pc \notin {"bind", "listen", "unwind"}
  BY DEF Asking
<1>6. QED
  BY <1>1, <1>3, <1>4, <1>5, BecomesKeeps DEF Types

(* A process that ends, whatever it frees.                                 *)
LEMMA ExitKeeps ==
    ASSUME ProcessInv, NEW p \in Procs, Exit(p), Exists(p),
           UNCHANGED <<conf, served, builds, alone>>,
           port' = port \/ FreePort(p),
           pidFile' = pidFile \/ (pidFile' = NoProc /\ ps[p].pc = "unwind"),
           service' \in [file : BOOLEAN, state : {"off", "on", "failed"}]
    PROVE  ProcessInv'
<1>1. Types(p)
  BY TypesHold
<1>2. ASSUME NEW q \in Procs \ {p}, NEW r \in Procs \ {p}, alone', q # r, Exists(q), Exists(r)
      PROVE  Attends(q, r)' \/ Attends(r, q)'
  BY <1>2, AtMostTwo
<1>3. ASSUME NEW q \in Procs \ {p}, alone', Exists(q)
      PROVE  /\ ps[q].pc \in {"bind", "listen", "unwind"} => pidFile' = q
             /\ ps[q].pc = "listen" => port' = q
  BY <1>3 DEF ProcessInv, InTurn, Attends, Asking, FileNamesAgent, ListenerHasPort, FreePort
<1>4. port' \in Procs \cup {NoProc} /\ pidFile' \in Procs \cup {NoProc}
  BY <1>1 DEF Types, FreePort
<1>5. ps' = [ps EXCEPT ![p] = Gone]
  BY DEF Exit
<1>6. QED
  BY <1>1, <1>2, <1>3, <1>4, <1>5, GoneIsProcess, BecomesKeeps DEF Types

LEMMA LaunchKeeps ==
    ASSUME ProcessInv, NEW p \in Procs, NEW aim \in Aims, NEW byUnit \in BOOLEAN,
           NEW pc \in {"preflight", "register", "halt", "fetch"},
           Launch(p, pc, aim, byUnit),
           aim = "start" <=> pc \in {"preflight", "register"},
           byUnit => aim = "start",
           UNCHANGED <<conf, port, pidFile, served, builds>>,
           service' \in [file : BOOLEAN, state : {"off", "on", "failed"}]
    PROVE  ProcessInv'
<1> DEFINE x == [Gone EXCEPT !.pc = pc, !.aim = aim, !.unit = byUnit]
<1>1. Types(p)
  BY TypesHold
<1>2. x \in Processes /\ x.pc = pc /\ x.unit = byUnit
  BY GoneIsProcess DEF Processes, ProcPcs
<1>3. /\ ps' = [ps EXCEPT ![p] = x]
      /\ alone' = (alone /\ (aim = "start" => \A q \in Procs : ~Exists(q))
                         /\ (aim # "start" => \A q \in Procs : ps[q].pc \in {"free", "listen"}))
      /\ ps[p].pc = "free"
  BY DEF Launch
<1> HIDE DEF x
<1>4. alone' \in BOOLEAN /\ (alone' => alone)
  BY <1>3
<1>5. ps'[p] = x /\ \A q \in Procs \ {p} : ps'[q] = ps[q]
  BY <1>3 DEF ProcessInv, ProcessTypeOK
<1>6. ASSUME NEW q \in Procs \ {p}, NEW r \in Procs \ {p}, alone', q # r, Exists(q), Exists(r)
      PROVE  FALSE
  <2>1. ps[q].pc = "listen" /\ ps[r].pc = "listen"
    BY <1>3, <1>6 DEF Exists
  <2>2. QED
    BY <1>4, <1>6, <2>1 DEF ProcessInv, ListenerHasPort
<1>7. ASSUME NEW q \in Procs \ {p}, alone', Exists(q)
      PROVE  /\ Attends(p, q)'
             /\ ps[q].pc \in {"bind", "listen", "unwind"} => pidFile' = q
             /\ ps[q].pc = "listen" => port' = q
  <2>1. ps[q].pc = "listen" /\ aim # "start"
    BY <1>3, <1>7 DEF Exists
  <2>2. pidFile = q /\ port = q
    BY <1>4, <1>7, <2>1 DEF ProcessInv, FileNamesAgent, ListenerHasPort
  <2>3. pc \in Asking
    BY <2>1 DEF Asking
  <2>4. QED
    BY <1>2, <1>5, <2>1, <2>2, <2>3 DEF Attends
<1>8. x.unit => x.pc \notin Asking \cup {"unlink", "free"}
  BY <1>2 DEF Asking
<1>9. QED
  BY <1>1, <1>2, <1>3, <1>4, <1>6, <1>7, <1>8, BecomesKeeps DEF Types

-----------------------------------------------------------------------------

LEMMA AgentKeeps ==
    ASSUME ProcessInv, NEW p \in Procs
    PROVE  /\ Preflight(p) \/ RegisterAndBeat(p) => ProcessInv'
           /\ WritePid(p) => ProcessInv'
           /\ Bind(p) => ProcessInv'
           /\ Interrupt(p) => ProcessInv'
           /\ Unwind(p) \/ Terminated(p) \/ Crash(p) => ProcessInv'
<1>1. Types(p)
  BY TypesHold
<1>2. ASSUME NEW pc \in ProcPcs
      PROVE  LET x == [ps[p] EXCEPT !.pc = pc]
             IN  /\ x \in Processes /\ x.pc = pc /\ x.unit = ps[p].unit
                 /\ Move(p, pc) => ps' = [ps EXCEPT ![p] = x]
  BY <1>1 DEF Types, Processes, Move
<1>3. ps[p].unit => ps[p].pc \notin Asking \cup {"unlink", "free"}
  BY DEF ProcessInv, UnitsServe
<1>4. {"register", "beat", "bind", "listen", "unwind"} \subseteq ProcPcs
  BY DEF ProcPcs
<1>5. ASSUME ps[p].pc \in {"preflight", "register", "beat", "bind"}, alone,
             NEW q \in Procs \ {p}
      PROVE  ~Exists(q)
  BY <1>5 DEF ProcessInv, InTurn, Attends, Asking, Exists
<1>6. ASSUME Preflight(p) \/ RegisterAndBeat(p) PROVE ProcessInv'
  <2>1. /\ Exit(p) \/ \E pc \in {"register", "beat"} : Move(p, pc)
        /\ ps[p].pc \in {"preflight", "register"}
        /\ UNCHANGED <<conf, port, pidFile, service, served, builds, alone>>
    BY <1>6 DEF Preflight, RegisterAndBeat
  <2>2. CASE Exit(p)
    BY <1>1, <2>1, <2>2, ExitKeeps DEF Exists, Types
  <2>3. ASSUME NEW pc \in {"register", "beat"}, Move(p, pc) PROVE ProcessInv'
    <3> DEFINE x == [ps[p] EXCEPT !.pc = pc]
    <3>1. x \in Processes /\ x.pc = pc /\ ps' = [ps EXCEPT ![p] = x]
      BY <1>2, <1>4, <2>3
    <3> HIDE DEF x
    <3>2. x.pc \notin Asking \cup {"unlink", "free"}
      BY <3>1 DEF Asking
    <3>3. served' \in [Files -> 0..MaxBuilds] /\ builds' \in 0..MaxBuilds
      BY <1>1, <2>1 DEF Types
    <3>4. QED
      BY <2>1, <3>1, <3>2, <3>3, QuietKeeps DEF Exists
  <2>4. QED
    BY <2>1, <2>2, <2>3
<1>7. ASSUME WritePid(p) PROVE ProcessInv'
  <2> DEFINE x == [ps[p] EXCEPT !.pc = "bind"]
  <2>1. x \in Processes /\ x.pc = "bind" /\ ps' = [ps EXCEPT ![p] = x]
    BY <1>2, <1>4, <1>7 DEF WritePid
  <2>2. x.pc \notin Asking \cup {"unlink", "free"}
    BY <2>1 DEF Asking
  <2> HIDE DEF x
  <2>3. /\ ps[p].pc = "beat" /\ pidFile' = p
        /\ UNCHANGED <<conf, port, service, served, builds, alone>>
    BY <1>7 DEF WritePid
  <2>4. QED
    BY <1>1, <1>5, <2>1, <2>2, <2>3, BecomesKeeps DEF Types
<1>8. ASSUME Bind(p) PROVE ProcessInv'
  <2>1. /\ ps[p].pc = "bind"
        /\ UNCHANGED <<conf, pidFile, service, served, builds, alone>>
    BY <1>8 DEF Bind
  <2>2. alone => pidFile = p
    BY <2>1 DEF ProcessInv, FileNamesAgent
  <2>3. \E pc \in {"listen", "unwind"} :
            /\ Move(p, pc)
            /\ port' \in Procs \cup {NoProc}
            /\ pc = "listen" => port' = p
    BY <1>1, <1>8 DEF Bind, Types
  <2>4. PICK pc \in {"listen", "unwind"} :
            Move(p, pc) /\ port' \in Procs \cup {NoProc} /\ (pc = "listen" => port' = p)
    BY <2>3
  <2> DEFINE x == [ps[p] EXCEPT !.pc = pc]
  <2>5. x \in Processes /\ x.pc = pc /\ ps' = [ps EXCEPT ![p] = x]
    BY <1>2, <1>4, <2>4
  <2>6. x.pc \notin Asking \cup {"unlink", "free"}
    BY <2>5 DEF Asking
  <2> HIDE DEF x
  <2>7. QED
    BY <1>1, <1>5, <2>1, <2>2, <2>4, <2>5, <2>6, BecomesKeeps DEF Types
<1>9. ASSUME Interrupt(p) PROVE ProcessInv'
  <2>1. /\ ps[p].pc = "listen" /\ FreePort(p) /\ Move(p, "unwind")
        /\ UNCHANGED <<conf, pidFile, service, served, builds, alone>>
    BY <1>9 DEF Interrupt
  <2> DEFINE x == [ps[p] EXCEPT !.pc = "unwind"]
  <2>2. x \in Processes /\ x.pc = "unwind" /\ ps' = [ps EXCEPT ![p] = x]
    BY <1>2, <1>4, <2>1
  <2>3. x.pc \notin Asking \cup {"unlink", "free"}
    BY <2>2 DEF Asking
  <2> HIDE DEF x
  <2>4. ps'[p] = x /\ \A q \in Procs \ {p} : ps'[q] = ps[q]
    BY <2>2 DEF ProcessInv, ProcessTypeOK
  <2>5. port' \in Procs \cup {NoProc} /\ (alone => pidFile = p)
    BY <1>1, <2>1 DEF Types, FreePort, ProcessInv, FileNamesAgent
  <2>6. ASSUME NEW q \in Procs \ {p}, alone, Exists(q)
        PROVE  /\ Attends(q, p)'
               /\ ps[q].pc \notin {"bind", "listen", "unwind"}
    BY <2>1, <2>2, <2>4, <2>6 DEF ProcessInv, InTurn, Attends, Asking, Exists
  <2>7. ASSUME NEW q \in Procs \ {p}, NEW r \in Procs \ {p}, alone, q # r, Exists(q), Exists(r)
        PROVE  FALSE
    BY <2>1, <2>7, AtMostTwo DEF Exists
  <2>8. QED
    BY <1>1, <2>1, <2>2, <2>3, <2>5, <2>6, <2>7, BecomesKeeps DEF Types
<1>10. ASSUME Unwind(p) \/ Terminated(p) \/ Crash(p) PROVE ProcessInv'
  <2>1. service' \in [file : BOOLEAN, state : {"off", "on", "failed"}]
    BY <1>1, <1>10 DEF Unwind, Terminated, Crash, Types
  <2>2. /\ Exit(p) /\ Exists(p) /\ UNCHANGED <<conf, served, builds, alone>>
        /\ port' = port \/ FreePort(p)
        /\ pidFile' = pidFile \/ (pidFile' = NoProc /\ ps[p].pc = "unwind")
    BY <1>10 DEF Unwind, Terminated, Crash, Exists
  <2>3. QED
    BY <2>1, <2>2, ExitKeeps
<1>11. QED
  BY <1>6, <1>7, <1>8, <1>9, <1>10

LEMMA AfterIsProcess ==
    ASSUME NEW aim \in Aims
    PROVE  /\ After(aim) \in Processes /\ ~After(aim).unit
           /\ After(aim).pc = IF aim = "update" THEN "register" ELSE "free"
  BY GoneIsProcess DEF After, Processes, ProcPcs

LEMMA HaltKeeps ==
    ASSUME ProcessInv, NEW p \in Procs
    PROVE  Halt(p) \/ Unlink(p) => ProcessInv'
<1>1. Types(p) /\ ps[p].aim \in Aims /\ ps[p] \in Processes
  BY TypesHold DEF Types, Processes
<1> DEFINE next == After(ps[p].aim)
<1>2. /\ next \in Processes /\ ~next.unit /\ next.pc \in {"register", "free"}
      /\ next.pc = "register" <=> ps[p].aim = "update"
  BY <1>1, AfterIsProcess
<1> HIDE DEF next
<1>3. ASSUME NEW pc \in {"signalled", "unlink"}
      PROVE  LET x == [ps[p] EXCEPT !.pc = pc]
             IN  x \in Processes /\ x.pc = pc /\ x.unit = ps[p].unit
  BY <1>1 DEF Processes, ProcPcs
<1>4. ASSUME Halt(p) PROVE ProcessInv'
  <2>1. /\ ps[p].pc = "halt"
        /\ UNCHANGED <<conf, port, pidFile, service, served, builds, alone>>
    BY <1>4 DEF Halt
  <2>2. ~ps[p].unit
    BY <2>1 DEF ProcessInv, UnitsServe, Asking
  <2>3. ASSUME NEW q \in Procs \ {p}, alone, Exists(q)
        PROVE  /\ pidFile = q /\ ps[q].pc \in {"listen", "unwind", "signalled"}
    BY <2>1, <2>3 DEF ProcessInv, InTurn, Attends, Asking, Exists
  <2>4. CASE \/ pidFile = NoProc
             \/ pidFile = p
             \/ pidFile # NoProc /\ pidFile # p /\ ~Exists(pidFile)
    <3>1. PICK x \in Processes :
              /\ ps' = [ps EXCEPT ![p] = x] /\ ~x.unit
              /\ x.pc \notin {"bind", "listen", "unwind"}
      <4>1. CASE pidFile = NoProc
        BY <1>2, <1>4, <4>1 DEF Halt, next
      <4>2. CASE pidFile = p
        <5> DEFINE x == [ps[p] EXCEPT !.pc = "signalled"]
        <5>1. x \in Processes /\ ~x.unit /\ x.pc = "signalled"
          BY <1>3, <2>2
        <5>2. ps' = [ps EXCEPT ![p] = x]
          BY <1>4, <4>2, ProcAssumption DEF Halt
        <5> HIDE DEF x
        <5>3. QED
          BY <5>1, <5>2
      <4>3. CASE pidFile # NoProc /\ pidFile # p /\ ~Exists(pidFile)
        <5> DEFINE x == [ps[p] EXCEPT !.pc = "unlink"]
        <5>1. x \in Processes /\ ~x.unit /\ x.pc = "unlink"
          BY <1>3, <2>2
        <5>2. ps' = [ps EXCEPT ![p] = x]
          BY <1>4, <4>3 DEF Halt
        <5> HIDE DEF x
        <5>3. QED
          BY <5>1, <5>2
      <4>4. QED
        BY <2>4, <4>1, <4>2, <4>3
    <3>2. ASSUME NEW q \in Procs \ {p}, alone PROVE ~Exists(q)
      BY <2>3, <2>4, <3>2, ProcAssumption
    <3>3. QED
      BY <1>1, <2>1, <3>1, <3>2, BecomesKeeps DEF Types
  <2>5. CASE pidFile # NoProc /\ pidFile # p /\ Exists(pidFile)
    <3> DEFINE q == pidFile
    <3>1. ps' = [ps EXCEPT ![p].pc = "unlink", ![q].pc = "signalled"]
      BY <1>4, <2>5 DEF Halt
    <3>2. q \in Procs \ {p}
      BY <1>1, <2>5 DEF Types
    <3>3. /\ ps' \in [Procs -> Processes]
          /\ ps'[p].pc = "unlink" /\ ~ps'[p].unit
          /\ ps'[q].pc = "signalled" /\ \A r \in Procs \ {p, q} : ps'[r] = ps[r]
      BY <2>2, <3>1, <3>2 DEF ProcessInv, ProcessTypeOK, Processes, ProcPcs
    <3>4. ProcessTypeOK'
      BY <2>1, <3>3 DEF ProcessInv, ProcessTypeOK, Processes
    <3>5. UnitsServe'
      BY <3>2, <3>3 DEF ProcessInv, UnitsServe, Asking
    <3>6. ASSUME alone PROVE \A r \in Procs \ {p, q} : ~Exists(r) /\ ~Exists(r)'
      BY <2>3, <3>3, <3>6 DEF Exists
    <3>7. ASSUME alone PROVE InTurn' /\ FileNamesAgent' /\ ListenerHasPort'
      BY <3>2, <3>3, <3>6, <3>7
         DEF InTurn, Attends, FileNamesAgent, ListenerHasPort, Exists
    <3>8. QED
      BY <2>1, <3>4, <3>5, <3>7 DEF ProcessInv
  <2>6. QED
    BY <2>4, <2>5
<1>5. ASSUME Unlink(p) PROVE ProcessInv'
  <2>1. /\ ps[p].pc = "unlink" /\ pidFile' = NoProc
        /\ ps' = [ps EXCEPT ![p] = next]
        /\ alone' = (alone /\ (ps[p].aim = "update" => \A q \in Procs \ {p} : ~Exists(q)))
        /\ UNCHANGED <<conf, port, service, served, builds>>
    BY <1>5 DEF Unlink, next
  <2>2. alone' \in BOOLEAN /\ (alone' => alone)
    BY <2>1
  <2>3. ASSUME NEW q \in Procs \ {p}, alone', Exists(q)
        PROVE  ps[q].pc = "signalled" /\ next.pc = "free"
    BY <1>2, <2>1, <2>2, <2>3 DEF ProcessInv, InTurn, Attends, Asking, Exists
  <2>4. ASSUME NEW q \in Procs \ {p}, NEW r \in Procs \ {p}, alone', q # r, Exists(q), Exists(r)
        PROVE  FALSE
    BY <2>1, <2>2, <2>4, AtMostTwo DEF Exists
  <2>5. QED
    BY <1>1, <1>2, <2>1, <2>2, <2>3, <2>4, BecomesKeeps DEF Types
<1>6. QED
  BY <1>4, <1>5

LEMMA FetchKeeps ==
    ASSUME ProcessInv, NEW p \in Procs
    PROVE  FetchFile(p) \/ CheckDigest(p) \/ InstallFile(p) => ProcessInv'
<1>1. Types(p)
  BY TypesHold
<1>2. ASSUME FetchFile(p) \/ CheckDigest(p) \/ InstallFile(p)
      PROVE  /\ ps[p].pc \in Asking
             /\ UNCHANGED <<conf, port, pidFile, service, alone>>
  BY <1>2 DEF FetchFile, CheckDigest, InstallFile, Asking
<1>3. ASSUME NEW f \in Files, GetOrBuild(f)
      PROVE  served' \in [Files -> 0..MaxBuilds] /\ builds' \in 0..MaxBuilds
  BY <1>1, <1>3, ProcAssumption DEF GetOrBuild, Types
<1>4. \A aim \in Aims : FileOf(aim) \in Files
  BY DEF FileOf, Files
<1>5. ps[p].aim \in Aims
  BY <1>1 DEF Types, Processes
<1>6. ASSUME FetchFile(p) \/ CheckDigest(p) \/ InstallFile(p)
      PROVE  served' \in [Files -> 0..MaxBuilds] /\ builds' \in 0..MaxBuilds
  <2>1. CASE \E f \in Files : GetOrBuild(f)
    BY <1>3, <2>1
  <2>2. CASE UNCHANGED <<served, builds>>
    BY <1>1, <2>2 DEF Types
  <2>3. QED
    BY <1>4, <1>5, <1>6, <2>1, <2>2 DEF FetchFile, CheckDigest, InstallFile
<1>7. ASSUME FetchFile(p) \/ CheckDigest(p) \/ InstallFile(p)
      PROVE  \E x \in Processes : /\ ps' = [ps EXCEPT ![p] = x]
                                  /\ x.pc \in Asking \cup {"free"}
                                  /\ x.unit => ps[p].unit
  <2>1. CASE Exit(p)
    BY <2>1, GoneIsProcess DEF Exit
  <2>2. ASSUME NEW pc \in Asking, Move(p, pc)
        PROVE  \E x \in Processes : /\ ps' = [ps EXCEPT ![p] = x]
                                    /\ x.pc \in Asking \cup {"free"}
                                    /\ x.unit => ps[p].unit
    <3> DEFINE x == [ps[p] EXCEPT !.pc = pc]
    <3>1. x \in Processes /\ x.pc = pc /\ x.unit = ps[p].unit /\ ps' = [ps EXCEPT ![p] = x]
      BY <1>1, <2>2 DEF Types, Processes, Move, Asking, ProcPcs
    <3> HIDE DEF x
    <3>2. QED
      BY <3>1
  <2>3. ASSUME NEW pc \in Asking, NEW file \in Download,
               ps' = [ps EXCEPT ![p].pc = pc, ![p].file = file]
        PROVE  \E x \in Processes : /\ ps' = [ps EXCEPT ![p] = x]
                                    /\ x.pc \in Asking \cup {"free"}
                                    /\ x.unit => ps[p].unit
    <3> DEFINE x == [ps[p] EXCEPT !.pc = pc, !.file = file]
    <3>1. x \in Processes /\ x.pc = pc /\ x.unit = ps[p].unit
      BY <1>1 DEF Types, Processes, Asking, ProcPcs
    <3>2. ps' = [ps EXCEPT ![p] = x]
      BY <2>3 DEF ProcessInv, ProcessTypeOK
    <3> HIDE DEF x
    <3>3. QED
      BY <3>1, <3>2
  <2>4. CASE FetchFile(p)
    <3>1. CASE Exit(p)
      BY <2>1, <3>1
    <3>2. ASSUME NEW whole \in BOOLEAN,
                 ps' = [ps EXCEPT ![p].pc = "digest",
                                  ![p].file = [build |-> served'[FileOf(ps[p].aim)],
                                               intact |-> whole]]
          PROVE  \E x \in Processes : /\ ps' = [ps EXCEPT ![p] = x]
                                      /\ x.pc \in Asking \cup {"free"}
                                      /\ x.unit => ps[p].unit
      <4>1. [build |-> served'[FileOf(ps[p].aim)], intact |-> whole] \in Download
        BY <1>4, <1>5, <1>6, <2>4 DEF Download
      <4>2. "digest" \in Asking
        BY DEF Asking
      <4>3. QED
        BY <2>3, <3>2, <4>1, <4>2
    <3>3. QED
      BY <2>4, <3>1, <3>2 DEF FetchFile
  <2>5. CASE CheckDigest(p)
    BY <2>1, <2>2, <2>5 DEF CheckDigest, Asking
  <2>6. CASE InstallFile(p)
    <3>1. NoDownload \in Download
      BY ProcAssumption DEF NoDownload, Download
    <3>2. QED
      BY <2>1, <2>3, <2>6, <3>1 DEF InstallFile, Asking
  <2>7. QED
    BY <1>7, <2>4, <2>5, <2>6
<1>8. ps[p].unit => ps[p].pc \notin Asking
  BY DEF ProcessInv, UnitsServe
<1>9. ASSUME FetchFile(p) \/ CheckDigest(p) \/ InstallFile(p) PROVE ProcessInv'
  <2>1. PICK x \in Processes : /\ ps' = [ps EXCEPT ![p] = x]
                               /\ x.pc \in Asking \cup {"free"}
                               /\ x.unit => ps[p].unit
    BY <1>7, <1>9
  <2>2. QED
    BY <1>2, <1>6, <1>8, <1>9, <2>1, QuietKeeps DEF Exists, Asking
<1>10. QED
  BY <1>9

LEMMA ServiceKeeps ==
    ASSUME ProcessInv
    PROVE  /\ InitAgent \/ ServerForgetsBuilds => ProcessInv'
           /\ \A now \in BOOLEAN : InstallService(now) => ProcessInv'
           /\ UninstallService => ProcessInv'
<1> DEFINE Services == [file : BOOLEAN, state : {"off", "on", "failed"}]
<1>1. ASSUME UNCHANGED <<ps, port, pidFile, alone>>, conf' \in BOOLEAN, service' \in Services,
             served' \in [Files -> 0..MaxBuilds], builds' \in 0..MaxBuilds
      PROVE  ProcessInv'
  BY <1>1 DEF ProcessInv, ProcessTypeOK, UnitsServe, InTurn, FileNamesAgent, ListenerHasPort,
              Attends, Exists
<1>2. /\ conf \in BOOLEAN /\ service \in Services
      /\ served \in [Files -> 0..MaxBuilds] /\ builds \in 0..MaxBuilds
  BY DEF ProcessInv, ProcessTypeOK
<1>3. ASSUME InitAgent \/ ServerForgetsBuilds PROVE ProcessInv'
  <2>1. CASE InitAgent
    BY <1>1, <1>2, <2>1 DEF InitAgent
  <2>2. CASE ServerForgetsBuilds
    <3>1. 0 \in 0..MaxBuilds
      BY ProcAssumption
    <3>2. served' \in [Files -> 0..MaxBuilds]
      BY <2>2, <3>1 DEF ServerForgetsBuilds
    <3>3. QED
      BY <1>1, <1>2, <2>2, <3>2 DEF ServerForgetsBuilds
  <2>3. QED
    BY <1>3, <2>1, <2>2
<1>4. ASSUME NEW now \in BOOLEAN, InstallService(now) PROVE ProcessInv'
  <2>1. CASE service' = [file |-> TRUE, state |-> IF now THEN "failed" ELSE "off"]
    <3>1. service' \in Services
      BY <2>1
    <3>2. QED
      BY <1>1, <1>2, <1>4, <3>1 DEF InstallService
  <2>2. CASE service' = [service EXCEPT !.file = TRUE]
    <3>1. service' \in Services
      BY <1>2, <2>2
    <3>2. QED
      BY <1>1, <1>2, <1>4, <3>1 DEF InstallService
  <2>3. QED
    BY <1>4, <2>1, <2>2 DEF InstallService
<1>5. ASSUME UninstallService PROVE ProcessInv'
  <2>1. /\ service' \in Services
        /\ UNCHANGED <<conf, port, pidFile, served, builds, alone>>
    BY <1>5 DEF UninstallService
  <2>2. CASE UNCHANGED ps
    BY <1>1, <1>2, <2>1, <2>2
  <2>3. CASE ps' = [p \in Procs |-> IF ps[p].unit THEN [ps[p] EXCEPT !.pc = "signalled"]
                                    ELSE ps[p]]
    <3>1. \A p \in Procs :
              /\ ps'[p] \in Processes
              /\ ps'[p].unit = ps[p].unit
              /\ ps'[p].pc = IF ps[p].unit THEN "signalled" ELSE ps[p].pc
      BY <2>3 DEF ProcessInv, ProcessTypeOK, Processes, ProcPcs
    <3>2. ProcessTypeOK'
      BY <2>1, <2>3, <3>1 DEF ProcessInv, ProcessTypeOK, Processes
    <3>3. UnitsServe'
      BY <3>1 DEF ProcessInv, UnitsServe, Asking
    <3>4. \A p \in Procs : ps[p].unit => ps[p].pc \notin Asking \cup {"unlink", "free"}
      BY DEF ProcessInv, UnitsServe
    <3>5. ASSUME alone PROVE InTurn'
      <4> SUFFICES ASSUME NEW p \in Procs, NEW q \in Procs, p # q, Exists(p)', Exists(q)'
                   PROVE  Attends(p, q)' \/ Attends(q, p)'
        BY DEF InTurn
      <4>1. Exists(p) /\ Exists(q)
        BY <3>1, <3>4 DEF Exists
      <4>2. Attends(p, q) \/ Attends(q, p)
        BY <3>5, <4>1 DEF ProcessInv, InTurn
      <4>3. ASSUME NEW r \in Procs, NEW t \in Procs, Attends(r, t) PROVE Attends(r, t)'
        <5>1. ps'[r].pc = ps[r].pc
          BY <3>1, <3>4, <4>3 DEF Attends
        <5>2. ps'[t].pc = ps[t].pc \/ ps'[t].pc = "signalled"
          BY <3>1
        <5>3. QED
          BY <2>1, <4>3, <5>1, <5>2 DEF Attends
      <4>4. QED
        BY <4>2, <4>3
    <3>6. ASSUME alone PROVE FileNamesAgent' /\ ListenerHasPort'
      BY <2>1, <3>1, <3>6 DEF ProcessInv, FileNamesAgent, ListenerHasPort
    <3>7. QED
      BY <2>1, <3>2, <3>3, <3>5, <3>6 DEF ProcessInv
  <2>4. QED
    BY <1>5, <2>2, <2>3 DEF UninstallService
<1>6. QED
  BY <1>3, <1>4, <1>5

LEMMA ProcessStepKeeps == ProcessInv /\ [ProcessNext]_processVars => ProcessInv'
<1> SUFFICES ASSUME ProcessInv, [ProcessNext]_processVars PROVE ProcessInv'
  OBVIOUS
<1>1. CASE UNCHANGED processVars
  BY <1>1 DEF processVars, ProcessInv, ProcessTypeOK, UnitsServe, InTurn, FileNamesAgent,
              ListenerHasPort, Attends, Exists
<1>2. ASSUME NEW p \in Procs, StartAgent(p) \/ StopAgent(p) \/ ServiceStarts(p)
                                  \/ \E aim \in {"update", "build"} : StartFetch(p, aim)
      PROVE  ProcessInv'
  <2>1. service' \in [file : BOOLEAN, state : {"off", "on", "failed"}]
    BY <1>2 DEF StartAgent, StopAgent, ServiceStarts, StartFetch, ProcessInv, ProcessTypeOK
  <2>2. UNCHANGED <<conf, port, pidFile, served, builds>>
    BY <1>2 DEF StartAgent, StopAgent, ServiceStarts, StartFetch
  <2>3. \/ \E first \in {"preflight", "register"}, byUnit \in BOOLEAN :
               Launch(p, first, "start", byUnit)
        \/ Launch(p, "halt", "stop", FALSE)
        \/ \E aim \in {"update", "build"} : Launch(p, "fetch", aim, FALSE)
    BY <1>2 DEF StartAgent, StopAgent, ServiceStarts, StartFetch
  <2>4. QED
    BY <2>1, <2>2, <2>3, LaunchKeeps DEF Aims
<1>3. ASSUME NEW p \in Procs, ProcessStep(p) \/ Interrupt(p) \/ Crash(p) PROVE ProcessInv'
  BY <1>3, AgentKeeps, HaltKeeps, FetchKeeps DEF ProcessStep
<1>4. QED
  BY <1>1, <1>2, <1>3, ServiceKeeps DEF ProcessNext

(* The agent that listens is the one that stop and update --restart find,  *)
(* whatever is interrupted, crashes or is served, as long as no two        *)
(* kitt-agent commands overlap.                                            *)
THEOREM ListenerIsReachableAlways == ProcessSpec => []ListenerIsReachable
<1>1. ProcessInv => ListenerIsReachable
  BY DEF ProcessInv, FileNamesAgent, ListenerHasPort, ListenerIsReachable
<1>2. QED
  BY <1>1, ProcessInitIsSound, ProcessStepKeeps, PTL DEF ProcessSpec

-----------------------------------------------------------------------------
(* Model storage.  The invariant is one of each entry (d, m) of a storage  *)
(* directory.  It speaks of the threads that hold the entry: those that    *)
(* copy it, and those that run on it as a copy.                            *)

Holds(t, d, m) ==
    /\ job[t].model = m
    /\ \/ job[t].pc \in {"create", "copy"} /\ job[t].dir = d
       \/ /\ job[t].pc \in {"ready", "run", "clean", "remove", "removing"}
          /\ job[t].place = d /\ job[t].place # job[t].asked

Disturbed(d, m) == \E x \in {"failed", "cut", "overlap"} : x \in trouble[d][m]

(* An entry that nothing has disturbed has one holder at most, whose copy  *)
(* nobody writes to, and is partial only while it is copied or removed.    *)
EntrySound(d, m) ==
    Disturbed(d, m) \/
       /\ \A t, u \in Threads : Holds(t, d, m) /\ Holds(u, d, m) => t = u
       /\ \A t \in Threads : Copying(t, d, m) => ~job[t].torn
       /\ tree[d][m] = "partial" => \E t \in Threads : Writes(t, d, m)
       /\ \A t \in Threads : Holds(t, d, m) /\ job[t].pc \in {"ready", "run", "clean"}
                                => tree[d][m] = "whole"

(* An entry that is there has a holder that will remove it, or a reason to *)
(* stay; a thread that copies to the very path it was given is a reason.   *)
EntryGoes(d, m) ==
    /\ tree[d][m] # "absent" =>
          trouble[d][m] # {} \/ \E t \in Threads : Holds(t, d, m) /\ job[t].pc # "create"
    /\ \A t \in Threads : Copying(t, d, m) /\ job[t].asked = d => trouble[d][m] # {}

(* A thread runs on an entry of the storage, or on the path it was given;  *)
(* what it removes is an entry, of the directory that was checked; a copy  *)
(* that has not begun is not torn.                                         *)
JobSane(j) ==
    /\ j.pc \in {"ready", "run", "clean"} => j.place \in Dirs \cup {j.asked}
    /\ j.pc \in {"evict", "evictAll", "remove", "removing"} => j.place \in Dirs \ {j.asked}
    /\ j.pc \in {"remove", "removing"} => j.dir = j.place
    /\ j.pc \in {"resolve", "create"} => ~j.torn

JobsSane == \A t \in Threads : JobSane(job[t])

StorageInv ==
    /\ StorageTypeOK
    /\ JobsSane
    /\ \A d \in Dirs, m \in Models : EntrySound(d, m) /\ EntryGoes(d, m)

-----------------------------------------------------------------------------

LEMMA StorageInitIsSound == StorageInit => StorageInv
<1> SUFFICES ASSUME StorageInit PROVE StorageInv
  OBVIOUS
<1>1. (CHOOSE m \in Models : TRUE) \in Models
  BY ModelsAssumption
<1>2. NoJob \in Jobs /\ NoJob.pc = "idle"
  BY <1>1, DirsAssumption DEF NoJob, Jobs, Pcs, TestPcs, Places
<1>3. StorageTypeOK
  BY <1>2, DirsAssumption DEF StorageInit, StorageTypeOK, Contents
<1>4. \A t \in Threads : job[t].pc = "idle"
  BY <1>2 DEF StorageInit
<1>5. \A d \in Dirs, m \in Models : tree[d][m] = "absent"
  BY DEF StorageInit, Places
<1>6. QED
  BY <1>3, <1>4, <1>5
     DEF StorageInv, JobsSane, JobSane, EntrySound, EntryGoes, Holds, Copying

LEMMA NoteAdds ==
    ASSUME StorageTypeOK, NEW p \in Places, NEW m \in Models, NEW what \in Troubles,
           Note(p, m, what)
    PROVE  /\ trouble' \in [Places -> [Models -> SUBSET Troubles]]
           /\ what \in trouble'[p][m]
           /\ \A q \in Places, n \in Models : trouble[q][n] \subseteq trouble'[q][n]
  BY DEF StorageTypeOK, Note

LEMMA NoteIfAdds ==
    ASSUME StorageTypeOK, NEW p \in Places, NEW m \in Models, NEW what \in Troubles,
           NEW cond \in BOOLEAN, NoteIf(cond, p, m, what)
    PROVE  /\ trouble' \in [Places -> [Models -> SUBSET Troubles]]
           /\ cond => what \in trouble'[p][m]
           /\ \A q \in Places, n \in Models : trouble[q][n] \subseteq trouble'[q][n]
<1>1. CASE cond
  BY <1>1, NoteAdds DEF NoteIf
<1>2. CASE ~cond
  BY <1>2 DEF NoteIf, StorageTypeOK
<1>3. QED
  BY <1>1, <1>2

LEMMA JobChanges ==
    ASSUME StorageTypeOK, NEW t \in Threads, NEW j \in Jobs, job' = [job EXCEPT ![t] = j]
    PROVE  /\ job' \in [Threads -> Jobs]
           /\ job'[t] = j
           /\ \A u \in Threads \ {t} : job'[u] = job[u]
  BY DEF StorageTypeOK

(* What a step may do to the other threads: tear a copy, no more.          *)
Stays(u) ==
    /\ job'[u].pc = job[u].pc /\ job'[u].model = job[u].model /\ job'[u].asked = job[u].asked
    /\ job'[u].dir = job[u].dir /\ job'[u].place = job[u].place

(* A step of one thread that leaves the entry as it is keeps it sound, if  *)
(* the thread becomes a holder only of an entry that is disturbed or that  *)
(* nobody holds, and of a whole one, and gives up what it holds only when  *)
(* nothing is there or a reason is noted.                                  *)
EntryHarmed(t, d, m) ==
    \/ /\ Holds(t, d, m)' /\ ~Holds(t, d, m) /\ ~Disturbed(d, m)'
       /\ \E u \in Threads \ {t} : Holds(u, d, m)
    \/ Copying(t, d, m)' /\ job'[t].torn
    \/ Writes(t, d, m) /\ tree[d][m] = "partial" /\ ~Writes(t, d, m)' /\ ~Disturbed(d, m)'
    \/ /\ Holds(t, d, m)' /\ job'[t].pc \in {"ready", "run", "clean"}
       /\ tree[d][m] # "whole" /\ ~Disturbed(d, m)'
       /\ ~(Holds(t, d, m) /\ job[t].pc \in {"ready", "run", "clean"})
    \/ /\ Holds(t, d, m) /\ job[t].pc # "create" /\ tree[d][m] # "absent"
       /\ ~(Holds(t, d, m)' /\ job'[t].pc # "create") /\ trouble'[d][m] = {}
    \/ Copying(t, d, m)' /\ job'[t].asked = d /\ trouble'[d][m] = {}

LEMMA EntryKeeps ==
    ASSUME NEW d \in Dirs, NEW m \in Models, EntrySound(d, m), EntryGoes(d, m),
           NEW t \in Threads, \A u \in Threads \ {t} : Stays(u),
           \A u \in Threads \ {t} :
               Copying(u, d, m) => job'[u].torn = job[u].torn \/ Disturbed(d, m)',
           tree'[d][m] = tree[d][m], trouble[d][m] \subseteq trouble'[d][m],
           ~EntryHarmed(t, d, m)
    PROVE  EntrySound(d, m)' /\ EntryGoes(d, m)'
<1>1. \A u \in Threads \ {t} : /\ Holds(u, d, m)' <=> Holds(u, d, m)
                               /\ Copying(u, d, m)' <=> Copying(u, d, m)
                               /\ Writes(u, d, m)' <=> Writes(u, d, m)
                               /\ job'[u].pc = job[u].pc /\ job'[u].asked = job[u].asked
  BY DEF Holds, Copying, Removing, Writes, Stays
<1>2. Disturbed(d, m) => Disturbed(d, m)'
  BY DEF Disturbed
<1>3. EntrySound(d, m)'
  BY <1>1, <1>2 DEF EntrySound, EntryHarmed
<1>4. EntryGoes(d, m)'
  BY <1>1 DEF EntryGoes, EntryHarmed
<1>5. QED
  BY <1>3, <1>4

(* A step that moves one thread on, and at most notes a trouble.           *)
LEMMA MoveKeeps ==
    ASSUME StorageInv, NEW t \in Threads, NEW j \in Jobs, job' = [job EXCEPT ![t] = j],
           JobSane(j), setting' \in [dir : Dirs, cleanup : BOOLEAN], tree' = tree,
           trouble' \in [Places -> [Models -> SUBSET Troubles]],
           \A p \in Places, m \in Models : trouble[p][m] \subseteq trouble'[p][m],
           \A d \in Dirs, m \in Models : ~EntryHarmed(t, d, m)
    PROVE  StorageInv'
<1>1. /\ job' \in [Threads -> Jobs]
      /\ job'[t] = j
      /\ \A u \in Threads \ {t} : job'[u] = job[u]
  BY JobChanges DEF StorageInv
<1>2. StorageTypeOK'
  BY <1>1 DEF StorageInv, StorageTypeOK
<1>3. JobsSane'
  BY <1>1 DEF StorageInv, JobsSane
<1>4. ASSUME NEW d \in Dirs, NEW m \in Models PROVE EntrySound(d, m)' /\ EntryGoes(d, m)'
  <2>1. EntrySound(d, m) /\ EntryGoes(d, m) /\ d \in Places
    BY DEF StorageInv, Places
  <2>2. \A u \in Threads \ {t} : Stays(u) /\ job'[u].torn = job[u].torn
    BY <1>1 DEF Stays
  <2>3. QED
    BY <2>1, <2>2, EntryKeeps
<1>5. QED
  BY <1>2, <1>3, <1>4 DEF StorageInv

HolderPcs == {"create", "copy", "ready", "run", "clean", "remove", "removing"}

(* A step of a thread that holds no entry before or after it.              *)
LEMMA IdleKeeps ==
    ASSUME StorageInv, NEW t \in Threads, NEW j \in Jobs, job' = [job EXCEPT ![t] = j],
           setting' \in [dir : Dirs, cleanup : BOOLEAN], tree' = tree,
           trouble' \in [Places -> [Models -> SUBSET Troubles]],
           \A p \in Places, m \in Models : trouble[p][m] \subseteq trouble'[p][m],
           j.pc \notin HolderPcs, JobSane(j),
           \/ job[t].pc \notin HolderPcs
           \/ /\ job[t].pc \in {"ready", "run", "clean"}
              /\ \/ job[t].place = job[t].asked
                 \/ trouble'[job[t].place][job[t].model] # {}
                 \/ tree[job[t].place][job[t].model] = "absent"
    PROVE  StorageInv'
<1>1. job'[t] = j
  BY JobChanges DEF StorageInv
<1>2. ASSUME NEW d \in Dirs, NEW m \in Models PROVE ~EntryHarmed(t, d, m)
  <2>1. ~Holds(t, d, m)' /\ ~Copying(t, d, m)' /\ ~Writes(t, d, m)
    BY <1>1 DEF Holds, Copying, Removing, Writes, HolderPcs
  <2>2. Holds(t, d, m) /\ tree[d][m] # "absent" => trouble'[d][m] # {}
    BY DEF Holds, HolderPcs
  <2>3. QED
    BY <2>1, <2>2 DEF EntryHarmed
<1>3. QED
  BY <1>2, MoveKeeps

LEMMA BenchmarkStartKeeps ==
    ASSUME StorageInv, NEW t \in Threads, NEW m \in Models
    PROVE  /\ \A p \in Places : StartTest(t, m, p) => StorageInv'
           /\ StartCleanup(t, m) => StorageInv'
           /\ StartCleanupAll(t) => StorageInv'
<1>1. (CHOOSE n \in Models : TRUE) \in Models
  BY ModelsAssumption
<1>2. NoJob \in Jobs
  BY <1>1, DirsAssumption DEF NoJob, Jobs, Pcs, TestPcs, Places
<1>3. StorageTypeOK /\ setting.dir \in Dirs
  BY DEF StorageInv, StorageTypeOK
<1>4. /\ UNCHANGED <<setting, trouble>> => /\ setting' \in [dir : Dirs, cleanup : BOOLEAN]
                                           /\ trouble' \in [Places -> [Models -> SUBSET Troubles]]
      /\ UNCHANGED trouble => \A p \in Places, n \in Models : trouble[p][n] \subseteq trouble'[p][n]
  BY <1>3 DEF StorageTypeOK
<1>5. ASSUME NEW p \in Places, StartTest(t, m, p) PROVE StorageInv'
  <2> DEFINE j == [NoJob EXCEPT !.pc = "resolve", !.model = m, !.asked = p]
  <2>1. j \in Jobs /\ j.pc = "resolve" /\ JobSane(j)
    BY <1>2 DEF NoJob, Jobs, Pcs, TestPcs, JobSane
  <2>2. /\ job' = [job EXCEPT ![t] = j] /\ job[t].pc = "idle"
        /\ UNCHANGED <<setting, tree, trouble>>
    BY <1>5 DEF StartTest
  <2> HIDE DEF j
  <2>3. QED
    BY <1>4, <2>1, <2>2, IdleKeeps DEF HolderPcs
<1>6. ASSUME StartCleanup(t, m) PROVE StorageInv'
  <2> DEFINE j == [NoJob EXCEPT !.pc = "evict", !.model = m, !.place = setting.dir]
  <2>1. j \in Jobs /\ j.pc = "evict" /\ JobSane(j)
    BY <1>2, <1>3, DirsAssumption DEF NoJob, Jobs, Pcs, TestPcs, JobSane, Places
  <2>2. /\ job' = [job EXCEPT ![t] = j] /\ job[t].pc = "idle"
        /\ UNCHANGED <<setting, tree, trouble>>
    BY <1>6 DEF StartCleanup
  <2> HIDE DEF j
  <2>3. QED
    BY <1>4, <2>1, <2>2, IdleKeeps DEF HolderPcs
<1>7. ASSUME StartCleanupAll(t) PROVE StorageInv'
  <2> DEFINE all == {n \in Models : tree[setting.dir][n] # "absent"}
             j == [NoJob EXCEPT !.pc = "evictAll", !.place = setting.dir, !.left = all]
  <2>1. j \in Jobs /\ j.pc = "evictAll" /\ JobSane(j)
    BY <1>2, <1>3, DirsAssumption DEF NoJob, Jobs, Pcs, TestPcs, JobSane, Places
  <2>2. /\ job' = [job EXCEPT ![t] = j] /\ job[t].pc = "idle"
        /\ UNCHANGED <<setting, tree, trouble>>
    BY <1>7 DEF StartCleanupAll
  <2> HIDE DEF j
  <2>3. QED
    BY <1>4, <2>1, <2>2, IdleKeeps DEF HolderPcs
<1>8. QED
  BY <1>5, <1>6, <1>7

-----------------------------------------------------------------------------

LEMMA HoldersUse ==
    ASSUME NEW t \in Threads, NEW d, NEW m, Holds(t, d, m) \/ Writes(t, d, m)
    PROVE  t \in Users(d, m) /\ Uses(t, d, m)
  BY DEF Holds, Copying, Removing, Writes, Users, Uses

LEMMA ResolveKeeps ==
    ASSUME StorageInv, NEW t \in Threads, Resolve(t)
    PROVE  StorageInv'
<1>1. setting.dir \in Dirs /\ job[t].model \in Models
  BY DEF StorageInv, StorageTypeOK, Jobs
<1> PICK d \in Dirs, m \in Models : d = setting.dir /\ m = job[t].model
  BY <1>1
<1> DEFINE At(p) == [job[t] EXCEPT !.pc = "ready", !.dir = d, !.place = p]
           New   == [job[t] EXCEPT !.pc = "create", !.dir = d]
<1>2. /\ StorageTypeOK /\ d \in Dirs /\ d \in Places /\ m \in Models /\ job[t] \in Jobs
      /\ job[t].pc = "resolve" /\ ~job[t].torn /\ job[t].asked \in Places
      /\ Nested \in Places
      /\ setting' = setting /\ tree' = tree
  BY DEF StorageInv, StorageTypeOK, Places, Jobs, Resolve, JobsSane, JobSane
<1>3. \A p \in Places : /\ At(p) \in Jobs /\ At(p).pc = "ready" /\ At(p).place = p
                       /\ At(p).asked = job[t].asked /\ At(p).model = m
  BY <1>2 DEF Jobs, Pcs, TestPcs
<1>4. /\ New \in Jobs /\ New.pc = "create" /\ New.dir = d /\ New.asked = job[t].asked
      /\ New.model = m /\ ~New.torn
  BY <1>2 DEF Jobs, Pcs, TestPcs
<1>5. \A e, n : ~Holds(t, e, n) /\ ~Writes(t, e, n)
  BY <1>2 DEF Holds, Copying, Removing, Writes
<1>6. setting' \in [dir : Dirs, cleanup : BOOLEAN]
  BY <1>2 DEF StorageTypeOK
<1>7. /\ UNCHANGED trouble => trouble' \in [Places -> [Models -> SUBSET Troubles]]
      /\ UNCHANGED trouble => \A p \in Places, n \in Models : trouble[p][n] \subseteq trouble'[p][n]
  BY <1>2 DEF StorageTypeOK
<1>7a. NoteIf(Users(d, m) # {}, d, m, "overlap")
         => /\ trouble' \in [Places -> [Models -> SUBSET Troubles]]
            /\ Users(d, m) # {} => "overlap" \in trouble'[d][m]
            /\ \A q \in Places, n \in Models : trouble[q][n] \subseteq trouble'[q][n]
  BY <1>2, NoteIfAdds DEF Troubles
<1> HIDE DEF At, New
<1>8. CASE /\ tree[d][m] # "absent" /\ job' = [job EXCEPT ![t] = At(d)]
           /\ NoteIf(Users(d, m) # {}, d, m, "overlap")
  <2>a. /\ At(d) \in Jobs /\ At(d).pc = "ready" /\ At(d).place = d
        /\ At(d).asked = job[t].asked /\ At(d).model = m
    BY <1>2, <1>3
  <2>b. job'[t] = At(d)
    BY <1>2, <1>8, <2>a, JobChanges
  <2>1. JobSane(At(d))
    BY <1>2, <2>a DEF JobSane
  <2>c. job'[t].pc = "ready" /\ job'[t].model = m /\ job'[t].place = d
    BY <2>a, <2>b
  <2>2. ASSUME NEW e \in Dirs, NEW n \in Models PROVE ~EntryHarmed(t, e, n)
    <3>1. Holds(t, e, n)' => e = d /\ n = m
      BY <2>c DEF Holds
    <3>2. ~Copying(t, e, n)'
      BY <2>c DEF Copying
    <3>3. Users(d, m) # {} => Disturbed(d, m)'
      BY <1>7a, <1>8 DEF Disturbed
    <3>4. tree[d][m] = "whole" \/ Disturbed(d, m)'
      <4>1. CASE Disturbed(d, m)
        BY <1>2, <1>7a, <1>8, <4>1 DEF Disturbed
      <4>2. CASE ~Disturbed(d, m) /\ tree[d][m] = "partial"
        <5>1. PICK u \in Threads : Writes(u, d, m)
          BY <1>2, <4>2 DEF StorageInv, EntrySound
        <5>2. QED
          BY <3>3, <5>1, HoldersUse
      <4>3. tree[d][m] \in Contents
        BY <1>2 DEF StorageTypeOK
      <4>4. QED
        BY <1>8, <4>1, <4>2, <4>3 DEF Contents
    <3>5. (\E u \in Threads \ {t} : Holds(u, d, m)) => Disturbed(d, m)'
      BY <3>3, HoldersUse
    <3>6. QED
      BY <1>5, <3>1, <3>2, <3>4, <3>5 DEF EntryHarmed
  <2>3. QED
    BY <1>2, <1>6, <1>8, <1>7a, <2>a, <2>1, <2>2, MoveKeeps
<1>9. ASSUME NEW p \in Places, p = job[t].asked, job' = [job EXCEPT ![t] = At(p)],
             UNCHANGED trouble
      PROVE  StorageInv'
  <2>a. /\ At(p) \in Jobs /\ At(p).pc = "ready" /\ At(p).place = p
        /\ At(p).asked = p /\ At(p).model = m
    BY <1>2, <1>3, <1>9
  <2>b. job'[t] = At(p)
    BY <1>2, <1>9, <2>a, JobChanges
  <2>1. JobSane(At(p))
    BY <1>2, <2>a DEF JobSane
  <2>c. job'[t].pc = "ready" /\ job'[t].asked = p /\ job'[t].place = p
    BY <2>a, <2>b
  <2>2. ASSUME NEW e \in Dirs, NEW n \in Models PROVE ~EntryHarmed(t, e, n)
    <3>1. ~Holds(t, e, n)' /\ ~Copying(t, e, n)'
      BY <2>c DEF Holds, Copying
    <3>2. QED
      BY <1>5, <3>1 DEF EntryHarmed
  <2>3. QED
    BY <1>2, <1>6, <1>7, <1>9, <2>a, <2>1, <2>2, MoveKeeps
<1>10. CASE /\ tree[d][m] = "absent" /\ job' = [job EXCEPT ![t] = New]
            /\ NoteIf(Users(d, m) # {}, d, m, "overlap")
  <2>b. job'[t] = New
    BY <1>2, <1>4, <1>10, JobChanges
  <2>1. JobSane(New)
    BY <1>2, <1>4 DEF JobSane
  <2>c. job'[t].pc = "create" /\ job'[t].model = m /\ job'[t].dir = d
    BY <1>4, <2>b
  <2>2. ASSUME NEW e \in Dirs, NEW n \in Models PROVE ~EntryHarmed(t, e, n)
    <3>1. Holds(t, e, n)' => e = d /\ n = m
      BY <2>c DEF Holds
    <3>2. ~Copying(t, e, n)' /\ job'[t].pc = "create"
      BY <2>c DEF Copying
    <3>3. (\E u \in Threads \ {t} : Holds(u, d, m)) => Disturbed(d, m)'
      BY <1>7a, <1>10, HoldersUse DEF Disturbed
    <3>4. QED
      BY <1>5, <3>1, <3>2, <3>3 DEF EntryHarmed
  <2>3. QED
    BY <1>2, <1>4, <1>6, <1>10, <1>7a, <2>1, <2>2, MoveKeeps
<1>11. QED
  <2>1. CASE /\ tree[d][m] # "absent" /\ job' = [job EXCEPT ![t] = At(d)]
             /\ NoteIf(Users(d, m) # {}, d, m, "overlap")
    BY <1>8, <2>1
  <2>2. CASE /\ job[t].asked = Nested /\ job' = [job EXCEPT ![t] = At(Nested)]
             /\ UNCHANGED trouble
    BY <1>2, <1>9, <2>2
  <2>3. CASE tree[d][m] = "absent" /\ job' = [job EXCEPT ![t].pc = "create", ![t].dir = d]
             /\ NoteIf(Users(d, m) # {}, d, m, "overlap")
    <3>1. job' = [job EXCEPT ![t] = New]
      BY <1>2, <2>3 DEF New, StorageTypeOK
    <3>2. QED
      BY <1>10, <2>3, <3>1
  <2>4. CASE job' = [job EXCEPT ![t] = At(job[t].asked)] /\ UNCHANGED trouble
    BY <1>2, <1>9, <2>4
  <2>5. QED
    BY <2>1, <2>2, <2>3, <2>4 DEF Resolve, At

-----------------------------------------------------------------------------

(* A step of thread t that writes to one entry: the others are as before,  *)
(* and the entry itself is as good as the step makes it.                   *)
LEMMA OneEntryKeeps ==
    ASSUME StorageInv, NEW t \in Threads, NEW d \in Places, NEW m \in Models,
           StorageTypeOK', JobsSane', \A u \in Threads \ {t} : Stays(u),
           \A u \in Threads \ {t} : ~Copying(u, d, m) => job'[u].torn = job[u].torn,
           \A e \in Dirs, n \in Models : e # d \/ n # m =>
               /\ tree'[e][n] = tree[e][n]
               /\ trouble[e][n] \subseteq trouble'[e][n]
               /\ ~EntryHarmed(t, e, n),
           d \in Dirs => EntrySound(d, m)' /\ EntryGoes(d, m)'
    PROVE  StorageInv'
<1>1. ASSUME NEW e \in Dirs, NEW n \in Models PROVE EntrySound(e, n)' /\ EntryGoes(e, n)'
  <2>1. CASE e = d /\ n = m
    BY <2>1
  <2>2. CASE e # d \/ n # m
    <3>1. EntrySound(e, n) /\ EntryGoes(e, n)
      BY DEF StorageInv
    <3>2. \A u \in Threads \ {t} : Copying(u, e, n) => job'[u].torn = job[u].torn
      BY <2>2 DEF Copying
    <3>3. QED
      BY <2>2, <3>1, <3>2, EntryKeeps
  <2>3. QED
    BY <2>1, <2>2
<1>2. QED
  BY <1>1 DEF StorageInv

LEMMA OthersStay ==
    ASSUME StorageTypeOK, NEW t \in Threads, NEW p \in Places, NEW m \in Models, NEW j \in Jobs,
           job' = TearOthers(t, p, m, j)
    PROVE  /\ job' \in [Threads -> Jobs]
           /\ job'[t] = j
           /\ \A u \in Threads \ {t} :
                 /\ Stays(u)
                 /\ ~Copying(u, p, m) => job'[u] = job[u]
           /\ JobsSane /\ JobSane(j) => JobsSane'
<1>1. \A u \in Threads : job[u] \in Jobs
  BY DEF StorageTypeOK
<1>2. ASSUME NEW u \in Threads \ {t}
      PROVE  /\ job'[u] \in Jobs /\ Stays(u)
             /\ ~Copying(u, p, m) => job'[u] = job[u]
             /\ job'[u].torn # job[u].torn => job[u].pc = "copy"
  BY <1>1 DEF TearOthers, Stays, Jobs, Copying
<1>3. job'[t] = j /\ job' = [u \in Threads |-> job'[u]]
  BY DEF TearOthers
<1>4. job' \in [Threads -> Jobs]
  BY <1>2, <1>3
<1>5. ASSUME JobsSane, JobSane(j), NEW u \in Threads PROVE JobSane(job'[u])
  <2>1. CASE u = t
    BY <1>3, <1>5, <2>1
  <2>2. CASE u # t
    <3>1. JobSane(job[u]) /\ Stays(u) /\ (job'[u].torn # job[u].torn => job[u].pc = "copy")
      BY <1>2, <1>5, <2>2 DEF JobsSane
    <3>2. QED
      BY <3>1 DEF JobSane, Stays
  <2>3. QED
    BY <2>1, <2>2
<1>6. QED
  BY <1>2, <1>3, <1>4, <1>5 DEF JobsSane

-----------------------------------------------------------------------------

LEMMA WritersHold ==
    ASSUME JobsSane, NEW t \in Threads, NEW d, NEW m, Writes(t, d, m)
    PROVE  Holds(t, d, m)
  BY DEF JobsSane, JobSane, Writes, Copying, Removing, Holds

LEMMA CreateCopyKeeps ==
    ASSUME StorageInv, NEW t \in Threads, CreateCopy(t)
    PROVE  StorageInv'
<1>1. StorageTypeOK /\ JobsSane /\ job[t] \in Jobs
  BY DEF StorageInv, StorageTypeOK
<1> PICK d \in Dirs, m \in Models : d = job[t].dir /\ m = job[t].model
  BY <1>1 DEF Jobs
<1> DEFINE j == [job[t] EXCEPT !.pc = "copy"]
<1>2. /\ job[t].pc = "create" /\ ~job[t].torn /\ d \in Places
      /\ tree' = [tree EXCEPT ![d][m] = "partial"]
      /\ NoteIf(d = job[t].asked, d, m, "own") /\ setting' = setting
  BY <1>1 DEF CreateCopy, JobsSane, JobSane, Places
<1>3. job' = [job EXCEPT ![t] = j] /\ j \in Jobs
  BY <1>1 DEF CreateCopy, StorageTypeOK, Jobs, Pcs, TestPcs
<1>4. /\ j.pc = "copy" /\ j.dir = d /\ j.model = m /\ j.asked = job[t].asked /\ ~j.torn
  BY <1>1, <1>2 DEF Jobs
<1> HIDE DEF j
<1>5. /\ job' \in [Threads -> Jobs] /\ job'[t] = j /\ \A u \in Threads \ {t} : job'[u] = job[u]
  BY <1>1, <1>3, JobChanges
<1>6. /\ trouble' \in [Places -> [Models -> SUBSET Troubles]]
      /\ d = job[t].asked => "own" \in trouble'[d][m]
      /\ \A q \in Places, n \in Models : trouble[q][n] \subseteq trouble'[q][n]
  BY <1>1, <1>2, NoteIfAdds DEF Troubles
<1>7. /\ tree' \in [Places -> [Models -> Contents]] /\ tree'[d][m] = "partial"
      /\ \A e \in Places, n \in Models : e # d \/ n # m => tree'[e][n] = tree[e][n]
  BY <1>1, <1>2 DEF StorageTypeOK, Contents
<1>8. StorageTypeOK' /\ JobsSane'
  BY <1>1, <1>2, <1>4, <1>5, <1>6, <1>7 DEF StorageTypeOK, JobsSane, JobSane
<1>9. ASSUME NEW e \in Dirs, NEW n \in Models, e # d \/ n # m PROVE ~EntryHarmed(t, e, n)
  <2>1. ~Holds(t, e, n) /\ ~Writes(t, e, n) /\ ~Holds(t, e, n)' /\ ~Copying(t, e, n)'
    BY <1>2, <1>4, <1>5, <1>9 DEF Holds, Copying, Removing, Writes
  <2>2. QED
    BY <2>1 DEF EntryHarmed
<1>10. EntrySound(d, m)' /\ EntryGoes(d, m)'
  <2>1. /\ Holds(t, d, m) /\ Holds(t, d, m)' /\ Copying(t, d, m)'
        /\ job'[t].pc = "copy" /\ ~job'[t].torn /\ job'[t].asked = job[t].asked
    BY <1>2, <1>4, <1>5 DEF Holds, Copying
  <2>2. \A u \in Threads \ {t} : /\ Holds(u, d, m)' <=> Holds(u, d, m)
                                 /\ Copying(u, d, m)' <=> Copying(u, d, m)
                                 /\ job'[u] = job[u]
    BY <1>5 DEF Holds, Copying
  <2>3. Disturbed(d, m) => Disturbed(d, m)'
    BY <1>2, <1>6 DEF Disturbed
  <2>4. EntrySound(d, m) /\ EntryGoes(d, m)
    BY DEF StorageInv
  <2>5. EntrySound(d, m)'
    BY <2>1, <2>2, <2>3, <2>4 DEF EntrySound, Writes
  <2>6. EntryGoes(d, m)'
    BY <1>2, <1>6, <2>1, <2>2, <2>4 DEF EntryGoes
  <2>7. QED
    BY <2>5, <2>6
<1>11. QED
  <2>1. \A u \in Threads \ {t} : Stays(u) /\ job'[u].torn = job[u].torn
    BY <1>5 DEF Stays
  <2>2. \A e \in Dirs : e \in Places
    BY DEF Places
  <2>3. QED
    BY <1>2, <1>6, <1>7, <1>8, <1>9, <1>10, <2>1, <2>2, OneEntryKeeps

LEMMA EndCopyKeeps ==
    ASSUME StorageInv, NEW t \in Threads, EndCopy(t)
    PROVE  StorageInv'
<1>1. StorageTypeOK /\ JobsSane /\ job[t] \in Jobs
  BY DEF StorageInv, StorageTypeOK
<1> PICK d \in Dirs, m \in Models : d = job[t].dir /\ m = job[t].model
  BY <1>1 DEF Jobs
<1> DEFINE j == [job[t] EXCEPT !.pc = "ready", !.place = d, !.torn = FALSE]
           c == IF job[t].torn \/ \E u \in Threads \ {t} : Writes(u, d, m)
                THEN tree[d][m] ELSE "whole"
<1>2. /\ job[t].pc = "copy" /\ d \in Places /\ setting' = setting /\ trouble' = trouble
      /\ tree' = [tree EXCEPT ![d][m] = c]
  BY <1>1 DEF EndCopy, Places
<1>3. job' = [job EXCEPT ![t] = j] /\ j \in Jobs
  BY <1>1, <1>2 DEF EndCopy, StorageTypeOK, Jobs, Pcs, TestPcs
<1>4. /\ j.pc = "ready" /\ j.place = d /\ j.model = m /\ j.asked = job[t].asked
  BY <1>1 DEF Jobs
<1> HIDE DEF j
<1>5. /\ job' \in [Threads -> Jobs] /\ job'[t] = j /\ \A u \in Threads \ {t} : job'[u] = job[u]
  BY <1>1, <1>3, JobChanges
<1>6. c \in Contents
  BY <1>1, <1>2 DEF StorageTypeOK, Contents
<1>7. /\ tree' \in [Places -> [Models -> Contents]] /\ tree'[d][m] = c
      /\ \A e \in Places, n \in Models : e # d \/ n # m => tree'[e][n] = tree[e][n]
  <2> HIDE DEF c
  <2> QED
    BY <1>1, <1>2, <1>6 DEF StorageTypeOK
<1>8. StorageTypeOK' /\ JobsSane'
  <2>1. StorageTypeOK'
    BY <1>1, <1>2, <1>5, <1>7 DEF StorageTypeOK
  <2>2. JobSane(j)
    BY <1>4 DEF JobSane
  <2>3. QED
    BY <1>1, <1>5, <2>1, <2>2 DEF JobsSane
<1>9. ASSUME NEW e \in Dirs, NEW n \in Models, e # d \/ n # m PROVE ~EntryHarmed(t, e, n)
  <2>1. ~Holds(t, e, n) /\ ~Writes(t, e, n) /\ ~Holds(t, e, n)' /\ ~Copying(t, e, n)'
    BY <1>2, <1>4, <1>5, <1>9 DEF Holds, Copying, Removing, Writes
  <2>2. QED
    BY <2>1 DEF EntryHarmed
<1>10. EntrySound(d, m)' /\ EntryGoes(d, m)'
  <2>1. /\ Holds(t, d, m) /\ Copying(t, d, m) /\ ~Copying(t, d, m)'
        /\ Holds(t, d, m)' <=> d # job[t].asked
        /\ job'[t].pc = "ready"
    BY <1>2, <1>4, <1>5 DEF Holds, Copying
  <2>2. \A u \in Threads \ {t} : /\ Holds(u, d, m)' <=> Holds(u, d, m)
                                 /\ Copying(u, d, m)' <=> Copying(u, d, m)
                                 /\ Writes(u, d, m) => Holds(u, d, m)
                                 /\ Copying(u, d, m) => Holds(u, d, m)
                                 /\ job'[u] = job[u]
    <3>1. ASSUME NEW u \in Threads \ {t}, Writes(u, d, m) PROVE Holds(u, d, m)
      BY <1>1, <3>1, WritersHold
    <3>2. QED
      BY <1>5, <3>1 DEF Holds, Copying, Writes
  <2>3. Disturbed(d, m)' <=> Disturbed(d, m)
    BY <1>2 DEF Disturbed
  <2>4. EntrySound(d, m) /\ EntryGoes(d, m)
    BY DEF StorageInv
  <2>5. EntrySound(d, m)'
    <3>1. CASE Disturbed(d, m)
      BY <2>3, <3>1 DEF EntrySound
    <3>2. CASE ~Disturbed(d, m)
      <4>1. /\ ~job[t].torn
            /\ \A u \in Threads \ {t} : /\ ~Holds(u, d, m) /\ ~Copying(u, d, m)
                                           /\ ~Writes(u, d, m)
        BY <2>1, <2>2, <2>4, <3>2 DEF EntrySound
      <4>2. tree'[d][m] = "whole"
        BY <1>7, <4>1
      <4>3. QED
        BY <2>1, <2>2, <4>1, <4>2 DEF EntrySound
    <3>3. QED
      BY <3>1, <3>2
  <2>6. EntryGoes(d, m)'
    BY <1>2, <2>1, <2>2, <2>4 DEF EntryGoes
  <2>7. QED
    BY <2>5, <2>6
<1>11. QED
  <2>1. \A u \in Threads \ {t} : Stays(u) /\ job'[u].torn = job[u].torn
    BY <1>5 DEF Stays
  <2>2. \A e \in Dirs : e \in Places
    BY DEF Places
  <2>3. QED
    BY <1>2, <1>7, <1>8, <1>9, <1>10, <2>1, <2>2, OneEntryKeeps

LEMMA CopyFailsKeeps ==
    ASSUME StorageInv, NEW t \in Threads, CopyFails(t)
    PROVE  StorageInv'
<1>1. StorageTypeOK /\ JobsSane /\ job[t] \in Jobs
  BY DEF StorageInv, StorageTypeOK
<1> PICK d \in Dirs, m \in Models : d = job[t].dir /\ m = job[t].model
  BY <1>1 DEF Jobs
<1> DEFINE j == [job[t] EXCEPT !.pc = "ready", !.torn = FALSE, !.place = job[t].asked]
<1>2. /\ job[t].pc = "copy" /\ d \in Places /\ setting' = setting /\ tree' = tree
      /\ NoteIf(tree[d][m] # "absent", d, m, "failed") /\ job' = TearOthers(t, d, m, j)
  BY <1>1 DEF CopyFails, Places
<1>3. /\ j \in Jobs /\ j.pc = "ready" /\ j.place = j.asked /\ JobSane(j)
  BY <1>1 DEF Jobs, Pcs, TestPcs, JobSane
<1> HIDE DEF j
<1>4. /\ job' \in [Threads -> Jobs] /\ job'[t] = j
      /\ \A u \in Threads \ {t} : Stays(u) /\ (~Copying(u, d, m) => job'[u] = job[u])
      /\ JobsSane'
  BY <1>1, <1>2, <1>3, OthersStay
<1>5. /\ trouble' \in [Places -> [Models -> SUBSET Troubles]]
      /\ tree[d][m] # "absent" => "failed" \in trouble'[d][m]
      /\ \A q \in Places, n \in Models : trouble[q][n] \subseteq trouble'[q][n]
  BY <1>1, <1>2, NoteIfAdds DEF Troubles
<1>6. StorageTypeOK'
  BY <1>1, <1>2, <1>4, <1>5 DEF StorageTypeOK
<1>7. ASSUME NEW e \in Dirs, NEW n \in Models PROVE ~EntryHarmed(t, e, n)
  <2>1. /\ ~Holds(t, e, n)' /\ ~Copying(t, e, n)'
        /\ Holds(t, e, n) \/ Writes(t, e, n) => e = d /\ n = m
    BY <1>2, <1>3, <1>4 DEF Holds, Copying, Removing, Writes
  <2>2. tree[d][m] # "absent" => Disturbed(d, m)' /\ trouble'[d][m] # {}
    BY <1>5 DEF Disturbed
  <2>3. QED
    BY <2>1, <2>2 DEF EntryHarmed
<1>8. EntrySound(d, m)' /\ EntryGoes(d, m)'
  <2>1. EntrySound(d, m) /\ EntryGoes(d, m)
    BY DEF StorageInv
  <2>2. Holds(t, d, m)
    BY <1>2 DEF Holds
  <2>3. \A u \in Threads : Copying(u, d, m) => Holds(u, d, m)
    BY DEF Holds, Copying
  <2>4. Disturbed(d, m) => Disturbed(d, m)'
    BY <1>2, <1>5 DEF Disturbed
  <2>5. \A u \in Threads \ {t} : Copying(u, d, m) => Disturbed(d, m)'
    BY <2>1, <2>2, <2>3, <2>4 DEF EntrySound
  <2>6. tree'[d][m] = tree[d][m] /\ trouble[d][m] \subseteq trouble'[d][m]
    BY <1>2, <1>5
  <2>7. QED
    BY <1>4, <1>7, <2>1, <2>5, <2>6, EntryKeeps
<1>9. QED
  <2>1. \A u \in Threads \ {t} : Stays(u) /\ (~Copying(u, d, m) => job'[u].torn = job[u].torn)
    BY <1>4
  <2>2. \A e \in Dirs : e \in Places
    BY DEF Places
  <2>3. QED
    BY <1>2, <1>4, <1>5, <1>6, <1>7, <1>8, <2>1, <2>2, OneEntryKeeps

-----------------------------------------------------------------------------

(* The pc moves between states that hold the same entry.                   *)
LEMMA PcMoves ==
    ASSUME StorageInv, NEW t \in Threads, NEW pc \in {"run", "clean"},
           job[t].pc \in {"ready", "run"}, job' = [job EXCEPT ![t].pc = pc],
           UNCHANGED <<setting, tree, trouble>>
    PROVE  StorageInv'
<1>1. StorageTypeOK /\ JobsSane /\ job[t] \in Jobs
  BY DEF StorageInv, StorageTypeOK
<1> DEFINE j == [job[t] EXCEPT !.pc = pc]
<1>2. job' = [job EXCEPT ![t] = j] /\ j \in Jobs
  BY <1>1 DEF Jobs, Pcs, TestPcs, StorageTypeOK
<1>3. /\ j.pc = pc /\ j.place = job[t].place /\ j.asked = job[t].asked
      /\ j.model = job[t].model /\ j.dir = job[t].dir /\ JobSane(j)
  BY <1>1 DEF Jobs, JobSane, JobsSane
<1> HIDE DEF j
<1>4. job'[t] = j
  BY <1>1, <1>2, JobChanges
<1>5. ASSUME NEW e \in Dirs, NEW n \in Models PROVE ~EntryHarmed(t, e, n)
  <2>1. /\ Holds(t, e, n)' <=> Holds(t, e, n)
        /\ ~Copying(t, e, n)' /\ ~Writes(t, e, n)
        /\ job'[t].pc # "create"
    BY <1>3, <1>4 DEF Holds, Copying, Removing, Writes
  <2>2. QED
    BY <2>1 DEF EntryHarmed
<1>6. /\ setting' \in [dir : Dirs, cleanup : BOOLEAN]
      /\ trouble' \in [Places -> [Models -> SUBSET Troubles]]
      /\ \A p \in Places, n \in Models : trouble[p][n] \subseteq trouble'[p][n]
  BY <1>1 DEF StorageTypeOK
<1>7. QED
  BY <1>2, <1>3, <1>5, <1>6, MoveKeeps

LEMMA RunKeeps ==
    ASSUME StorageInv, NEW t \in Threads, ChooseRunner(t) \/ RunEnds(t)
    PROVE  StorageInv'
<1>1. /\ StorageTypeOK /\ JobsSane /\ job[t] \in Jobs
      /\ job[t].place \in Places /\ job[t].model \in Models
  BY DEF StorageInv, StorageTypeOK, Jobs
<1>2. CASE RunEnds(t)
  BY <1>2, PcMoves DEF RunEnds
<1>3. CASE ChooseRunner(t)
  <2>1. CASE job' = [job EXCEPT ![t].pc = "run"] /\ UNCHANGED trouble
    BY <1>3, <2>1, PcMoves DEF ChooseRunner
  <2>2. CASE /\ job' = [job EXCEPT ![t].pc = "done"]
             /\ Note(job[t].place, job[t].model, "noRunner")
    <3> DEFINE j == [job[t] EXCEPT !.pc = "done"]
    <3>1. job' = [job EXCEPT ![t] = j] /\ j \in Jobs /\ j.pc = "done" /\ JobSane(j)
      BY <1>1, <2>2 DEF Jobs, Pcs, TestPcs, JobSane, StorageTypeOK
    <3> HIDE DEF j
    <3>2. /\ trouble' \in [Places -> [Models -> SUBSET Troubles]]
          /\ trouble'[job[t].place][job[t].model] # {}
          /\ \A q \in Places, n \in Models : trouble[q][n] \subseteq trouble'[q][n]
      <4>1. "noRunner" \in Troubles
        BY DEF Troubles
      <4>2. QED
        BY <1>1, <2>2, <4>1, NoteAdds
    <3>3. setting' \in [dir : Dirs, cleanup : BOOLEAN] /\ tree' = tree /\ job[t].pc = "ready"
      BY <1>1, <1>3 DEF ChooseRunner, StorageTypeOK
    <3>4. QED
      BY <3>1, <3>2, <3>3, IdleKeeps DEF HolderPcs
  <2>3. QED
    BY <1>3, <2>1, <2>2 DEF ChooseRunner
<1>4. QED
  BY <1>2, <1>3

-----------------------------------------------------------------------------

(* cleanup_model's look, by a thread that is done with what it held: the   *)
(* thread that is let through holds the entry until it is removed.         *)
LEMMA CleanupKeeps ==
    ASSUME StorageInv, NEW t \in Threads, NEW p \in Dirs, NEW m \in Models, NEW j \in Jobs,
           CleanupModel(t, p, m, j), setting' = setting, tree' = tree,
           j.pc \notin HolderPcs, JobSane(j), j.asked = job[t].asked, p # job[t].asked,
           \/ job[t].pc \notin HolderPcs
           \/ job[t].pc = "clean" /\ job[t].place = p /\ job[t].model = m
    PROVE  StorageInv'
<1>1. /\ StorageTypeOK /\ JobsSane /\ p \in Places /\ p # Nested
      /\ setting' \in [dir : Dirs, cleanup : BOOLEAN]
  BY DirsAssumption DEF StorageInv, StorageTypeOK, Places
<1>2. CASE tree[p][m] = "absent"
  <2>1. UNCHANGED trouble /\ job' = [job EXCEPT ![t] = j]
    BY <1>2 DEF CleanupModel
  <2>2. /\ trouble' \in [Places -> [Models -> SUBSET Troubles]]
        /\ \A q \in Places, n \in Models : trouble[q][n] \subseteq trouble'[q][n]
    BY <1>1, <2>1 DEF StorageTypeOK
  <2>3. QED
    BY <1>1, <1>2, <2>1, <2>2, IdleKeeps
<1>3. CASE tree[p][m] # "absent" /\ p \notin {setting.dir, Nested}
  <2>1. Note(p, m, "refused") /\ job' = [job EXCEPT ![t] = j]
    BY <1>3 DEF CleanupModel
  <2>2. "refused" \in Troubles
    BY DEF Troubles
  <2>3. /\ trouble' \in [Places -> [Models -> SUBSET Troubles]]
        /\ trouble'[p][m] # {}
        /\ \A q \in Places, n \in Models : trouble[q][n] \subseteq trouble'[q][n]
    BY <1>1, <2>1, <2>2, NoteAdds
  <2>4. QED
    BY <1>1, <2>1, <2>3, IdleKeeps
<1>4. CASE tree[p][m] # "absent" /\ p \in {setting.dir, Nested}
  <2> DEFINE k == [j EXCEPT !.pc = "remove", !.model = m, !.dir = setting.dir, !.place = p]
  <2>1. p = setting.dir
    BY <1>1, <1>4
  <2>2. /\ job' = [job EXCEPT ![t] = k]
        /\ NoteIf(Users(p, m) \ {t} # {}, p, m, "overlap")
    BY <1>4 DEF CleanupModel
  <2>3. /\ k \in Jobs /\ k.pc = "remove" /\ k.model = m /\ k.dir = p /\ k.place = p
        /\ k.asked = job[t].asked
    BY <1>1, <2>1 DEF Jobs, Pcs
  <2> HIDE DEF k
  <2>4. JobSane(k) /\ job'[t] = k
    BY <1>1, <2>2, <2>3, JobChanges DEF JobSane
  <2>5. "overlap" \in Troubles
    BY DEF Troubles
  <2>6. /\ trouble' \in [Places -> [Models -> SUBSET Troubles]]
        /\ Users(p, m) \ {t} # {} => "overlap" \in trouble'[p][m]
        /\ \A q \in Places, n \in Models : trouble[q][n] \subseteq trouble'[q][n]
    <3> DEFINE c == Users(p, m) \ {t} # {}
    <3>1. c \in BOOLEAN /\ NoteIf(c, p, m, "overlap")
      BY <2>2
    <3> HIDE DEF c
    <3>2. /\ trouble' \in [Places -> [Models -> SUBSET Troubles]]
          /\ c => "overlap" \in trouble'[p][m]
          /\ \A q \in Places, n \in Models : trouble[q][n] \subseteq trouble'[q][n]
      BY <1>1, <2>5, <3>1, NoteIfAdds
    <3>3. QED
      BY <3>2 DEF c
  <2>7. ASSUME NEW e \in Dirs, NEW n \in Models PROVE ~EntryHarmed(t, e, n)
    <3>1. /\ Holds(t, e, n)' <=> e = p /\ n = m
          /\ ~Copying(t, e, n)' /\ ~Writes(t, e, n) /\ job'[t].pc = "remove"
      BY <2>3, <2>4 DEF Holds, Copying, Removing, Writes, HolderPcs
    <3>2. Holds(t, e, n) => e = p /\ n = m
      BY DEF Holds, HolderPcs
    <3>3. (\E u \in Threads \ {t} : Holds(u, p, m)) => Disturbed(p, m)'
      BY <2>6, HoldersUse DEF Disturbed
    <3>4. QED
      BY <3>1, <3>2, <3>3 DEF EntryHarmed
  <2>8. QED
    BY <1>1, <2>2, <2>3, <2>4, <2>6, <2>7, MoveKeeps
<1>5. QED
  BY <1>2, <1>3, <1>4

(* What the steps of a removal share.                                      *)
LEMMA RemoverState ==
    ASSUME StorageInv, NEW t \in Threads, job[t].pc \in {"remove", "removing"}
    PROVE  /\ StorageTypeOK /\ JobsSane /\ job[t] \in Jobs
           /\ job[t].place \in Dirs /\ job[t].place \in Places /\ job[t].model \in Models
           /\ job[t].place # job[t].asked /\ job[t].dir = job[t].place
           /\ Holds(t, job[t].place, job[t].model)
           /\ \A e, n : ~Copying(t, e, n)
           /\ \A e, n : Holds(t, e, n) \/ Writes(t, e, n) => e = job[t].place /\ n = job[t].model
  BY DEF StorageInv, StorageTypeOK, JobsSane, JobSane, Jobs, Places, Holds, Copying, Removing,
         Writes

LEMMA BeginRemovalKeeps ==
    ASSUME StorageInv, NEW t \in Threads, BeginRemoval(t)
    PROVE  StorageInv'
<1>1. job[t].pc = "remove"
  BY DEF BeginRemoval
<1> PICK p \in Dirs, m \in Models : p = job[t].place /\ m = job[t].model
  BY <1>1, RemoverState
<1> DEFINE j == [job[t] EXCEPT !.pc = "removing"]
<1>2. /\ StorageTypeOK /\ JobsSane /\ job[t] \in Jobs
      /\ p \in Dirs /\ p \in Places /\ m \in Models /\ p # job[t].asked /\ job[t].dir = p
      /\ Holds(t, p, m) /\ \A e, n : ~Copying(t, e, n)
      /\ \A e, n : Holds(t, e, n) \/ Writes(t, e, n) => e = p /\ n = m
  BY <1>1, RemoverState
<1>3. /\ j \in Jobs /\ j.pc = "removing" /\ j.place = p /\ j.model = m /\ j.asked = job[t].asked
      /\ j.dir = p
  BY <1>2 DEF Jobs, Pcs
<1>4. /\ tree' = [tree EXCEPT ![p][m] = "partial"] /\ trouble' = trouble /\ setting' = setting
      /\ job' = TearOthers(t, p, m, j)
  BY DEF BeginRemoval
<1> HIDE DEF j
<1>5. JobSane(j)
  BY <1>2, <1>3 DEF JobSane
<1>6. /\ job' \in [Threads -> Jobs] /\ job'[t] = j
      /\ \A u \in Threads \ {t} : Stays(u) /\ (~Copying(u, p, m) => job'[u] = job[u])
      /\ JobsSane'
  BY <1>2, <1>3, <1>4, <1>5, OthersStay
<1>7. /\ tree' \in [Places -> [Models -> Contents]] /\ tree'[p][m] = "partial"
      /\ \A e \in Places, n \in Models : e # p \/ n # m => tree'[e][n] = tree[e][n]
  BY <1>2, <1>4 DEF StorageTypeOK, Contents
<1>8. StorageTypeOK'
  BY <1>2, <1>4, <1>6, <1>7 DEF StorageTypeOK
<1>9. /\ Holds(t, p, m)' /\ Writes(t, p, m)' /\ ~Copying(t, p, m)' /\ job'[t].pc = "removing"
      /\ \A e, n : ~Copying(t, e, n)' /\ (Holds(t, e, n)' => e = p /\ n = m)
  BY <1>2, <1>3, <1>6 DEF Holds, Copying, Removing, Writes
<1>10. ASSUME NEW e \in Dirs, NEW n \in Models, e # p \/ n # m PROVE ~EntryHarmed(t, e, n)
  BY <1>2, <1>9, <1>10 DEF EntryHarmed
<1>11. EntrySound(p, m)' /\ EntryGoes(p, m)'
  <2>1. \A u \in Threads \ {t} : /\ Holds(u, p, m)' <=> Holds(u, p, m)
                                 /\ Copying(u, p, m)' <=> Copying(u, p, m)
                                 /\ Copying(u, p, m) => Holds(u, p, m)
                                 /\ job'[u].pc = job[u].pc /\ job'[u].asked = job[u].asked
    BY <1>6 DEF Holds, Copying, Stays
  <2>2. EntrySound(p, m) /\ EntryGoes(p, m)
    BY <1>2 DEF StorageInv
  <2>3. Disturbed(p, m)' <=> Disturbed(p, m)
    BY <1>4 DEF Disturbed
  <2>4. EntrySound(p, m)'
    <3>1. CASE Disturbed(p, m)
      BY <2>3, <3>1 DEF EntrySound
    <3>2. CASE ~Disturbed(p, m)
      <4>1. \A u \in Threads \ {t} : ~Holds(u, p, m) /\ ~Copying(u, p, m)
        BY <1>2, <2>1, <2>2, <3>2 DEF EntrySound
      <4>2. \A u \in Threads : Holds(u, p, m)' => u = t
        BY <2>1, <4>1
      <4>3. \A u \in Threads : ~Copying(u, p, m)'
        BY <1>9, <2>1, <4>1
      <4>4. QED
        BY <1>9, <4>2, <4>3 DEF EntrySound
    <3>3. QED
      BY <3>1, <3>2
  <2>5. EntryGoes(p, m)'
    BY <1>4, <1>9, <2>1, <2>2 DEF EntryGoes
  <2>6. QED
    BY <2>4, <2>5
<1>12. QED
  <2>1. \A u \in Threads \ {t} : Stays(u) /\ (~Copying(u, p, m) => job'[u].torn = job[u].torn)
    BY <1>6
  <2>2. \A e \in Dirs, n \in Models : e # p \/ n # m =>
            /\ tree'[e][n] = tree[e][n]
            /\ trouble[e][n] \subseteq trouble'[e][n]
            /\ ~EntryHarmed(t, e, n)
    BY <1>4, <1>7, <1>10 DEF Places
  <2>3. QED
    BY <1>2, <1>6, <1>8, <1>11, <2>1, <2>2, OneEntryKeeps

LEMMA EndRemovalKeeps ==
    ASSUME StorageInv, NEW t \in Threads, EndRemoval(t)
    PROVE  StorageInv'
<1>1. job[t].pc = "removing"
  BY DEF EndRemoval
<1> PICK p \in Dirs, m \in Models : p = job[t].place /\ m = job[t].model
  BY <1>1, RemoverState
<1> DEFINE j == AfterRemoval(job[t])
           new == IF Users(p, m) \ {t} # {} THEN trouble[p][m] \cup {"overlap"} ELSE {}
<1>2. /\ StorageTypeOK /\ JobsSane /\ job[t] \in Jobs
      /\ p \in Dirs /\ p \in Places /\ m \in Models /\ p # job[t].asked
      /\ Holds(t, p, m) /\ \A e, n : ~Copying(t, e, n)
      /\ \A e, n : Holds(t, e, n) \/ Writes(t, e, n) => e = p /\ n = m
  BY <1>1, RemoverState
<1>3. j \in Jobs /\ j.pc \in {"done", "evictAll"} /\ j.place = p /\ j.asked = job[t].asked
  BY <1>2 DEF AfterRemoval, Jobs, Pcs
<1>4. PICK rest \in {"absent", "partial"} :
          /\ rest = "partial" => \E u \in Threads : Copying(u, p, m)
          /\ tree' = [tree EXCEPT ![p][m] = rest]
  BY DEF EndRemoval
<1>5. /\ job' = TearOthers(t, p, m, j) /\ trouble' = [trouble EXCEPT ![p][m] = new]
      /\ setting' = setting
  BY DEF EndRemoval
<1> HIDE DEF j
<1>6. JobSane(j)
  BY <1>2, <1>3 DEF JobSane
<1>7. new \subseteq Troubles
  BY <1>2 DEF StorageTypeOK, Troubles
<1>8. /\ trouble' \in [Places -> [Models -> SUBSET Troubles]] /\ trouble'[p][m] = new
      /\ \A e \in Places, n \in Models : e # p \/ n # m => trouble'[e][n] = trouble[e][n]
  <2> HIDE DEF new
  <2> QED
    BY <1>2, <1>5, <1>7 DEF StorageTypeOK
<1>9. /\ tree' \in [Places -> [Models -> Contents]] /\ tree'[p][m] = rest
      /\ \A e \in Places, n \in Models : e # p \/ n # m => tree'[e][n] = tree[e][n]
  BY <1>2, <1>4 DEF StorageTypeOK, Contents
<1>10. /\ job' \in [Threads -> Jobs] /\ job'[t] = j
       /\ \A u \in Threads \ {t} : Stays(u) /\ (~Copying(u, p, m) => job'[u] = job[u])
       /\ JobsSane'
  BY <1>2, <1>3, <1>5, <1>6, OthersStay
<1>11. StorageTypeOK'
  BY <1>2, <1>5, <1>8, <1>9, <1>10 DEF StorageTypeOK
<1>12. \A e, n : ~Holds(t, e, n)' /\ ~Writes(t, e, n)' /\ ~Copying(t, e, n)'
  BY <1>3, <1>10 DEF Holds, Copying, Removing, Writes
<1>13. ASSUME NEW e \in Dirs, NEW n \in Models, e # p \/ n # m PROVE ~EntryHarmed(t, e, n)
  BY <1>2, <1>12, <1>13 DEF EntryHarmed
<1>14. EntrySound(p, m)' /\ EntryGoes(p, m)'
  <2>1. \A u \in Threads \ {t} : /\ Holds(u, p, m)' <=> Holds(u, p, m)
                                 /\ Copying(u, p, m)' <=> Copying(u, p, m)
                                 /\ Copying(u, p, m) => Writes(u, p, m)
    BY <1>10 DEF Holds, Copying, Writes, Stays
  <2>2. CASE Users(p, m) \ {t} # {}
    <3>1. "overlap" \in trouble'[p][m]
      BY <1>8, <2>2
    <3>2. QED
      BY <3>1 DEF EntrySound, EntryGoes, Disturbed
  <2>3. CASE Users(p, m) \ {t} = {}
    <3>1. \A u \in Threads \ {t} : ~Holds(u, p, m) /\ ~Copying(u, p, m)
      BY <2>1, <2>3, HoldersUse
    <3>2. \A u \in Threads : ~Holds(u, p, m)' /\ ~Copying(u, p, m)' /\ ~Copying(u, p, m)
      BY <1>2, <1>12, <2>1, <3>1
    <3>3. tree'[p][m] = "absent"
      BY <1>4, <1>9, <3>2
    <3>4. QED
      BY <3>2, <3>3 DEF EntrySound, EntryGoes
  <2>4. QED
    BY <2>2, <2>3
<1>15. QED
  <2>1. \A u \in Threads \ {t} : Stays(u) /\ (~Copying(u, p, m) => job'[u].torn = job[u].torn)
    BY <1>10
  <2>2. \A e \in Dirs, n \in Models : e # p \/ n # m =>
            /\ tree'[e][n] = tree[e][n]
            /\ trouble[e][n] \subseteq trouble'[e][n]
            /\ ~EntryHarmed(t, e, n)
    BY <1>8, <1>9, <1>13 DEF Places
  <2>3. QED
    BY <1>2, <1>10, <1>11, <1>14, <2>1, <2>2, OneEntryKeeps

LEMMA RemovalRaisesKeeps ==
    ASSUME StorageInv, NEW t \in Threads, RemovalRaises(t)
    PROVE  StorageInv'
<1>1. job[t].pc \in {"remove", "removing"}
  BY DEF RemovalRaises
<1> PICK p \in Dirs, m \in Models : p = job[t].place /\ m = job[t].model
  BY <1>1, RemoverState
<1> DEFINE j == [job[t] EXCEPT !.pc = "done"]
           what == IF job[t].pc = "removing" THEN "failed" ELSE "unremoved"
<1>2. /\ StorageTypeOK /\ JobsSane /\ job[t] \in Jobs
      /\ p \in Dirs /\ p \in Places /\ m \in Models /\ p # job[t].asked
      /\ Holds(t, p, m) /\ \A e, n : ~Copying(t, e, n)
      /\ \A e, n : Holds(t, e, n) \/ Writes(t, e, n) => e = p /\ n = m
  BY <1>1, RemoverState
<1>3. j \in Jobs /\ j.pc = "done" /\ JobSane(j)
  BY <1>2 DEF Jobs, Pcs, JobSane
<1>4. /\ tree' = tree /\ setting' = setting /\ job' = TearOthers(t, p, m, j)
      /\ NoteIf(tree[p][m] # "absent", p, m, what)
  BY DEF RemovalRaises
<1> HIDE DEF j
<1>5. /\ job' \in [Threads -> Jobs] /\ job'[t] = j
      /\ \A u \in Threads \ {t} : Stays(u) /\ (~Copying(u, p, m) => job'[u] = job[u])
      /\ JobsSane'
  BY <1>2, <1>3, <1>4, OthersStay
<1>6. what \in Troubles /\ (job[t].pc = "removing" => what = "failed")
  BY DEF Troubles
<1>7. /\ trouble' \in [Places -> [Models -> SUBSET Troubles]]
      /\ tree[p][m] # "absent" => what \in trouble'[p][m]
      /\ \A q \in Places, n \in Models : trouble[q][n] \subseteq trouble'[q][n]
  <2> HIDE DEF what
  <2> QED
    BY <1>2, <1>4, <1>6, NoteIfAdds
<1>8. StorageTypeOK'
  BY <1>2, <1>4, <1>5, <1>7 DEF StorageTypeOK
<1>9. \A e, n : ~Holds(t, e, n)' /\ ~Copying(t, e, n)'
  BY <1>3, <1>5 DEF Holds, Copying
<1>10. ASSUME NEW e \in Dirs, NEW n \in Models PROVE ~EntryHarmed(t, e, n)
  <2>1. Writes(t, e, n) => job[t].pc = "removing"
    BY <1>2 DEF Writes, Removing
  <2>2. /\ tree[p][m] # "absent" => trouble'[p][m] # {}
        /\ tree[p][m] = "partial" /\ job[t].pc = "removing" => Disturbed(p, m)'
    BY <1>6, <1>7 DEF Disturbed
  <2>3. QED
    BY <1>2, <1>9, <2>1, <2>2 DEF EntryHarmed
<1>11. EntrySound(p, m)' /\ EntryGoes(p, m)'
  <2>1. EntrySound(p, m) /\ EntryGoes(p, m)
    BY <1>2 DEF StorageInv
  <2>2. \A u \in Threads : Copying(u, p, m) => Holds(u, p, m)
    BY <1>2 DEF Holds, Copying
  <2>3. Disturbed(p, m) => Disturbed(p, m)'
    BY <1>2, <1>7 DEF Disturbed
  <2>4. \A u \in Threads \ {t} : Copying(u, p, m) => Disturbed(p, m)'
    BY <1>2, <2>1, <2>2, <2>3 DEF EntrySound
  <2>5. tree'[p][m] = tree[p][m] /\ trouble[p][m] \subseteq trouble'[p][m]
    BY <1>2, <1>4, <1>7
  <2>6. QED
    BY <1>2, <1>5, <1>10, <2>1, <2>4, <2>5, EntryKeeps
<1>12. QED
  <2>1. \A u \in Threads \ {t} : Stays(u) /\ (~Copying(u, p, m) => job'[u].torn = job[u].torn)
    BY <1>5
  <2>2. \A e \in Dirs, n \in Models : e # p \/ n # m =>
            /\ tree'[e][n] = tree[e][n]
            /\ trouble[e][n] \subseteq trouble'[e][n]
            /\ ~EntryHarmed(t, e, n)
    BY <1>4, <1>7, <1>10 DEF Places
  <2>3. QED
    BY <1>2, <1>5, <1>8, <1>11, <2>1, <2>2, OneEntryKeeps

LEMMA AutoCleanupKeeps ==
    ASSUME StorageInv, NEW t \in Threads, AutoCleanup(t)
    PROVE  StorageInv'
<1> DEFINE j == [job[t] EXCEPT !.pc = "done"]
<1>1. /\ StorageTypeOK /\ job[t] \in Jobs /\ job[t].pc = "clean"
      /\ job[t].place \in Places /\ job[t].model \in Models
      /\ job[t].place \in Dirs \cup {job[t].asked}
      /\ setting' = setting /\ tree' = tree /\ setting' \in [dir : Dirs, cleanup : BOOLEAN]
  BY DEF StorageInv, StorageTypeOK, JobsSane, JobSane, AutoCleanup, Jobs
<1>2. j \in Jobs /\ j.pc = "done" /\ JobSane(j) /\ j.asked = job[t].asked
  BY <1>1 DEF Jobs, Pcs, TestPcs, JobSane
<1>3. CASE setting.cleanup /\ job[t].place # job[t].asked
  <2>1. CleanupModel(t, job[t].place, job[t].model, j)
    BY <1>3 DEF AutoCleanup
  <2> HIDE DEF j
  <2>2. QED
    BY <1>1, <1>2, <1>3, <2>1, CleanupKeeps DEF HolderPcs
<1>4. CASE ~(setting.cleanup /\ job[t].place # job[t].asked)
  <2>1. /\ NoteIf(job[t].place # job[t].asked, job[t].place, job[t].model, "kept")
        /\ job' = [job EXCEPT ![t] = j]
    BY <1>4 DEF AutoCleanup
  <2>2. "kept" \in Troubles
    BY DEF Troubles
  <2>3. /\ trouble' \in [Places -> [Models -> SUBSET Troubles]]
        /\ job[t].place # job[t].asked => trouble'[job[t].place][job[t].model] # {}
        /\ \A q \in Places, n \in Models : trouble[q][n] \subseteq trouble'[q][n]
    BY <1>1, <2>1, <2>2, NoteIfAdds
  <2> HIDE DEF j
  <2>4. QED
    BY <1>1, <1>2, <2>1, <2>3, IdleKeeps DEF HolderPcs
<1>5. QED
  BY <1>3, <1>4

LEMMA EvictKeeps ==
    ASSUME StorageInv, NEW t \in Threads, Evict(t) \/ EvictNext(t)
    PROVE  StorageInv'
<1>1. /\ StorageTypeOK /\ job[t] \in Jobs /\ job[t].pc \in {"evict", "evictAll"}
      /\ job[t].place \in Dirs \ {job[t].asked}
      /\ job[t].model \in Models /\ job[t].left \subseteq Models
      /\ setting' = setting /\ tree' = tree /\ setting' \in [dir : Dirs, cleanup : BOOLEAN]
  BY DEF StorageInv, StorageTypeOK, JobsSane, JobSane, Evict, EvictNext, Jobs
<1>2. CASE Evict(t)
  <2> DEFINE j == [job[t] EXCEPT !.pc = "done"]
  <2>1. j \in Jobs /\ j.pc = "done" /\ JobSane(j) /\ j.asked = job[t].asked
    BY <1>1 DEF Jobs, Pcs, TestPcs, JobSane
  <2>2. CleanupModel(t, job[t].place, job[t].model, j)
    BY <1>2 DEF Evict
  <2> HIDE DEF j
  <2>3. QED
    BY <1>1, <2>1, <2>2, CleanupKeeps DEF HolderPcs
<1>3. CASE EvictNext(t)
  <2>1. ASSUME NEW m \in job[t].left,
               CleanupModel(t, job[t].place, m, [job[t] EXCEPT !.left = @ \ {m}])
        PROVE  StorageInv'
    <3> DEFINE j == [job[t] EXCEPT !.left = @ \ {m}]
    <3>1. /\ j \in Jobs /\ j.pc = "evictAll" /\ JobSane(j) /\ j.asked = job[t].asked
          /\ m \in Models
      BY <1>1, <1>3 DEF Jobs, JobSane, EvictNext
    <3>2. CleanupModel(t, job[t].place, m, j)
      BY <2>1
    <3> HIDE DEF j
    <3>3. QED
      BY <1>1, <3>1, <3>2, CleanupKeeps DEF HolderPcs
  <2>2. ASSUME job' = [job EXCEPT ![t].pc = "done"], UNCHANGED trouble
        PROVE  StorageInv'
    <3> DEFINE j == [job[t] EXCEPT !.pc = "done"]
    <3>1. j \in Jobs /\ j.pc = "done" /\ JobSane(j)
      BY <1>1 DEF Jobs, Pcs, TestPcs, JobSane
    <3>2. job' = [job EXCEPT ![t] = j]
      BY <1>1, <2>2 DEF StorageTypeOK
    <3>3. /\ trouble' \in [Places -> [Models -> SUBSET Troubles]]
          /\ \A q \in Places, n \in Models : trouble[q][n] \subseteq trouble'[q][n]
      BY <1>1, <2>2 DEF StorageTypeOK
    <3> HIDE DEF j
    <3>4. QED
      BY <1>1, <2>2, <3>1, <3>2, <3>3, IdleKeeps DEF HolderPcs
  <2>3. QED
    BY <1>3, <2>1, <2>2 DEF EvictNext
<1>4. QED
  BY <1>2, <1>3

-----------------------------------------------------------------------------

LEMMA StorageRestartKeeps ==
    ASSUME StorageInv, StorageRestart
    PROVE  StorageInv'
<1>1. StorageTypeOK /\ tree' = tree
  BY DEF StorageInv, StorageRestart
<1>2. \A t \in Threads : job'[t] \in Jobs /\ job'[t].pc \in {"idle", "done"}
  <2>1. \A t \in Threads : job[t] \in Jobs
    BY <1>1 DEF StorageTypeOK
  <2>2. QED
    BY <2>1 DEF StorageRestart, Jobs, Pcs, TestPcs
<1>3. job' \in [Threads -> Jobs]
  BY <1>2 DEF StorageRestart
<1>4. /\ trouble' \in [Places -> [Models -> SUBSET Troubles]]
      /\ \A p \in Places, m \in Models :
            /\ trouble[p][m] \subseteq trouble'[p][m]
            /\ Users(p, m) # {} => "crash" \in trouble'[p][m]
            /\ (\E t \in Threads : Writes(t, p, m)) => "cut" \in trouble'[p][m]
  BY <1>1 DEF StorageTypeOK, StorageRestart, Troubles
<1>5. StorageTypeOK' /\ JobsSane'
  BY <1>1, <1>2, <1>3, <1>4, DirsAssumption
     DEF StorageTypeOK, StorageRestart, JobsSane, JobSane
<1>6. ASSUME NEW d \in Dirs, NEW m \in Models PROVE EntrySound(d, m)' /\ EntryGoes(d, m)'
  <2>1. \A t \in Threads : ~Holds(t, d, m)' /\ ~Copying(t, d, m)'
    BY <1>2 DEF Holds, Copying
  <2>2. EntrySound(d, m) /\ EntryGoes(d, m) /\ d \in Places
    BY DEF StorageInv, Places
  <2>3. /\ (\E t \in Threads : Holds(t, d, m)) => "crash" \in trouble'[d][m]
        /\ (\E t \in Threads : Writes(t, d, m)) => "cut" \in trouble'[d][m]
    BY <1>4, <2>2, HoldersUse
  <2>4. Disturbed(d, m) => Disturbed(d, m)'
    BY <1>4, <2>2 DEF Disturbed
  <2>5. EntrySound(d, m)'
    BY <1>1, <2>1, <2>2, <2>3, <2>4 DEF EntrySound, Disturbed
  <2>6. EntryGoes(d, m)'
    BY <1>1, <1>4, <2>1, <2>2, <2>3 DEF EntryGoes
  <2>7. QED
    BY <2>5, <2>6
<1>7. QED
  BY <1>5, <1>6 DEF StorageInv

LEMMA NothingKeeps ==
    ASSUME StorageInv, UNCHANGED <<tree, job, trouble>>,
           setting' \in [dir : Dirs, cleanup : BOOLEAN]
    PROVE  StorageInv'
  BY DEF StorageInv, StorageTypeOK, JobsSane, JobSane, EntrySound, EntryGoes, Holds, Copying,
         Removing, Writes, Disturbed

LEMMA StorageStepKeeps == StorageInv /\ [StorageNext]_storageVars => StorageInv'
<1> SUFFICES ASSUME StorageInv, [StorageNext]_storageVars PROVE StorageInv'
  OBVIOUS
<1>1. ASSUME NEW t \in Threads, StorageThread(t) PROVE StorageInv'
  BY <1>1, ResolveKeeps, CreateCopyKeeps, EndCopyKeeps, CopyFailsKeeps, RunKeeps,
     AutoCleanupKeeps, EvictKeeps, BeginRemovalKeeps, EndRemovalKeeps, RemovalRaisesKeeps
     DEF StorageThread
<1>2. ASSUME NEW t \in Threads, NEW m \in Models, NEW p \in Places, StartTest(t, m, p)
      PROVE  StorageInv'
  BY <1>2, BenchmarkStartKeeps
<1>3. ASSUME NEW t \in Threads, NEW m \in Models, StartCleanup(t, m) PROVE StorageInv'
  BY <1>3, BenchmarkStartKeeps
<1>4. ASSUME NEW t \in Threads, StartCleanupAll(t) PROVE StorageInv'
  BY <1>4, BenchmarkStartKeeps, ModelsAssumption
<1>5. ASSUME NEW d \in Dirs, NEW c \in BOOLEAN, UpdateSettings(d, c) PROVE StorageInv'
  BY <1>5, NothingKeeps DEF UpdateSettings
<1>6. CASE StorageRestart
  BY <1>6, StorageRestartKeeps
<1>7. CASE UNCHANGED storageVars
  BY <1>7, NothingKeeps DEF storageVars, StorageInv, StorageTypeOK
<1>8. QED
  BY <1>1, <1>2, <1>3, <1>4, <1>5, <1>6, <1>7 DEF StorageNext

(* The invariant: an entry of the storage that no fault and no second user *)
(* has disturbed has one holder, which alone writes it, runs on it whole   *)
(* and removes it.                                                         *)
THEOREM StorageInvariant == StorageSpec => []StorageInv
<1>1. QED
  BY StorageInitIsSound, StorageStepKeeps, PTL DEF StorageSpec

(* A benchmark on a copy of the storage runs on a whole one, unless a copy *)
(* to it or a removal of it raised halfway or was cut off, or two threads  *)
(* used the entry: resolve_model and cleanup_model have no other way to    *)
(* hand out a partial model, with any number of threads, models and        *)
(* directories.                                                            *)
THEOREM RunsOnWholeModelAlways == StorageSpec => []RunsOnWholeModel
<1>1. StorageInv => RunsOnWholeModel
  <2> SUFFICES ASSUME StorageInv, NEW t \in Threads, job[t].pc = "run",
                      job[t].place \in Dirs \ {job[t].asked},
                      tree[job[t].place][job[t].model] # "whole"
               PROVE  trouble[job[t].place][job[t].model] \cap {"failed", "cut", "overlap"} # {}
    BY DEF RunsOnWholeModel
  <2> PICK d \in Dirs, m \in Models : d = job[t].place /\ m = job[t].model
    BY DEF StorageInv, StorageTypeOK, Jobs
  <2>1. EntrySound(d, m) /\ Holds(t, d, m)
    BY DEF StorageInv, Holds
  <2>2. Disturbed(d, m)
    BY <2>1 DEF EntrySound
  <2>3. QED
    BY <2>2 DEF Disturbed
<1>2. QED
  BY <1>1, StorageInvariant, PTL

(* When no thread works, every entry left in a storage directory has a     *)
(* noted reason: the finally block of the benchmark thread removes all     *)
(* other copies.                                                           *)
THEOREM CopiesGoAlways == StorageSpec => []CopiesGo
<1>1. StorageInv => CopiesGo
  BY DEF StorageInv, CopiesGo, EntryGoes, Holds
<1>2. QED
  BY <1>1, StorageInvariant, PTL

(* Whatever settings arrive while threads run, cleanup_model removes only  *)
(* in a directory of the settings, and only what was in the storage        *)
(* directory when it was checked: no path of the user's own, none of the   *)
(* share's.                                                                *)
THEOREM OnlyStorageShrinksAlways == StorageSpec => OnlyStorageShrinks
<1> DEFINE Shrinks == \A p \in Places, m \in Models :
              tree[p][m] # "absent" /\ tree'[p][m] = "absent" =>
                  p \in Dirs /\ \E t \in Threads : Removing(t, p, m) /\ job[t].dir = p
<1>1. StorageInv /\ [StorageNext]_storageVars => [Shrinks]_storageVars
  <2> SUFFICES ASSUME StorageInv, StorageNext, NEW p \in Places, NEW m \in Models,
                      tree[p][m] # "absent", tree'[p][m] = "absent"
               PROVE  p \in Dirs /\ \E t \in Threads : Removing(t, p, m) /\ job[t].dir = p
    OBVIOUS
  <2>1. StorageTypeOK /\ JobsSane
    BY DEF StorageInv
  <2>2. tree' # tree
    OBVIOUS
  <2>3. PICK t \in Threads : StorageThread(t)
    BY <2>2 DEF StorageNext, StartTest, StartCleanup, StartCleanupAll, UpdateSettings,
                StorageRestart
  <2>4. job[t] \in Jobs
    BY <2>1 DEF StorageTypeOK
  <2>5. CASE CreateCopy(t)
    BY <2>1, <2>4, <2>5 DEF CreateCopy, StorageTypeOK, Jobs, Places
  <2>6. CASE EndCopy(t)
    <3> PICK d \in Places, n \in Models : d = job[t].dir /\ n = job[t].model
      BY <2>4 DEF Jobs, Places
    <3>1. tree' = tree \/ tree' = [tree EXCEPT ![d][n] = "whole"]
      BY <2>1, <2>6 DEF EndCopy, StorageTypeOK
    <3>2. tree' = [tree EXCEPT ![d][n] = "whole"] => tree'[p][m] # "absent"
      BY <2>1 DEF StorageTypeOK
    <3>3. QED
      BY <2>2, <3>1, <3>2
  <2>7. CASE BeginRemoval(t)
    <3>1. tree' = [tree EXCEPT ![job[t].place][job[t].model] = "partial"]
      BY <2>7 DEF BeginRemoval
    <3>2. QED
      BY <2>1, <2>4, <3>1 DEF StorageTypeOK, Jobs
  <2>8. CASE EndRemoval(t)
    <3>1. /\ job[t].pc = "removing"
          /\ \E rest \in Contents : tree' = [tree EXCEPT ![job[t].place][job[t].model] = rest]
      BY <2>8 DEF EndRemoval, Contents
    <3>2. /\ job[t].place \in Dirs /\ job[t].place \in Places /\ job[t].model \in Models
          /\ job[t].dir = job[t].place
      BY <3>1, RemoverState
    <3>3. p = job[t].place /\ m = job[t].model
      BY <2>1, <3>1, <3>2 DEF StorageTypeOK
    <3>4. QED
      BY <3>1, <3>2, <3>3 DEF Removing
  <2>9. QED
    BY <2>2, <2>3, <2>5, <2>6, <2>7, <2>8
       DEF StorageThread, Resolve, CopyFails, ChooseRunner, RunEnds, AutoCleanup, Evict,
           EvictNext, RemovalRaises
<1>2. QED
  BY <1>1, StorageInvariant, PTL DEF StorageSpec, OnlyStorageShrinks

-----------------------------------------------------------------------------
(* The three parts together.                                               *)

(* The sets that the start and stop invariant does not need.               *)
EngineSets ==
    /\ installed \subseteq Engines
    /\ unit \subseteq Units
    /\ venv \in [Venvs -> {"absent", "broken", "good"}]
    /\ overlap \subseteq Engines
    /\ abandoned \subseteq Pids \cup Commands

LEMMA EngineSetsInit == EngineInit => EngineSets
  BY DEF EngineInit, EngineSets

LEMMA EngineSetsKeep == EngineInv /\ EngineSets /\ [EngineNext]_engineVars => EngineSets'
<1> SUFFICES ASSUME EngineInv, EngineSets, [EngineNext]_engineVars PROVE EngineSets'
  OBVIOUS
<1>1. EngineTypes /\ \A c \in Commands : CallSound(c)
  BY DEF EngineInv
<1>2. CASE UNCHANGED engineVars
  BY <1>2 DEF engineVars, EngineSets
<1>3. ASSUME NEW c \in Commands, NEW e \in Engines, NEW first \in FirstSteps,
             TakeCommand(c, e, first)
      PROVE  EngineSets'
  BY <1>3 DEF TakeCommand, EngineSets
<1>4. ASSUME NEW c \in Commands, EngineThread(c) PROVE EngineSets'
  <2>1. call[c].engine \in Engines
    BY <1>1 DEF EngineTypes, Calls
  <2>2. CASE StartCheck(c)
    BY <2>1, <2>2 DEF StartCheck, EngineSets
  <2>3. CASE StopKill(c)
    BY <1>1, <2>3 DEF StopKill, EngineSets, CallSound
  <2>4. CASE StopUnit(c)
    BY <2>4 DEF StopUnit, EngineSets
  <2>5. CASE InstallOllama(c) \/ InstallLlamaCpp(c)
    BY <2>1, <2>5 DEF InstallOllama, InstallLlamaCpp, EngineSets
  <2>6. CASE MakeVenv(c) \/ InstallWheels(c)
    BY <2>1, <2>6 DEF MakeVenv, InstallWheels, EngineSets
  <2>7. CASE PullAndRun(c)
    BY <2>7 DEF PullAndRun, EngineSets
  <2>8. CASE AwaitHealth(c)
    BY <2>8 DEF AwaitHealth, EngineSets
  <2>9. CASE \/ Spawn(c) \/ Verify(c) \/ StopPop(c) \/ InstallLook(c)
             \/ RegisterContainer(c) \/ FollowLogs(c)
    BY <2>9 DEF Spawn, Verify, StopPop, InstallLook, RegisterContainer, FollowLogs, EngineSets
  <2>10. QED
    BY <1>4, <2>2, <2>3, <2>4, <2>5, <2>6, <2>7, <2>8, <2>9 DEF EngineThread
<1>5. CASE HostStep
  BY <1>5 DEF HostStep, EngineDies, ContainerExits, StopContainer, EngineSets
<1>6. CASE EngineRestart
  BY <1>6 DEF EngineRestart, EngineSets
<1>7. QED
  BY <1>2, <1>3, <1>4, <1>5, <1>6 DEF EngineNext

HostInv == EngineInv /\ EngineSets /\ ProcessInv /\ StorageInv

(* An agent's machine keeps its state typed: the process table, the set of *)
(* installed engines and the containers, the pid file, the port and the    *)
(* service, and every copy of a model, whatever commands, crashes and      *)
(* restarts interleave.                                                    *)
THEOREM HostTypesAlways == HostSpec => []HostTypeOK
<1> DEFINE hostVars == <<part, storageVars, engineVars, processVars>>
<1>1. HostInit => HostInv
  BY EngineInitIsSound, EngineSetsInit, ProcessInitIsSound, StorageInitIsSound
     DEF HostInit, HostInv
<1>2. HostInv /\ [HostNext]_hostVars => HostInv'
  <2> SUFFICES ASSUME HostInv, [HostNext]_hostVars PROVE HostInv'
    OBVIOUS
  <2>1. [EngineNext]_engineVars /\ [ProcessNext]_processVars /\ [StorageNext]_storageVars
    BY DEF HostNext
  <2>2. QED
    BY <2>1, EngineStepKeeps, EngineSetsKeep, ProcessStepKeeps, StorageStepKeeps DEF HostInv
<1>3. HostInv => HostTypeOK
  BY DEF HostInv, HostTypeOK, EngineInv, EngineTypes, EngineSets, EngineTypeOK, ProcessInv,
         StorageInv
<1>4. QED
  BY <1>1, <1>2, <1>3, PTL DEF HostSpec

=============================================================================
