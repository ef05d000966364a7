----------------------- MODULE CampaignExecutionProofs -----------------------
(***************************************************************************)
(* Theorems about CampaignExecution, for every number of campaigns, launch *)
(* requests, runs and rows, and every choice of environment events.  What  *)
(* the dispatch path guarantees is taken from QuickTestDispatchProofs.     *)
(***************************************************************************)
EXTENDS CampaignExecution, QuickTestDispatchProofs

(* A thread that has not reached its loop has counted and inserted         *)
(* nothing; one in its loop has a run to go.                               *)
Early  == {"idle", "admitted", "begin", "announce"}
InLoop == {"loop", "insert", "stamped", "poll", "read"}

ThreadShape(r) ==
    /\ r.pc \in Early => r.good = 0 /\ r.bad = 0 /\ r.made = {}
    /\ r.pc \in InLoop => r.good + r.bad < r.total

ShapeInv == \A s \in Sessions : ThreadShape(thread[s])

LEMMA NewThreadType ==
    ASSUME NEW c \in Campaigns
    PROVE  NewThread(c) \in Threads /\ ThreadShape(NewThread(c))
  BY RunsAssumption
     DEF NewThread, Threads, SessionPcs, ThreadPcs, ThreadShape, Early, InLoop

(* A step that only moves the program counter of s.                        *)
LEMMA GotoKeeps ==
    ASSUME thread \in [Sessions -> Threads], NEW s \in Sessions, NEW p \in SessionPcs,
           Goto(s, p)
    PROVE  /\ thread' \in [Sessions -> Threads]
           /\ thread'[s] = [thread[s] EXCEPT !.pc = p]
           /\ \A r \in Sessions \ {s} : thread'[r] = thread[r]
  BY DEF Goto, Threads

(* Counting a run keeps the counters within the number of runs, and goes   *)
(* on only while there is one left.                                        *)
LEMMA CountKeeps ==
    ASSUME thread \in [Sessions -> Threads], ShapeInv, NEW s \in Sessions,
           thread[s].pc \in InLoop, NEW g \in 0..1, NEW b \in 0..1, g + b = 1,
           Count(s, g, b)
    PROVE  /\ thread' \in [Sessions -> Threads]
           /\ ShapeInv'
           /\ \A r \in Sessions \ {s} : thread'[r] = thread[r]
           /\ thread'[s].pc \in {"loop", "finish"}
           /\ thread'[s].of = thread[s].of
           /\ thread'[s].made = thread[s].made
           /\ thread'[s].test = thread[s].test
<1> DEFINE x == thread[s]
           y == [x EXCEPT !.pc = NextRun(s, x.good + x.bad + 1),
                          !.good = @ + g, !.bad = @ + b]
<1>1. /\ x \in Threads /\ x.good \in Nat /\ x.bad \in Nat /\ x.total \in 0..MaxRuns
      /\ x.good + x.bad < x.total
  BY RunsAssumption DEF Threads, ShapeInv, ThreadShape
<1>2. /\ x.good + g \in 0..MaxRuns /\ x.bad + b \in 0..MaxRuns
      /\ (x.good + g) + (x.bad + b) = x.good + x.bad + 1
  BY <1>1, RunsAssumption
<1>3. /\ NextRun(s, x.good + x.bad + 1) \in {"loop", "finish"}
      /\ NextRun(s, x.good + x.bad + 1) = "loop" => x.good + x.bad + 1 < x.total
  BY <1>1, RunsAssumption DEF NextRun
<1>4. /\ y.pc = NextRun(s, x.good + x.bad + 1) /\ y.good = x.good + g /\ y.bad = x.bad + b
      /\ y.total = x.total /\ y.of = x.of /\ y.made = x.made /\ y.test = x.test
      /\ y \in Threads
  <2>1. NextRun(s, x.good + x.bad + 1) \in SessionPcs
    BY <1>3 DEF SessionPcs, ThreadPcs
  <2>2. QED
    BY <1>1, <1>2, <2>1 DEF Threads
<1>5. thread' = [thread EXCEPT ![s] = y]
  BY DEF Count
<1>6. ThreadShape(y)
  BY <1>1, <1>2, <1>3, <1>4 DEF ThreadShape, Early, InLoop
<1>7. thread'[s] = y /\ \A r \in Sessions \ {s} : thread'[r] = thread[r]
  BY <1>5
<1>8. ShapeInv'
  BY <1>6, <1>7 DEF ShapeInv, ThreadShape, Early, InLoop
<1>9. QED
  BY <1>3, <1>4, <1>5, <1>7, <1>8

LEMMA SetStatusType ==
    ASSUME campaign \in [Campaigns -> CampaignStatuses], NEW c \in Campaigns,
           NEW st \in CampaignStatuses, SetStatus(c, st)
    PROVE  campaign' \in [Campaigns -> CampaignStatuses]
  BY DEF SetStatus

-----------------------------------------------------------------------------
(* Every step keeps the types and the shape of the threads.                *)

TypedThreads == thread' \in [Sessions -> Threads] /\ ShapeInv'

LEMMA MoveKeepsShape ==
    ASSUME thread \in [Sessions -> Threads], ShapeInv, NEW s \in Sessions,
           NEW p \in SessionPcs, Goto(s, p),
           p \in Early => thread[s].pc \in Early,
           p \in InLoop => thread[s].good + thread[s].bad < thread[s].total
    PROVE  TypedThreads
<1> DEFINE y == [thread[s] EXCEPT !.pc = p]
<1>1. /\ thread' \in [Sessions -> Threads]
      /\ thread'[s] = y
      /\ \A r \in Sessions \ {s} : thread'[r] = thread[r]
  BY GotoKeeps
<1>2. /\ y.pc = p /\ y.good = thread[s].good /\ y.bad = thread[s].bad
      /\ y.total = thread[s].total /\ y.made = thread[s].made
  BY DEF Threads
<1>3. ThreadShape(y)
  BY <1>2 DEF ShapeInv, ThreadShape
<1>4. QED
  BY <1>1, <1>3 DEF ShapeInv, TypedThreads

LEMMA ExecutorThreads ==
    ASSUME CampaignTypeOK, ShapeInv, NEW s \in Sessions,
           ExecutorStep(s) \/ ExecutorFails(s) \/ LaunchQueued(s) \/ DeadlinePasses(s)
    PROVE  TypedThreads
<1> USE DEF CampaignTypeOK
<1> DEFINE x == thread[s]
<1>1. /\ x \in Threads /\ x.good \in 0..MaxRuns /\ x.bad \in 0..MaxRuns
      /\ x.total \in 0..MaxRuns /\ ThreadShape(x)
  BY DEF Threads, ShapeInv
<1>2. SessionPcs = {"idle", "admitted", "ended", "begin", "announce", "loop", "insert",
                    "stamped", "poll", "read", "finish"}
  BY DEF SessionPcs, ThreadPcs
<1>3. x.pc \in InLoop => x.good + x.bad < x.total
  BY <1>1 DEF ThreadShape
<1>4. ASSUME Goto(s, "ended")
      PROVE  TypedThreads
  BY <1>2, <1>4, MoveKeepsShape DEF Early, InLoop
<1>5. CASE LaunchQueued(s)
  BY <1>2, <1>5, MoveKeepsShape DEF LaunchQueued, Early, InLoop
<1>6. CASE Begin(s)
  BY <1>2, <1>6, MoveKeepsShape DEF Begin, Early, InLoop
<1>7. CASE Announce(s)
  <2>1. x.good = 0 /\ x.bad = 0
    BY <1>1, <1>7 DEF Announce, ThreadShape, Early
  <2>2. NextRun(s, 0) \in {"finish", "loop"} /\ (NextRun(s, 0) = "loop" => 0 < x.total)
    BY <1>1, RunsAssumption DEF NextRun
  <2>3. PICK p \in {"ended", "finish", "loop"} :
            Goto(s, p) /\ (p = "loop" => x.good + x.bad < x.total)
    BY <1>7, <2>1, <2>2 DEF Announce
  <2>4. QED
    BY <1>2, <2>3, MoveKeepsShape DEF Early, InLoop
<1>8. CASE LoopTop(s) \/ PollCheck(s) \/ SimulationReturns(s)
  <2>1. PICK p \in {"ended", "insert", "read"} : Goto(s, p) /\ x.pc \in InLoop
    BY <1>8 DEF LoopTop, PollCheck, SimulationReturns, InLoop
  <2>2. QED
    BY <1>2, <1>3, <2>1, MoveKeepsShape DEF Early, InLoop
<1>9. ASSUME NEW t \in Tests, TakeRunTime(s, t)
      PROVE  TypedThreads
  <2> DEFINE y == [x EXCEPT !.pc = "stamped", !.test = {t}, !.made = @ \cup {t}]
  <2>1. /\ y \in Threads /\ y.pc = "stamped" /\ y.good = x.good /\ y.bad = x.bad
        /\ y.total = x.total
    BY <1>1, <1>2 DEF Threads
  <2>2. ThreadShape(y)
    BY <1>3, <1>9, <2>1 DEF TakeRunTime, ThreadShape, Early, InLoop
  <2>3. thread' = [thread EXCEPT ![s] = y]
    BY <1>9 DEF TakeRunTime
  <2>4. QED
    BY <2>1, <2>2, <2>3 DEF TypedThreads, ShapeInv, ThreadShape
<1>10. CASE DeadlinePasses(s) \/ InsertRun(s)
  <2>1. ASSUME NEW p \in SessionPcs, NEW l \in BOOLEAN,
               thread' = [thread EXCEPT ![s].pc = p, ![s].late = l],
               p = x.pc \/ (x.pc = "stamped" /\ p = "poll")
        PROVE  TypedThreads
    <3> DEFINE y == [x EXCEPT !.pc = p, !.late = l]
    <3>1. /\ y \in Threads /\ y.pc = p /\ y.good = x.good /\ y.bad = x.bad
          /\ y.total = x.total /\ y.made = x.made
      BY <1>1 DEF Threads
    <3>2. ThreadShape(y)
      BY <1>1, <2>1, <3>1 DEF ThreadShape, Early, InLoop
    <3>3. thread' = [thread EXCEPT ![s] = y]
      BY <2>1
    <3>4. QED
      BY <3>1, <3>2, <3>3 DEF TypedThreads, ShapeInv
  <2>2. CASE InsertRun(s)
    BY <1>2, <2>1, <2>2 DEF InsertRun
  <2>3. CASE DeadlinePasses(s)
    <3> DEFINE y == [x EXCEPT !.late = TRUE]
    <3>1. /\ y \in Threads /\ y.pc = x.pc /\ y.good = x.good /\ y.bad = x.bad
          /\ y.total = x.total /\ y.made = x.made
      BY <1>1 DEF Threads
    <3>2. ThreadShape(y)
      BY <1>1, <3>1 DEF ThreadShape
    <3>3. thread' = [thread EXCEPT ![s] = y]
      BY <2>3 DEF DeadlinePasses
    <3>4. QED
      BY <3>1, <3>2, <3>3 DEF TypedThreads, ShapeInv
  <2>4. QED
    BY <1>10, <2>2, <2>3
<1>11. CASE TimeOut(s)
  BY <1>11, CountKeeps DEF TimeOut, InLoop, TypedThreads
<1>12. CASE ReadRow(s)
  <2>1. x.pc = "read" /\ (Count(s, 1, 0) \/ Count(s, 0, 1) \/ Goto(s, "poll"))
    BY <1>12 DEF ReadRow
  <2>2. CASE Count(s, 1, 0)
    BY <2>1, <2>2, CountKeeps DEF InLoop, TypedThreads
  <2>3. CASE Count(s, 0, 1)
    BY <2>1, <2>3, CountKeeps DEF InLoop, TypedThreads
  <2>4. CASE Goto(s, "poll")
    BY <1>2, <1>3, <2>1, <2>4, MoveKeepsShape DEF Early, InLoop
  <2>5. QED
    BY <2>1, <2>2, <2>3, <2>4
<1>13. CASE BeginEmpty(s) \/ Finish(s) \/ ExecutorFails(s)
  BY <1>4, <1>13 DEF BeginEmpty, Finish, ExecutorFails
<1>14. QED
  BY <1>5, <1>6, <1>7, <1>8, <1>9, <1>10, <1>11, <1>12, <1>13 DEF ExecutorStep

LEMMA CampaignTypeStep ==
    CampaignTypeOK /\ ShapeInv /\ [CampaignNext]_allVars => CampaignTypeOK' /\ ShapeInv'
<1> SUFFICES ASSUME CampaignTypeOK, ShapeInv, [CampaignNext]_allVars
             PROVE  CampaignTypeOK' /\ ShapeInv'
  OBVIOUS
<1> USE DEF CampaignTypeOK
<1>1. /\ \A s \in Sessions : /\ thread[s] \in Threads /\ thread[s].of \in Campaigns
                             /\ thread[s].good \in 0..MaxRuns
                             /\ thread[s].bad \in 0..MaxRuns
                             /\ thread[s].total \in 0..MaxRuns
                             /\ thread[s].test \subseteq Tests
      /\ {"draft", "queued", "running", "completed", "failed", "cancelled", "deleted"}
            \subseteq CampaignStatuses
  BY DEF Threads, CampaignStatuses
<1>2. ASSUME UNCHANGED thread
      PROVE  ShapeInv'
  BY <1>2 DEF ShapeInv
<1>3. ASSUME NEW c \in Campaigns, CampaignApi(c)
      PROVE  CampaignTypeOK' /\ ShapeInv'
  <2>1. CASE \E n \in 0..MaxRuns, a \in Agents : Create(c, a, n)
    BY <1>1, <1>2, <2>1 DEF Create
  <2>2. CASE \E n \in 0..MaxRuns : UpdateConfig(c, n)
    BY <1>2, <2>2 DEF UpdateConfig
  <2>3. CASE Delete(c)
    BY <1>1, <1>2, <2>3 DEF Delete
  <2>4. ASSUME NEW s \in Sessions, LaunchCheck(s, c)
        PROVE  CampaignTypeOK' /\ ShapeInv'
    <3> DEFINE y == [NewThread(c) EXCEPT !.pc = "admitted", !.total = plan[c]]
    <3>1. y \in Threads /\ y.pc = "admitted" /\ y.good = 0 /\ y.bad = 0 /\ y.made = {}
      BY <2>4, NewThreadType DEF LaunchCheck, NewThread, Threads, SessionPcs
    <3>2. ThreadShape(y)
      BY <3>1 DEF ThreadShape, InLoop
    <3>3. thread' = [thread EXCEPT ![s] = y]
      BY <2>4 DEF LaunchCheck
    <3>4. thread' \in [Sessions -> Threads] /\ ShapeInv'
      BY <3>1, <3>2, <3>3 DEF ShapeInv
    <3>5. QED
      BY <2>4, <3>4 DEF LaunchCheck, webVars
  <2>5. CASE CancelCheck(c)
    BY <1>2, <2>5 DEF CancelCheck
  <2>6. CASE CancelCommit(c)
    BY <1>1, <1>2, <2>6, SetStatusType DEF CancelCommit
  <2>7. QED
    BY <1>3, <2>1, <2>2, <2>3, <2>4, <2>5, <2>6 DEF CampaignApi
<1>4. ASSUME NEW s \in Sessions,
             ExecutorStep(s) \/ ExecutorFails(s) \/ LaunchQueued(s) \/ DeadlinePasses(s)
      PROVE  CampaignTypeOK' /\ ShapeInv'
  <2>1. TypedThreads
    BY <1>4, ExecutorThreads
  <2>2. ASSUME NEW st \in CampaignStatuses, SetStatus(thread[s].of, st)
        PROVE  campaign' \in [Campaigns -> CampaignStatuses]
    BY <1>1, <2>2, SetStatusType
  <2>3. CASE LaunchQueued(s) \/ BeginEmpty(s)
    BY <1>1, <2>1, <2>2, <2>3 DEF LaunchQueued, BeginEmpty, TypedThreads
  <2>4. CASE Begin(s)
    <3>1. counts' \in [Campaigns -> Counts]
      BY <1>1, <2>4 DEF Begin, Counts
    <3>2. QED
      BY <1>1, <2>1, <2>2, <2>4, <3>1 DEF Begin, TypedThreads
  <2>5. CASE Announce(s)
    BY <1>1, <2>1, <2>5 DEF Announce, TypedThreads
  <2>6. CASE \/ LoopTop(s) \/ PollCheck(s) \/ SimulationReturns(s) \/ ReadRow(s)
             \/ DeadlinePasses(s) \/ InsertRun(s) \/ \E t \in Tests : TakeRunTime(s, t)
    BY <2>1, <2>6 DEF LoopTop, PollCheck, SimulationReturns, ReadRow, DeadlinePasses,
                      TakeRunTime, InsertRun, webVars, TypedThreads
  <2>7. CASE TimeOut(s)
    BY <1>1, <2>1, <2>7 DEF TimeOut, webVars, TypedThreads
  <2>8. CASE Finish(s)
    <3>1. counts' \in [Campaigns -> Counts]
      BY <1>1, <2>8 DEF Finish, Counts
    <3>2. QED
      BY <1>1, <2>1, <2>2, <2>8, <3>1 DEF Finish, TypedThreads
  <2>9. CASE ExecutorFails(s)
    BY <1>1, <2>1, <2>2, <2>9 DEF ExecutorFails, TypedThreads
  <2>10. QED
    BY <1>4, <2>3, <2>4, <2>5, <2>6, <2>7, <2>8, <2>9 DEF ExecutorStep
<1>5. CASE CampaignServerRestart
  <2>1. ASSUME NEW s \in Sessions
        PROVE  thread'[s] \in Threads /\ ThreadShape(thread'[s])
    <3>1. [thread[s] EXCEPT !.pc = "ended"] \in Threads
      BY <1>1 DEF Threads, SessionPcs
    <3>2. [thread[s] EXCEPT !.pc = "ended"].pc = "ended"
      BY <1>1 DEF Threads
    <3>3. ThreadShape([thread[s] EXCEPT !.pc = "ended"])
      BY <3>2 DEF ThreadShape, Early, InLoop
    <3>4. ThreadShape(thread[s])
      BY DEF ShapeInv
    <3>5. thread'[s] = thread[s] \/ thread'[s] = [thread[s] EXCEPT !.pc = "ended"]
      BY <1>5 DEF CampaignServerRestart
    <3>6. QED
      BY <1>1, <3>1, <3>3, <3>4, <3>5
  <2>2. thread' \in [Sessions -> Threads] /\ ShapeInv'
    BY <1>5, <2>1 DEF CampaignServerRestart, ShapeInv
  <2>3. QED
    BY <1>5, <2>2 DEF CampaignServerRestart
<1>6. CASE UNCHANGED campaignVars
  BY <1>2, <1>6 DEF campaignVars, webVars
<1>7. QED
  BY <1>3, <1>4, <1>5, <1>6 DEF CampaignNext, allVars

(* Columns, requests and threads of the campaigns stay in their types; in  *)
(* particular the counters never exceed the number of runs.                *)
THEOREM CampaignTypeInvariant == CampaignSpec => []CampaignTypeOK
<1>1. CampaignInit => CampaignTypeOK /\ ShapeInv
  <2> SUFFICES ASSUME CampaignInit
               PROVE  CampaignTypeOK /\ ShapeInv
    OBVIOUS
  <2>1. (CHOOSE c \in Campaigns : TRUE) \in Campaigns
    BY CampaignsAssumption
  <2>2. (CHOOSE a \in Agents : TRUE) \in Agents
    BY AgentsAssumption
  <2>3. thread \in [Sessions -> Threads] /\ ShapeInv
    BY <2>1, NewThreadType DEF CampaignInit, ShapeInv
  <2>4. QED
    BY <2>2, <2>3, RunsAssumption
       DEF CampaignInit, CampaignTypeOK, CampaignStatuses, Counts
<1>2. QED
  BY <1>1, CampaignTypeStep, PTL DEF CampaignSpec

-----------------------------------------------------------------------------
(* The composition implements the dispatch path.                           *)

LEMMA CampaignStepIsDispatchStep ==
    CampaignTypeOK /\ [CampaignNext]_allVars => [Next]_vars
<1> SUFFICES ASSUME CampaignTypeOK, [CampaignNext]_allVars
             PROVE  [Next]_vars
  OBVIOUS
<1>1. CASE \E c \in Campaigns : CampaignApi(c)
  BY <1>1 DEF CampaignApi, Create, UpdateConfig, Delete, LaunchCheck, CancelCheck,
              CancelCommit, dispatchVars
<1>2. ASSUME NEW s \in Sessions, LaunchQueued(s) \/ DeadlinePasses(s) \/ ExecutorFails(s)
      PROVE  [Next]_vars
  BY <1>2 DEF LaunchQueued, DeadlinePasses, ExecutorFails, dispatchVars
<1>3. ASSUME NEW s \in Sessions, ExecutorStep(s)
      PROVE  [Next]_vars
  <2>1. assigned[thread[s].of] \in Agents /\ thread[s].test \subseteq Tests
    BY DEF CampaignTypeOK, Threads
  <2>2. ASSUME NEW t \in Tests, TakeRunTime(s, t)
        PROVE  Next
    BY <2>1, <2>2 DEF TakeRunTime, Next, Operate, WithinDay, Api
  <2>3. CASE InsertRun(s)
    BY <2>1, <2>3 DEF InsertRun, Next, Operate, WithinDay, Api
  <2>4. CASE ~InsertRun(s) /\ ~\E t \in Tests : TakeRunTime(s, t)
    BY <1>3, <2>4 DEF ExecutorStep, BeginEmpty, Begin, Announce, LoopTop, TimeOut, PollCheck,
                      SimulationReturns, ReadRow, Finish, dispatchVars
  <2>5. QED
    BY <2>2, <2>3, <2>4
<1>4. CASE CampaignServerRestart
  BY <1>4 DEF CampaignServerRestart, Next
<1>5. CASE Operate \/ UNCHANGED allVars
  BY <1>5 DEF Next, allVars
<1>6. QED
  BY <1>1, <1>2, <1>3, <1>4, <1>5 DEF CampaignNext

(* A behaviour with campaigns is, for the table, the heartbeats and the    *)
(* agents, a behaviour of QuickTestDispatch: the rows of the executors     *)
(* take the path of any other row, and every theorem about that path holds *)
(* with campaigns running.                                                 *)
THEOREM CampaignRefinement == CampaignSpec => ImplementsDispatch
<1>1. CampaignInit => Init
  BY DEF CampaignInit
<1>2. QED
  BY <1>1, CampaignTypeInvariant, CampaignStepIsDispatchStep, PTL
     DEF CampaignSpec, ImplementsDispatch, Spec

-----------------------------------------------------------------------------
(* An active campaign keeps an executor.                                   *)

LEMMA ExecutorKept ==
    CampaignTypeOK /\ ActiveHasExecutor /\ [CampaignNext]_allVars => ActiveHasExecutor'
<1> SUFFICES ASSUME CampaignTypeOK, ActiveHasExecutor, [CampaignNext]_allVars,
                    "serverCrash" \notin Env,
                    NEW c \in Campaigns, campaign'[c] \in Active
             PROVE  \E r \in Sessions : Runs(r, c)'
  BY DEF ActiveHasExecutor
<1> USE DEF CampaignTypeOK, Runs, Active
<1>1. campaign[c] \in Active => \E r \in Sessions : Runs(r, c)
  BY DEF ActiveHasExecutor
<1>2. ASSUME UNCHANGED <<campaign, thread>>
      PROVE  \E r \in Sessions : Runs(r, c)'
  BY <1>1, <1>2
<1>3. \A s \in Sessions : thread[s] \in Threads /\ thread[s].of \in Campaigns
  BY DEF Threads
<1>4. ASSUME NEW d \in Campaigns, CampaignApi(d)
      PROVE  \E r \in Sessions : Runs(r, c)'
  <2>1. CASE \E n \in 0..MaxRuns, a \in Agents : Create(d, a, n)
    BY <1>1, <2>1 DEF Create
  <2>2. CASE \E n \in 0..MaxRuns : UpdateConfig(d, n)
    BY <1>2, <2>2 DEF UpdateConfig
  <2>3. CASE Delete(d)
    BY <1>1, <2>3 DEF Delete
  <2>4. ASSUME NEW s \in Sessions, LaunchCheck(s, d)
        PROVE  \E r \in Sessions : Runs(r, c)'
    <3>1. PICK r \in Sessions : Runs(r, c)
      BY <1>1, <2>4 DEF LaunchCheck, webVars
    <3>2. r # s
      BY <2>4, <3>1 DEF LaunchCheck, ThreadPcs
    <3>3. QED
      BY <2>4, <3>1, <3>2 DEF LaunchCheck
  <2>5. CASE CancelCheck(d)
    BY <1>2, <2>5 DEF CancelCheck
  <2>6. CASE CancelCommit(d)
    BY <1>1, <2>6 DEF CancelCommit, SetStatus
  <2>7. QED
    BY <1>4, <2>1, <2>2, <2>3, <2>4, <2>5, <2>6 DEF CampaignApi
<1>5. ASSUME NEW s \in Sessions, NEW p \in ThreadPcs, Goto(s, p),
             campaign'[c] = campaign[c] \/ thread[s].of = c
      PROVE  \E r \in Sessions : Runs(r, c)'
  <2>1. /\ thread'[s].pc = p /\ thread'[s].of = thread[s].of
        /\ \A r \in Sessions \ {s} : thread'[r] = thread[r]
    <3>1. p \in SessionPcs
      BY DEF SessionPcs
    <3>2. /\ thread'[s] = [thread[s] EXCEPT !.pc = p]
          /\ \A r \in Sessions \ {s} : thread'[r] = thread[r]
      BY <1>5, <3>1, GotoKeeps
    <3>3. QED
      BY <1>3, <3>2 DEF Threads
  <2>2. CASE thread[s].of = c
    BY <2>1, <2>2
  <2>3. CASE thread[s].of # c
    BY <1>1, <1>5, <2>1, <2>3
  <2>4. QED
    BY <2>2, <2>3
<1>6. ASSUME NEW s \in Sessions, Goto(s, "ended"), campaign'[c] = campaign[c],
             thread[s].of # c
      PROVE  \E r \in Sessions : Runs(r, c)'
  BY <1>1, <1>3, <1>6, GotoKeeps DEF SessionPcs
<1>7. ASSUME NEW s \in Sessions, NEW st \in CampaignStatuses, SetStatus(thread[s].of, st)
      PROVE  /\ thread[s].of # c => campaign'[c] = campaign[c]
             /\ thread[s].of = c => campaign'[c] \in {st, "deleted"}
  BY <1>3, <1>7 DEF SetStatus
<1>8. ASSUME NEW s \in Sessions, LaunchQueued(s) \/ Begin(s)
      PROVE  \E r \in Sessions : Runs(r, c)'
  BY <1>5, <1>7, <1>8 DEF LaunchQueued, Begin, ThreadPcs, CampaignStatuses
<1>9. ASSUME NEW s \in Sessions, BeginEmpty(s) \/ Finish(s) \/ ExecutorFails(s)
      PROVE  \E r \in Sessions : Runs(r, c)'
  <2>1. PICK st \in {"failed", "completed"} : SetStatus(thread[s].of, st)
    BY <1>9 DEF BeginEmpty, Finish, ExecutorFails
  <2>2. st \in CampaignStatuses /\ Goto(s, "ended")
    BY <1>9 DEF CampaignStatuses, BeginEmpty, Finish, ExecutorFails
  <2>3. thread[s].of # c
    BY <1>7, <2>1, <2>2
  <2>4. QED
    BY <1>6, <1>7, <2>1, <2>2, <2>3
<1>10. ASSUME NEW s \in Sessions,
              Announce(s) \/ LoopTop(s) \/ PollCheck(s) \/ SimulationReturns(s)
       PROVE  \E r \in Sessions : Runs(r, c)'
  <2>1. UNCHANGED campaign
    BY <1>10 DEF Announce, LoopTop, PollCheck, SimulationReturns, webVars
  <2>2. \/ \E p \in ThreadPcs : Goto(s, p)
        \/ Goto(s, "ended") /\ campaign[thread[s].of] \in {"deleted", "cancelled"}
    BY <1>10 DEF Announce, LoopTop, PollCheck, SimulationReturns, NextRun, IsCancelled,
                 ThreadPcs
  <2>3. QED
    BY <1>5, <1>6, <2>1, <2>2
<1>11. ASSUME NEW s \in Sessions, UNCHANGED campaign, thread'[s].of = thread[s].of,
              thread[s].pc \in ThreadPcs => thread'[s].pc \in ThreadPcs,
              \A r \in Sessions \ {s} : thread'[r] = thread[r]
       PROVE  \E r \in Sessions : Runs(r, c)'
  BY <1>1, <1>11
<1>12. ASSUME NEW s \in Sessions, NEW g \in 0..1, NEW b \in 0..1, Count(s, g, b),
              UNCHANGED campaign
       PROVE  \E r \in Sessions : Runs(r, c)'
  <2>1. /\ thread'[s].of = thread[s].of
        /\ thread'[s].pc = NextRun(s, thread[s].good + thread[s].bad + 1)
        /\ \A r \in Sessions \ {s} : thread'[r] = thread[r]
    BY <1>3, <1>12 DEF Count, Threads
  <2>2. QED
    BY <1>11, <1>12, <2>1 DEF NextRun, ThreadPcs
<1>13. ASSUME NEW s \in Sessions,
              DeadlinePasses(s) \/ InsertRun(s) \/ \E t \in Tests : TakeRunTime(s, t)
       PROVE  \E r \in Sessions : Runs(r, c)'
  <2>1. CASE DeadlinePasses(s)
    <3>1. /\ thread'[s].of = thread[s].of /\ thread'[s].pc = thread[s].pc
          /\ \A r \in Sessions \ {s} : thread'[r] = thread[r]
      BY <1>3, <2>1 DEF DeadlinePasses, Threads
    <3>2. QED
      BY <1>11, <2>1, <3>1 DEF DeadlinePasses, webVars
  <2>2. CASE InsertRun(s) \/ \E t \in Tests : TakeRunTime(s, t)
    <3>1. /\ thread'[s].of = thread[s].of /\ thread'[s].pc \in {"stamped", "poll"}
          /\ \A r \in Sessions \ {s} : thread'[r] = thread[r]
      <4>1. CASE InsertRun(s)
        BY <1>3, <4>1 DEF InsertRun, Threads
      <4>2. ASSUME NEW t \in Tests, TakeRunTime(s, t)
            PROVE  /\ thread'[s].of = thread[s].of /\ thread'[s].pc = "stamped"
                   /\ \A r \in Sessions \ {s} : thread'[r] = thread[r]
        BY <1>3, <4>2 DEF TakeRunTime, Threads
      <4>3. QED
        BY <2>2, <4>1, <4>2
    <3>2. QED
      BY <1>11, <2>2, <3>1 DEF InsertRun, TakeRunTime, webVars, ThreadPcs
  <2>3. QED
    BY <1>13, <2>1, <2>2
<1>14. ASSUME NEW s \in Sessions, TimeOut(s) \/ ReadRow(s)
       PROVE  \E r \in Sessions : Runs(r, c)'
  <2>1. UNCHANGED campaign
    BY <1>14 DEF TimeOut, ReadRow, webVars
  <2>2. Count(s, 1, 0) \/ Count(s, 0, 1) \/ Goto(s, "poll")
    BY <1>14 DEF TimeOut, ReadRow
  <2>3. QED
    BY <1>5, <1>12, <2>1, <2>2 DEF ThreadPcs
<1>15. CASE UNCHANGED campaignVars
  BY <1>2, <1>15 DEF campaignVars, webVars
<1>16. ~CampaignServerRestart
  BY DEF CampaignServerRestart, ServerRestart
<1>17. QED
  BY <1>4, <1>8, <1>9, <1>10, <1>13, <1>14, <1>15, <1>16
     DEF CampaignNext, ExecutorStep, allVars

(* While the server stays up, every campaign shown as queued or running    *)
(* has a thread that will take it further, in any number of launches,      *)
(* cancels and deletes, with any failures.                                 *)
THEOREM ActiveCampaignsAreServed == CampaignSpec => []ActiveHasExecutor
<1>1. CampaignInit => ActiveHasExecutor
  BY DEF CampaignInit, ActiveHasExecutor, Active
<1>2. QED
  BY <1>1, CampaignTypeInvariant, ExecutorKept, PTL DEF CampaignSpec

-----------------------------------------------------------------------------
(* The executor leaves no unfinished test behind.                          *)

(* What the dispatch path never takes back from a row that has its time:   *)
(* its columns, that its work ended, its outcome, and that a user stopped  *)
(* it.                                                                     *)
RowKept(u) ==
    /\ cmd'[u] = cmd[u]
    /\ worker[u] = "done" => worker'[u] = "done"
    /\ exit[u] # "none" => exit'[u] # "none"
    /\ u \in stopped => u \in stopped'

DoneHasOutcome(u) ==
    worker[u] = "done" /\ cmd[u].kind = BenchmarkKind => exit[u] # "none"

LEMMA RowStep ==
    ASSUME TypeOK, DispatchInv, [Next]_vars, NEW u \in Tests
    PROVE  /\ cmd[u].seq # 0 => RowKept(u)
           /\ DoneHasOutcome(u) => DoneHasOutcome(u)'
<1> USE DEF TypeOK, rowVars, beatVars, workVars, postVars, RowKept, DoneHasOutcome
<1>1. /\ status[u] = "absent" => worker[u] = "none"
      /\ \A a \in Agents : u \in reply[a] => worker[u] = "none"
      /\ worker[u] = "reporting" => exit[u] # "none"
  BY DEF DispatchInv, AbsentIsNowhere, AtMostOnePlace, Holders, OutcomeAtEnd
<1>2. CASE Api
  <2>1. UNCHANGED <<exit, stopped>>
    BY <1>2 DEF Api, TakeTime, InsertTest, QueueCommand
  <2>2. cmd[u].seq # 0 => cmd'[u] = cmd[u]
    BY <1>2 DEF Api, TakeTime, InsertTest, QueueCommand, Stamped
  <2>3. /\ worker[u] = "done" => worker'[u] = "done"
        /\ worker'[u] = "done" => worker[u] = "done"
    BY <1>1, <1>2 DEF Api, TakeTime, InsertTest, QueueCommand, Insert
  <2>4. cmd'[u] = cmd[u] \/ worker[u] = "none"
    BY <1>1, <1>2 DEF Api, TakeTime, InsertTest, QueueCommand, Insert, Stamped
  <2>5. QED
    BY <2>1, <2>2, <2>3, <2>4
<1>3. ASSUME NEW a \in Agents, Heartbeat(a)
      PROVE  /\ cmd[u].seq # 0 => RowKept(u)
             /\ DoneHasOutcome(u) => DoneHasOutcome(u)'
  <2>1. CASE SendBeat(a) \/ LoseBeat(a) \/ AbandonBeat(a) \/ LoseReply(a)
    BY <2>1 DEF SendBeat, LoseBeat, AbandonBeat, LoseReply
  <2>2. CASE ServeBeat(a) \/ ServeStaleBeat(a)
    BY <2>2 DEF ServeBeat, ServeStaleBeat, MarkDispatched
  <2>3. CASE TakeReply(a)
    BY <1>1, <2>3 DEF TakeReply
  <2>4. QED
    BY <1>3, <2>1, <2>2, <2>3 DEF Heartbeat
<1>4. ASSUME NEW t \in Tests, Work(t)
      PROVE  /\ cmd[u].seq # 0 => RowKept(u)
             /\ DoneHasOutcome(u) => DoneHasOutcome(u)'
  <2>1. CASE BeginWork(t) \/ ResolveModel(t) \/ ResolveRaises(t)
    BY <2>1 DEF BeginWork, ResolveModel, ResolveRaises
  <2>2. CASE CleanUp(t)
    BY <2>2 DEF CleanUp, BenchmarkKind
  <2>3. CASE \E s \in Terminal : FinishWork(t, s)
    BY <2>3 DEF FinishWork, Terminal
  <2>4. CASE ReportResult(t) \/ ReportRaises(t)
    BY <1>1, <2>4 DEF ReportResult, ReportRaises
  <2>5. QED
    BY <1>4, <2>1, <2>2, <2>3, <2>4 DEF Work
<1>5. ASSUME NEW m \in wire, Handle(m) \/ LosePost(m)
      PROVE  /\ cmd[u].seq # 0 => RowKept(u)
             /\ DoneHasOutcome(u) => DoneHasOutcome(u)'
  BY <1>5 DEF Handle, HandleStatus, HandleResult, LosePost, Posts
<1>6. ASSUME NEW t \in Tests, StopTest(t) \/ Simulate(t)
      PROVE  /\ cmd[u].seq # 0 => RowKept(u)
             /\ DoneHasOutcome(u) => DoneHasOutcome(u)'
  BY <1>6 DEF StopTest, Simulate, SimStart, SimSave, SimComplete, SimFail, SimEnd,
              SimPcs, Terminal
<1>7. CASE ServerRestart \/ \E a \in Agents : AgentRestart(a)
  BY <1>7 DEF ServerRestart, AgentRestart, SimPcs, AgentPcs
<1>8. CASE NewDay \/ UNCHANGED vars
  BY <1>8 DEF NewDay, vars
<1>9. QED
  BY <1>2, <1>3, <1>4, <1>5, <1>6, <1>7, <1>8 DEF Next, Operate, WithinDay

Accounted(t) == exit[t] # "none" \/ t \in timedOut \cup stopped

Waits(s) == thread[s].pc \in {"stamped", "poll", "read", "ended"}

(* LeftBehindEnded for one thread, with what makes it inductive: the rows  *)
(* a thread made are benchmark rows, its campaign exists, and a simulated  *)
(* test is over when its outcome is read.                                  *)
SessionInv(s) ==
    /\ thread[s].pc # "idle" => campaign[thread[s].of] # "absent"
    /\ thread[s].test \subseteq thread[s].made
    /\ \A t \in thread[s].made :
          /\ cmd[t].seq # 0 /\ cmd[t].kind = BenchmarkKind
          /\ (t \in thread[s].test /\ Waits(s)) \/ Accounted(t)
    /\ thread[s].pc = "read" /\ Simulated(s) =>
          \A t \in thread[s].test : worker[t] = "done"

LeftInv ==
    /\ \A t \in Tests : DoneHasOutcome(t)
    /\ \A s \in Sessions : SessionInv(s)

(* A step that leaves the rows of a thread alone, as far as it is          *)
(* concerned, and moves it on.                                             *)
LEMMA SessionMoves ==
    ASSUME NEW s \in Sessions, SessionInv(s),
           \A t \in thread[s].made : RowKept(t),
           timedOut \subseteq timedOut',
           thread'[s].of = thread[s].of,
           thread'[s].test = thread[s].test, thread'[s].made = thread[s].made,
           thread'[s].pc # "idle" => campaign'[thread[s].of] # "absent",
           thread[s].pc # "idle" => assigned'[thread[s].of] = assigned[thread[s].of],
           \/ thread'[s].pc \in {"stamped", "poll", "read", "ended"}
           \/ ~Waits(s)
           \/ \A t \in thread[s].test : Accounted(t)',
           thread'[s].pc = "read" =>
              /\ thread[s].pc # "idle"
              /\ \/ thread[s].pc = "read"
                 \/ Simulated(s) => \A t \in thread[s].test : worker[t] = "done"
    PROVE  SessionInv(s)'
<1>1. \A t \in thread[s].made : Accounted(t) => Accounted(t)'
  BY DEF Accounted, RowKept
<1>2. \A t \in thread'[s].made :
         /\ cmd'[t].seq # 0 /\ cmd'[t].kind = BenchmarkKind
         /\ (t \in thread'[s].test /\ Waits(s)') \/ Accounted(t)'
  BY <1>1 DEF SessionInv, RowKept, Waits
<1>3. thread'[s].pc = "read" /\ Simulated(s)' =>
         \A t \in thread'[s].test : worker'[t] = "done"
  BY DEF SessionInv, RowKept, Simulated
<1>4. QED
  BY <1>2, <1>3 DEF SessionInv

LEMMA LeftStep ==
    /\ TypeOK /\ DispatchInv /\ CampaignTypeOK /\ ShapeInv /\ LeftInv /\ [CampaignNext]_allVars
    => LeftInv'
<1> SUFFICES ASSUME TypeOK, DispatchInv, CampaignTypeOK, ShapeInv, LeftInv,
                    [CampaignNext]_allVars
             PROVE  LeftInv'
  OBVIOUS
<1>1. [Next]_vars
  BY CampaignStepIsDispatchStep
<1>2. \A t \in Tests : DoneHasOutcome(t)'
  BY <1>1, RowStep DEF LeftInv
<1>3. \A s \in Sessions :
         /\ thread[s] \in Threads /\ thread[s].of \in Campaigns
         /\ thread[s].made \subseteq Tests /\ thread[s].test \subseteq Tests
         /\ SessionInv(s)
         /\ \A t \in thread[s].made : RowKept(t)
  <2>1. ASSUME NEW s \in Sessions
        PROVE  /\ thread[s] \in Threads /\ thread[s].of \in Campaigns
               /\ thread[s].made \subseteq Tests /\ thread[s].test \subseteq Tests
    BY DEF CampaignTypeOK, Threads
  <2>2. \A s \in Sessions : SessionInv(s)
    BY DEF LeftInv
  <2>3. \A s \in Sessions : \A t \in thread[s].made : RowKept(t)
    BY <1>1, <2>1, <2>2, RowStep DEF SessionInv
  <2>4. QED
    BY <2>1, <2>2, <2>3
<1>4. timedOut \subseteq timedOut'
  BY DEF CampaignNext, CampaignApi, Create, UpdateConfig, Delete, LaunchCheck, CancelCheck,
         CancelCommit, LaunchQueued, ExecutorStep, BeginEmpty, Begin, Announce, LoopTop,
         TakeRunTime, InsertRun, TimeOut, PollCheck, SimulationReturns, ReadRow, Finish, DeadlinePasses,
         ExecutorFails, CampaignServerRestart, allVars, campaignVars
<1>5. ASSUME NEW c \in Campaigns, campaign[c] # "absent"
      PROVE  campaign'[c] # "absent" /\ assigned'[c] = assigned[c]
  BY <1>5
     DEF CampaignNext, CampaignApi, Create, UpdateConfig, Delete, LaunchCheck, CancelCheck,
         CancelCommit, LaunchQueued, ExecutorStep, BeginEmpty, Begin, Announce, LoopTop,
         TakeRunTime, InsertRun, TimeOut, PollCheck, SimulationReturns, ReadRow, Finish, DeadlinePasses,
         ExecutorFails, CampaignServerRestart, allVars, campaignVars, webVars, SetStatus,
         CampaignTypeOK
<1>6. ASSUME NEW s \in Sessions, thread'[s] = thread[s]
      PROVE  SessionInv(s)'
  <2>1. \/ thread'[s].pc \in {"stamped", "poll", "read", "ended"}
        \/ ~Waits(s)
    BY <1>6 DEF Waits
  <2>2. thread[s].pc # "idle" =>
           /\ campaign'[thread[s].of] # "absent"
           /\ assigned'[thread[s].of] = assigned[thread[s].of]
    BY <1>3, <1>5 DEF SessionInv
  <2>3. thread'[s].of = thread[s].of /\ thread'[s].pc = thread[s].pc
        /\ thread'[s].test = thread[s].test /\ thread'[s].made = thread[s].made
    BY <1>6
  <2>4. QED
    BY <1>3, <1>4, <2>1, <2>2, <2>3, SessionMoves
<1>7. ASSUME NEW s \in Sessions, NEW p \in SessionPcs \ {"idle"}, Goto(s, p),
             thread[s].pc # "idle",
             p \in {"poll", "read", "ended"} \/ ~Waits(s),
             (p = "read" /\ Simulated(s)) => \A t \in thread[s].test : worker[t] = "done"
      PROVE  SessionInv(s)'
  <2>1. thread'[s] = [thread[s] EXCEPT !.pc = p]
    BY <1>7, GotoKeeps DEF CampaignTypeOK
  <2>2. /\ thread'[s].pc = p /\ thread'[s].of = thread[s].of
        /\ thread'[s].test = thread[s].test /\ thread'[s].made = thread[s].made
    BY <1>3, <2>1 DEF Threads
  <2>3. campaign[thread[s].of] # "absent"
    BY <1>3, <1>7 DEF SessionInv
  <2>4. QED
    BY <1>3, <1>4, <1>5, <1>7, <2>2, <2>3, SessionMoves
<1>8. ASSUME NEW s \in Sessions, NEW g \in 0..1, NEW b \in 0..1, g + b = 1, Count(s, g, b),
             thread[s].pc \in {"poll", "read"}, \A t \in thread[s].test : Accounted(t)'
      PROVE  SessionInv(s)'
  <2>1. /\ thread'[s].pc \in {"loop", "finish"}
        /\ thread'[s].of = thread[s].of /\ thread'[s].test = thread[s].test
        /\ thread'[s].made = thread[s].made
    BY <1>8, CountKeeps DEF CampaignTypeOK, InLoop
  <2>2. campaign[thread[s].of] # "absent"
    BY <1>3, <1>8 DEF SessionInv
  <2>3. QED
    BY <1>3, <1>4, <1>5, <1>8, <2>1, <2>2, SessionMoves
<1>9. ASSUME NEW s \in Sessions, ExecutorStep(s)
      PROVE  SessionInv(s)'
  <2> USE DEF SessionPcs, ThreadPcs, Waits
  <2>1. CASE BeginEmpty(s) \/ Begin(s) \/ Finish(s) \/ LoopTop(s)
    BY <1>7, <2>1 DEF BeginEmpty, Begin, Finish, LoopTop
  <2>2. CASE Announce(s)
    BY <1>7, <2>2 DEF Announce, NextRun
  <2>3. CASE PollCheck(s)
    BY <1>7, <2>3 DEF PollCheck
  <2>4. CASE SimulationReturns(s)
    BY <1>7, <2>4 DEF SimulationReturns
  <2>5. ASSUME NEW t \in Tests, TakeRunTime(s, t)
        PROVE  SessionInv(s)'
    <3>1. /\ thread'[s].pc = "stamped" /\ thread'[s].of = thread[s].of
          /\ thread'[s].test = {t} /\ thread'[s].made = thread[s].made \cup {t}
      BY <1>3, <2>5 DEF TakeRunTime, CampaignTypeOK, Threads
    <3>2. cmd'[t].seq = rows + 1 /\ rows + 1 # 0 /\ cmd'[t].kind = BenchmarkKind
      BY <2>5 DEF TakeRunTime, TakeTime, Stamped, TypeOK
    <3>3. \A u \in thread[s].made : Accounted(u)
      BY <1>3, <2>5 DEF TakeRunTime, SessionInv
    <3>4. \A u \in thread[s].made : Accounted(u)' /\ RowKept(u) /\ cmd[u].kind = BenchmarkKind
      BY <1>3, <1>4, <3>3 DEF Accounted, RowKept, SessionInv
    <3>5. campaign'[thread[s].of] # "absent"
      BY <1>3, <1>5, <2>5 DEF TakeRunTime, SessionInv
    <3>6. \A u \in thread[s].made : cmd'[u].seq # 0
      BY <1>3, <3>4 DEF RowKept, SessionInv
    <3>7. QED
      BY <3>1, <3>2, <3>4, <3>5, <3>6 DEF SessionInv, RowKept
  <2>6. CASE InsertRun(s)
    <3>1. /\ thread'[s].pc = "poll" /\ thread'[s].of = thread[s].of
          /\ thread'[s].test = thread[s].test /\ thread'[s].made = thread[s].made
          /\ thread[s].pc = "stamped"
      BY <1>3, <2>6 DEF InsertRun, CampaignTypeOK, Threads
    <3>2. QED
      BY <1>3, <1>4, <1>5, <3>1, SessionMoves DEF SessionInv
  <2>7. CASE TimeOut(s)
    <3>1. \A t \in thread[s].test : Accounted(t)'
      BY <2>7 DEF TimeOut, Accounted
    <3>2. QED
      BY <1>8, <2>7, <3>1 DEF TimeOut
  <2>8. CASE ReadRow(s)
    <3>1. UNCHANGED <<exit, stopped, timedOut>>
      BY <2>8 DEF ReadRow, dispatchVars, vars, workVars, postVars
    <3>2. \A t \in thread[s].test :
             /\ status[t] = "completed" => exit[t] = "completed"
             /\ status[t] = "failed" => exit[t] # "none" \/ t \in stopped
             /\ worker[t] = "done" => exit[t] # "none"
      BY <1>3 DEF DispatchInv, StatusIsEarned, OutcomeAtEnd, LeftInv, DoneHasOutcome, SessionInv
    <3>3. thread[s].pc = "read" /\ (Simulated(s) => \A t \in thread[s].test : worker[t] = "done")
      BY <1>3, <2>8 DEF ReadRow, SessionInv
    <3>4. CASE Count(s, 1, 0) /\ RowIn(s, {"completed"})
      BY <1>8, <3>1, <3>2, <3>3, <3>4 DEF RowIn, Accounted
    <3>5. CASE Count(s, 0, 1) /\ (Simulated(s) \/ RowIn(s, {"failed"}))
      <4>1. \A t \in thread[s].test : Accounted(t)'
        BY <3>1, <3>2, <3>3, <3>5 DEF RowIn, Accounted
      <4>2. QED
        BY <1>8, <3>3, <3>5, <4>1
    <3>6. CASE Goto(s, "poll")
      BY <1>7, <3>3, <3>6
    <3>7. QED
      BY <2>8, <3>4, <3>5, <3>6 DEF ReadRow
  <2>9. QED
    BY <1>9, <2>1, <2>2, <2>3, <2>4, <2>5, <2>7, <2>8, <2>6 DEF ExecutorStep
<1>10. ASSUME NEW s \in Sessions, LaunchQueued(s) \/ ExecutorFails(s)
       PROVE  SessionInv(s)'
  BY <1>7, <1>10 DEF LaunchQueued, ExecutorFails, SessionPcs, ThreadPcs, Waits
<1>11. ASSUME NEW s \in Sessions, DeadlinePasses(s)
       PROVE  SessionInv(s)'
  <2>1. /\ thread'[s].pc = thread[s].pc /\ thread'[s].of = thread[s].of
        /\ thread'[s].test = thread[s].test /\ thread'[s].made = thread[s].made
    BY <1>3, <1>11 DEF DeadlinePasses, CampaignTypeOK, Threads
  <2>2. thread[s].pc \in {"poll", "read"}
    BY <1>11 DEF DeadlinePasses
  <2>3. QED
    BY <1>3, <1>4, <1>5, <1>11, <2>1, <2>2, SessionMoves DEF SessionInv, DeadlinePasses
<1>12. ASSUME NEW s \in Sessions, NEW c \in Campaigns, LaunchCheck(s, c)
       PROVE  SessionInv(s)'
  <2>1. /\ thread'[s].pc = "admitted" /\ thread'[s].of = c
        /\ thread'[s].test = {} /\ thread'[s].made = {}
    BY <1>12 DEF LaunchCheck, NewThread, CampaignTypeOK
  <2>2. campaign'[c] # "absent"
    BY <1>12 DEF LaunchCheck, webVars
  <2>3. QED
    BY <2>1, <2>2 DEF SessionInv
<1>13. ASSUME NEW s \in Sessions, CampaignServerRestart
       PROVE  SessionInv(s)'
  <2>1. CASE thread[s].pc = "idle"
    BY <1>6, <1>13, <2>1 DEF CampaignServerRestart
  <2>2. CASE thread[s].pc # "idle"
    <3>1. thread'[s] = [thread[s] EXCEPT !.pc = "ended"]
      BY <1>13, <2>2 DEF CampaignServerRestart
    <3>2. /\ thread'[s].pc = "ended" /\ thread'[s].of = thread[s].of
          /\ thread'[s].test = thread[s].test /\ thread'[s].made = thread[s].made
      BY <1>3, <3>1 DEF Threads
    <3>3. QED
      BY <1>3, <1>4, <1>5, <2>2, <3>2, SessionMoves DEF SessionInv
  <2>3. QED
    BY <2>1, <2>2
<1>14. ASSUME NEW r \in Sessions
       PROVE  SessionInv(r)'
  <2>1. CASE UNCHANGED thread
    BY <1>6, <2>1
  <2>2. ASSUME NEW s \in Sessions, r # s,
               \A q \in Sessions \ {s} : thread'[q] = thread[q]
        PROVE  SessionInv(r)'
    BY <1>6, <2>2
  <2>3. ASSUME NEW s \in Sessions, NEW p \in SessionPcs, Goto(s, p)
        PROVE  \A q \in Sessions \ {s} : thread'[q] = thread[q]
    BY <2>3, GotoKeeps DEF CampaignTypeOK
  <2>4. ASSUME NEW s \in Sessions,
               \/ ExecutorStep(s) \/ LaunchQueued(s) \/ ExecutorFails(s) \/ DeadlinePasses(s)
               \/ \E c \in Campaigns : LaunchCheck(s, c)
        PROVE  \A q \in Sessions \ {s} : thread'[q] = thread[q]
    BY <2>4
       DEF ExecutorStep, BeginEmpty, Begin, Announce, LoopTop, TakeRunTime, InsertRun, TimeOut,
           PollCheck, SimulationReturns, ReadRow, Finish, LaunchQueued, ExecutorFails, DeadlinePasses,
           LaunchCheck, Count, Goto, CampaignTypeOK
  <2>5. QED
    BY <1>9, <1>10, <1>11, <1>12, <1>13, <2>1, <2>2, <2>4
       DEF CampaignNext, CampaignApi, Create, UpdateConfig, Delete, CancelCheck, CancelCommit,
           allVars, campaignVars
<1>15. QED
  BY <1>2, <1>14 DEF LeftInv

(* A campaign's executor goes on to its next run only when the test it     *)
(* waited for ended on its agent, timed out or was stopped by a user,      *)
(* whatever is lost, late or reordered on the way, and whatever restarts.  *)
THEOREM ExecutorLeavesNothing == CampaignSpec => []LeftBehindEnded
<1>1. CampaignInit => ShapeInv /\ LeftInv
  BY CampaignsAssumption, RunsAssumption
     DEF CampaignInit, Init, LeftInv, DoneHasOutcome, SessionInv, NewThread, ShapeInv,
         ThreadShape, InLoop
<1>2. LeftInv => LeftBehindEnded
  BY DEF LeftInv, SessionInv, LeftBehindEnded, Waits, Accounted
<1>3. CampaignSpec => []TypeOK /\ []DispatchInv
  BY CampaignRefinement, TypeInvariant, DispatchInvariant, PTL DEF ImplementsDispatch
<1>4. QED
  BY <1>1, <1>2, <1>3, CampaignTypeInvariant, CampaignTypeStep, LeftStep, PTL
     DEF CampaignSpec
=============================================================================
