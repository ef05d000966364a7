-------------------------- MODULE CampaignCountProofs --------------------------
(***************************************************************************)
(* The columns of a web campaign, for every number of campaigns, launch    *)
(* requests, runs and rows: what they say succeeded did, and those of a    *)
(* completed campaign account for every run.                               *)
(***************************************************************************)
EXTENDS CampaignExecutionProofs, FiniteSetTheorems

Good(T) == {t \in T : exit[t] = "completed"}

(* The rows a thread made and has counted.                                 *)
Counted(s) == IF thread[s].pc \in {"stamped", "poll", "read"}
              THEN thread[s].made \ thread[s].test ELSE thread[s].made

Between == {"loop", "insert", "finish"}
Waiting == {"stamped", "poll", "read"}

CountInv(s) ==
    /\ IsFiniteSet(thread[s].made)
    /\ thread[s].pc \in Between =>
          Cardinality(thread[s].made) = thread[s].good + thread[s].bad
    /\ thread[s].pc \in Waiting =>
          /\ Cardinality(thread[s].made) = thread[s].good + thread[s].bad + 1
          /\ \E t \in thread[s].made : thread[s].test = {t}
    /\ thread[s].pc = "finish" => thread[s].good + thread[s].bad = thread[s].total
    /\ thread[s].good <= Cardinality(Good(Counted(s)))

AllMade == UNION {thread[s].made : s \in Sessions}

(* The thread whose counts a completed campaign shows.                     *)
Counter(s, c) ==
    /\ thread[s].of = c /\ thread[s].pc = "ended"
    /\ counts[c].good = thread[s].good /\ counts[c].bad = thread[s].bad
    /\ thread[s].good + thread[s].bad = thread[s].total
    /\ Cardinality(thread[s].made) = thread[s].total

ColumnsInv(c) ==
    /\ counts[c].good <= Cardinality(Good(MadeFor(c)))
    /\ campaign[c] = "completed" => \E s \in Sessions : Counter(s, c)

CountedInv ==
    /\ \A s \in Sessions : CountInv(s)
    /\ IsFiniteSet(AllMade)
    /\ \A c \in Campaigns : ColumnsInv(c)

-----------------------------------------------------------------------------

(* A run that completed stays so.                                          *)
LEMMA GoodStays ==
    ASSUME TypeOK, DispatchInv, [Next]_vars, NEW u \in Tests, exit[u] = "completed"
    PROVE  exit'[u] = "completed"
<1> USE DEF TypeOK, rowVars, beatVars, workVars, postVars
<1>1. worker[u] \in {"reporting", "done", "died", "raised"}
  BY DEF DispatchInv, OutcomeAtEnd
<1>2. ASSUME NEW t \in Tests, NEW s \in Terminal, FinishWork(t, s)
      PROVE  exit'[u] = "completed"
  BY <1>1, <1>2 DEF FinishWork
<1>3. ASSUME NEW t \in Tests, NEW s \in Terminal, SimEnd(t, s), worker[t] \in SimPcs
      PROVE  exit'[u] = "completed"
  BY <1>1, <1>3 DEF SimEnd, SimPcs
<1>4. CASE Api
  BY <1>4 DEF Api, TakeTime, InsertTest, QueueCommand, Insert
<1>5. ASSUME NEW a \in Agents, Heartbeat(a)
      PROVE  exit'[u] = "completed"
  BY <1>5 DEF Heartbeat, SendBeat, LoseBeat, AbandonBeat, LoseReply, ServeBeat, ServeStaleBeat,
              TakeReply
<1>6. ASSUME NEW t \in Tests, Work(t)
      PROVE  exit'[u] = "completed"
  BY <1>2, <1>6 DEF Work, BeginWork, CleanUp, ResolveModel, ResolveRaises, ReportResult,
                    ReportRaises
<1>7. ASSUME NEW m \in wire, Handle(m) \/ LosePost(m)
      PROVE  exit'[u] = "completed"
  BY <1>7 DEF Handle, HandleStatus, HandleResult, LosePost
<1>8. ASSUME NEW t \in Tests, StopTest(t) \/ Simulate(t)
      PROVE  exit'[u] = "completed"
  BY <1>3, <1>8 DEF StopTest, Simulate, SimStart, SimSave, SimComplete, SimFail, SimPcs, Terminal
<1>9. CASE ServerRestart \/ \E a \in Agents : AgentRestart(a)
  BY <1>9 DEF ServerRestart, AgentRestart
<1>10. CASE NewDay \/ UNCHANGED vars
  BY <1>10 DEF NewDay, vars
<1>11. QED
  BY <1>4, <1>5, <1>6, <1>7, <1>8, <1>9, <1>10 DEF Next, Operate, WithinDay

LEMMA GoodGrows ==
    ASSUME NEW S, NEW T, IsFiniteSet(T), S \subseteq T, S \subseteq Tests,
           \A u \in Tests : exit[u] = "completed" => exit'[u] = "completed"
    PROVE  /\ IsFiniteSet(Good(S)) /\ IsFiniteSet(Good(T)')
           /\ Cardinality(Good(S)) \in Nat /\ Cardinality(Good(T)') \in Nat
           /\ Cardinality(Good(S)) <= Cardinality(Good(T)')
<1>1. Good(T)' \subseteq T /\ Good(S) \subseteq T /\ Good(S) \subseteq Good(T)'
  BY DEF Good
<1>2. IsFiniteSet(Good(T)') /\ IsFiniteSet(Good(S))
  BY <1>1, FS_Subset
<1>3. QED
  BY <1>1, <1>2, FS_Subset, FS_CardinalityType

-----------------------------------------------------------------------------
(* What a step does to the counts of one thread.                           *)

RowsLast == \A u \in Tests : exit[u] = "completed" => exit'[u] = "completed"

(* The thread moves on, with the same rows and counts.                     *)
LEMMA MoveCounts ==
    ASSUME NEW s \in Sessions, CountInv(s), RowsLast, thread[s] \in Threads,
           thread'[s].good = thread[s].good, thread'[s].bad = thread[s].bad,
           thread'[s].total = thread[s].total,
           thread'[s].made = thread[s].made, thread'[s].test = thread[s].test,
           thread'[s].pc \in Between =>
               \/ thread[s].pc \in Between
               \/ thread[s].good = 0 /\ thread[s].bad = 0 /\ thread[s].made = {},
           thread'[s].pc \in Waiting => thread[s].pc \in Waiting,
           thread'[s].pc = "finish" => thread[s].good + thread[s].bad = thread[s].total
    PROVE  CountInv(s)'
<1>1. Counted(s) \subseteq thread'[s].made /\ Counted(s) \subseteq Tests
  BY DEF Counted, Threads
<1>2. PICK T : T = Counted(s)'
  OBVIOUS
<1>3. Counted(s) \subseteq T /\ T \subseteq thread[s].made
  BY <1>2 DEF Counted, Waiting
<1>4. IsFiniteSet(T)
  BY <1>3, FS_Subset DEF CountInv
<1>5. /\ Cardinality(Good(Counted(s))) \in Nat /\ Cardinality(Good(T)') \in Nat
      /\ Cardinality(Good(Counted(s))) <= Cardinality(Good(T)')
  BY <1>1, <1>3, <1>4, GoodGrows DEF RowsLast
<1>6. Good(T)' = Good(Counted(s))'
  BY <1>2 DEF Good
<1>7. thread[s].good \in Nat /\ thread[s].good <= Cardinality(Good(Counted(s)))
  BY RunsAssumption DEF CountInv, Threads
<1>8. thread'[s].good <= Cardinality(Good(Counted(s))')
  BY <1>5, <1>6, <1>7
<1>9. QED
  BY <1>8, FS_EmptySet DEF CountInv

LEMMA CountCounts ==
    ASSUME CampaignTypeOK, ShapeInv, NEW s \in Sessions, CountInv(s), RowsLast,
           thread[s].pc \in Waiting, NEW g \in 0..1, NEW b \in 0..1, g + b = 1, Count(s, g, b),
           g = 1 => \A t \in thread[s].test : exit[t] = "completed"
    PROVE  CountInv(s)'
<1>1. /\ thread[s] \in Threads /\ thread[s].good \in Nat /\ thread[s].bad \in Nat
      /\ thread[s].total \in Nat /\ thread[s].made \subseteq Tests
  BY RunsAssumption DEF CampaignTypeOK, Threads
<1>2. PICK t \in thread[s].made : thread[s].test = {t}
  BY DEF CountInv
<1> DEFINE p == NextRun(s, thread[s].good + thread[s].bad + 1)
<1>3. p \in {"loop", "finish"} /\ (p = "finish" => thread[s].good + thread[s].bad + 1 = thread[s].total)
  BY DEF NextRun
<1>4. /\ thread'[s].pc = p /\ thread'[s].good = thread[s].good + g
      /\ thread'[s].bad = thread[s].bad + b /\ thread'[s].total = thread[s].total
      /\ thread'[s].made = thread[s].made
  BY <1>1 DEF Count, CampaignTypeOK, Threads
<1> HIDE DEF p
<1>5. Cardinality(thread'[s].made) = thread'[s].good + thread'[s].bad /\ IsFiniteSet(thread'[s].made)
  BY <1>1, <1>4 DEF CountInv
<1>6. thread'[s].good <= Cardinality(Good(thread[s].made)')
  <2> DEFINE S == thread[s].made \ {t}
             T == thread[s].made
  <2>1. Counted(s) = S /\ S \subseteq Tests /\ IsFiniteSet(T) /\ IsFiniteSet(S)
    BY <1>1, <1>2, FS_Subset DEF Counted, CountInv, Waiting
  <2>2. thread[s].good <= Cardinality(Good(S))
    BY <2>1 DEF CountInv
  <2>3. CASE g = 0
    <3>1. PICK U : U = T
      OBVIOUS
    <3>2. PICK R : R = S
      OBVIOUS
    <3>3. Cardinality(Good(R)) <= Cardinality(Good(U)')
          /\ Cardinality(Good(R)) \in Nat /\ Cardinality(Good(U)') \in Nat
      BY <2>1, <3>1, <3>2, GoodGrows DEF RowsLast
    <3>4. Good(U)' = Good(thread[s].made)' /\ thread'[s].good = thread[s].good
      BY <1>1, <1>4, <2>3, <3>1 DEF Good
    <3>5. QED
      BY <1>1, <2>2, <3>2, <3>3, <3>4
  <2>4. CASE g = 1
    <3>1. PICK U : U = Good(S) \cup {t}
      OBVIOUS
    <3>2. t \notin Good(S) /\ exit'[t] = "completed"
      BY <1>1, <1>2, <2>4 DEF Good, RowsLast
    <3>3. IsFiniteSet(Good(S)) /\ Cardinality(Good(S)) \in Nat
      <4>1. Good(S) \subseteq S
        BY DEF Good
      <4>2. QED
        BY <2>1, <4>1, FS_Subset, FS_CardinalityType
    <3>4. IsFiniteSet(U) /\ Cardinality(U) = Cardinality(Good(S)) + 1
      BY <3>1, <3>2, <3>3, FS_AddElement
    <3>5. U \subseteq Good(thread[s].made)' /\ Good(thread[s].made)' \subseteq thread[s].made
      BY <1>1, <1>4, <3>1, <3>2 DEF Good, RowsLast
    <3>6. IsFiniteSet(Good(thread[s].made)')
      BY <2>1, <3>5, FS_Subset
    <3>7. Cardinality(U) <= Cardinality(Good(thread[s].made)')
          /\ Cardinality(Good(thread[s].made)') \in Nat
      BY <3>5, <3>6, FS_Subset, FS_CardinalityType
    <3>8. QED
      BY <1>1, <1>4, <2>2, <2>4, <3>3, <3>4, <3>7
  <2>5. QED
    BY <2>3, <2>4
<1>7. Counted(s)' = thread'[s].made /\ Good(Counted(s))' = Good(thread[s].made)'
  BY <1>3, <1>4 DEF Counted, Good
<1>8. thread'[s].pc = "finish" => thread'[s].good + thread'[s].bad = thread'[s].total
  BY <1>1, <1>3, <1>4
<1>9. QED
  BY <1>3, <1>4, <1>5, <1>6, <1>7, <1>8 DEF CountInv, Waiting

LEMMA NewRowCounts ==
    ASSUME CampaignTypeOK, NEW s \in Sessions, CountInv(s), SessionInv(s), RowsLast,
           NEW t \in Tests, TakeRunTime(s, t)
    PROVE  CountInv(s)'
<1>1. /\ thread[s] \in Threads /\ thread[s].made \subseteq Tests /\ thread[s].pc = "insert"
      /\ thread[s].good \in Nat /\ thread[s].bad \in Nat
  BY RunsAssumption DEF CampaignTypeOK, Threads, TakeRunTime
<1>2. t \notin thread[s].made
  BY DEF SessionInv, TakeRunTime, TakeTime
<1>3. /\ thread'[s].pc = "stamped" /\ thread'[s].test = {t}
      /\ thread'[s].made = thread[s].made \cup {t}
      /\ thread'[s].good = thread[s].good /\ thread'[s].bad = thread[s].bad
  BY <1>1 DEF TakeRunTime, CampaignTypeOK, Threads
<1>4. /\ IsFiniteSet(thread'[s].made)
      /\ Cardinality(thread'[s].made) = thread'[s].good + thread'[s].bad + 1
  <2>1. IsFiniteSet(thread[s].made) /\ Cardinality(thread[s].made) = thread[s].good + thread[s].bad
    BY <1>1 DEF CountInv, Between
  <2>2. QED
    BY <1>2, <1>3, <2>1, FS_AddElement
<1>5. PICK T : T = thread[s].made
  OBVIOUS
<1>6. Counted(s) = T /\ Counted(s)' = T
  BY <1>1, <1>2, <1>3, <1>5 DEF Counted
<1>7. /\ Cardinality(Good(T)) \in Nat /\ Cardinality(Good(T)') \in Nat
      /\ Cardinality(Good(T)) <= Cardinality(Good(T)')
  BY <1>1, <1>5, GoodGrows DEF RowsLast, CountInv
<1>8. Good(Counted(s))' = Good(T)' /\ Good(Counted(s)) = Good(T)
  BY <1>6 DEF Good
<1>9. thread'[s].good <= Cardinality(Good(Counted(s))')
  BY <1>1, <1>3, <1>7, <1>8 DEF CountInv
<1>10. QED
  BY <1>3, <1>4, <1>9 DEF CountInv, Between

-----------------------------------------------------------------------------
(* What a step leaves of the threads.                                      *)

StepOf(s) ==
    \/ ExecutorStep(s) \/ LaunchQueued(s) \/ ExecutorFails(s) \/ DeadlinePasses(s)
    \/ \E c \in Campaigns : LaunchCheck(s, c)

LEMMA OneThreadMoves ==
    ASSUME CampaignTypeOK, [CampaignNext]_allVars
    PROVE  \/ thread' = thread
           \/ CampaignServerRestart
           \/ \E s \in Sessions : StepOf(s) /\ \A r \in Sessions \ {s} : thread'[r] = thread[r]
<1>1. ASSUME NEW s \in Sessions, NEW p, Goto(s, p)
      PROVE  \A r \in Sessions \ {s} : thread'[r] = thread[r]
  BY <1>1 DEF Goto, CampaignTypeOK
<1>2. ASSUME NEW s \in Sessions, StepOf(s)
      PROVE  \A r \in Sessions \ {s} : thread'[r] = thread[r]
  <2>1. CASE \/ BeginEmpty(s) \/ Begin(s) \/ Announce(s) \/ LoopTop(s) \/ PollCheck(s)
             \/ SimulationReturns(s) \/ Finish(s) \/ LaunchQueued(s) \/ ExecutorFails(s)
    BY <1>1, <2>1 DEF BeginEmpty, Begin, Announce, LoopTop, PollCheck, SimulationReturns, Finish,
                      LaunchQueued, ExecutorFails
  <2>2. CASE \/ TimeOut(s) \/ ReadRow(s) \/ DeadlinePasses(s)
             \/ InsertRun(s) \/ (\E t \in Tests : TakeRunTime(s, t))
             \/ \E c \in Campaigns : LaunchCheck(s, c)
    BY <1>1, <2>2 DEF TimeOut, ReadRow, Count, DeadlinePasses, InsertRun, TakeRunTime, LaunchCheck,
                      CampaignTypeOK
  <2>3. QED
    BY <1>2, <2>1, <2>2 DEF StepOf, ExecutorStep
<1>3. QED
  BY <1>2 DEF StepOf, CampaignNext, CampaignApi, Create, UpdateConfig, Delete, CancelCheck,
              CancelCommit, allVars, campaignVars

(* The moves of a thread, sorted by what they do to its rows and counts.   *)
Moves(s, p) ==
    /\ thread'[s].pc = p
    /\ thread'[s].of = thread[s].of /\ thread'[s].total = thread[s].total
    /\ thread'[s].made = thread[s].made /\ thread'[s].test = thread[s].test
    /\ thread'[s].good = thread[s].good /\ thread'[s].bad = thread[s].bad

LEMMA StepSorts ==
    ASSUME CampaignTypeOK, ShapeInv, NEW s \in Sessions, StepOf(s)
    PROVE  /\ thread[s].pc # "ended"
           /\ \/ \E p \in SessionPcs :
                    /\ Moves(s, p)
                    /\ p \in Between =>
                          \/ thread[s].pc \in Between
                          \/ thread[s].good = 0 /\ thread[s].bad = 0 /\ thread[s].made = {}
                    /\ p \in Waiting => thread[s].pc \in Waiting
                    /\ p = "finish" => thread[s].good + thread[s].bad = thread[s].total
              \/ /\ thread[s].pc \in Waiting
                 /\ \/ Count(s, 0, 1)
                    \/ Count(s, 1, 0) /\ RowIn(s, {"completed"}) /\ UNCHANGED dispatchVars
              \/ \E t \in Tests : TakeRunTime(s, t)
              \/ \E c \in Campaigns :
                    thread[s].pc = "idle"
                    /\ thread'[s] = [NewThread(c) EXCEPT !.pc = "admitted", !.total = plan[c]]
<1>1. thread[s] \in Threads /\ ThreadShape(thread[s]) /\ thread[s].total \in 0..MaxRuns
  BY DEF CampaignTypeOK, ShapeInv, Threads
<1>2. ASSUME NEW p \in SessionPcs, Goto(s, p) PROVE Moves(s, p)
  <2>1. thread'[s] = [thread[s] EXCEPT !.pc = p]
    BY <1>2, GotoKeeps DEF CampaignTypeOK
  <2>2. QED
    BY <1>1, <2>1 DEF Moves, Threads
<1> USE DEF SessionPcs, ThreadPcs, Between, Waiting
<1>3. CASE LaunchQueued(s) \/ BeginEmpty(s) \/ Begin(s) \/ ExecutorFails(s) \/ Finish(s)
  <2>1. thread[s].pc # "ended" /\ \E p \in {"begin", "ended", "announce"} : Goto(s, p)
    BY <1>3 DEF LaunchQueued, BeginEmpty, Begin, ExecutorFails, Finish
  <2>2. PICK p \in {"begin", "ended", "announce"} : Goto(s, p)
    BY <2>1
  <2>3. Moves(s, p)
    BY <1>2, <2>2
  <2>4. QED
    BY <2>1, <2>3
<1>4. CASE Announce(s)
  <2>1. thread[s].good = 0 /\ thread[s].bad = 0 /\ thread[s].made = {} /\ thread[s].pc = "announce"
    BY <1>1, <1>4 DEF Announce, ThreadShape, Early
  <2>2. NextRun(s, 0) \in {"loop", "finish"} /\ (NextRun(s, 0) = "finish" => thread[s].total = 0)
    BY DEF NextRun
  <2>3. PICK p \in {"loop", "finish", "ended"} :
            Goto(s, p) /\ (p = "finish" => thread[s].total = 0)
    BY <1>4, <2>2 DEF Announce
  <2>4. QED
    BY <1>2, <2>1, <2>3
<1>5. CASE LoopTop(s)
  BY <1>2, <1>5 DEF LoopTop
<1>6. CASE PollCheck(s) \/ SimulationReturns(s)
  <2>1. thread[s].pc = "poll" /\ \E p \in {"ended", "read"} : Goto(s, p)
    BY <1>6 DEF PollCheck, SimulationReturns
  <2>2. PICK p \in {"ended", "read"} : Goto(s, p)
    BY <2>1
  <2>3. Moves(s, p)
    BY <1>2, <2>2
  <2>4. QED
    BY <2>1, <2>3
<1>7. CASE TimeOut(s)
  BY <1>7 DEF TimeOut
<1>8. CASE ReadRow(s)
  <2>1. thread[s].pc = "read" /\ UNCHANGED dispatchVars
    BY <1>8 DEF ReadRow
  <2>2. CASE Goto(s, "poll")
    BY <1>2, <2>1, <2>2
  <2>3. CASE Count(s, 0, 1) \/ (Count(s, 1, 0) /\ RowIn(s, {"completed"}))
    BY <2>1, <2>3
  <2>4. QED
    BY <1>8, <2>2, <2>3 DEF ReadRow
<1>9. CASE DeadlinePasses(s)
  <2>1. thread'[s] = [thread[s] EXCEPT !.late = TRUE] /\ thread[s].pc \in Waiting
    BY <1>9 DEF DeadlinePasses, CampaignTypeOK
  <2>2. Moves(s, thread[s].pc)
    BY <1>1, <2>1 DEF Moves, Threads
  <2>3. QED
    BY <2>1, <2>2
<1>10. CASE \E t \in Tests : TakeRunTime(s, t)
  BY <1>10 DEF TakeRunTime
<1>11. CASE InsertRun(s)
  <2>1. /\ thread'[s] = [thread[s] EXCEPT !.pc = "poll", !.late = FALSE]
        /\ thread[s].pc = "stamped"
    BY <1>11 DEF InsertRun, CampaignTypeOK
  <2>2. Moves(s, "poll")
    BY <1>1, <2>1 DEF Moves, Threads
  <2>3. QED
    BY <2>1, <2>2
<1>12. CASE \E c \in Campaigns : LaunchCheck(s, c)
  BY <1>12 DEF LaunchCheck, CampaignTypeOK
<1>13. QED
  BY <1>3, <1>4, <1>5, <1>6, <1>7, <1>8, <1>9, <1>10, <1>12, <1>11
     DEF StepOf, ExecutorStep

(* Threads keep their rows and their campaign, one step adds one row at    *)
(* most, and a thread that has ended stays as it is.                       *)
LEMMA ThreadsStay ==
    ASSUME CampaignTypeOK, ShapeInv, [CampaignNext]_allVars
    PROVE  /\ \A s \in Sessions : /\ thread[s].pc = "ended" => thread'[s] = thread[s]
                                  /\ thread[s].made \subseteq thread'[s].made
                                  /\ thread[s].made # {} => thread'[s].of = thread[s].of
           /\ \E t : AllMade' \subseteq AllMade \cup {t}
<1>1. \A s \in Sessions : thread[s] \in Threads /\ (thread[s].pc = "idle" => thread[s].made = {})
  BY DEF CampaignTypeOK, ShapeInv, ThreadShape, Early
<1>2. CASE thread' = thread
  BY <1>2 DEF AllMade
<1>3. CASE CampaignServerRestart
  <2>1. \A s \in Sessions :
           /\ thread[s].pc = "ended" => thread'[s] = thread[s]
           /\ thread'[s].made = thread[s].made /\ thread'[s].of = thread[s].of
    BY <1>1, <1>3 DEF CampaignServerRestart, Threads
  <2>2. QED
    BY <2>1 DEF AllMade
<1>4. ASSUME NEW s \in Sessions, StepOf(s), \A r \in Sessions \ {s} : thread'[r] = thread[r]
      PROVE  /\ \A r \in Sessions : /\ thread[r].pc = "ended" => thread'[r] = thread[r]
                                    /\ thread[r].made \subseteq thread'[r].made
                                    /\ thread[r].made # {} => thread'[r].of = thread[r].of
             /\ \E t : AllMade' \subseteq AllMade \cup {t}
  <2>1. /\ thread[s].pc # "ended"
        /\ \E t : /\ thread'[s].made = thread[s].made \/ thread'[s].made = thread[s].made \cup {t}
                  /\ thread[s].made # {} => thread'[s].of = thread[s].of
    <3>1. thread[s].pc # "ended"
      BY <1>4, StepSorts
    <3>2. CASE \E p \in SessionPcs : Moves(s, p)
      BY <3>1, <3>2 DEF Moves
    <3>3. CASE thread[s].pc \in Waiting /\ (Count(s, 0, 1) \/ Count(s, 1, 0))
      BY <1>1, <3>1, <3>3, CountKeeps DEF CampaignTypeOK, Waiting, InLoop
    <3>4. ASSUME NEW t \in Tests, TakeRunTime(s, t)
          PROVE  /\ thread'[s].made = thread[s].made \cup {t} /\ thread'[s].of = thread[s].of
      BY <1>1, <3>4 DEF TakeRunTime, CampaignTypeOK, Threads
    <3>5. ASSUME NEW c \in Campaigns, thread[s].pc = "idle",
                 thread'[s] = [NewThread(c) EXCEPT !.pc = "admitted", !.total = plan[c]]
          PROVE  thread'[s].made = thread[s].made /\ thread[s].made = {}
      BY <1>1, <3>5 DEF NewThread
    <3>6. QED
      BY <1>4, <3>1, <3>2, <3>3, <3>4, <3>5, StepSorts
  <2>2. QED
    BY <1>4, <2>1 DEF AllMade
<1>5. QED
  BY <1>2, <1>3, <1>4, OneThreadMoves

LEMMA CountStep ==
    ASSUME TypeOK, DispatchInv, CampaignTypeOK, ShapeInv, LeftInv, CountedInv,
           [CampaignNext]_allVars
    PROVE  \A s \in Sessions : CountInv(s)'
<1>1. RowsLast
  BY CampaignStepIsDispatchStep, GoodStays DEF RowsLast
<1>2. \A s \in Sessions : /\ thread[s] \in Threads /\ CountInv(s) /\ SessionInv(s)
                          /\ thread[s].test \subseteq Tests
  BY DEF CampaignTypeOK, CountedInv, LeftInv, Threads
<1>3. ASSUME NEW s \in Sessions, thread'[s] = thread[s] PROVE CountInv(s)'
  <2>1. thread[s].pc = "finish" => thread[s].good + thread[s].bad = thread[s].total
    BY <1>2 DEF CountInv
  <2>2. QED
    BY <1>1, <1>2, <1>3, <2>1, MoveCounts
<1>4. ASSUME NEW s \in Sessions, CampaignServerRestart PROVE CountInv(s)'
  <2>1. CASE thread[s].pc = "idle"
    BY <1>3, <1>4, <2>1 DEF CampaignServerRestart
  <2>2. CASE thread[s].pc # "idle"
    <3>1. Moves(s, "ended")
      BY <1>2, <1>4, <2>2 DEF CampaignServerRestart, Moves, Threads
    <3>2. QED
      BY <1>1, <1>2, <3>1, MoveCounts DEF Moves, Between, Waiting
  <2>3. QED
    BY <2>1, <2>2
<1>5. ASSUME NEW s \in Sessions, StepOf(s) PROVE CountInv(s)'
  <2>1. ASSUME NEW p \in SessionPcs, Moves(s, p),
               p \in Between =>
                   \/ thread[s].pc \in Between
                   \/ thread[s].good = 0 /\ thread[s].bad = 0 /\ thread[s].made = {},
               p \in Waiting => thread[s].pc \in Waiting,
               p = "finish" => thread[s].good + thread[s].bad = thread[s].total
        PROVE  CountInv(s)'
    BY <1>1, <1>2, <2>1, MoveCounts DEF Moves
  <2>2. ASSUME thread[s].pc \in Waiting, Count(s, 0, 1) PROVE CountInv(s)'
    BY <1>1, <1>2, <2>2, CountCounts
  <2>3. ASSUME thread[s].pc \in Waiting, Count(s, 1, 0), RowIn(s, {"completed"})
        PROVE  CountInv(s)'
    <3>1. \A t \in thread[s].test : exit[t] = "completed"
      BY <1>2, <2>3 DEF RowIn, DispatchInv, StatusIsEarned
    <3>2. QED
      BY <1>1, <1>2, <2>3, <3>1, CountCounts
  <2>4. ASSUME NEW t \in Tests, TakeRunTime(s, t) PROVE CountInv(s)'
    BY <1>1, <1>2, <2>4, NewRowCounts
  <2>5. ASSUME NEW c \in Campaigns,
               thread'[s] = [NewThread(c) EXCEPT !.pc = "admitted", !.total = plan[c]]
        PROVE  CountInv(s)'
    <3>1. thread'[s].pc = "admitted" /\ thread'[s].made = {} /\ thread'[s].good = 0
      BY <2>5 DEF NewThread
    <3>2. Good(Counted(s))' = {}
      BY <3>1 DEF Good, Counted
    <3>3. QED
      BY <3>1, <3>2, FS_EmptySet DEF CountInv, Between, Waiting
  <2>6. QED
    BY <1>5, <2>1, <2>2, <2>3, <2>4, <2>5, StepSorts
<1>6. QED
  BY <1>3, <1>4, <1>5, OneThreadMoves

-----------------------------------------------------------------------------

(* What a step does to the columns of a campaign.                          *)
LEMMA ColumnsMove ==
    ASSUME CampaignTypeOK, [CampaignNext]_allVars, NEW c \in Campaigns
    PROVE  \/ /\ counts'[c].good = counts[c].good /\ counts'[c].bad = counts[c].bad
              /\ campaign'[c] = "completed" => campaign[c] = "completed"
           \/ \E s \in Sessions : thread[s].of = c /\ Finish(s)
<1>1. \A s \in Sessions : thread[s].of \in Campaigns
  BY DEF CampaignTypeOK, Threads
<1>2. ASSUME NEW s \in Sessions, ExecutorStep(s)
      PROVE  \/ /\ counts'[c].good = counts[c].good /\ counts'[c].bad = counts[c].bad
                /\ campaign'[c] = "completed" => campaign[c] = "completed"
             \/ thread[s].of = c /\ Finish(s)
  <2>1. CASE Begin(s)
    BY <1>1, <2>1 DEF Begin, SetStatus, CampaignTypeOK, Counts
  <2>2. CASE Finish(s)
    BY <1>1, <2>2 DEF Finish, SetStatus, CampaignTypeOK, Counts
  <2>3. QED
    BY <1>1, <1>2, <2>1, <2>2
       DEF ExecutorStep, BeginEmpty, Announce, LoopTop, TakeRunTime, InsertRun, TimeOut, PollCheck,
           SimulationReturns, ReadRow, webVars, SetStatus, CampaignTypeOK
<1>3. ASSUME NEW s \in Sessions, LaunchQueued(s) \/ DeadlinePasses(s) \/ ExecutorFails(s)
      PROVE  /\ counts' = counts
             /\ campaign'[c] = "completed" => campaign[c] = "completed"
  BY <1>1, <1>3 DEF LaunchQueued, DeadlinePasses, ExecutorFails, webVars, SetStatus,
                    CampaignTypeOK
<1>4. ASSUME NEW d \in Campaigns, CampaignApi(d)
      PROVE  /\ counts' = counts
             /\ campaign'[c] = "completed" => campaign[c] = "completed"
  BY <1>4 DEF CampaignApi, Create, UpdateConfig, Delete, LaunchCheck, CancelCheck, CancelCommit,
              webVars, SetStatus, CampaignTypeOK
<1>5. QED
  BY <1>2, <1>3, <1>4 DEF CampaignNext, CampaignServerRestart, allVars, campaignVars, webVars

LEMMA MadeGrows ==
    ASSUME CampaignTypeOK, ShapeInv, IsFiniteSet(AllMade), [CampaignNext]_allVars,
           NEW c \in Campaigns
    PROVE  /\ IsFiniteSet(AllMade') /\ IsFiniteSet(MadeFor(c)')
           /\ MadeFor(c) \subseteq MadeFor(c)' /\ MadeFor(c) \subseteq Tests
           /\ \A s \in Sessions : thread[s].of = c => thread[s].made \subseteq MadeFor(c)'
<1>1. PICK t : AllMade' \subseteq AllMade \cup {t}
  BY ThreadsStay
<1>2. IsFiniteSet(AllMade')
  BY <1>1, FS_AddElement, FS_Subset
<1>3. MadeFor(c)' \subseteq AllMade'
  BY DEF MadeFor, AllMade
<1>4. \A s \in Sessions : thread[s].of = c => thread[s].made \subseteq MadeFor(c)'
  BY ThreadsStay DEF MadeFor
<1>5. MadeFor(c) \subseteq MadeFor(c)'
  BY <1>4 DEF MadeFor
<1>6. MadeFor(c) \subseteq Tests
  BY DEF MadeFor, CampaignTypeOK, Threads
<1>7. QED
  BY <1>2, <1>3, <1>4, <1>5, <1>6, FS_Subset

LEMMA ColumnsStep ==
    ASSUME TypeOK, DispatchInv, CampaignTypeOK, ShapeInv, CountedInv,
           [CampaignNext]_allVars, NEW c \in Campaigns
    PROVE  ColumnsInv(c)'
<1>1. RowsLast
  BY CampaignStepIsDispatchStep, GoodStays DEF RowsLast
<1>2. /\ IsFiniteSet(MadeFor(c)') /\ MadeFor(c) \subseteq MadeFor(c)' /\ MadeFor(c) \subseteq Tests
      /\ \A s \in Sessions : thread[s].of = c => thread[s].made \subseteq MadeFor(c)'
  BY MadeGrows DEF CountedInv
<1>3. PICK T : T = MadeFor(c)'
  OBVIOUS
<1>4. Good(T)' = Good(MadeFor(c))'
  BY <1>3 DEF Good
<1>5. ColumnsInv(c) /\ counts[c].good \in Nat
  BY RunsAssumption DEF CountedInv, CampaignTypeOK, Counts
<1>6. CASE /\ counts'[c].good = counts[c].good /\ counts'[c].bad = counts[c].bad
           /\ campaign'[c] = "completed" => campaign[c] = "completed"
  <2>1. PICK S : S = MadeFor(c)
    OBVIOUS
  <2>2. /\ Cardinality(Good(S)) \in Nat /\ Cardinality(Good(T)') \in Nat
        /\ Cardinality(Good(S)) <= Cardinality(Good(T)')
    BY <1>1, <1>2, <1>3, <2>1, GoodGrows DEF RowsLast
  <2>3. counts[c].good <= Cardinality(Good(S))
    BY <1>5, <2>1 DEF ColumnsInv
  <2>4. counts'[c].good <= Cardinality(Good(MadeFor(c))')
    BY <1>4, <1>5, <1>6, <2>2, <2>3
  <2>5. ASSUME campaign'[c] = "completed" PROVE \E s \in Sessions : Counter(s, c)'
    <3>1. PICK s \in Sessions : Counter(s, c)
      BY <1>5, <1>6, <2>5 DEF ColumnsInv
    <3>2. thread'[s] = thread[s]
      BY <3>1, ThreadsStay DEF Counter
    <3>3. Counter(s, c)'
      BY <1>6, <3>1, <3>2 DEF Counter
    <3>4. QED
      BY <3>3
  <2>6. QED
    BY <2>4, <2>5 DEF ColumnsInv
<1>7. ASSUME NEW s \in Sessions, thread[s].of = c, Finish(s)
      PROVE  ColumnsInv(c)'
  <2>1. thread[s] \in Threads /\ thread[s].good \in Nat /\ thread[s].pc = "finish" /\ CountInv(s)
    BY <1>7, RunsAssumption DEF CampaignTypeOK, Threads, Finish, CountedInv
  <2>2. counts'[c].good = thread[s].good /\ counts'[c].bad = thread[s].bad
    BY <1>7 DEF Finish, CampaignTypeOK, Counts
  <2>3. thread'[s] = [thread[s] EXCEPT !.pc = "ended"]
    BY <1>7 DEF Finish, Goto, CampaignTypeOK
  <2>4. Counter(s, c)'
    <3>1. /\ thread'[s].of = c /\ thread'[s].pc = "ended"
          /\ thread'[s].good = thread[s].good /\ thread'[s].bad = thread[s].bad
          /\ thread'[s].total = thread[s].total /\ thread'[s].made = thread[s].made
      BY <1>7, <2>1, <2>3 DEF Threads
    <3>2. /\ thread[s].good + thread[s].bad = thread[s].total
          /\ Cardinality(thread[s].made) = thread[s].total
      BY <2>1 DEF CountInv, Between
    <3>3. QED
      BY <2>2, <3>1, <3>2 DEF Counter
  <2>5. PICK S : S = thread[s].made
    OBVIOUS
  <2>6. /\ Cardinality(Good(S)) \in Nat /\ Cardinality(Good(T)') \in Nat
        /\ Cardinality(Good(S)) <= Cardinality(Good(T)')
    BY <1>1, <1>2, <1>3, <1>7, <2>1, <2>5, GoodGrows DEF RowsLast, Threads
  <2>7. thread[s].good <= Cardinality(Good(S))
    BY <2>1, <2>5 DEF CountInv, Counted
  <2>8. counts'[c].good <= Cardinality(Good(MadeFor(c))')
    BY <1>4, <2>1, <2>2, <2>6, <2>7
  <2>9. QED
    BY <2>4, <2>8 DEF ColumnsInv
<1>8. QED
  BY <1>6, <1>7, ColumnsMove

LEMMA CountedStep ==
    /\ TypeOK /\ DispatchInv /\ CampaignTypeOK /\ ShapeInv /\ LeftInv /\ CountedInv
    /\ [CampaignNext]_allVars
    => CountedInv'
  BY CountStep, ColumnsStep, MadeGrows, CampaignsAssumption DEF CountedInv

LEMMA CountedInit == CampaignInit => ShapeInv /\ LeftInv /\ CountedInv
<1> SUFFICES ASSUME CampaignInit PROVE ShapeInv /\ LeftInv /\ CountedInv
  OBVIOUS
<1>1. \A s \in Sessions : /\ thread[s].pc = "idle" /\ thread[s].made = {} /\ thread[s].good = 0
                          /\ thread[s].bad = 0 /\ thread[s].test = {}
  BY DEF CampaignInit, NewThread
<1>2. ShapeInv /\ LeftInv
  BY <1>1 DEF CampaignInit, Init, LeftInv, DoneHasOutcome, SessionInv, ShapeInv, ThreadShape,
              InLoop
<1>3. AllMade = {} /\ \A c \in Campaigns : Good(MadeFor(c)) = {}
  BY <1>1 DEF AllMade, MadeFor, Good
<1>4. ASSUME NEW s \in Sessions PROVE CountInv(s)
  <2>1. Good(Counted(s)) = {}
    BY <1>1 DEF Good, Counted
  <2>2. QED
    BY <1>1, <2>1, FS_EmptySet DEF CountInv, Between, Waiting
<1>5. ASSUME NEW c \in Campaigns PROVE ColumnsInv(c)
  BY <1>3, FS_EmptySet DEF CampaignInit, ColumnsInv
<1>6. QED
  BY <1>2, <1>3, <1>4, <1>5, FS_EmptySet DEF CountedInv

(* The counts of every campaign account for the rows its threads made,     *)
(* with any number of overlapping launches.                                *)
THEOREM CountedInvariant == CampaignSpec => []CountedInv
<1>1. CampaignSpec => []TypeOK /\ []DispatchInv
  BY CampaignRefinement, TypeInvariant, DispatchInvariant, PTL DEF ImplementsDispatch
<1>2. QED
  BY <1>1, CountedInit, CountedStep, CampaignTypeInvariant, CampaignTypeStep, LeftStep, PTL
     DEF CampaignSpec

(* The succeeded column of a campaign counts no more runs than really      *)
(* completed on their agents.                                              *)
THEOREM SucceededIsEarnedAlways == CampaignSpec => []SucceededIsEarned
<1>1. CountedInv => SucceededIsEarned
  BY DEF CountedInv, ColumnsInv, Good, SucceededIsEarned
<1>2. QED
  BY <1>1, CountedInvariant, PTL

(* The counts of a completed campaign account for every run of the config  *)
(* it was launched with, each with a row of its own.                       *)
THEOREM CompletedIsCountedAlways == CampaignSpec => []CompletedIsCounted
<1>1. CountedInv => CompletedIsCounted
  BY DEF CountedInv, ColumnsInv, Counter, CompletedIsCounted
<1>2. QED
  BY <1>1, CountedInvariant, PTL

=============================================================================
