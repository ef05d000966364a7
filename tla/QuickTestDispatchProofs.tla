----------------------- MODULE QuickTestDispatchProofs -----------------------
(***************************************************************************)
(* Theorems about QuickTestDispatch, for every set of rows and agents,     *)
(* every choice of environment events and every bound.                     *)
(***************************************************************************)
EXTENDS QuickTestDispatch, TLAPS

(* Every step keeps every variable in its type.                            *)
LEMMA TypeStep == TypeOK /\ [Next]_vars => TypeOK'
<1> SUFFICES ASSUME TypeOK, [Next]_vars
             PROVE  TypeOK'
  OBVIOUS
<1> USE KindsAssumption, AgentsAssumption, BoundsAssumption
    DEF TypeOK, rowVars, beatVars, workVars, postVars
<1> DEFINE Rows == [Tests -> Statuses]
           Threads == [Tests -> WorkerPcs]
<1>1. ASSUME NEW t \in Tests, NEW a \in Agents, NEW k \in CommandKinds
      PROVE  Stamped(t, a, k) \in [Tests -> Commands] /\ rows + 1 \in Nat
  <2>1. today \in Nat /\ rows + 1 \in Nat
    OBVIOUS
  <2>2. [kind |-> k, agent |-> a, day |-> today, seq |-> rows + 1] \in Commands
    BY <2>1 DEF Commands
  <2>3. QED
    BY <2>1, <2>2 DEF Stamped
<1>2. CASE Api
  <2>1. ASSUME NEW t \in Tests, NEW a \in Agents, TakeTime(t, a)
        PROVE  TypeOK'
    <3>1. BenchmarkKind \in CommandKinds
      BY DEF CommandKinds
    <3>2. QED
      BY <1>1, <2>1, <3>1 DEF TakeTime
  <2>2. ASSUME NEW t \in Tests, NEW a \in Agents, NEW k \in Kinds, QueueCommand(t, a, k)
        PROVE  TypeOK'
    <3>1. k \in CommandKinds /\ status' \in Rows
      BY <2>2 DEF QueueCommand, Insert, Statuses
    <3>2. QED
      BY <1>1, <2>2, <3>1 DEF QueueCommand
  <2>3. ASSUME NEW t \in Tests, InsertTest(t)
        PROVE  TypeOK'
    <3>1. status' \in Rows /\ worker' \in Threads
      BY <2>3 DEF InsertTest, Insert, Statuses, WorkerPcs, SimPcs
    <3>2. QED
      BY <2>3, <3>1 DEF InsertTest
  <2>4. QED
    BY <1>2, <2>1, <2>2, <2>3 DEF Api
<1>3. CASE NewDay
  BY <1>3 DEF NewDay
<1>4. ASSUME NEW a \in Agents
      PROVE  FirstQueued(a) \subseteq Tests /\ (MarkDispatched(a) => status' \in Rows)
  BY DEF FirstQueued, QueuedFor, MarkDispatched, Statuses
<1>5. ASSUME NEW a \in Agents, Heartbeat(a)
      PROVE  TypeOK'
  <2>1. CASE SendBeat(a)
    BY <2>1 DEF SendBeat
  <2>2. CASE LoseBeat(a)
    BY <2>2 DEF LoseBeat
  <2>3. CASE AbandonBeat(a)
    BY <2>3 DEF AbandonBeat
  <2>4. CASE ServeBeat(a)
    BY <2>4, <1>4 DEF ServeBeat
  <2>5. CASE ServeStaleBeat(a)
    BY <2>5, <1>4 DEF ServeStaleBeat
  <2>6. CASE LoseReply(a)
    BY <2>6 DEF LoseReply
  <2>7. CASE TakeReply(a)
    BY <2>7 DEF TakeReply, WorkerPcs, AgentPcs
  <2>8. QED
    BY <1>5, <2>1, <2>2, <2>3, <2>4, <2>5, <2>6, <2>7 DEF Heartbeat
<1>6. ASSUME NEW t \in Tests, NEW s \in {"running", "completed", "failed", "result"}
      PROVE  Post(t, s) \in Posts /\ StopPost(t) \in Posts
  BY DEF Post, StopPost, Posts
<1>7. ASSUME NEW t \in Tests, Work(t)
      PROVE  TypeOK'
  <2>1. CASE BeginWork(t)
    BY <2>1, <1>6 DEF BeginWork, WorkerPcs, AgentPcs
  <2>2. CASE CleanUp(t)
    BY <2>2 DEF CleanUp, WorkerPcs
  <2>3. CASE ResolveModel(t)
    BY <2>3 DEF ResolveModel, WorkerPcs, AgentPcs
  <2>4. CASE ResolveRaises(t)
    BY <2>4 DEF ResolveRaises, WorkerPcs
  <2>5. ASSUME NEW s \in Terminal, FinishWork(t, s)
        PROVE  TypeOK'
    BY <2>5, <1>6 DEF FinishWork, WorkerPcs, AgentPcs, Terminal
  <2>6. CASE ReportResult(t)
    BY <2>6, <1>6 DEF ReportResult, WorkerPcs
  <2>7. CASE ReportRaises(t)
    BY <2>7, <1>6 DEF ReportRaises, WorkerPcs
  <2>8. QED
    BY <1>7, <2>1, <2>2, <2>3, <2>4, <2>5, <2>6, <2>7 DEF Work
<1>8. ASSUME NEW m \in wire, Handle(m) \/ LosePost(m)
      PROVE  TypeOK'
  <2>1. m \in Posts
    OBVIOUS
  <2>2. CASE HandleStatus(m)
    BY <2>1, <2>2 DEF HandleStatus, Posts, Statuses
  <2>3. CASE HandleResult(m)
    BY <2>1, <2>3 DEF HandleResult, Posts
  <2>4. CASE LosePost(m)
    BY <2>4 DEF LosePost
  <2>5. QED
    BY <1>8, <2>2, <2>3, <2>4 DEF Handle
<1>9. ASSUME NEW t \in Tests, StopTest(t)
      PROVE  TypeOK'
  BY <1>9, <1>6 DEF StopTest
<1>10. ASSUME NEW t \in Tests, Simulate(t)
       PROVE  TypeOK'
  <2>1. ASSUME NEW s \in Terminal, SimEnd(t, s)
        PROVE  TypeOK'
    BY <2>1 DEF SimEnd, WorkerPcs, Terminal, Statuses
  <2>2. CASE SimStart(t)
    BY <2>2 DEF SimStart, WorkerPcs, SimPcs, Statuses
  <2>3. CASE SimSave(t)
    BY <2>3 DEF SimSave, WorkerPcs, SimPcs
  <2>4. QED
    BY <1>10, <2>1, <2>2, <2>3 DEF Simulate, SimComplete, SimFail, Terminal
<1>11. ASSUME NEW a \in Agents, AgentRestart(a)
       PROVE  TypeOK'
  BY <1>11 DEF AgentRestart, WorkerPcs
<1>12. CASE ServerRestart
  <2>1. /\ beat' \in [Agents -> {"idle", "sent", "replied"}]
        /\ reply' \in [Agents -> SUBSET Tests]
    BY <1>12 DEF ServerRestart
  <2>2. stale' \in [Agents -> 0..MaxStale] /\ worker' \in Threads /\ wire' \subseteq Posts
    BY <1>12 DEF ServerRestart, WorkerPcs
  <2>3. QED
    BY <1>12, <2>1, <2>2 DEF ServerRestart
<1>13. CASE UNCHANGED vars
  BY <1>13 DEF vars
<1>14. QED
  BY <1>2, <1>3, <1>5, <1>7, <1>8, <1>9, <1>10, <1>11, <1>12, <1>13 DEF Next, Operate, WithinDay

(* TypeOK holds in every state: the columns, the calls and the threads of  *)
(* the dispatch path stay in their types.                                  *)
THEOREM TypeInvariant == Spec => []TypeOK
<1>1. Init => TypeOK
  BY AgentsAssumption, BoundsAssumption
     DEF Init, TypeOK, NoRow, Commands, CommandKinds, Statuses, WorkerPcs, Posts
<1>2. QED
  BY <1>1, TypeStep, PTL DEF Spec

-----------------------------------------------------------------------------

(* The query returns only queued rows of the agent.                        *)
LEMMA FirstQueuedIsQueued ==
    ASSUME NEW a \in Agents, NEW t \in FirstQueued(a)
    PROVE  t \in Tests /\ status[t] = "queued" /\ cmd[t].agent = a
BY DEF FirstQueued, QueuedFor

(* Every step preserves the inductive invariant.                           *)
LEMMA DispatchStep == TypeOK /\ DispatchInv /\ [Next]_vars => DispatchInv'
<1> SUFFICES ASSUME TypeOK, DispatchInv, [Next]_vars
             PROVE  DispatchInv'
  OBVIOUS
<1> USE AgentsAssumption
    DEF TypeOK, rowVars, beatVars, workVars, postVars, DispatchInv, AtMostOnePlace,
        AbsentIsNowhere, RepliesInCall, OutcomeAtEnd, SimulatedForTestAgents, PostsAreTrue,
        StatusIsEarned,
        Holders, RealAgents
<1>1. \A m \in wire : m.test \in Tests
  BY DEF Posts
<1>2. ASSUME NEW t \in Tests, NEW a \in Agents, NEW k, status[t] = "absent",
             cmd' = Stamped(t, a, k), UNCHANGED <<beatVars, workVars, postVars>>,
             status' = status \/ Insert(t)
      PROVE  DispatchInv'
  <2>1. AtMostOnePlace'
    BY <1>2 DEF Stamped, Insert
  <2>2. AbsentIsNowhere' /\ RepliesInCall' /\ OutcomeAtEnd'
    BY <1>2 DEF Insert
  <2>3. SimulatedForTestAgents'
    BY <1>2 DEF Stamped, SimPcs
  <2>4. PostsAreTrue'
    BY <1>1, <1>2 DEF Insert
  <2>5. StatusIsEarned'
    BY <1>2 DEF Stamped, Insert
  <2>6. QED
    BY <2>1, <2>2, <2>3, <2>4, <2>5
<1>3. CASE Api
  <2>1. ASSUME NEW t \in Tests, NEW a \in Agents, TakeTime(t, a)
        PROVE  DispatchInv'
    BY <2>1, <1>2 DEF TakeTime
  <2>2. ASSUME NEW t \in Tests, NEW a \in Agents, NEW k \in Kinds, QueueCommand(t, a, k)
        PROVE  DispatchInv'
    <3>1. status[t] = "absent" /\ Insert(t)
      BY <2>2 DEF QueueCommand, Insert
    <3>2. QED
      BY <2>2, <1>2, <3>1 DEF QueueCommand
  <2>3. ASSUME NEW t \in Tests, InsertTest(t)
        PROVE  DispatchInv'
    <3>1. AtMostOnePlace'
      BY <2>3 DEF InsertTest, Insert
    <3>2. AbsentIsNowhere' /\ RepliesInCall' /\ OutcomeAtEnd'
      BY <2>3 DEF InsertTest, Insert
    <3>3. SimulatedForTestAgents'
      BY <2>3 DEF InsertTest, SimPcs
    <3>4. PostsAreTrue'
      BY <1>1, <2>3 DEF InsertTest, Insert
    <3>5. StatusIsEarned'
      BY <2>3 DEF InsertTest, Insert
    <3>6. QED
      BY <3>1, <3>2, <3>3, <3>4, <3>5
  <2>4. QED
    BY <1>3, <2>1, <2>2, <2>3 DEF Api
<1>4. CASE NewDay
  BY <1>4 DEF NewDay
<1>5. ASSUME NEW a \in Agents, Heartbeat(a)
      PROVE  DispatchInv'
  <2>1. CASE SendBeat(a)
    BY <2>1 DEF SendBeat
  <2>2. CASE LoseBeat(a)
    BY <2>2 DEF LoseBeat
  <2>3. CASE AbandonBeat(a)
    BY <2>3 DEF AbandonBeat
  <2>4. CASE ServeBeat(a)
    <3>1. AtMostOnePlace'
      BY <2>4, FirstQueuedIsQueued DEF ServeBeat, MarkDispatched
    <3>2. AbsentIsNowhere'
      BY <2>4, FirstQueuedIsQueued DEF ServeBeat, MarkDispatched
    <3>3. RepliesInCall'
      BY <2>4, FirstQueuedIsQueued DEF ServeBeat, MarkDispatched
    <3>4. OutcomeAtEnd'
      BY <2>4, FirstQueuedIsQueued DEF ServeBeat, MarkDispatched
    <3>5. SimulatedForTestAgents'
      BY <2>4, FirstQueuedIsQueued DEF ServeBeat, MarkDispatched, SimPcs
    <3>6. PostsAreTrue'
      BY <1>1, <2>4, FirstQueuedIsQueued DEF ServeBeat, MarkDispatched
    <3>7. StatusIsEarned'
      BY <2>4, FirstQueuedIsQueued DEF ServeBeat, MarkDispatched
    <3>8. QED
      BY <3>1, <3>2, <3>3, <3>4, <3>5, <3>6, <3>7
  <2>5. CASE ServeStaleBeat(a)
    <3>1. \A u \in Tests : status'[u] # status[u] =>
             status[u] = "queued" /\ status'[u] = "dispatched"
      BY <2>5, FirstQueuedIsQueued DEF ServeStaleBeat, MarkDispatched
    <3>2. AtMostOnePlace' /\ AbsentIsNowhere' /\ RepliesInCall'
      BY <2>5, <3>1, <1>1 DEF ServeStaleBeat
    <3>3. OutcomeAtEnd' /\ SimulatedForTestAgents'
      BY <2>5, <3>1, <1>1 DEF ServeStaleBeat
    <3>4. PostsAreTrue'
      BY <2>5, <3>1, <1>1 DEF ServeStaleBeat
    <3>5. StatusIsEarned'
      BY <2>5, <3>1, <1>1 DEF ServeStaleBeat
    <3>6. QED
      BY <3>2, <3>3, <3>4, <3>5
  <2>6. CASE LoseReply(a)
    BY <2>6 DEF LoseReply
  <2>7. CASE TakeReply(a)
    <3>1. AtMostOnePlace'
      BY <2>7 DEF TakeReply
    <3>2. AbsentIsNowhere'
      BY <2>7 DEF TakeReply
    <3>3. RepliesInCall'
      BY <2>7 DEF TakeReply
    <3>4. OutcomeAtEnd'
      BY <2>7 DEF TakeReply
    <3>5. SimulatedForTestAgents'
      BY <2>7 DEF TakeReply, SimPcs
    <3>6. PostsAreTrue'
      BY <1>1, <2>7 DEF TakeReply
    <3>7. StatusIsEarned'
      BY <2>7 DEF TakeReply
    <3>8. QED
      BY <3>1, <3>2, <3>3, <3>4, <3>5, <3>6, <3>7
  <2>8. QED
    BY <1>5, <2>1, <2>2, <2>3, <2>4, <2>5, <2>6, <2>7 DEF Heartbeat
<1>6. ASSUME NEW t \in Tests, Work(t)
      PROVE  DispatchInv'
  <2>1. CASE BeginWork(t)
    <3>1. AtMostOnePlace' /\ AbsentIsNowhere' /\ RepliesInCall'
      BY <2>1, <1>1 DEF BeginWork, Post, SimPcs
    <3>2. OutcomeAtEnd' /\ SimulatedForTestAgents'
      BY <2>1, <1>1 DEF BeginWork, Post, SimPcs
    <3>3. PostsAreTrue'
      BY <2>1, <1>1 DEF BeginWork, Post, SimPcs
    <3>4. StatusIsEarned'
      BY <2>1, <1>1 DEF BeginWork, Post, SimPcs
    <3>5. QED
      BY <3>1, <3>2, <3>3, <3>4
  <2>2. CASE CleanUp(t)
    <3>1. AtMostOnePlace' /\ AbsentIsNowhere' /\ RepliesInCall'
      BY <2>2, <1>1 DEF CleanUp, SimPcs
    <3>2. OutcomeAtEnd' /\ SimulatedForTestAgents'
      BY <2>2, <1>1 DEF CleanUp, SimPcs
    <3>3. PostsAreTrue'
      BY <2>2, <1>1 DEF CleanUp, SimPcs
    <3>4. StatusIsEarned'
      BY <2>2, <1>1 DEF CleanUp, SimPcs
    <3>5. QED
      BY <3>1, <3>2, <3>3, <3>4
  <2>3. CASE ResolveModel(t)
    <3>1. AtMostOnePlace' /\ AbsentIsNowhere' /\ RepliesInCall'
      BY <2>3, <1>1 DEF ResolveModel, SimPcs
    <3>2. OutcomeAtEnd' /\ SimulatedForTestAgents'
      BY <2>3, <1>1 DEF ResolveModel, SimPcs
    <3>3. PostsAreTrue'
      BY <2>3, <1>1 DEF ResolveModel, SimPcs
    <3>4. StatusIsEarned'
      BY <2>3, <1>1 DEF ResolveModel, SimPcs
    <3>5. QED
      BY <3>1, <3>2, <3>3, <3>4
  <2>4. CASE ResolveRaises(t)
    <3>1. AtMostOnePlace' /\ AbsentIsNowhere' /\ RepliesInCall'
      BY <2>4, <1>1 DEF ResolveRaises, SimPcs
    <3>2. OutcomeAtEnd' /\ SimulatedForTestAgents'
      BY <2>4, <1>1 DEF ResolveRaises, SimPcs
    <3>3. PostsAreTrue'
      BY <2>4, <1>1 DEF ResolveRaises, SimPcs
    <3>4. StatusIsEarned'
      BY <2>4, <1>1 DEF ResolveRaises, SimPcs
    <3>5. QED
      BY <3>1, <3>2, <3>3, <3>4
  <2>5. ASSUME NEW s \in Terminal, FinishWork(t, s)
        PROVE  DispatchInv'
    <3>1. AtMostOnePlace'
      BY <2>5 DEF FinishWork, Post, Terminal
    <3>2. AbsentIsNowhere'
      BY <2>5 DEF FinishWork, Post, Terminal
    <3>3. RepliesInCall'
      BY <2>5 DEF FinishWork, Post, Terminal
    <3>4. OutcomeAtEnd'
      BY <2>5 DEF FinishWork, Post, Terminal
    <3>5. SimulatedForTestAgents'
      BY <2>5 DEF FinishWork, Post, Terminal, SimPcs
    <3>6. PostsAreTrue'
      BY <1>1, <2>5 DEF FinishWork, Post, Terminal
    <3>7. StatusIsEarned'
      BY <2>5 DEF FinishWork, Post, Terminal
    <3>8. QED
      BY <3>1, <3>2, <3>3, <3>4, <3>5, <3>6, <3>7
  <2>6. CASE ReportResult(t)
    <3>1. AtMostOnePlace'
      BY <2>6, <1>1 DEF ReportResult, Post
    <3>2. AbsentIsNowhere'
      BY <2>6, <1>1 DEF ReportResult, Post
    <3>3. RepliesInCall'
      BY <2>6, <1>1 DEF ReportResult, Post
    <3>4. OutcomeAtEnd'
      BY <2>6, <1>1 DEF ReportResult, Post
    <3>5. SimulatedForTestAgents'
      BY <2>6, <1>1 DEF ReportResult, Post, SimPcs
    <3>6. PostsAreTrue'
      BY <2>6, <1>1 DEF ReportResult, Post
    <3>7. StatusIsEarned'
      BY <2>6, <1>1 DEF ReportResult, Post
    <3>8. QED
      BY <3>1, <3>2, <3>3, <3>4, <3>5, <3>6, <3>7
  <2>7. CASE ReportRaises(t)
    <3>1. AtMostOnePlace' /\ AbsentIsNowhere' /\ RepliesInCall'
      BY <2>7, <1>1 DEF ReportRaises, Post
    <3>2. OutcomeAtEnd'
      BY <2>7, <1>1 DEF ReportRaises
    <3>3. SimulatedForTestAgents'
      BY <2>7, <1>1 DEF ReportRaises, SimPcs
    <3>4. PostsAreTrue'
      BY <2>7, <1>1 DEF ReportRaises, Post
    <3>5. StatusIsEarned'
      BY <2>7, <1>1 DEF ReportRaises
    <3>6. QED
      BY <3>1, <3>2, <3>3, <3>4, <3>5
  <2>8. QED
    BY <1>6, <2>1, <2>2, <2>3, <2>4, <2>5, <2>6, <2>7 DEF Work
<1>7. ASSUME NEW m \in wire, Handle(m) \/ LosePost(m)
      PROVE  DispatchInv'
  <2>1. m \in Posts
    OBVIOUS
  <2>2. CASE HandleStatus(m)
    BY <2>1, <2>2 DEF HandleStatus, Posts
  <2>3. CASE HandleResult(m)
    BY <2>1, <2>3 DEF HandleResult, Posts
  <2>4. CASE LosePost(m)
    BY <2>4 DEF LosePost
  <2>5. QED
    BY <1>7, <2>2, <2>3, <2>4 DEF Handle
<1>8. ASSUME NEW t \in Tests, StopTest(t)
      PROVE  DispatchInv'
  BY <1>8 DEF StopTest, StopPost
<1>9. ASSUME NEW t \in Tests, Simulate(t)
      PROVE  DispatchInv'
  <2>1. ASSUME NEW s \in Terminal, worker[t] \in SimPcs, SimEnd(t, s)
        PROVE  DispatchInv'
    <3>1. AtMostOnePlace'
      BY <2>1 DEF SimEnd, SimPcs, Terminal
    <3>2. AbsentIsNowhere'
      BY <2>1 DEF SimEnd, SimPcs, Terminal
    <3>3. RepliesInCall'
      BY <2>1 DEF SimEnd, SimPcs, Terminal
    <3>4. OutcomeAtEnd'
      BY <2>1 DEF SimEnd, SimPcs, Terminal
    <3>5. SimulatedForTestAgents'
      BY <2>1 DEF SimEnd, SimPcs, Terminal
    <3>6. PostsAreTrue'
      BY <1>1, <2>1 DEF SimEnd, SimPcs, Terminal
    <3>7. StatusIsEarned'
      BY <2>1 DEF SimEnd, SimPcs, Terminal
    <3>8. QED
      BY <3>1, <3>2, <3>3, <3>4, <3>5, <3>6, <3>7
  <2>2. CASE SimStart(t)
    <3>1. AtMostOnePlace' /\ AbsentIsNowhere' /\ RepliesInCall'
      BY <2>2, <1>1 DEF SimStart, SimPcs
    <3>2. OutcomeAtEnd' /\ SimulatedForTestAgents'
      BY <2>2, <1>1 DEF SimStart, SimPcs
    <3>3. PostsAreTrue'
      BY <2>2, <1>1 DEF SimStart, SimPcs
    <3>4. StatusIsEarned'
      BY <2>2, <1>1 DEF SimStart, SimPcs
    <3>5. QED
      BY <3>1, <3>2, <3>3, <3>4
  <2>3. CASE SimSave(t)
    <3>1. AtMostOnePlace'
      BY <2>3, <1>1 DEF SimSave
    <3>2. AbsentIsNowhere'
      BY <2>3, <1>1 DEF SimSave
    <3>3. RepliesInCall'
      BY <2>3, <1>1 DEF SimSave
    <3>4. OutcomeAtEnd'
      BY <2>3, <1>1 DEF SimSave
    <3>5. SimulatedForTestAgents'
      BY <2>3, <1>1 DEF SimSave, SimPcs
    <3>6. PostsAreTrue'
      BY <2>3, <1>1 DEF SimSave
    <3>7. StatusIsEarned'
      BY <2>3 DEF SimSave, SimPcs
    <3>8. QED
      BY <3>1, <3>2, <3>3, <3>4, <3>5, <3>6, <3>7
  <2>4. QED
    BY <1>9, <2>1, <2>2, <2>3 DEF Simulate, SimComplete, SimFail, Terminal, SimPcs
<1>10. ASSUME NEW a \in Agents, AgentRestart(a)
       PROVE  DispatchInv'
  <2>1. AtMostOnePlace'
    BY <1>10 DEF AgentRestart, AgentPcs
  <2>2. AbsentIsNowhere'
    BY <1>10 DEF AgentRestart, AgentPcs
  <2>3. RepliesInCall'
    BY <1>10 DEF AgentRestart, AgentPcs
  <2>4. OutcomeAtEnd'
    BY <1>10 DEF AgentRestart, AgentPcs
  <2>5. SimulatedForTestAgents'
    BY <1>10 DEF AgentRestart, AgentPcs, SimPcs
  <2>6. PostsAreTrue'
    BY <1>1, <1>10 DEF AgentRestart, AgentPcs
  <2>7. StatusIsEarned'
    BY <1>10 DEF AgentRestart, AgentPcs
  <2>8. QED
    BY <2>1, <2>2, <2>3, <2>4, <2>5, <2>6, <2>7
<1>11. CASE ServerRestart
  BY <1>11 DEF ServerRestart, SimPcs
<1>12. CASE UNCHANGED vars
  BY <1>12 DEF vars
<1>13. QED
  BY <1>3, <1>4, <1>5, <1>6, <1>7, <1>8, <1>9, <1>10, <1>11, <1>12 DEF Next, Operate, WithinDay

(* The inductive invariant holds in every state.                           *)
THEOREM DispatchInvariant == Spec => []DispatchInv
<1>1. Init => DispatchInv
  BY DEF Init, DispatchInv, AtMostOnePlace, AbsentIsNowhere, RepliesInCall,
         OutcomeAtEnd, SimulatedForTestAgents, PostsAreTrue, StatusIsEarned,
         Holders, SimPcs
<1>2. QED
  BY <1>1, TypeInvariant, DispatchStep, PTL DEF Spec

(* One place for each command: no row that is still queued is also held by *)
(* a response or run by an agent.                                          *)
THEOREM OnePlace == Spec => []AtMostOnePlace
BY DispatchInvariant, PTL DEF DispatchInv

(* The table tells the truth about the work, whatever is lost or reordered.*)
THEOREM EarnedStatus == Spec => []StatusIsEarned
BY DispatchInvariant, PTL DEF DispatchInv

-----------------------------------------------------------------------------

(* Only who takes a row's time changes the columns the ORDER BY looks at,  *)
(* and only midnight the day.                                              *)
TimeTaken ==
    /\ \E t \in Tests, a \in Agents, k \in CommandKinds : cmd' = Stamped(t, a, k)
    /\ rows' = rows + 1 /\ today' = today

LEMMA RowsAreKept ==
    ASSUME [Next]_vars
    PROVE  \/ UNCHANGED <<cmd, rows, today>>
           \/ NewDay
           \/ TimeTaken
<1> USE DEF rowVars
<1>1. CASE Api
  BY <1>1, KindsAssumption DEF Api, TakeTime, InsertTest, QueueCommand, TimeTaken, CommandKinds
<1>2. ASSUME NEW a \in Agents, Heartbeat(a)
      PROVE  UNCHANGED <<cmd, rows, today>>
  BY <1>2 DEF Heartbeat, SendBeat, LoseBeat, AbandonBeat, ServeBeat,
              ServeStaleBeat, LoseReply, TakeReply
<1>3. ASSUME NEW t \in Tests, Work(t)
      PROVE  UNCHANGED <<cmd, rows, today>>
  BY <1>3 DEF Work, BeginWork, CleanUp, ResolveModel, ResolveRaises, FinishWork,
              ReportResult, ReportRaises
<1>4. ASSUME NEW m \in wire, Handle(m) \/ LosePost(m)
      PROVE  UNCHANGED <<cmd, rows, today>>
  BY <1>4 DEF Handle, HandleStatus, HandleResult, LosePost
<1>5. ASSUME NEW t \in Tests, StopTest(t) \/ Simulate(t)
      PROVE  UNCHANGED <<cmd, rows, today>>
  BY <1>5 DEF StopTest, Simulate, SimStart, SimSave, SimComplete, SimFail, SimEnd
<1>6. CASE ServerRestart \/ \E a \in Agents : AgentRestart(a)
  BY <1>6 DEF ServerRestart, AgentRestart
<1>7. CASE UNCHANGED vars
  BY <1>7 DEF vars
<1>8. QED
  BY <1>1, <1>2, <1>3, <1>4, <1>5, <1>6, <1>7 DEF Next, Operate, WithinDay

(* Numbers and dates of the rows grow together.                            *)
LEMMA RowsInOrderStep == TypeOK /\ RowsInOrder /\ [Next]_vars => RowsInOrder'
<1> SUFFICES ASSUME TypeOK, RowsInOrder, [Next]_vars
             PROVE  RowsInOrder'
  OBVIOUS
<1>1. /\ today \in Nat /\ rows \in Nat
      /\ \A u \in Tests : cmd[u].seq \in Nat /\ cmd[u].day \in Nat
  BY BoundsAssumption DEF TypeOK, Commands
<1>2. ASSUME TimeTaken
      PROVE  RowsInOrder'
  <2>1. PICK t \in Tests : /\ cmd'[t].seq = rows + 1 /\ cmd'[t].day = today
                           /\ \A u \in Tests \ {t} : cmd'[u] = cmd[u]
    BY <1>2 DEF TimeTaken, Stamped, TypeOK
  <2>2. rows' = rows + 1 /\ today' = today
    BY <1>2 DEF TimeTaken
  <2>3. QED
    BY <1>1, <2>1, <2>2 DEF RowsInOrder
<1>3. CASE NewDay
  BY <1>1, <1>3 DEF NewDay, RowsInOrder
<1>4. CASE UNCHANGED <<cmd, rows, today>>
  BY <1>4 DEF RowsInOrder
<1>5. QED
  BY <1>2, <1>3, <1>4, RowsAreKept

(* A step that dispatches a row serves a heartbeat that found it first.    *)
LEMMA DispatchIsFirst ==
    ASSUME TypeOK, [Next]_vars, NEW u \in Tests, status[u] = "queued",
           status'[u] = "dispatched"
    PROVE  \E a \in Agents : u \in FirstQueued(a)
<1> USE DEF TypeOK, rowVars, Statuses
<1>1. CASE Api
  BY <1>1 DEF Api, TakeTime, InsertTest, QueueCommand, Insert
<1>2. ASSUME NEW a \in Agents, Heartbeat(a)
      PROVE  u \in FirstQueued(a)
  BY <1>2 DEF Heartbeat, SendBeat, LoseBeat, AbandonBeat, ServeBeat,
              ServeStaleBeat, MarkDispatched, LoseReply, TakeReply
<1>3. ASSUME NEW t \in Tests, Work(t)
      PROVE  FALSE
  BY <1>3 DEF Work, BeginWork, CleanUp, ResolveModel, ResolveRaises, FinishWork,
              ReportResult, ReportRaises
<1>4. ASSUME NEW m \in wire, Handle(m) \/ LosePost(m)
      PROVE  FALSE
  BY <1>4 DEF Handle, HandleStatus, HandleResult, LosePost, Posts
<1>5. ASSUME NEW t \in Tests, StopTest(t) \/ Simulate(t)
      PROVE  FALSE
  BY <1>5 DEF StopTest, Simulate, SimStart, SimSave, SimComplete, SimFail, SimEnd,
              Terminal
<1>6. CASE ServerRestart \/ (\E a \in Agents : AgentRestart(a)) \/ NewDay
  BY <1>6 DEF ServerRestart, AgentRestart, NewDay
<1>7. CASE UNCHANGED vars
  BY <1>7 DEF vars
<1>8. QED
  BY <1>1, <1>2, <1>3, <1>4, <1>5, <1>6, <1>7 DEF Next, Operate, WithinDay

(* Benchmark runs are dispatched in the order in which their launches took *)
(* their times, for any number of rows, agents and days and whatever the   *)
(* order of the inserts.                                                   *)
THEOREM BenchmarkOrder == Spec => BenchmarksInOrder
<1>1. Init => RowsInOrder
  BY DEF Init, RowsInOrder, NoRow
<1>2. TypeOK /\ RowsInOrder /\ [Next]_vars =>
        [\A t, u \in Tests :
            /\ status[t] = "queued" /\ status[u] = "queued"
            /\ cmd[t].agent = cmd[u].agent
            /\ ~IsCommand(t) /\ ~IsCommand(u)
            /\ cmd[t].seq < cmd[u].seq
            => status'[u] # "dispatched"]_vars
  <2> SUFFICES ASSUME TypeOK, RowsInOrder, [Next]_vars,
                      NEW t \in Tests, NEW u \in Tests,
                      status[t] = "queued", status[u] = "queued",
                      cmd[t].agent = cmd[u].agent,
                      ~IsCommand(t), ~IsCommand(u),
                      cmd[t].seq < cmd[u].seq,
                      status'[u] = "dispatched"
               PROVE  FALSE
    OBVIOUS
  <2>1. PICK a \in Agents : u \in FirstQueued(a)
    BY DispatchIsFirst
  <2>2. /\ cmd[t].seq \in Nat /\ cmd[u].seq \in Nat
        /\ cmd[t].day \in Nat /\ cmd[u].day \in Nat
    BY DEF TypeOK, Commands
  <2>3. t \in QueuedFor(a) \ {u}
    BY <2>1, <2>2 DEF FirstQueued, QueuedFor
  <2>4. Before(u, t)
    BY <2>1, <2>3 DEF FirstQueued
  <2>5. QED
    BY <2>2, <2>4 DEF Before, RowsInOrder
<1>3. QED
  BY <1>1, <1>2, TypeInvariant, RowsInOrderStep, PTL DEF Spec, BenchmarksInOrder

-----------------------------------------------------------------------------

(* What makes DispatchedIsHeld inductive: no request is handled late.      *)
HeldInv ==
    RepliesArrive =>
        /\ DispatchedIsHeld
        /\ \A a \in Agents : stale[a] = 0

LEMMA HeldStep == TypeOK /\ DispatchInv /\ HeldInv /\ [Next]_vars => HeldInv'
<1> SUFFICES ASSUME TypeOK, DispatchInv, HeldInv, [Next]_vars, RepliesArrive
             PROVE  HeldInv'
  BY DEF HeldInv, RepliesArrive
<1> USE DEF TypeOK, HeldInv, DispatchedIsHeld, RepliesArrive, Holders,
            rowVars, beatVars, workVars, postVars
<1>1. CASE Api
  BY <1>1 DEF Api, TakeTime, InsertTest, QueueCommand, Insert
<1>2. ASSUME NEW a \in Agents, Heartbeat(a)
      PROVE  HeldInv'
  <2>1. CASE SendBeat(a) \/ LoseBeat(a)
    BY <2>1 DEF SendBeat, LoseBeat
  <2>2. CASE ServeBeat(a)
    <3>1. reply[a] = {}
      BY <2>2 DEF ServeBeat, DispatchInv, RepliesInCall
    <3>2. QED
      BY <2>2, <3>1, FirstQueuedIsQueued DEF ServeBeat, MarkDispatched
  <2>3. CASE TakeReply(a)
    BY <2>3 DEF TakeReply
  <2>4. ~AbandonBeat(a) /\ ~ServeStaleBeat(a) /\ ~LoseReply(a)
    BY DEF AbandonBeat, ServeStaleBeat, LoseReply
  <2>5. QED
    BY <1>2, <2>1, <2>2, <2>3, <2>4 DEF Heartbeat
<1>3. ASSUME NEW t \in Tests, Work(t)
      PROVE  HeldInv'
  BY <1>3 DEF Work, BeginWork, CleanUp, ResolveModel, ResolveRaises, FinishWork,
              ReportResult, ReportRaises
<1>4. ASSUME NEW m \in wire, Handle(m) \/ LosePost(m)
      PROVE  HeldInv'
  BY <1>4 DEF Handle, HandleStatus, HandleResult, LosePost, Posts
<1>5. ASSUME NEW t \in Tests, StopTest(t) \/ Simulate(t)
      PROVE  HeldInv'
  BY <1>5 DEF StopTest, Simulate, SimStart, SimSave, SimComplete, SimFail, SimEnd,
              SimPcs, Terminal
<1>6. ~ServerRestart /\ \A a \in Agents : ~AgentRestart(a)
  BY DEF ServerRestart, AgentRestart
<1>7. CASE NewDay \/ UNCHANGED vars
  BY <1>7 DEF NewDay, vars
<1>8. QED
  BY <1>1, <1>2, <1>3, <1>4, <1>5, <1>6, <1>7 DEF Next, Operate, WithinDay

(* Without late requests, lost responses and restarts, no dispatched row   *)
(* is forgotten.                                                           *)
THEOREM DispatchedRowsAreHeld == Spec => []DispatchedIsHeld
<1>1. Init => HeldInv
  BY DEF Init, HeldInv, DispatchedIsHeld
<1>2. HeldInv => DispatchedIsHeld
  BY DEF HeldInv, DispatchedIsHeld
<1>3. QED
  BY <1>1, <1>2, TypeInvariant, DispatchInvariant, HeldStep, PTL DEF Spec

-----------------------------------------------------------------------------

(* What makes StatusMovesForward inductive.  A row in a response or with a *)
(* thread that did not begin is dispatched; one whose work goes on has not *)
(* ended in the table; a simulated row is where its simulator is; and a    *)
(* POST on its way is the only one of its row, and is ahead of the row.    *)
OneAtATime ==
    /\ \A m \in wire : m.by = "worker"
    /\ \A m, n \in wire : m.test = n.test => m = n

PostsAreAhead ==
    \A m \in wire :
        LET t == m.test
        IN /\ worker[t] \in {"resolving", "executing", "reporting", "done", "died"}
           /\ m.says = "running" => status[t] = "dispatched"
           /\ m.says \in Terminal =>
                 /\ status[t] \in {"dispatched", "running"}
                 /\ worker[t] \in {"reporting", "done", "died"}

RowsKeepUp ==
    \A t \in Tests :
        /\ Holders(t) # {} \/ worker[t] = "starting" => status[t] = "dispatched"
        /\ worker[t] \in {"resolving", "executing"} => status[t] \in {"dispatched", "running"}
        /\ worker[t] = "sim_queued" => status[t] = "queued"
        /\ worker[t] \in {"sim_running", "sim_saved"} => status[t] = "running"

ForwardInv ==
    OnePostAtATime =>
        /\ OneAtATime
        /\ PostsAreAhead
        /\ RowsKeepUp
        /\ \A a \in Agents : stale[a] > 0 => a \in RealAgents

(* The invariant looks at the statuses, the places of the rows and the     *)
(* POSTs; a step of one action disturbs one part of it.                    *)
LEMMA ForwardStep == TypeOK /\ DispatchInv /\ ForwardInv /\ [Next]_vars => ForwardInv'
<1> SUFFICES ASSUME TypeOK, DispatchInv, ForwardInv, [Next]_vars, OnePostAtATime
             PROVE  ForwardInv'
  BY DEF ForwardInv, OnePostAtATime
<1> USE DEF TypeOK, ForwardInv, OneAtATime, PostsAreAhead, RowsKeepUp, Holders,
            rowVars, beatVars, workVars, postVars
<1>1. ASSUME NEW t \in Tests, Insert(t),
             worker'[t] \in {"none", "sim_queued"},
             \A u \in Tests \ {t} : worker'[u] = worker[u],
             UNCHANGED <<beatVars, postVars>>
      PROVE  ForwardInv'
  <2>1. /\ Holders(t) = {} /\ worker[t] = "none" /\ \A m \in wire : m.test # t
        /\ status'[t] = "queued" /\ \A u \in Tests \ {t} : status'[u] = status[u]
    BY <1>1 DEF Insert, DispatchInv, AbsentIsNowhere, PostsAreTrue, Posts, Statuses
  <2>2. OneAtATime' /\ PostsAreAhead'
    BY <1>1, <2>1 DEF Posts
  <2>3. RowsKeepUp'
    BY <1>1, <2>1
  <2>4. QED
    BY <1>1, <2>2, <2>3
<1>2. CASE Api
  <2>1. ASSUME NEW t \in Tests, NEW a \in Agents, TakeTime(t, a)
        PROVE  ForwardInv'
    BY <2>1 DEF TakeTime
  <2>2. ASSUME NEW t \in Tests, Insert(t)
        PROVE  worker[t] = "none"
    BY <2>2 DEF Insert, DispatchInv, AbsentIsNowhere
  <2>3. ASSUME NEW t \in Tests, NEW a \in Agents, NEW k \in Kinds, QueueCommand(t, a, k)
        PROVE  ForwardInv'
    BY <1>1, <2>2, <2>3 DEF QueueCommand
  <2>4. ASSUME NEW t \in Tests, InsertTest(t)
        PROVE  ForwardInv'
    BY <1>1, <2>2, <2>4 DEF InsertTest
  <2>5. QED
    BY <1>2, <2>1, <2>3, <2>4 DEF Api
<1>3. ASSUME NEW a \in RealAgents, MarkDispatched(a)
      PROVE  /\ \A t \in FirstQueued(a) : /\ status'[t] = "dispatched" /\ worker[t] = "none"
                                         /\ \A m \in wire : m.test # t
             /\ \A t \in Tests \ FirstQueued(a) : status'[t] = status[t]
  <2>1. ASSUME NEW t \in FirstQueued(a)
        PROVE  t \in Tests /\ worker[t] = "none" /\ \A m \in wire : m.test # t
    <3>1. t \in Tests /\ status[t] = "queued" /\ cmd[t].agent = a
      BY <2>1 DEF FirstQueued, QueuedFor
    <3>2. worker[t] = "none"
      BY <3>1 DEF DispatchInv, AtMostOnePlace, RealAgents
    <3>3. QED
      BY <3>1, <3>2
  <2>2. QED
    BY <1>3, <2>1 DEF MarkDispatched
<1>4. ASSUME NEW a \in RealAgents, MarkDispatched(a), UNCHANGED <<workVars, wire>>,
             \A b \in Agents : reply'[b] \subseteq reply[b] \cup FirstQueued(a)
      PROVE  OneAtATime' /\ PostsAreAhead' /\ RowsKeepUp'
  <2>1. OneAtATime' /\ PostsAreAhead'
    BY <1>3, <1>4 DEF Posts
  <2>2. RowsKeepUp'
    BY <1>3, <1>4
  <2>3. QED
    BY <2>1, <2>2
<1>5. ASSUME NEW a \in Agents, Heartbeat(a)
      PROVE  ForwardInv'
  <2>1. CASE SendBeat(a) \/ LoseBeat(a)
    BY <2>1 DEF SendBeat, LoseBeat
  <2>2. CASE AbandonBeat(a)
    <3>1. a \in RealAgents
      BY <2>2 DEF AbandonBeat, DispatchInv, RepliesInCall
    <3>2. QED
      BY <2>2, <3>1 DEF AbandonBeat
  <2>3. CASE ServeBeat(a)
    <3>1. a \in RealAgents
      BY <2>3 DEF ServeBeat, DispatchInv, RepliesInCall
    <3>2. \A b \in Agents : reply'[b] \subseteq reply[b] \cup FirstQueued(a)
      BY <2>3 DEF ServeBeat
    <3>3. QED
      BY <1>4, <2>3, <3>1, <3>2 DEF ServeBeat
  <2>4. CASE ServeStaleBeat(a)
    <3>1. a \in RealAgents
      BY <2>4 DEF ServeStaleBeat
    <3>2. OneAtATime' /\ PostsAreAhead' /\ RowsKeepUp'
      BY <1>4, <2>4, <3>1 DEF ServeStaleBeat
    <3>3. \A b \in Agents : stale'[b] > 0 => stale[b] > 0
      BY <2>4, BoundsAssumption DEF ServeStaleBeat
    <3>4. QED
      BY <3>2, <3>3
  <2>5. CASE LoseReply(a)
    BY <2>5 DEF LoseReply
  <2>6. CASE TakeReply(a)
    <3>1. \A t \in reply[a] : t \in Tests /\ worker[t] = "none" /\ status[t] = "dispatched"
      BY DEF DispatchInv, AtMostOnePlace
    <3>2. /\ \A t \in reply[a] : worker'[t] \in {"ignored", "starting"}
          /\ \A t \in Tests \ reply[a] : worker'[t] = worker[t]
          /\ \A b \in Agents : reply'[b] \subseteq reply[b]
          /\ UNCHANGED <<rowVars, stale, exit, postVars>>
      BY <2>6 DEF TakeReply
    <3>3. OneAtATime' /\ PostsAreAhead'
      BY <3>1, <3>2 DEF Posts
    <3>4. RowsKeepUp'
      BY <3>1, <3>2
    <3>5. QED
      BY <3>2, <3>3, <3>4
  <2>7. QED
    BY <1>5, <2>1, <2>2, <2>3, <2>4, <2>5, <2>6 DEF Heartbeat
<1>6. ASSUME NEW t \in Tests, Settled(t) PROVE \A m \in wire : m.test # t
  BY <1>6 DEF Settled, OnePostAtATime
<1>7. ASSUME NEW t \in Tests, NEW s \in {"running", "completed", "failed", "result"},
             \A m \in wire : m.test # t, wire' \in {wire, wire \cup {Post(t, s)}}
      PROVE  /\ OneAtATime'
             /\ \A m \in wire' : (m \in wire /\ m.test # t) \/ m = Post(t, s)
             /\ Post(t, s).test = t /\ Post(t, s).says = s
  BY <1>7 DEF Post
<1>8. ASSUME NEW t \in Tests, Work(t)
      PROVE  ForwardInv'
  <2>1. /\ UNCHANGED <<rowVars, beatVars>>
        /\ \A u \in Tests \ {t} : worker'[u] = worker[u]
    BY <1>8 DEF Work, BeginWork, CleanUp, ResolveModel, ResolveRaises, FinishWork,
                ReportResult, ReportRaises
  <2>2. CASE BeginWork(t)
    <3>1. /\ worker[t] = "starting" /\ worker'[t] \in {"resolving", "executing"}
          /\ wire' = wire \cup {Post(t, "running")}
      BY <2>2 DEF BeginWork
    <3>2. status[t] = "dispatched" /\ \A m \in wire : m.test # t
      BY <3>1
    <3>3. OneAtATime'
      BY <1>7, <3>1, <3>2
    <3>4. PostsAreAhead'
      BY <1>7, <2>1, <3>1, <3>2 DEF Posts, Terminal
    <3>5. RowsKeepUp'
      BY <2>1, <3>1, <3>2
    <3>6. QED
      BY <2>1, <3>3, <3>4, <3>5
  <2>3. CASE CleanUp(t) \/ ResolveModel(t) \/ ResolveRaises(t)
    <3>1. /\ UNCHANGED wire
          /\ \/ worker[t] = "starting" /\ worker'[t] = "done"
             \/ worker[t] = "resolving" /\ worker'[t] \in {"executing", "died"}
      BY <2>3 DEF CleanUp, ResolveModel, ResolveRaises
    <3>2. OneAtATime' /\ PostsAreAhead'
      BY <2>1, <3>1 DEF Posts
    <3>3. RowsKeepUp'
      BY <2>1, <3>1
    <3>4. QED
      BY <2>1, <3>2, <3>3
  <2>4. ASSUME NEW s \in Terminal, FinishWork(t, s)
        PROVE  ForwardInv'
    <3>1. /\ worker[t] = "executing" /\ worker'[t] \in {"reporting", "done"}
          /\ wire' = wire \cup {Post(t, s)} /\ \A m \in wire : m.test # t
      BY <1>6, <2>4 DEF FinishWork
    <3>2. status[t] \in {"dispatched", "running"}
      BY <3>1
    <3>3. OneAtATime'
      BY <1>7, <3>1 DEF Terminal
    <3>4. PostsAreAhead'
      BY <1>7, <2>1, <3>1, <3>2 DEF Posts, Terminal
    <3>5. RowsKeepUp'
      BY <2>1, <3>1, <3>2
    <3>6. QED
      BY <2>1, <3>3, <3>4, <3>5
  <2>5. CASE ReportResult(t)
    <3>1. /\ worker[t] = "reporting" /\ worker'[t] = "done" /\ \A m \in wire : m.test # t
          /\ wire' \in {wire, wire \cup {Post(t, "result")}}
      BY <1>6, <2>5 DEF ReportResult
    <3>2. OneAtATime'
      BY <1>7, <3>1
    <3>3. PostsAreAhead'
      BY <1>7, <2>1, <3>1 DEF Posts, Terminal
    <3>4. RowsKeepUp'
      BY <2>1, <3>1
    <3>5. QED
      BY <2>1, <3>2, <3>3, <3>4
  <2>6. ~ReportRaises(t)
    BY DEF ReportRaises, OnePostAtATime
  <2>7. QED
    BY <1>8, <2>2, <2>3, <2>4, <2>5, <2>6 DEF Work
<1>9. ASSUME NEW m \in wire, Handle(m)
      PROVE  ForwardInv'
  <2>1. /\ wire' = wire \ {m} /\ UNCHANGED <<beatVars, workVars>>
        /\ \A n \in wire' : n \in wire /\ n.test # m.test
    BY <1>9 DEF Handle, HandleStatus, HandleResult
  <2>2. m.test \in Tests /\ \A u \in Tests \ {m.test} : status'[u] = status[u]
    BY <1>9 DEF Handle, HandleStatus, HandleResult, Posts
  <2>3. OneAtATime' /\ PostsAreAhead'
    BY <2>1, <2>2 DEF Posts
  <2>4. RowsKeepUp'
    <3>1. CASE m.says = "result"
      BY <1>9, <2>1, <3>1 DEF Handle, HandleStatus, HandleResult
    <3>2. CASE m.says = "running"
      <4>1. status'[m.test] = "running"
        BY <1>9, <2>2, <3>2 DEF Handle, HandleStatus, HandleResult
      <4>2. /\ worker[m.test] \in {"resolving", "executing", "reporting", "done", "died"}
            /\ Holders(m.test) = {}
        BY <2>2 DEF DispatchInv, AtMostOnePlace
      <4>3. QED
        BY <2>1, <2>2, <4>1, <4>2
    <3>3. CASE m.says \in Terminal
      <4>1. worker[m.test] \in {"reporting", "done", "died"} /\ Holders(m.test) = {}
        BY <2>2, <3>3 DEF DispatchInv, AtMostOnePlace
      <4>2. QED
        BY <2>1, <2>2, <4>1
    <3>4. QED
      BY <3>1, <3>2, <3>3 DEF Posts, Terminal
  <2>5. QED
    BY <2>1, <2>3, <2>4
<1>10. ASSUME NEW m \in wire, LosePost(m)
       PROVE  ForwardInv'
  BY <1>10 DEF LosePost, Posts
<1>11. ASSUME NEW t \in Tests, Simulate(t)
       PROVE  ForwardInv'
  <2>1. worker[t] \in SimPcs /\ (\A m \in wire : m.test # t) /\ Holders(t) = {}
    BY <1>11 DEF Simulate, SimStart, SimSave, SimComplete, SimFail, SimPcs, DispatchInv,
                 AtMostOnePlace
  <2>2. /\ UNCHANGED <<wire, beatVars>>
        /\ \A u \in Tests \ {t} : worker'[u] = worker[u] /\ status'[u] = status[u]
        /\ \/ worker'[t] \in {"sim_running", "sim_saved"} /\ status'[t] = "running"
           \/ worker'[t] = "done"
    BY <1>11 DEF Simulate, SimStart, SimSave, SimComplete, SimFail, SimEnd
  <2>3. OneAtATime' /\ PostsAreAhead'
    BY <2>1, <2>2 DEF Posts
  <2>4. RowsKeepUp'
    BY <2>1, <2>2
  <2>5. QED
    BY <2>2, <2>3, <2>4
<1>12. ASSUME NEW a \in Agents, AgentRestart(a)
       PROVE  ForwardInv'
  <2>1. /\ UNCHANGED <<rowVars, stale, exit, postVars>>
        /\ \A b \in Agents : reply'[b] \subseteq reply[b]
        /\ \A t \in Tests : worker'[t] = worker[t] \/ (worker[t] \in AgentPcs /\ worker'[t] = "died")
    BY <1>12 DEF AgentRestart
  <2>2. OneAtATime' /\ PostsAreAhead'
    BY <2>1 DEF Posts
  <2>3. RowsKeepUp'
    BY <2>1
  <2>4. QED
    BY <2>1, <2>2, <2>3
<1>13. CASE ServerRestart
  <2>1. /\ status' = status /\ wire' = {} /\ stale' = [a \in Agents |-> 0]
        /\ \A b \in Agents : reply'[b] \subseteq reply[b]
        /\ \A t \in Tests : worker'[t] = worker[t] \/ worker'[t] = "died"
    BY <1>13 DEF ServerRestart
  <2>2. RowsKeepUp'
    BY <2>1
  <2>3. QED
    BY <2>1, <2>2
<1>14. CASE NewDay \/ UNCHANGED vars
  BY <1>14 DEF NewDay, vars
<1>15. \A t \in Tests : ~StopTest(t)
  BY DEF StopTest, OnePostAtATime
<1>16. QED
  BY <1>2, <1>5, <1>8, <1>9, <1>10, <1>11, <1>12, <1>13, <1>14, <1>15 DEF Next, Operate, WithinDay

(* A step moves a row forward, by whoever makes it.                        *)
LEMMA MovesForward ==
    ASSUME TypeOK, DispatchInv, ForwardInv, [Next]_vars, OnePostAtATime,
           NEW t \in Tests, status'[t] # status[t]
    PROVE  Rank(status[t]) < Rank(status'[t])
<1> USE DEF TypeOK, ForwardInv, PostsAreAhead, RowsKeepUp,
            rowVars, beatVars, workVars, postVars
<1>1. \/ status[t] = "absent" /\ status'[t] = "queued"
      \/ status[t] = "queued" /\ status'[t] = "dispatched"
      \/ status[t] = "queued" /\ status'[t] \in {"running", "completed", "failed"}
      \/ status[t] = "dispatched" /\ status'[t] \in {"running", "completed", "failed"}
      \/ status[t] = "running" /\ status'[t] \in Terminal
  <2>1. CASE Api
    BY <2>1 DEF Api, TakeTime, InsertTest, QueueCommand, Insert
  <2>2. ASSUME NEW a \in Agents, Heartbeat(a)
        PROVE  status[t] = "queued" /\ status'[t] = "dispatched"
    BY <2>2, FirstQueuedIsQueued
       DEF Heartbeat, SendBeat, LoseBeat, AbandonBeat, ServeBeat, ServeStaleBeat, LoseReply,
           TakeReply, MarkDispatched
  <2>3. ASSUME NEW m \in wire, Handle(m)
        PROVE  \/ status[t] = "dispatched" /\ status'[t] \in {"running", "completed", "failed"}
               \/ status[t] = "running" /\ status'[t] \in Terminal
    <3>1. m.says # "result" /\ m.test = t /\ status'[t] = m.says
      BY <2>3 DEF Handle, HandleStatus, HandleResult, Posts
    <3>2. m.says \in {"running"} \cup Terminal
      BY <3>1 DEF Posts, Terminal
    <3>3. QED
      BY <3>1, <3>2 DEF Terminal
  <2>4. ASSUME NEW u \in Tests, Simulate(u)
        PROVE  \/ status[t] = "queued" /\ status'[t] \in {"running", "completed", "failed"}
               \/ status[t] = "running" /\ status'[t] \in Terminal
    BY <2>4 DEF Simulate, SimStart, SimSave, SimComplete, SimFail, SimEnd, SimPcs, Terminal
  <2>5. \A u \in Tests : ~Work(u) /\ ~StopTest(u)
    BY DEF Work, BeginWork, CleanUp, ResolveModel, ResolveRaises, FinishWork, ReportResult,
           ReportRaises, StopTest
  <2>6. /\ \A m \in wire : ~LosePost(m)
        /\ \A a \in Agents : ~AgentRestart(a)
        /\ ~ServerRestart /\ ~NewDay /\ ~UNCHANGED vars
    BY DEF LosePost, AgentRestart, ServerRestart, NewDay, vars
  <2>7. QED
    BY <2>1, <2>2, <2>3, <2>4, <2>5, <2>6 DEF Next, Operate, WithinDay
<1>2. QED
  BY <1>1 DEF Rank, Terminal

(* As long as each POST is handled before the next one, no report raises   *)
(* and no user stops a test, no row's status ever goes back or leaves a final one, whatever is *)
(* lost and whoever restarts (update_status has no guard of its own).      *)
THEOREM StatusOnlyMovesForward == Spec => StatusMovesForward
<1>1. Init => ForwardInv
  BY BoundsAssumption DEF Init, ForwardInv, OneAtATime, PostsAreAhead, RowsKeepUp, Holders
<1>2. TypeOK /\ DispatchInv /\ ForwardInv /\ [Next]_vars
        => [OnePostAtATime =>
               \A t \in Tests :
                   status'[t] # status[t] => Rank(status[t]) < Rank(status'[t])]_vars
  BY MovesForward
<1>3. QED
  BY <1>1, <1>2, TypeInvariant, DispatchInvariant, ForwardStep, PTL DEF Spec, StatusMovesForward

-----------------------------------------------------------------------------
(* The channel implements CommandDelivery.                                 *)

LEMMA StagesOnly ==
    ASSUME TypeOK, NEW t \in Tests
    PROVE  StageOf(t) \in Delivery!Stages
BY DEF StageOf, Delivery!Stages

(* A step that changes neither the row's status, nor who holds it, nor its *)
(* thread leaves the command in its stage.                                 *)
LEMMA StageKept ==
    ASSUME NEW t \in Tests, status'[t] = status[t], worker'[t] = worker[t], reply' = reply
    PROVE  StageOf(t)' = StageOf(t)
BY DEF StageOf, Holders

(* Every step of the channel moves each command along the abstract one.    *)
LEMMA StageStep ==
    ASSUME TypeOK, DispatchInv, [Next]_vars, NEW u \in Tests
    PROVE  StageOf(u)' = StageOf(u) \/ <<StageOf(u), StageOf(u)'>> \in Delivery!Moves
<1> DEFINE Moved == StageOf(u)' = StageOf(u) \/ <<StageOf(u), StageOf(u)'>> \in Delivery!Moves
<1> USE DEF TypeOK, rowVars, beatVars, workVars, postVars, RealAgents
<1>1. /\ status[u] = "absent" => Holders(u) = {} /\ worker[u] = "none"
      /\ status[u] = "queued" =>
            /\ Holders(u) = {}
            /\ \/ worker[u] = "none"
               \/ cmd[u].agent \in TestAgents /\ worker[u] \in {"sim_queued", "died"}
      /\ Holders(u) # {} => Holders(u) = {cmd[u].agent} /\ worker[u] = "none"
  BY DEF DispatchInv, AtMostOnePlace, AbsentIsNowhere
<1>2. CASE Api
  <2>1. ASSUME NEW t \in Tests, Insert(t), reply' = reply,
               worker' = worker \/ worker' = [worker EXCEPT ![t] = "sim_queued"]
        PROVE  Moved
    <3>1. CASE t # u
      BY <2>1, <3>1, StageKept DEF Insert
    <3>2. CASE t = u
      BY <2>1, <3>2, <1>1 DEF Insert, StageOf, Holders, SimPcs, AgentPcs, Delivery!Moves
    <3>3. QED
      BY <3>1, <3>2
  <2>2. ASSUME NEW t \in Tests, NEW a \in Agents, TakeTime(t, a)
        PROVE  Moved
    BY <2>2, StageKept DEF TakeTime
  <2>3. QED
    BY <1>2, <2>1, <2>2 DEF Api, InsertTest, QueueCommand
<1>3. ASSUME NEW a \in Agents, Heartbeat(a)
      PROVE  Moved
  <2>1. CASE SendBeat(a) \/ LoseBeat(a) \/ AbandonBeat(a)
    BY <2>1, StageKept DEF SendBeat, LoseBeat, AbandonBeat
  <2>2. CASE ServeBeat(a)
    <3>1. a \in RealAgents /\ reply[a] = {}
      BY <2>2 DEF ServeBeat, DispatchInv, RepliesInCall
    <3>2. CASE u \in FirstQueued(a)
      <4>1. status[u] = "queued" /\ Holders(u) = {} /\ worker[u] = "none"
        BY <1>1, <3>1, <3>2, FirstQueuedIsQueued
      <4>2. status'[u] = "dispatched" /\ worker'[u] = "none" /\ a \in Holders(u)'
        BY <2>2, <3>2, <4>1 DEF ServeBeat, MarkDispatched, Holders
      <4>3. StageOf(u) = "waiting" /\ StageOf(u)' = "taken"
        BY <4>1, <4>2 DEF StageOf, AgentPcs, SimPcs
      <4>4. QED
        BY <4>3 DEF Delivery!Moves
    <3>3. CASE u \notin FirstQueued(a)
      <4>1. status'[u] = status[u] /\ worker'[u] = worker[u] /\ Holders(u)' = Holders(u)
        BY <2>2, <3>1, <3>3 DEF ServeBeat, MarkDispatched, Holders
      <4>2. QED
        BY <4>1 DEF StageOf
    <3>4. QED
      BY <3>2, <3>3
  <2>3. CASE ServeStaleBeat(a)
    <3>1. worker'[u] = worker[u] /\ reply' = reply
      BY <2>3 DEF ServeStaleBeat
    <3>2. CASE u \in FirstQueued(a)
      <4>1. status[u] = "queued" /\ status'[u] = "dispatched" /\ Holders(u)' = {}
        BY <1>1, <2>3, <3>1, <3>2, FirstQueuedIsQueued
           DEF ServeStaleBeat, MarkDispatched, Holders
      <4>2. QED
        BY <1>1, <3>1, <4>1 DEF StageOf, AgentPcs, SimPcs, Delivery!Moves
    <3>3. CASE u \notin FirstQueued(a)
      BY <2>3, <3>1, <3>3, StageKept DEF ServeStaleBeat, MarkDispatched
    <3>4. QED
      BY <3>2, <3>3
  <2>4. CASE LoseReply(a) \/ TakeReply(a)
    <3>1. status' = status
      BY <2>4 DEF LoseReply, TakeReply
    <3>2. CASE u \in reply[a]
      <4>1. /\ Holders(u) = {a} /\ worker[u] = "none"
            /\ status[u] \notin {"absent", "queued"}
        BY <1>1, <3>2 DEF Holders
      <4>2. Holders(u)' = {}
        BY <2>4, <4>1 DEF LoseReply, TakeReply, Holders
      <4>3. worker'[u] \in {"none", "ignored", "starting"}
        BY <2>4, <3>2, <4>1 DEF LoseReply, TakeReply
      <4>4. StageOf(u) = "taken" /\ StageOf(u)' \in {"started", "lost"}
        BY <3>1, <4>1, <4>2, <4>3 DEF StageOf, AgentPcs, SimPcs
      <4>5. QED
        BY <4>4 DEF Delivery!Moves
    <3>3. CASE u \notin reply[a]
      <4>1. Holders(u)' = Holders(u) /\ worker'[u] = worker[u]
        BY <2>4, <3>3 DEF LoseReply, TakeReply, Holders
      <4>2. QED
        BY <3>1, <4>1 DEF StageOf
    <3>4. QED
      BY <3>2, <3>3
  <2>5. QED
    BY <1>3, <2>1, <2>2, <2>3, <2>4 DEF Heartbeat
<1>4. ASSUME NEW t \in Tests, Work(t)
      PROVE  Moved
  <2>1. reply' = reply /\ status' = status /\ worker[t] \in AgentPcs
    BY <1>4 DEF Work, BeginWork, CleanUp, ResolveModel, ResolveRaises, FinishWork,
                ReportResult, ReportRaises, AgentPcs
  <2>2. /\ worker'[t] \in AgentPcs \cup {"died", "done", "raised"}
        /\ t # u => worker'[u] = worker[u]
    BY <1>4 DEF Work, BeginWork, CleanUp, ResolveModel, ResolveRaises, FinishWork,
                ReportResult, ReportRaises, AgentPcs
  <2>3. QED
    BY <2>1, <2>2, StageKept DEF StageOf, AgentPcs, SimPcs, Delivery!Moves
<1>5. ASSUME NEW m \in wire, Handle(m) \/ LosePost(m)
      PROVE  Moved
  <2>1. reply' = reply /\ worker' = worker
    BY <1>5 DEF Handle, HandleStatus, HandleResult, LosePost
  <2>2. CASE status'[u] = status[u]
    BY <2>1, <2>2, StageKept
  <2>3. CASE status'[u] # status[u]
    <3>1. status[u] # "absent" /\ status'[u] \in {"running", "completed", "failed"}
      BY <1>5, <2>3 DEF Handle, HandleStatus, HandleResult, LosePost, Posts,
                        DispatchInv, PostsAreTrue
    <3>2. QED
      BY <1>1, <2>1, <3>1 DEF StageOf, Holders, AgentPcs, SimPcs, Delivery!Moves
  <2>4. QED
    BY <2>2, <2>3
<1>6. ASSUME NEW t \in Tests, Simulate(t)
      PROVE  Moved
  <2>1. reply' = reply /\ worker[t] \in SimPcs /\ worker'[t] \in SimPcs \cup {"done"}
    BY <1>6 DEF Simulate, SimStart, SimSave, SimComplete, SimFail, SimEnd, SimPcs
  <2>2. t # u => worker'[u] = worker[u] /\ status'[u] = status[u]
    BY <1>6 DEF Simulate, SimStart, SimSave, SimComplete, SimFail, SimEnd
  <2>3. QED
    BY <2>1, <2>2, StageKept DEF StageOf, AgentPcs, SimPcs, Delivery!Moves
<1>7. ASSUME NEW a \in Agents, AgentRestart(a)
      PROVE  Moved
  <2>1. status' = status
    BY <1>7 DEF AgentRestart
  <2>2. CASE u \in reply[a]
    <3>1. /\ Holders(u) = {a} /\ worker[u] = "none"
          /\ status[u] \notin {"absent", "queued"}
      BY <1>1, <2>2 DEF Holders
    <3>2. Holders(u)' = {} /\ worker'[u] = "none"
      BY <1>7, <3>1 DEF AgentRestart, Holders, AgentPcs
    <3>3. QED
      BY <2>1, <3>1, <3>2 DEF StageOf, AgentPcs, SimPcs, Delivery!Moves
  <2>3. CASE u \notin reply[a]
    <3>1. /\ Holders(u)' = Holders(u)
          /\ \/ worker'[u] = worker[u]
             \/ worker[u] \in AgentPcs /\ worker'[u] = "died"
      BY <1>7, <2>3 DEF AgentRestart, Holders
    <3>2. QED
      BY <2>1, <3>1 DEF StageOf, AgentPcs, SimPcs, Delivery!Moves
  <2>4. QED
    BY <2>2, <2>3
<1>8. CASE ServerRestart
  <2>1. /\ status' = status
        /\ \/ worker'[u] = worker[u]
           \/ worker[u] \in SimPcs /\ worker'[u] = "died"
        /\ Holders(u)' \subseteq Holders(u)
    BY <1>8 DEF ServerRestart, Holders
  <2>2. CASE Holders(u)' = Holders(u)
    BY <2>1, <2>2 DEF StageOf, AgentPcs, SimPcs, Delivery!Moves
  <2>3. CASE Holders(u)' # Holders(u)
    <3>1. Holders(u) # {} /\ Holders(u)' = {} /\ worker[u] = "none"
      BY <1>1, <2>1, <2>3
    <3>2. QED
      BY <1>1, <2>1, <3>1 DEF StageOf, AgentPcs, SimPcs, Delivery!Moves
  <2>4. QED
    BY <2>2, <2>3
<1>9. CASE NewDay \/ \E t \in Tests : StopTest(t)
  BY <1>9, StageKept DEF NewDay, StopTest
<1>10. CASE UNCHANGED vars
  BY <1>10, StageKept DEF vars
<1>11. QED
  BY <1>2, <1>3, <1>4, <1>5, <1>6, <1>7, <1>8, <1>9, <1>10 DEF Next, Operate, WithinDay

(* No crash, timeout, late or lost call makes the channel deliver or start *)
(* a command twice.                                                        *)
THEOREM DeliveryRefinement == Spec => ImplementsDelivery
<1>1. Init => Delivery!Init
  BY DEF Init, Delivery!Init, StageOf, AgentPcs, SimPcs
<1>2. TypeOK /\ TypeOK' /\ DispatchInv /\ [Next]_vars =>
         [Delivery!Next]_([t \in Tests |-> StageOf(t)])
  <2> SUFFICES ASSUME TypeOK, TypeOK', DispatchInv, [Next]_vars
               PROVE  Delivery!Next
    OBVIOUS
  <2>1. [t \in Tests |-> StageOf(t)]' \in [Tests -> Delivery!Stages]
    BY StagesOnly DEF StageOf, Delivery!Stages
  <2>2. QED
    BY <2>1, StageStep DEF Delivery!Next
<1>3. QED
  BY <1>1, <1>2, TypeInvariant, DispatchInvariant, PTL
     DEF Spec, ImplementsDelivery, Delivery!Spec

=============================================================================
