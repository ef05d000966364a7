-------------------------- MODULE QuickTestDispatch --------------------------
(***************************************************************************)
(* The path of a command from the web server to an agent and back:         *)
(*                                                                         *)
(*   - the quick_tests table, into which the REST API inserts one row for  *)
(*     a benchmark run or for a storage or engine command;                 *)
(*   - the heartbeat, whose response hands one queued row to the agent     *)
(*     and marks it dispatched (AgentManager.heartbeat);                   *)
(*   - the agent's thread per command, which POSTs status and result;      *)
(*   - the simulator threads that stand in for a test agent;               *)
(*   - `kitt-agent test stop`, which posts a status of its own.            *)
(*                                                                         *)
(* Every HTTP call may be lost, or be handled after its client gave up     *)
(* (urlopen's timeout does not cancel the server's handler), and both      *)
(* sides may restart.  The constant Env names which of these happen.       *)
(***************************************************************************)
EXTENDS Naturals, FiniteSets

CONSTANTS
    Tests,       \* ids of quick_tests rows (test_id and command_id, one to one)
    Agents,      \* registered agents
    TestAgents,  \* the agents tagged "test", which have no process
    Kinds,       \* the kinds of command the users of the API queue
    Env,         \* the environment events that may happen
    MaxStale,    \* bound: abandoned heartbeats of an agent still at the server
    MaxDay       \* bound: last calendar day

BenchmarkKind == "run_test"
EngineKinds   == {"start_engine", "install_engine"}
CommandKinds  == {BenchmarkKind, "cleanup_storage", "stop_engine"} \cup EngineKinds

EnvEvents ==
    {"lostRequest", "slowRequest", "lostReply", "lostPost", "slowPost",
     "agentCrash", "serverCrash", "resolveError", "reportError", "simError",
     "executorError", "userStop"}

ASSUME KindsAssumption == Kinds \subseteq CommandKinds
ASSUME EnvAssumption == Env \subseteq EnvEvents
ASSUME AgentsAssumption == Agents # {} /\ TestAgents \subseteq Agents
ASSUME BoundsAssumption == MaxStale \in Nat /\ MaxDay \in Nat

VARIABLES
    status,   \* quick_tests.status of each row, "absent" before its INSERT
    cmd,      \* the other columns of the row: kind, agent_id and created_at
    rows,     \* number of times taken for created_at, one for each row
    launching,\* the tests whose launch took its time and has not inserted
    today,    \* calendar day of the server's clock
    beat,     \* where the agent's heartbeat call stands
    reply,    \* the commands of a heartbeat response on its way to the agent
    stale,    \* heartbeat requests the agent gave up on and the server still has
    worker,   \* the thread that executes the command
    exit,     \* how its thread saw the work end, "none" before
    wire,     \* POSTs about tests that are sent and not handled
    results,  \* the tests whose result is in the result store
    stopped   \* the tests a stop request has marked failed

rowVars  == <<status, cmd, rows, launching, today>>
beatVars == <<beat, reply, stale>>
workVars == <<worker, exit>>
postVars == <<wire, results, stopped>>
vars     == <<rowVars, beatVars, workVars, postVars>>

RealAgents == Agents \ TestAgents

Statuses == {"absent", "queued", "dispatched", "running", "completed", "failed"}
Terminal == {"completed", "failed"}

Commands == [kind : CommandKinds, agent : Agents, day : Nat, seq : Nat]

SimPcs    == {"sim_queued", "sim_running", "sim_saved"}
AgentPcs  == {"starting", "resolving", "executing", "reporting"}
WorkerPcs == {"none", "ignored", "died", "done", "raised"} \cup SimPcs \cup AgentPcs

Posts ==
    [test : Tests, says : {"running", "completed", "failed", "result"},
     by : {"worker", "cli"}]

Post(t, s) == [test |-> t, says |-> s, by |-> "worker"]
StopPost(t) == [test |-> t, says |-> "failed", by |-> "cli"]

TypeOK ==
    /\ status \in [Tests -> Statuses]
    /\ cmd \in [Tests -> Commands]
    /\ rows \in Nat
    /\ launching \subseteq Tests
    /\ today \in 0..MaxDay
    /\ beat \in [Agents -> {"idle", "sent", "replied"}]
    /\ reply \in [Agents -> SUBSET Tests]
    /\ stale \in [Agents -> 0..MaxStale]
    /\ worker \in [Tests -> WorkerPcs]
    /\ exit \in [Tests -> {"none"} \cup Terminal]
    /\ wire \subseteq Posts
    /\ results \subseteq Tests
    /\ stopped \subseteq Tests

NoRow == [kind |-> BenchmarkKind, agent |-> CHOOSE a \in Agents : TRUE,
          day |-> 0, seq |-> 0]

Init ==
    /\ status = [t \in Tests |-> "absent"]
    /\ cmd = [t \in Tests |-> NoRow]
    /\ rows = 0
    /\ launching = {}
    /\ today = 0
    /\ beat = [a \in Agents |-> "idle"]
    /\ reply = [a \in Agents |-> {}]
    /\ stale = [a \in Agents |-> 0]
    /\ worker = [t \in Tests |-> "none"]
    /\ exit = [t \in Tests |-> "none"]
    /\ wire = {}
    /\ results = {}
    /\ stopped = {}

-----------------------------------------------------------------------------
(* The REST API: rows are inserted as queued.                              *)

Stamped(t, a, k) ==
    [cmd EXCEPT ![t] = [kind |-> k, agent |-> a, day |-> today, seq |-> rows + 1]]

Insert(t) == status[t] = "absent" /\ status' = [status EXCEPT ![t] = "queued"]

(* A launch takes the row's id and its created_at before it asks for the   *)
(* write lock: of two that race, the later time may be inserted first.     *)
TakeTime(t, a) ==
    /\ BenchmarkKind \in Kinds
    /\ status[t] = "absent" /\ cmd[t].seq = 0
    /\ cmd' = Stamped(t, a, BenchmarkKind)
    /\ launching' = launching \cup {t}
    /\ rows' = rows + 1
    /\ UNCHANGED <<status, today, beatVars, workVars, postVars>>

(* The INSERT of POST /quicktest/: for a test agent the handler also       *)
(* spawns the simulator thread; a real agent finds the row at its next     *)
(* heartbeat.                                                              *)
InsertTest(t) ==
    /\ t \in launching
    /\ Insert(t)
    /\ launching' = launching \ {t}
    /\ worker' = IF cmd[t].agent \in TestAgents
                 THEN [worker EXCEPT ![t] = "sim_queued"]
                 ELSE worker
    /\ UNCHANGED <<cmd, rows, today, beatVars, exit, postVars>>

(* The cleanup, install, start and stop endpoints.  They accept any        *)
(* registered agent, a test agent included, and leave created_at to the    *)
(* column's default, which the INSERT evaluates.                           *)
QueueCommand(t, a, k) ==
    /\ k \in Kinds \ {BenchmarkKind}
    /\ cmd[t].seq = 0
    /\ Insert(t)
    /\ cmd' = Stamped(t, a, k)
    /\ rows' = rows + 1
    /\ UNCHANGED <<launching, today, beatVars, workVars, postVars>>

NewDay ==
    /\ today < MaxDay
    /\ today' = today + 1
    /\ UNCHANGED <<status, cmd, rows, launching, beatVars, workVars, postVars>>

-----------------------------------------------------------------------------
(* ORDER BY created_at compares text.  Benchmark rows carry                *)
(* datetime.isoformat() ("2026-01-31T10:..."), the rows of commands the    *)
(* column's default datetime('now') ("2026-01-31 10:..."): on one day      *)
(* every command row sorts before every benchmark row.                     *)

IsCommand(t) == cmd[t].kind # BenchmarkKind

Before(t, u) ==
    \/ cmd[t].day < cmd[u].day
    \/ /\ cmd[t].day = cmd[u].day
       /\ \/ IsCommand(t) /\ ~IsCommand(u)
          \/ (IsCommand(t) <=> IsCommand(u)) /\ cmd[t].seq < cmd[u].seq

QueuedFor(a) == {t \in Tests : status[t] = "queued" /\ cmd[t].agent = a}

(* Mutant: the query without its ORDER BY.                                 *)
AnyQueued(a) ==
    IF QueuedFor(a) = {} THEN {} ELSE {CHOOSE t \in QueuedFor(a) :
        \A u \in QueuedFor(a) : cmd[u].seq <= cmd[t].seq}

(* The row the heartbeat query returns (LIMIT 1), as a set.                *)
FirstQueued(a) ==
    {t \in QueuedFor(a) : \A u \in QueuedFor(a) \ {t} : Before(t, u)}

MarkDispatched(a) ==
    status' = [t \in Tests |->
                  IF t \in FirstQueued(a) THEN "dispatched" ELSE status[t]]

-----------------------------------------------------------------------------
(* The heartbeat call.  The agent's thread makes one call at a time.       *)

SendBeat(a) ==
    /\ a \in RealAgents
    /\ beat[a] = "idle"
    /\ beat' = [beat EXCEPT ![a] = "sent"]
    /\ UNCHANGED <<rowVars, reply, stale, workVars, postVars>>

(* The request does not reach the server.                                  *)
LoseBeat(a) ==
    /\ "lostRequest" \in Env
    /\ beat[a] = "sent"
    /\ beat' = [beat EXCEPT ![a] = "idle"]
    /\ UNCHANGED <<rowVars, reply, stale, workVars, postVars>>

(* The agent times out; the server handles the request later.              *)
AbandonBeat(a) ==
    /\ "slowRequest" \in Env
    /\ beat[a] = "sent"
    /\ stale[a] < MaxStale
    /\ beat' = [beat EXCEPT ![a] = "idle"]
    /\ stale' = [stale EXCEPT ![a] = @ + 1]
    /\ UNCHANGED <<rowVars, reply, workVars, postVars>>

(* Mutant: the row is handed out and not marked.                           *)
ServeBeatUnmarked(a) ==
    /\ beat[a] = "sent"
    /\ beat' = [beat EXCEPT ![a] = "replied"]
    /\ reply' = [reply EXCEPT ![a] = FirstQueued(a)]
    /\ UNCHANGED <<rowVars, stale, workVars, postVars>>

(* Mutant: command rows are marked and not handed out.                     *)
ServeBeatBenchmarks(a) ==
    /\ beat[a] = "sent"
    /\ beat' = [beat EXCEPT ![a] = "replied"]
    /\ reply' = [reply EXCEPT ![a] = {t \in FirstQueued(a) : ~IsCommand(t)}]
    /\ MarkDispatched(a)
    /\ UNCHANGED <<cmd, rows, launching, today, stale, workVars, postVars>>

(* AgentManager.heartbeat, one critical section of the write lock.         *)
ServeBeat(a) ==
    /\ beat[a] = "sent"
    /\ beat' = [beat EXCEPT ![a] = "replied"]
    /\ reply' = [reply EXCEPT ![a] = FirstQueued(a)]
    /\ MarkDispatched(a)
    /\ UNCHANGED <<cmd, rows, launching, today, stale, workVars, postVars>>

(* The same handler for an abandoned request: the response goes nowhere.   *)
ServeStaleBeat(a) ==
    /\ stale[a] > 0
    /\ stale' = [stale EXCEPT ![a] = @ - 1]
    /\ MarkDispatched(a)
    /\ UNCHANGED <<cmd, rows, launching, today, beat, reply, workVars, postVars>>

(* The response is lost, arrives after the timeout, or is an error raised  *)
(* after the commit.                                                       *)
LoseReply(a) ==
    /\ "lostReply" \in Env
    /\ beat[a] = "replied"
    /\ beat' = [beat EXCEPT ![a] = "idle"]
    /\ reply' = [reply EXCEPT ![a] = {}]
    /\ UNCHANGED <<rowVars, stale, workVars, postVars>>

(* Mutant: the agent handles the commands and keeps them for the next      *)
(* pass of its loop.                                                       *)
TakeReplyKept(a) ==
    /\ beat[a] = "replied"
    /\ worker' = [t \in Tests |->
                     IF t \in reply[a] THEN "starting" ELSE worker[t]]
    /\ beat' = beat
    /\ UNCHANGED <<rowVars, reply, stale, exit, postVars>>

(* _dispatch_command starts a thread for each command it knows; for        *)
(* stop_engine it logs "Unknown command type".                             *)
TakeReply(a) ==
    /\ beat[a] = "replied"
    /\ worker' = [t \in Tests |->
                     IF t \notin reply[a] THEN worker[t]
                     ELSE IF cmd[t].kind = "stop_engine" THEN "ignored"
                     ELSE "starting"]
    /\ beat' = [beat EXCEPT ![a] = "idle"]
    /\ reply' = [reply EXCEPT ![a] = {}]
    /\ UNCHANGED <<rowVars, stale, exit, postVars>>

-----------------------------------------------------------------------------
(* The agent's thread for one command.  A POST returns when the server     *)
(* handled it, or when it timed out with the request still on its way.     *)

(* Mutant: the POST is left to a thread of its own.                        *)
NeverWaits(t) == t \in Tests

Settled(t) ==
    \/ "slowPost" \in Env
    \/ \A m \in wire : m.test = t => m.by = "cli"

(* _execute_test, _execute_start_engine and _execute_install_engine begin  *)
(* with update_status("running").                                          *)
BeginWork(t) ==
    /\ worker[t] = "starting"
    /\ cmd[t].kind # "cleanup_storage"
    /\ worker' = [worker EXCEPT ![t] =
                     IF cmd[t].kind = BenchmarkKind THEN "resolving" ELSE "executing"]
    /\ wire' = wire \cup {Post(t, "running")}
    /\ UNCHANGED <<rowVars, beatVars, exit, results, stopped>>

(* _execute_cleanup gets no status updater: the row stays dispatched.      *)
CleanUp(t) ==
    /\ worker[t] = "starting"
    /\ cmd[t].kind = "cleanup_storage"
    /\ worker' = [worker EXCEPT ![t] = "done"]
    /\ UNCHANGED <<rowVars, beatVars, exit, postVars>>

ResolveModel(t) ==
    /\ worker[t] = "resolving"
    /\ Settled(t)
    /\ worker' = [worker EXCEPT ![t] = "executing"]
    /\ UNCHANGED <<rowVars, beatVars, exit, postVars>>

(* resolve_model is called outside the try block: what it raises ends the  *)
(* thread with no status update.                                           *)
ResolveRaises(t) ==
    /\ "resolveError" \in Env
    /\ worker[t] = "resolving"
    /\ Settled(t)
    /\ worker' = [worker EXCEPT ![t] = "died"]
    /\ UNCHANGED <<rowVars, beatVars, exit, postVars>>

(* Mutant: the exit code is not looked at.                                 *)
FinishAsCompleted(t, s) ==
    /\ worker[t] = "executing"
    /\ Settled(t)
    /\ worker' = [worker EXCEPT ![t] = "done"]
    /\ exit' = [exit EXCEPT ![t] = s]
    /\ wire' = wire \cup {Post(t, "completed")}
    /\ UNCHANGED <<rowVars, beatVars, results, stopped>>

(* Mutant: only success is posted.                                         *)
FinishSilently(t, s) ==
    /\ worker[t] = "executing"
    /\ Settled(t)
    /\ worker' = [worker EXCEPT ![t] = "done"]
    /\ exit' = [exit EXCEPT ![t] = s]
    /\ wire' = IF s = "failed" THEN wire ELSE wire \cup {Post(t, s)}
    /\ UNCHANGED <<rowVars, beatVars, results, stopped>>

(* The process or engine call ends, and update_status posts how.  What     *)
(* raises in the call, or in reading the child's output, counts as failed: *)
(* the child may run on.  Only a successful benchmark has a result.        *)
FinishWork(t, s) ==
    /\ worker[t] = "executing"
    /\ Settled(t)
    /\ worker' = [worker EXCEPT ![t] =
                     IF cmd[t].kind = BenchmarkKind /\ s = "completed"
                     THEN "reporting" ELSE "done"]
    /\ exit' = [exit EXCEPT ![t] = s]
    /\ wire' = wire \cup {Post(t, s)}
    /\ UNCHANGED <<rowVars, beatVars, results, stopped>>

(* _report carries result_data unless metrics.json is missing or broken.   *)
ReportResult(t) ==
    /\ worker[t] = "reporting"
    /\ Settled(t)
    /\ worker' = [worker EXCEPT ![t] = "done"]
    /\ wire' \in {wire, wire \cup {Post(t, "result")}}
    /\ UNCHANGED <<rowVars, beatVars, exit, results, stopped>>

(* metrics.json raises what its handler does not name (a file that is not  *)
(* UTF-8): the outer one posts "failed" after the "completed".             *)
ReportRaises(t) ==
    /\ "reportError" \in Env
    /\ worker[t] = "reporting"
    /\ Settled(t)
    /\ worker' = [worker EXCEPT ![t] = "raised"]
    /\ wire' = wire \cup {Post(t, "failed")}
    /\ UNCHANGED <<rowVars, beatVars, exit, results, stopped>>

-----------------------------------------------------------------------------
(* The server's handlers of these POSTs.                                   *)

(* Mutant: the status posted is not checked against the known ones.        *)
HandleAnyStatus(m) ==
    /\ status' = [status EXCEPT ![m.test] = m.says]
    /\ stopped' = IF m.by = "cli" THEN stopped \cup {m.test} ELSE stopped
    /\ wire' = wire \ {m}
    /\ UNCHANGED <<cmd, rows, launching, today, beatVars, workVars, results>>

(* update_status overwrites the row's status whatever it was.              *)
HandleStatus(m) ==
    /\ m.says # "result"
    /\ status' = [status EXCEPT ![m.test] = m.says]
    /\ stopped' = IF m.by = "cli" THEN stopped \cup {m.test} ELSE stopped
    /\ wire' = wire \ {m}
    /\ UNCHANGED <<cmd, rows, launching, today, beatVars, workVars, results>>

HandleResult(m) ==
    /\ m.says = "result"
    /\ results' = results \cup {m.test}
    /\ wire' = wire \ {m}
    /\ UNCHANGED <<rowVars, beatVars, workVars, stopped>>

LosePost(m) ==
    /\ "lostPost" \in Env
    /\ wire' = wire \ {m}
    /\ UNCHANGED <<rowVars, beatVars, workVars, results, stopped>>

(* `kitt-agent test stop`: it reads the row, gives up on a terminal one,   *)
(* and POSTs "failed".  The "cancel" it then sends to the daemon is        *)
(* refused as an unknown command type, so the thread goes on.              *)
StopTest(t) ==
    /\ "userStop" \in Env
    /\ status[t] \notin {"absent"} \cup Terminal
    /\ wire' = wire \cup {StopPost(t)}
    /\ UNCHANGED <<rowVars, beatVars, workVars, results, stopped>>

-----------------------------------------------------------------------------
(* The simulator of a test agent, a thread of the server.                  *)

SimStart(t) ==
    /\ worker[t] = "sim_queued"
    /\ worker' = [worker EXCEPT ![t] = "sim_running"]
    /\ status' = [status EXCEPT ![t] = "running"]
    /\ UNCHANGED <<cmd, rows, launching, today, beatVars, exit, postVars>>

SimSave(t) ==
    /\ worker[t] = "sim_running"
    /\ worker' = [worker EXCEPT ![t] = "sim_saved"]
    /\ results' = results \cup {t}
    /\ UNCHANGED <<rowVars, beatVars, exit, wire, stopped>>

SimEnd(t, s) ==
    /\ worker' = [worker EXCEPT ![t] = "done"]
    /\ exit' = [exit EXCEPT ![t] = s]
    /\ status' = [status EXCEPT ![t] = s]
    /\ UNCHANGED <<cmd, rows, launching, today, beatVars, postVars>>

SimComplete(t) == worker[t] = "sim_saved" /\ SimEnd(t, "completed")

SimFail(t) == "simError" \in Env /\ worker[t] \in SimPcs /\ SimEnd(t, "failed")

-----------------------------------------------------------------------------
(* Restarts.  The agent's threads are daemon threads of its process, the   *)
(* simulators of the server's; only the database survives.                 *)

AgentRestart(a) ==
    /\ "agentCrash" \in Env
    /\ a \in RealAgents
    /\ beat' = [beat EXCEPT ![a] = "idle"]
    /\ reply' = [reply EXCEPT ![a] = {}]
    /\ worker' = [t \in Tests |->
                     IF cmd[t].agent = a /\ worker[t] \in AgentPcs
                     THEN "died" ELSE worker[t]]
    /\ UNCHANGED <<rowVars, stale, exit, postVars>>

(* The server drops every request it holds, a launch that has yet to       *)
(* insert included; a response it committed and sent may still arrive or   *)
(* break off with its connection.                                          *)
ServerRestart ==
    /\ "serverCrash" \in Env
    /\ \E cut \in SUBSET Agents :
          /\ {a \in Agents : beat[a] = "sent"} \subseteq cut
          /\ beat' = [a \in Agents |-> IF a \in cut THEN "idle" ELSE beat[a]]
          /\ reply' = [a \in Agents |-> IF a \in cut THEN {} ELSE reply[a]]
    /\ stale' = [a \in Agents |-> 0]
    /\ worker' = [t \in Tests |->
                     IF worker[t] \in SimPcs THEN "died" ELSE worker[t]]
    /\ wire' = {}
    /\ launching' = {}
    /\ UNCHANGED <<status, cmd, rows, today, exit, results, stopped>>

-----------------------------------------------------------------------------

Api ==
    \E t \in Tests :
        \/ \E a \in Agents : TakeTime(t, a) \/ \E k \in Kinds : QueueCommand(t, a, k)
        \/ InsertTest(t)

Heartbeat(a) ==
    \/ SendBeat(a)
    \/ LoseBeat(a)
    \/ AbandonBeat(a)
    \/ ServeBeat(a)
    \/ ServeStaleBeat(a)
    \/ LoseReply(a)
    \/ TakeReply(a)

Work(t) ==
    \/ BeginWork(t)
    \/ CleanUp(t)
    \/ ResolveModel(t)
    \/ ResolveRaises(t)
    \/ \E s \in Terminal : FinishWork(t, s)
    \/ ReportResult(t)
    \/ ReportRaises(t)

Handle(m) == HandleStatus(m) \/ HandleResult(m)

Simulate(t) == SimStart(t) \/ SimSave(t) \/ SimComplete(t) \/ SimFail(t)

WithinDay ==
    \/ Api
    \/ \E a \in Agents : Heartbeat(a)
    \/ \E t \in Tests : Work(t)
    \/ \E m \in wire : Handle(m)
    \/ \E m \in wire : LosePost(m)
    \/ \E t \in Tests : StopTest(t)
    \/ \E t \in Tests : Simulate(t)
    \/ \E a \in Agents : AgentRestart(a)

Operate == NewDay \/ WithinDay

Next == Operate \/ ServerRestart

Spec == Init /\ [][Next]_vars

(* The heartbeat loop never ends, threads run on, and the server handles   *)
(* what reaches it.  A request may be lost, but not every one for ever     *)
(* (strong fairness of ServeBeat).                                         *)
Fairness ==
    /\ \A a \in RealAgents :
          WF_vars(SendBeat(a)) /\ SF_vars(ServeBeat(a)) /\ WF_vars(TakeReply(a))
    /\ \A t \in Tests : WF_vars(Work(t)) /\ WF_vars(Simulate(t))
    /\ \A t \in Tests : WF_vars(\E m \in wire : m.test = t /\ Handle(m))

FairSpec == Spec /\ Fairness

-----------------------------------------------------------------------------
(* Properties.                                                             *)

Holders(t) == {a \in Agents : t \in reply[a]}

(* A command is in one place at a time.  While its row is queued, no       *)
(* response carries it and no agent thread runs it; a response that        *)
(* carries it goes to the agent the row names, and its thread has not been *)
(* started (heartbeat marks the row in the critical section that reads it).*)
AtMostOnePlace ==
    \A t \in Tests :
        /\ status[t] = "queued" =>
              /\ Holders(t) = {}
              /\ \/ worker[t] = "none"
                 \/ cmd[t].agent \in TestAgents /\ worker[t] \in {"sim_queued", "died"}
        /\ Holders(t) # {} => Holders(t) = {cmd[t].agent} /\ worker[t] = "none"

(* What the table says happened did happen: a completed row's work ended   *)
(* well on its executor, a failed one's ended badly or was stopped by a    *)
(* user, a running one's was begun, and a stored result belongs to work    *)
(* that did not fail (the POSTs of update_status and _report arrive late,  *)
(* reordered or not at all).  A thread whose report raises may leave its   *)
(* completed work failed.                                                  *)
StatusIsEarned ==
    \A t \in Tests :
        /\ status[t] = "completed" => exit[t] = "completed"
        /\ status[t] = "failed" =>
              exit[t] = "failed" \/ t \in stopped \/ worker[t] = "raised"
        /\ status[t] = "running" => worker[t] \notin {"none", "ignored", "starting"}
        /\ t \in results /\ cmd[t].agent \in RealAgents => exit[t] = "completed"

(* Of two benchmark runs queued for one agent, the one launched first is   *)
(* dispatched first, also across midnight and in whichever order the two   *)
(* launches came to their INSERT (ORDER BY created_at, which each took     *)
(* before it waited for the write lock).  A launch that waits for the lock *)
(* while a later one inserts may still find that one gone.                 *)
BenchmarksInOrder ==
    [][\A t, u \in Tests :
          /\ status[t] = "queued" /\ status[u] = "queued"
          /\ cmd[t].agent = cmd[u].agent
          /\ ~IsCommand(t) /\ ~IsCommand(u)
          /\ cmd[t].seq < cmd[u].seq
          => status'[u] # "dispatched"]_vars

(* Rows are numbered and dated in the order in which their times were      *)
(* taken.                                                                  *)
RowsInOrder ==
    \A t \in Tests :
        /\ cmd[t].seq <= rows
        /\ cmd[t].day <= today
        /\ \A u \in Tests : cmd[t].seq < cmd[u].seq => cmd[t].day <= cmd[u].day

(* The inductive strengthening of the two: a row that was never inserted   *)
(* is nowhere; a response exists only while the call of an agent with a    *)
(* process waits for it; work that has not ended has no outcome; only a     *)
(* test agent's rows are simulated; and every POST on its way is the true  *)
(* report of a thread, or a user's stop.                                   *)
AbsentIsNowhere ==
    \A t \in Tests : status[t] = "absent" =>
        Holders(t) = {} /\ worker[t] = "none" /\ t \notin results

RepliesInCall ==
    \A a \in Agents :
        /\ beat[a] # "replied" => reply[a] = {}
        /\ beat[a] # "idle" => a \in RealAgents

OutcomeAtEnd ==
    \A t \in Tests :
        /\ worker[t] \notin {"reporting", "done", "died", "raised"} => exit[t] = "none"
        /\ worker[t] \in {"reporting", "raised"} => exit[t] = "completed"

SimulatedForTestAgents ==
    \A t \in Tests : worker[t] \in SimPcs => cmd[t].agent \in TestAgents

PostsAreTrue ==
    \A m \in wire :
        /\ status[m.test] # "absent"
        /\ m.says = "running" => worker[m.test] \notin {"none", "ignored", "starting"}
        /\ m.says = "completed" => exit[m.test] = "completed"
        /\ m.says = "failed" =>
              exit[m.test] = "failed" \/ m.by = "cli" \/ worker[m.test] = "raised"
        /\ m.says = "result" => exit[m.test] = "completed"

DispatchInv ==
    /\ AtMostOnePlace
    /\ AbsentIsNowhere
    /\ RepliesInCall
    /\ OutcomeAtEnd
    /\ SimulatedForTestAgents
    /\ PostsAreTrue
    /\ StatusIsEarned

(* If no response is lost, no request is handled late and neither side     *)
(* restarts, every row marked dispatched is on its way to its agent or was *)
(* handed to a thread there: a lost heartbeat request alone costs nothing. *)
RepliesArrive ==
    Env \cap {"lostReply", "slowRequest", "agentCrash", "serverCrash"} = {}

DispatchedIsHeld ==
    RepliesArrive =>
        \A t \in Tests :
            status[t] = "dispatched" => Holders(t) # {} \/ worker[t] # "none"

(* The status of a row only moves forward, from queued over dispatched and *)
(* running to an end that is final, as long as every POST is handled       *)
(* before the thread's next one is sent, no report raises and no user      *)
(* posts one (update_status itself has no guard on the transition).        *)
OnePostAtATime == Env \cap {"slowPost", "userStop", "reportError"} = {}

Rank(s) == CASE s = "absent" -> 0 [] s = "queued" -> 1 [] s = "dispatched" -> 2
             [] s = "running" -> 3 [] OTHER -> 4

StatusMovesForward ==
    [][OnePostAtATime =>
          \A t \in Tests :
              status'[t] # status[t] => Rank(status[t]) < Rank(status'[t])]_vars

(* A benchmark or engine command that was queued for an agent with a       *)
(* process ends, if only heartbeat requests may be lost.                   *)
QueuedWorkEnds ==
    \A t \in Tests :
        /\ status[t] = "queued"
        /\ cmd[t].kind \in {BenchmarkKind} \cup EngineKinds
        /\ ~(IsCommand(t) /\ cmd[t].agent \in TestAgents)
        ~> status[t] \in Terminal

(* README.md:305: `kitt-agent test stop` is there to "cancel a running     *)
(* test".  A test the server has marked failed on a stop request is not    *)
(* reported completed later.                                               *)
StoppedStaysStopped ==
    [][\A t \in stopped : status'[t] # "completed"]_vars

(* The channel implements CommandDelivery.                                 *)
StageOf(t) ==
    CASE worker[t] \in AgentPcs \cup SimPcs -> "started"
      [] worker[t] \in {"done", "raised"}   -> "finished"
      [] worker[t] \in {"died", "ignored"}  -> "lost"
      [] OTHER -> IF status[t] = "absent" THEN "absent"
                  ELSE IF status[t] = "queued" THEN "waiting"
                  ELSE IF Holders(t) # {} THEN "taken" ELSE "lost"

Delivery == INSTANCE CommandDelivery
                WITH Commands <- Tests, stage <- [t \in Tests |-> StageOf(t)]

(* A command is accepted, taken and started at most once each, and a lost  *)
(* or finished one is never delivered again: no crash, timeout or late     *)
(* call makes the heartbeat channel execute a command twice.               *)
ImplementsDelivery == Delivery!Spec

=============================================================================
