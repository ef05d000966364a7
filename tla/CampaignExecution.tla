-------------------------- MODULE CampaignExecution --------------------------
(***************************************************************************)
(* A campaign launched from the web UI: the REST handlers that launch,     *)
(* cancel and delete it, and the executor thread (campaign_executor.py)    *)
(* or, for a test agent, the simulator thread (test_simulator.py) that     *)
(* inserts its runs into quick_tests one by one and polls each for its     *)
(* end.  The rest of the table's life is QuickTestDispatch.                *)
(*                                                                         *)
(* A handler reads the campaign outside the write lock that its update     *)
(* takes, so the read and the update are separate steps; so are the        *)
(* executor's reads and updates.                                           *)
(***************************************************************************)
EXTENDS QuickTestDispatch

CONSTANTS
    Campaigns,  \* ids of web_campaigns rows
    Sessions,   \* launch requests and the threads they spawn (bound: one launch each)
    MaxRuns,    \* bound: runs of a campaign, models x engines x benchmarks
    UserRows    \* bound: users queue rows of their own while the table has fewer

ASSUME CampaignsAssumption == Campaigns # {}
ASSUME RunsAssumption == MaxRuns \in Nat /\ UserRows \in Nat
ASSUME BenchmarksAssumption == BenchmarkKind \in Kinds

VARIABLES
    campaign,    \* web_campaigns.status, "absent" before and "deleted" after its life
    assigned,    \* web_campaigns.agent_id
    plan,        \* number of runs in the stored config
    counts,      \* the columns total_runs, succeeded and failed
    logged,      \* the campaigns campaign_logs refers to
    cancelling,  \* the campaigns a cancel request read as active, its update to come
    thread,      \* each launch request and its thread
    timedOut     \* the tests an executor gave up on

webVars      == <<campaign, assigned, plan, counts, logged, cancelling>>
campaignVars == <<webVars, thread, timedOut>>
dispatchVars == vars
allVars      == <<vars, campaignVars>>

CampaignStatuses ==
    {"absent", "draft", "queued", "running", "completed", "failed", "cancelled", "deleted"}

ThreadPcs ==
    {"begin", "announce", "loop", "insert", "stamped", "poll", "read", "finish"}
SessionPcs == {"idle", "admitted", "ended"} \cup ThreadPcs

(* A thread's locals: total_runs, the row it waits for, succeeded, failed, *)
(* whether _TEST_TIMEOUT passed; "made" records the rows it took an id for.*)
Threads ==
    [pc : SessionPcs, of : Campaigns, total : 0..MaxRuns, test : SUBSET Tests,
     good : 0..MaxRuns, bad : 0..MaxRuns, late : BOOLEAN, made : SUBSET Tests]

NewThread(c) ==
    [pc |-> "idle", of |-> c, total |-> 0, test |-> {}, good |-> 0, bad |-> 0,
     late |-> FALSE, made |-> {}]

Counts == [total : 0..MaxRuns, good : 0..MaxRuns, bad : 0..MaxRuns]

CampaignTypeOK ==
    /\ campaign \in [Campaigns -> CampaignStatuses]
    /\ assigned \in [Campaigns -> Agents]
    /\ plan \in [Campaigns -> 0..MaxRuns]
    /\ counts \in [Campaigns -> Counts]
    /\ logged \subseteq Campaigns
    /\ cancelling \subseteq Campaigns
    /\ thread \in [Sessions -> Threads]
    /\ timedOut \subseteq Tests

CampaignInit ==
    /\ Init
    /\ campaign = [c \in Campaigns |-> "absent"]
    /\ assigned = [c \in Campaigns |-> CHOOSE a \in Agents : TRUE]
    /\ plan = [c \in Campaigns |-> 0]
    /\ counts = [c \in Campaigns |-> [total |-> 0, good |-> 0, bad |-> 0]]
    /\ logged = {}
    /\ cancelling = {}
    /\ thread = [s \in Sessions |-> NewThread(CHOOSE c \in Campaigns : TRUE)]
    /\ timedOut = {}

Active == {"queued", "running"}

Runs(s, c) == thread[s].of = c /\ thread[s].pc \in ThreadPcs

Simulated(s) == assigned[thread[s].of] \in TestAgents

Goto(s, pc) == thread' = [thread EXCEPT ![s].pc = pc]

(* CampaignService.update_status: whatever the status was, if the row      *)
(* exists.                                                                 *)
SetStatus(c, st) ==
    campaign' = [campaign EXCEPT ![c] = IF @ = "deleted" THEN @ ELSE st]

-----------------------------------------------------------------------------
(* The REST handlers.                                                      *)

Create(c, a, n) ==
    /\ campaign[c] = "absent"
    /\ campaign' = [campaign EXCEPT ![c] = "draft"]
    /\ assigned' = [assigned EXCEPT ![c] = a]
    /\ plan' = [plan EXCEPT ![c] = n]
    /\ UNCHANGED <<dispatchVars, counts, logged, cancelling, thread, timedOut>>

UpdateConfig(c, n) ==
    /\ campaign[c] = "draft"
    /\ plan' = [plan EXCEPT ![c] = n]
    /\ UNCHANGED <<dispatchVars, campaign, assigned, counts, logged, cancelling, thread, timedOut>>

(* Logs refer to their campaign and are never removed: with foreign keys   *)
(* on, DELETE fails once there is one.                                     *)
Delete(c) ==
    /\ campaign[c] \notin {"absent", "deleted"}
    /\ c \notin logged
    /\ campaign' = [campaign EXCEPT ![c] = "deleted"]
    /\ UNCHANGED <<dispatchVars, assigned, plan, counts, logged, cancelling, thread, timedOut>>

(* launch_campaign reads the row, config included ...                      *)
LaunchCheck(s, c) ==
    /\ thread[s].pc = "idle"
    /\ campaign[c] \in {"draft", "failed"}
    /\ thread' = [thread EXCEPT ![s] =
                     [NewThread(c) EXCEPT !.pc = "admitted", !.total = plan[c]]]
    /\ UNCHANGED <<dispatchVars, webVars, timedOut>>

(* Mutant: the handler answers 202 and does not spawn the thread.          *)
LaunchWithoutThread(s) ==
    /\ thread[s].pc = "admitted"
    /\ SetStatus(thread[s].of, "queued")
    /\ Goto(s, "ended")
    /\ UNCHANGED <<dispatchVars, assigned, plan, counts, logged, cancelling, timedOut>>

(* ... then marks it queued and spawns the thread.                         *)
LaunchQueued(s) ==
    /\ thread[s].pc = "admitted"
    /\ SetStatus(thread[s].of, "queued")
    /\ Goto(s, "begin")
    /\ UNCHANGED <<dispatchVars, assigned, plan, counts, logged, cancelling, timedOut>>

(* cancel_campaign reads the row, then marks it cancelled.                 *)
CancelCheck(c) ==
    /\ campaign[c] \in Active
    /\ cancelling' = cancelling \cup {c}
    /\ UNCHANGED <<dispatchVars, campaign, assigned, plan, counts, logged, thread, timedOut>>

(* Mutant: the status is misspelled.                                       *)
CancelCommitMisspelled(c) ==
    /\ c \in cancelling
    /\ SetStatus(c, "canceled")
    /\ cancelling' = cancelling \ {c}
    /\ UNCHANGED <<dispatchVars, assigned, plan, counts, logged, thread, timedOut>>

CancelCommit(c) ==
    /\ c \in cancelling
    /\ SetStatus(c, "cancelled")
    /\ cancelling' = cancelling \ {c}
    /\ UNCHANGED <<dispatchVars, assigned, plan, counts, logged, thread, timedOut>>

-----------------------------------------------------------------------------
(* The executor thread, and the simulator where Simulated(s).              *)

(* Only the executor refuses a campaign without runs.                      *)
BeginEmpty(s) ==
    /\ thread[s].pc = "begin"
    /\ ~Simulated(s) /\ thread[s].total = 0
    /\ SetStatus(thread[s].of, "failed")
    /\ Goto(s, "ended")
    /\ UNCHANGED <<dispatchVars, assigned, plan, counts, logged, cancelling, timedOut>>

Begin(s) ==
    LET c == thread[s].of IN
    /\ thread[s].pc = "begin"
    /\ Simulated(s) \/ thread[s].total > 0
    /\ SetStatus(c, "running")
    /\ counts' = IF campaign[c] = "deleted" THEN counts
                 ELSE [counts EXCEPT ![c].total = thread[s].total]
    /\ Goto(s, "announce")
    /\ UNCHANGED <<dispatchVars, assigned, plan, logged, cancelling, timedOut>>

(* Mutant: the last run is left out.                                       *)
NextRunShort(s, done) == IF done + 1 >= thread[s].total THEN "finish" ELSE "loop"

NextRun(s, done) == IF done = thread[s].total THEN "finish" ELSE "loop"

(* The first log line.  Of a deleted campaign it violates the foreign key, *)
(* and so does the line the exception handler writes: the thread dies.     *)
Announce(s) ==
    LET c == thread[s].of
        deleted == campaign[c] = "deleted" IN
    /\ thread[s].pc = "announce"
    /\ Goto(s, IF deleted THEN "ended" ELSE NextRun(s, 0))
    /\ logged' = IF deleted THEN logged ELSE logged \cup {c}
    /\ UNCHANGED <<dispatchVars, campaign, assigned, plan, counts, cancelling, timedOut>>

IsCancelled(s) == campaign[thread[s].of] = "cancelled"

LoopTop(s) ==
    /\ thread[s].pc = "loop"
    /\ Goto(s, IF IsCancelled(s) THEN "ended" ELSE "insert")
    /\ UNCHANGED <<dispatchVars, webVars, timedOut>>

(* The row's id and created_at, taken before the write lock ...            *)
TakeRunTime(s, t) ==
    /\ thread[s].pc = "insert"
    /\ TakeTime(t, assigned[thread[s].of])
    /\ thread' = [thread EXCEPT ![s].pc = "stamped", ![s].test = {t}, ![s].made = @ \cup {t}]
    /\ UNCHANGED <<webVars, timedOut>>

(* ... and its INSERT; the simulator simulates the test in this thread.    *)
InsertRun(s) ==
    /\ thread[s].pc = "stamped"
    /\ \E t \in thread[s].test : InsertTest(t)
    /\ thread' = [thread EXCEPT ![s].pc = "poll", ![s].late = FALSE]
    /\ UNCHANGED <<webVars, timedOut>>

DeadlinePasses(s) ==
    /\ thread[s].pc \in {"poll", "read"} /\ ~Simulated(s)
    /\ ~thread[s].late
    /\ thread' = [thread EXCEPT ![s].late = TRUE]
    /\ UNCHANGED <<dispatchVars, webVars, timedOut>>

(* One run more counted as good or bad, then on to the next one.           *)
Count(s, good, bad) ==
    thread' = [thread EXCEPT ![s].pc = NextRun(s, thread[s].good + thread[s].bad + 1),
                             ![s].good = @ + good, ![s].bad = @ + bad]

(* Mutant: the executor fails the row it gives up on.                      *)
TimeOutFailsRow(s) ==
    /\ thread[s].pc = "poll" /\ thread[s].late
    /\ Count(s, 0, 1)
    /\ timedOut' = timedOut \cup thread[s].test
    /\ status' = [t \in Tests |-> IF t \in thread[s].test THEN "failed" ELSE status[t]]
    /\ UNCHANGED <<cmd, rows, launching, today, beatVars, workVars, postVars, webVars>>

(* _wait_for_test gives up.  The row is left as it is.                     *)
TimeOut(s) ==
    /\ thread[s].pc = "poll" /\ thread[s].late
    /\ Count(s, 0, 1)
    /\ timedOut' = timedOut \cup thread[s].test
    /\ UNCHANGED <<dispatchVars, webVars>>

PollCheck(s) ==
    /\ thread[s].pc = "poll" /\ ~thread[s].late /\ ~Simulated(s)
    /\ Goto(s, IF IsCancelled(s) THEN "ended" ELSE "read")
    /\ UNCHANGED <<dispatchVars, webVars, timedOut>>

(* simulate_test_execution returns.                                        *)
SimulationReturns(s) ==
    /\ thread[s].pc = "poll" /\ Simulated(s)
    /\ \A t \in thread[s].test : worker[t] = "done"
    /\ Goto(s, "read")
    /\ UNCHANGED <<dispatchVars, webVars, timedOut>>

RowIn(s, states) == \A t \in thread[s].test : status[t] \in states

(* Mutant: a row that was dispatched counts as ended.                      *)
ReadRowEarly(s) ==
    /\ thread[s].pc = "read"
    /\ IF RowIn(s, {"completed"}) THEN Count(s, 1, 0)
       ELSE IF Simulated(s) \/ ~RowIn(s, {"queued"}) THEN Count(s, 0, 1)
       ELSE Goto(s, "poll")
    /\ UNCHANGED <<dispatchVars, webVars, timedOut>>

(* Mutant: every row that ended counts as succeeded.                       *)
ReadRowAsGood(s) ==
    /\ thread[s].pc = "read"
    /\ IF RowIn(s, Terminal) THEN Count(s, 1, 0)
       ELSE IF Simulated(s) THEN Count(s, 0, 1)
       ELSE Goto(s, "poll")
    /\ UNCHANGED <<dispatchVars, webVars, timedOut>>

(* Mutant: each pass of the loop of _wait_for_test reads a new start time. *)
ReadRowNewStart(s) ==
    /\ thread[s].pc = "read"
    /\ IF RowIn(s, {"completed"}) THEN Count(s, 1, 0)
       ELSE IF Simulated(s) \/ RowIn(s, {"failed"}) THEN Count(s, 0, 1)
       ELSE thread' = [thread EXCEPT ![s].pc = "poll", ![s].late = FALSE]
    /\ UNCHANGED <<dispatchVars, webVars, timedOut>>

(* The executor polls until the row is terminal; the simulator counts what *)
(* is not completed as failed.                                             *)
ReadRow(s) ==
    /\ thread[s].pc = "read"
    /\ IF RowIn(s, {"completed"}) THEN Count(s, 1, 0)
       ELSE IF Simulated(s) \/ RowIn(s, {"failed"}) THEN Count(s, 0, 1)
       ELSE Goto(s, "poll")
    /\ UNCHANGED <<dispatchVars, webVars, timedOut>>

(* The last update has no look at the status either.                       *)
Finish(s) ==
    LET c == thread[s].of IN
    /\ thread[s].pc = "finish"
    /\ SetStatus(c, "completed")
    /\ counts' = [counts EXCEPT ![c].good = thread[s].good, ![c].bad = thread[s].bad]
    /\ Goto(s, "ended")
    /\ UNCHANGED <<dispatchVars, assigned, plan, logged, cancelling, timedOut>>

(* A statement of the thread raises ("database is locked"); the exception  *)
(* handler marks the campaign failed.  On a campaign without a row the     *)
(* executor's handler fails too.  What simulate_test_execution raises, it  *)
(* catches itself (SimFail).                                               *)
ExecutorFails(s) ==
    LET c == thread[s].of IN
    /\ "executorError" \in Env
    /\ thread[s].pc \in ThreadPcs
    /\ ~(Simulated(s) /\ thread[s].pc = "poll")
    /\ SetStatus(c, "failed")
    /\ logged' = IF Simulated(s) \/ campaign[c] = "deleted" THEN logged
                 ELSE logged \cup {c}
    /\ Goto(s, "ended")
    /\ UNCHANGED <<dispatchVars, assigned, plan, counts, cancelling, timedOut>>

ExecutorStep(s) ==
    \/ BeginEmpty(s)
    \/ Begin(s)
    \/ Announce(s)
    \/ LoopTop(s)
    \/ \E t \in Tests : TakeRunTime(s, t)
    \/ InsertRun(s)
    \/ TimeOut(s)
    \/ PollCheck(s)
    \/ SimulationReturns(s)
    \/ ReadRow(s)
    \/ Finish(s)

(* Nothing takes up the campaigns of a server that went down: their rows   *)
(* stay, their threads and the requests in progress do not.                *)
CampaignServerRestart ==
    /\ ServerRestart
    /\ cancelling' = {}
    /\ thread' = [s \in Sessions |->
                     IF thread[s].pc = "idle" THEN thread[s]
                     ELSE [thread[s] EXCEPT !.pc = "ended"]]
    /\ UNCHANGED <<campaign, assigned, plan, counts, logged, timedOut>>

-----------------------------------------------------------------------------

CampaignApi(c) ==
    \/ \E n \in 0..MaxRuns : UpdateConfig(c, n) \/ \E a \in Agents : Create(c, a, n)
    \/ Delete(c)
    \/ \E s \in Sessions : LaunchCheck(s, c)
    \/ CancelCheck(c)
    \/ CancelCommit(c)

(* The rows a thread took a time for are its own to insert.                *)
UsersOnly ==
    /\ rows' = rows \/ rows < UserRows
    /\ \A s \in Sessions : thread[s].made \cap launching \subseteq launching'

CampaignNext ==
    \/ \E c \in Campaigns : CampaignApi(c)
    \/ \E s \in Sessions : LaunchQueued(s)
    \/ \E s \in Sessions : ExecutorStep(s)
    \/ \E s \in Sessions : DeadlinePasses(s)
    \/ \E s \in Sessions : ExecutorFails(s)
    \/ CampaignServerRestart
    \/ Operate /\ UsersOnly /\ UNCHANGED campaignVars

CampaignSpec == CampaignInit /\ [][CampaignNext]_allVars

(* Threads of the server run on, time passes, and a simulator thread gets  *)
(* to the end of a test.  Nothing is assumed of the agents.                *)
CampaignFairness ==
    /\ \A s \in Sessions :
          /\ WF_allVars(LaunchQueued(s))
          /\ WF_allVars(ExecutorStep(s))
          /\ WF_allVars(DeadlinePasses(s))
    /\ \A t \in Tests : WF_allVars(Simulate(t) /\ UNCHANGED campaignVars)

FairCampaignSpec == CampaignSpec /\ CampaignFairness

-----------------------------------------------------------------------------
(* Properties.                                                             *)

MadeFor(c) == UNION {thread[s].made : s \in {r \in Sessions : thread[r].of = c}}

(* As long as the server stays up, a campaign shown as queued or running   *)
(* has a thread that will take it further: no order of launches, cancels,  *)
(* deletes and failures leaves it stuck.                                   *)
ActiveHasExecutor ==
    "serverCrash" \notin Env =>
        \A c \in Campaigns : campaign[c] \in Active => \E s \in Sessions : Runs(s, c)

(* The executor "waits for it to finish before queuing the next": a test   *)
(* it left behind ended on its agent, unless the wait timed out or a user  *)
(* stopped the test (the executor knows only the row's status, which late  *)
(* and reordered POSTs write).                                             *)
LeftBehindEnded ==
    \A s \in Sessions : \A t \in thread[s].made :
        \/ t \in thread[s].test /\ thread[s].pc \in {"stamped", "poll", "read", "ended"}
        \/ exit[t] # "none"
        \/ t \in timedOut \cup stopped

(* The succeeded column counts no more runs than really succeeded.         *)
SucceededIsEarned ==
    \A c \in Campaigns :
        counts[c].good <= Cardinality({t \in MadeFor(c) : exit[t] = "completed"})

(* The counts of a completed campaign account for every run of the config  *)
(* it was launched with, each with a row of its own, also when launches    *)
(* overlap.                                                                *)
CompletedIsCounted ==
    \A c \in Campaigns : campaign[c] = "completed" =>
        \E s \in Sessions :
            /\ thread[s].of = c
            /\ counts[c].good = thread[s].good /\ counts[c].bad = thread[s].bad
            /\ thread[s].good + thread[s].bad = thread[s].total
            /\ Cardinality(thread[s].made) = thread[s].total

(* Every launched campaign ends, whatever its agent does: the 30-minute    *)
(* limit bounds each wait.                                                 *)
LaunchedCampaignEnds ==
    \A c \in Campaigns : campaign[c] \in Active ~> campaign[c] \notin Active

(* The rows the executors insert take the same path as any other: the      *)
(* composition implements QuickTestDispatch.                               *)
ImplementsDispatch == Spec

(* docs/reference/api.md:80: POST .../cancel is there to "cancel a running *)
(* campaign".  A campaign marked cancelled is not run or completed later.  *)
CancelSticks ==
    [][\A c \in Campaigns :
          campaign[c] = "cancelled" => campaign'[c] \notin {"running", "completed"}]_allVars

(* docs/guides/campaigns.md:146: the executor "waits for it to finish      *)
(* before queuing the next".  A campaign has one test in flight at a time, *)
(* but for tests whose wait timed out.                                     *)
InFlight(c) ==
    {t \in MadeFor(c) \ timedOut : status[t] \in {"queued", "dispatched", "running"}}

OneTestInFlight == \A c \in Campaigns : Cardinality(InFlight(c)) <= 1

=============================================================================
