# KITT: TLA+ models and proofs

KITT benchmarks LLM inference engines. A web server keeps agents, campaigns,
tests and results in SQLite; a thin agent on each GPU machine asks the server
for work in its heartbeats, runs a benchmark container and posts back what
happened. `kitt run` measures one engine with one model; `kitt campaign run`, a
script and `kitt remote` do so for many. This project models all of these where
state outlives a step: what several processes have to agree about, what is kept
on disk across deaths, and what a report may claim.

Paths below are relative to the repository (`src/kitt/...` is the server and
CLI, `agent-package/src/kitt_agent/...` the agent).

## 1. Inventory

| Component | State | Operations | Talks to | What is hard | What makes it correct |
|---|---|---|---|---|---|
| Dispatch queue (`web/api/v1/quicktest.py`, `services/agent_manager.py`, `api/v1/{agents,engines}.py`) | `quick_tests` rows | insert as queued; heartbeat hands one row out and marks it dispatched; status and result POSTs | agents over HTTP, event bus | handlers run in threads; responses lost after commit; POSTs late, reordered, lost | a command is executed at most once; rows tell the truth; launch order |
| Agent daemon (`kitt_agent/daemon.py`, `heartbeat.py`, `cli.py`) | one thread per command, heartbeat loop | take commands, run them, post, `test stop` | server, Docker, model storage | no limit on concurrent commands; errors outside `try`; crash | a command that is taken ends with its status posted |
| Test-agent simulator (`services/test_simulator.py`) | a server thread per test or campaign | run, save a result, complete or fail | the same rows | dies with the server | same outcome path as a real agent |
| Web campaigns (`api/v1/campaigns.py`, `services/campaign_service.py`, `campaign_executor.py`) | `web_campaigns`, `campaign_logs`, an executor thread | create, update, delete, launch, cancel; insert runs one by one and poll | dispatch queue | check-then-act handlers, cancel and delete races, timeouts, restart | an active campaign has an executor and ends; counts are right; one test at a time |
| CLI campaign runner (`campaign/runner.py`, `state_manager.py`, `scheduler.py`, `gguf_discovery.py`) | JSON state file, models on disk | plan, resume, download, measure, save, remove | `kitt run`, Docker, Devon | deaths between two saves, leftovers of other quantizations, disk limits | what the file says was earned; a whole model is measured; what stays has a reason |
| Parallel runner (`campaign/parallel_runner.py`) | prefetched model | download the next model during a benchmark | runner | prefetch against cleanup | a benchmark finds its model |
| `kitt run` and engines (`cli/run.py`, `engines/`) | containers, processes, ports | start, wait for health, load, measure, stop, report | Docker, native engines | a port answers, not an engine; deaths; two runs on one machine | a report is of the run's own engine and model |
| Benchmarks and suites (`runners/`, `benchmarks/`) | configuration, results | merge, run n times, score, count | engine | failures in the middle, restarts of the engine | counts add up, passed means no failure |
| Checkpoints (`runners/checkpoint.py`, `benchmarks/loader.py`) | last index, outputs | save, load, clear | YAML benchmarks | file rewritten in place, torn; resumed runs | each item once |
| Campaign script (`scripts/benchmark_campaign.py`) | its state file | batches per engine, resume | `kitt run`, Devon | save at the end of a batch | a cell is measured once |
| Remote execution (`remote/`, `cli/remote_commands.py`) | hosts.yaml, a detached process, copied results | setup, start, poll, sync | ssh, scp | lost connection, quoted paths | no verdict on a running campaign |
| Agent model storage (`kitt_agent/model_storage.py`) | local copies of models | resolve (copy from share), clean up | test threads | copy in place, shared copies, auto-cleanup | a running benchmark's copy is whole and stays |
| Engine operations (`kitt_agent/engine_ops.py`, `docker_ops.py`) | process table, containers | install, start, stop, status | daemon threads | check, start, record 0.5 s later | no engine escapes the table, no container is forgotten |
| Agent process (`kitt_agent/cli.py`, `build.py`, `service.py`) | pid file, port, package | start, stop, update, build, service | server, systemd | pid file before port, reused pids | the agent that listens is the one stop finds |
| Agent registry (`agent_manager.py`, `kitt_agent/registration.py`, `heartbeat.py`) | `agents` rows, token hashes | provision, register, rotate, mark offline, delete | heartbeat loop | re-registration on 404, stale detection | a live agent is not refused or shown offline for good |
| Event bus, log streams (`services/event_bus.py`, `kitt_agent/log_streamer.py`) | history of 200, a queue of 100 per subscriber | publish, subscribe | browsers | full queues, late subscribers | a page lacks only what is documented to be dropped |
| Migrations (`storage/migrations.py`) | schema version | migrate | everything that opens the database | crash between statement and version, several processes | an open database is whole |
| Result store (`storage/sqlite_store.py`) | results and their rows | save, delete | request threads | one connection shared without a lock | a save is all or nothing |
| Health recovery (`engines/health_recovery.py`) | retry count | generate, restart container | - | no part of the program uses it | - |
| Reporters, recommendation, hardware, stacks, monitoring, bot, devon client, TUI, CI, plugins, settings pages | little or none | external calls, computation, formatting | - | - | left out, see section 7 |

The hazards, each at its line, are in `PROJECT.json`, with the properties that
are about them.

## 2. Modules

| Module | What it is |
|---|---|
| `CommandDelivery` | abstract: what the channel promises about one command |
| `QuickTestDispatch` | the table, the heartbeat, the agents' threads, the simulators, the user's stop |
| `CampaignExecution` | extends `QuickTestDispatch` with campaigns and their executor threads |
| `ModelStorage`, `EngineOps`, `AgentProcess` | an agent's machine: model copies; engines and containers; the kitt-agent processes |
| `CampaignRunner`, `BenchmarkRun`, `BenchmarkSuite`, `ItemCheckpoint`, `CampaignScript`, `RemoteCampaign` | the machine that measures: `kitt campaign run`, `kitt run`, suites, checkpoints, the script, `kitt remote` |
| `MeasuredCampaign` | `CampaignRunner` and `BenchmarkRun` composed: the campaign's child is a whole `kitt run` |
| `AgentRegistry`, `EventStream`, `SchemaMigration`, `ResultStore` | the server: agents and tokens, live streams, schema, results |
| `QuickTestDispatchProofs`, `CampaignExecutionProofs`, `CampaignCountProofs` | theorems about dispatch and campaigns |
| `AgentHostProofs`, `RunnerSideProofs`, `ServerSideProofs` | theorems about the modules of an agent's machine, of the measuring machine and of the server, which are independent of each other, and the types of the three instances |
| `BenchmarkRunProofs`, `MeasuredCampaignProofs` | theorems about `kitt run`; about campaigns and about both together |
| `MCQuickTestDispatch`, `MCCampaignExecution`, `MCAgentHost`, `MCRunnerSide`, `MCServerSide`, `MCMeasuredCampaign`, `MCItsQuantization` | instances for TLC |

`CampaignExecution` composes with the dispatch path by taking its actions:
`TakeRunTime` and `InsertRun` contain `TakeTime` and `InsertTest`, the server
restart extends `ServerRestart`, everything else of the path interleaves.
`ImplementsDispatch` says that nothing else happens to the shared variables.
`QuickTestDispatch` in turn implements `CommandDelivery` under the mapping
`StageOf`.

### QuickTestDispatch

A row is `status[t]` and `cmd[t]` (kind, agent, and `created_at` as a day and a number).
`test_id` and `command_id` are one to one and are one id here. A launch takes
`created_at` before it asks for the write lock (`TakeTime`; then it is in `launching`)
and inserts later (`InsertTest`), so that rows may be inserted in another order than that
of their times; command rows get theirs in the INSERT. The wire is
explicit on both sides:

* The heartbeat: `beat[a]` is where the agent's single call stands, `reply[a]`
  the response on its way, `stale[a]` the requests the agent gave up on and the
  server will still handle. `ServeBeat` is the critical section of
  `AgentManager.heartbeat`: query, mark, respond. `TakeReply` is
  `_dispatch_command` for each command, which starts a thread or, for
  `stop_engine`, logs and forgets.
* The POSTs: `wire` is a set of status and result POSTs. `_post_json` swallows
  every error, so a POST may be lost; without `slowPost` the thread waits for its POST to
  be handled (`Settled`), with it POSTs are handled in any order.
* The thread: `worker[t]` is its program counter and `exit[t]`, which no code
  reads, how its work ended as the thread saw it; the table is held against it. The
  except path of a test is taken when the call or the reading of its output raises
  (failed, though the child may run on), or, with `reportError`, when the report does:
  then `failed` is posted after `completed` (`ReportRaises`, worker `raised`).

`ORDER BY created_at` is modelled by what it does to text. Benchmark rows carry
`isoformat()` ("...T10:00") and command rows SQLite's default ("... 10:00"), so
on one day all commands sort before all benchmarks. The model takes the server's
clock to be UTC and monotonic by day; elsewhere the two formats are also
hours apart.

`Env` names what the environment may do: `lostRequest`, `slowRequest`,
`lostReply`, `lostPost`, `slowPost`, `agentCrash`, `serverCrash`,
`resolveError` (the model cannot be resolved), `reportError`, `simError`,
`executorError`, `userStop`. A property that needs a benign environment says so in its own
condition, and a run picks the events its question is about.

### CampaignExecution

A handler reads the campaign and updates it in two critical sections, so
`LaunchCheck`/`LaunchQueued` and `CancelCheck`/`CancelCommit` are separate
steps, and so are the executor's reads and writes (`LoopTop`, `PollCheck`,
`ReadRow`, `Finish`). `thread[s]` is one launch request and then its thread,
with the locals of `_run_campaign`: the config as read by launch, the row it
waits for, its counters and whether the deadline passed. The simulator of a
test agent has the same loop without deadline and cancel check in its wait
(`Simulated`). `logged` is there for one reason: `campaign_logs` has a foreign
key, so a logged campaign cannot be deleted, and the thread of a campaign
deleted before its first log line dies in its own exception handler. Of the
statements that may raise, one raises per thread and its handler succeeds.
`made` and `timedOut` record what a thread did, for the properties only.

In every module that follows, disturbances are named in a constant (`Faults`,
`EngineFaults`, ...), so that an instance chooses them, and variables marked
"properties only" are history that no action reads.

### ModelStorage

`tree[place][model]` is absent, partial or whole; `job[t]` a command thread.
`resolve_model` is the steps `resolve`, `create` (mkdir), `copy` and `ready`: another thread sees
the directory as soon as it is made, and takes it for the model, as the code
does. A copy that fails leaves what it copied and the test goes on with the
share's path. Cleanup commands remove entries one by one. `cleanup_model` is a look
(`CleanupModel`: does the path exist, is it under the storage directory of now), the
first file removed (`BeginRemoval`) and the end of it (`EndRemoval`): settings may change
in between, another thread may find or copy what is half gone, and with `removeFails`, or
where another thread is at the same files, `rmtree` raises before, between or after
(`RemovalRaises`), which ends the thread. Settings may change directory and `auto_cleanup`
at any time; a crash leaves the tree, half-removed entries included, and no job.
`trouble` marks what happened to an entry: `failed` (a copy or a removal that raised
halfway), `cut` (one that a crash cut off), `unremoved` (a removal that raised at its first
file), and others.

### EngineOps

`start_engine` is `check`, `spawn`, `verify` (the 0.5 s), each a step of a
command thread; `stop_engine` is `pop`, `kill` and the systemd unit. A process
that exits at once is reported and forgotten. `run_container` is there with its health check
and its table `active_containers`. `docker logs -f` ends with the container or, with
`logsEnd`, before it: whatever ended it, the `finally` block forgets the container.

### AgentProcess

`kitt-agent start` registers, starts its heartbeat, writes the pid file, and
only then binds its port;
`stop` and `update --restart` read that file. Pids are reused. The systemd service
restarts what failed. `served` and the digest steps are the build download.

### CampaignRunner

One process at a time. `run` of the state file is saved before and after each
benchmark; a save may fail and is only logged, the process may die anywhere, and
its `kitt run` may outlive it (`orphan`). A model takes room; the disk
check, the size limit, GGUF discovery with its fallbacks, cleanup by repository
and the prefetch thread of the parallel runner are actions. `excused` collects the
reasons for which something may stay. `_run_benchmark` is two steps, `StartBench`
and `EndBench`, and of the child there is only what a campaign may meet of it: its
exit, a container (`engineOn`), a child that goes on without its parent (`orphans`).

### BenchmarkRun

`kitt run` from the choice of mode and port to the report. `listener[port]` is
whoever bound the port, `server[r]` the engine of a run, `tags` the models of an
Ollama: an answer comes from the listener, whoever it is. Two runs share the machine, and what one
leaves meets the next. A `docker run` may be out of its 30 seconds with the container up
(`runTimesOut`), and a native Ollama answers a create or a pull in a body that is not
read: with `loadUnread` the run goes on and the import ends later or never
(`ImportEnds`). ExLlamaV2's container binds 8080 and its health check asks
8082, as in the code. `Ports` are those that KITT uses and whatever `--config` asks for.
`IsOwn` says whose answer a report may hold; the models in the home of the user
outlive every run, so an Ollama of that home may answer, under a tag that two
GGUF files share, with the model of a run that is long over (see section 6), and where an
import was not read to its end, with what that name held or comes to hold (`Unread`).

### MeasuredCampaign

Here the child is a run of `BenchmarkRun`. `StartChild` begins one for the current
key, with the arguments of `_run_benchmark` (no mode and no configuration, so the
engine's default mode and port); `ChildEnds` reads whether it wrote a report,
which is what exit status 0 means in `cli/run.py`; `SweepContainers` removes
containers of any run, also of runs that go on; `CampaignDies` kills the child or
leaves it as an orphan. `MachineStep` is everything else that runs do, those of
the campaign and those that a user starts beside it. `engineOn` and `orphans` of
`CampaignRunner` are computed from the machine after each step (`TakesStock`), and
the two refinements say that neither module, read through its own variables, sees
anything that it does not allow. Writing the composition corrected
`CampaignRunner` in four places where it had promised too much of a child: a run
that exits with 0 may leave its container (the status of `docker stop` is not
looked at, fault `stopFails`), a `docker rm -f` of several may remove some,
removing the container of an orphan does not end the orphan, and a child that is
killed, or an orphan that ends, may leave a container as well.

### BenchmarkSuite, ItemCheckpoint

`BenchmarkSuite` runs each of the nineteen built-in benchmarks against an
arbitrary sequence of outcomes and keeps what its code counts (outputs,
errors, correct, total, passed). `ItemCheckpoint` is the loop of a YAML
benchmark with its file. Reading the index and reading the outputs are two
steps. A write empties the file before it fills it, so that one that is killed or fails on
the way leaves a torn file (`TornCheckpoint`), which both reads take for none; one
that cannot open the file leaves the last checkpoint.

### CampaignScript

`batch` holds outcomes that the script has and its file has not: they are saved
when a model's batch is over. `from` is `--resume-from`.

### RemoteCampaign

A quoted `~` leads to the home directory only if the host happens to have such a
link (`tildeLink`); `pgrep -f` may match its own shell (`shellMatches`). A
`start` always says it started, unless ssh fails, before or after the campaign was started
(`Launched`); any poll answer but "running" ends the wait.

### AgentRegistry

Time is in units of 30 s. A beat comes later than its interval by what the agent
needs beside the wait: engines and disk to look at, requests of up to 10 s each,
the commands in the answer; `late` counts it, up to `Latency`. Handlers check the
token against the row read before, so registration is a check and a commit, and a
beat resolves its id before it is served; the answer is a step of its own and may
be lost after the handler committed (`AnswerLost`). `missed` says that the last
beat did not arrive.

### EventStream

`EventBus` and `LogStreamer` are one module with a flag (`replays`). A page reads
its row, then subscribes: the gap between the two steps is in the model.

### SchemaMigration, ResultStore

`SchemaMigration`: each statement commits by itself, "once" statements fail when
repeated, the version row is a step of its own and so is each part of the Python step of a
version; a part that adds a column looks for it (`LookForColumn`) and adds it later
(`AddColumn`), which raises when another process was faster; three processes open the
file, and any may die. `ResultStore`: request threads
insert over one connection, so that a commit of any takes the rows of all;
`lastrowid` is read after the insert, and another thread may have inserted in
between. Other tables are written over a second connection, which waits for the
database lock and gives up.

## 3. Properties

`QuickTestDispatch`: `AtMostOnePlace` (a command is queued, in a response or
with a thread, never in two places), `StatusIsEarned` (no status is claimed that
the work did not have), `BenchmarksInOrder`, `DispatchedIsHeld` (if no response
is lost and nothing restarts, a dispatched row is with its agent),
`StatusMovesForward` (when POSTs are waited for and no user posts one, statuses
only advance: this is what the missing guard in `update_status` relies on; TLC
finds it violated as soon as either is allowed), `QueuedWorkEnds` (liveness),
`ImplementsDelivery` (refinement).

`CampaignExecution`: `LeftBehindEnded` (the executor goes on only when the test
it waited for has really ended, timed out or was stopped), `SucceededIsEarned`,
`CompletedIsCounted`, `ActiveHasExecutor`, `LaunchedCampaignEnds` (liveness),
`ImplementsDispatch` (refinement).

The agent's machine: `RunsOnWholeModel`, `CopiesGo`, `OnlyStorageShrinks`,
`NoEngineLost`, `NoContainerForgotten`, `ListenerIsReachable`.

The machine that measures: `MeasuresWholeModel`, `RecordedIsEarned`,
`LeftoverIsExplained`, `MeasuresItsOwnEngine`, `ResultsAddUp`, `PassedIsWhole`,
`MeasuredOnce`, `VerdictIsExplained`. Of a campaign with its runs:
`SuccessIsReported` (a success in the state file has a report, by a child that
this campaign started for that key), `CampaignMeasuresItsModel` (with no
stranger at the port, reports are of the own engine and model),
`ImplementsParts` (both refinements, `ImplementsCampaign` and `ImplementsRuns`).

The server: `OfflineIsSilent`, `AgentRecovers` (liveness), `NothingElseIsLost`,
`PageLacksOnlyTheGap`, `OpenMeansWhole`, `RecordedMeansRun`, `SavesAreAtomic`.

`RecordedMeansRun`, `OnlyStorageShrinks` and `DispatchInv` (section 6) are proved and in no
run; TLC finds them to hold on the instances of `server_side`, `agent_host` and
`dispatch_safety` as well.

Much of this code is best effort: a failed copy, save or stop is logged and the
program goes on. The property then names every way in which the good state may be
missed, as history variables, and says that there is no other one. That is what
is worth knowing of such code, and each such list was found with TLC.

Every property of a passing run has a mutant in `PROJECT.json`: an operator
next to the definition it replaces, with a plausible bug, that TLC must find.

## 4. Runs

| Run | Instance | Shows |
|---|---|---|
| `dispatch_safety` | 2 rows, a real and a test agent, 2 days, 1 late heartbeat, every event | the safety properties and the refinement (1.2 million states) |
| `dispatch_liveness` | the same agents, only heartbeat requests lost and simulator errors, weak and strong fairness | every queued command ends |
| `campaign_safety` | 1 campaign of up to 2 runs, 1 launch, real or test agent, late POSTs, server restarts, exceptions | the executor against the dispatch path |
| `campaign_ends` | 2 overlapping launches of 1 campaign, an agent that may never answer | executor kept, counts, end |
| `agent_host` | 2 test threads, 1 model, 2 directories; 3 commands, 3 engines, 2 pids; 2 kitt-agent processes | the agent's machine (0.6 million states) |
| `measured_campaign` | a campaign of 2 runs, 2 starts, and 2 `kitt run` in all, any of them the campaign's or a user's; 1 engine and port, 1 item | a campaign and its runs; both refinements |
| `runner_side` | a campaign of 3 runs, 2 of one repository, sequential and parallel, 2 starts, every fault; 2 `kitt run`; 3 attempts of 3 items; each benchmark with 2 prompts; 3 cells, 2 scripts; 2 operators, 1 host | the machine that measures (3.1 million states) |
| `server_side` | 1 machine, 2 names, 2 ids, 2 tokens; 4 events, 2 subscribers; 5 versions, 3 processes; 2 saves, a delete, another writer | the server (0.7 million states) |
| `stopped_stays_stopped`, `cancel_sticks`, `one_test_in_flight`, `measures_its_quantization` | smallest instance each | violated: the findings below |

Bounds. `Tests`, `Agents`, `Campaigns`, `Sessions` bound what exists; each row
id and each launch request is used once. Two rows are enough for every race
between two commands of an agent (order, two in one response, one queued while
one runs); a third adds no new kind of interaction, since actions relate
at most two rows. Two launches are what double launch and relaunch
need. `MaxStale` bounds abandoned heartbeats still at the server, `MaxDay` the
midnights (in `dispatch_safety` one passes between two stamps only, since the day does
nothing but stamp rows), `MaxRuns` the runs of a campaign, `UserRows` the rows that users add
beside a campaign (none in the runs: the executors use the row ids up). The theorems of
section 6 hold without these bounds. The rows are symmetric in the safety runs
(no definition chooses among them), never in the liveness runs. Deadlock is checked in
every run of the dispatch path; a heartbeat loop never ends, and in a run without one a poll goes on.

The runs `agent_host`, `runner_side` and `server_side` hold several components
that share no state. The variable `part` chooses one, and the others rest: the run
explores the sum of their state spaces, not the product, and no behaviour is
missed by that. Their threads and processes end, so deadlock is not checked there,
and for the same reason not in `measured_campaign` and
`measures_its_quantization`. Bounds of these runs: two threads on one entry are
what an overlap needs (the second directory is for settings that move the
storage); two pids and three commands allow two starts and a stop of one engine;
two `kitt run` are the own one and the one it meets, two starts of a campaign a
death and a resume, and three runs one that fits, one that does not and one after
both; three attempts are a failure, a resume and one that finishes, with `Every` =
2 of 3 items so that one item lies past the last checkpoint; the instance lets
them, and the two `kitt run`, start in one order, of which all others are
renamings, and the third attempt only when both others are over (`InTurn`): two
that meet are what a torn read and a file overwritten by another need, and of
attempts that have met `PassedIsWhole` says nothing. The theorems are of
`SideSpec`, which has no such order; histories of 3 and queues of 2 overflow with
4 events; two tokens and ids are a rotation and a row made anew; intervals of 1
and 3 units with a patience of 3 are one well within it and one at the very limit,
where a `Latency` of 2 makes a beat too late; five versions hold each kind of
script with no Python step, one part and two parts (two columns). In
`measured_campaign` two `kitt run` of one engine are a campaign's child and a
stranger, or an orphan and the child of the resumed campaign, or two children in
turn; its engine, llama.cpp, answers for any model, which is the case in which a
foreign answer goes unnoticed. `MaxDeaths`, `MaxStarts`, `MaxScripts`,
`MaxCommands`, `MaxBuilds`, `MaxPolls`, `MaxEvents`, `MaxIds`, `MaxTokens` and
`MaxRuns` are in guards.

Fairness. `Fairness` assumes that the heartbeat loop goes on (`heartbeat.py:54-83`
catches every exception), that started threads run on and their processes end,
that the server handles what reaches it, and that not every heartbeat is lost for
ever: strong fairness of `ServeBeat`, since a loss disables it again and again.
`CampaignFairness` assumes that the server's threads run, that time passes, and
that a simulated test gets to its end; nothing of agents, which is the point of
the 30-minute limit. `RegistryFairness` assumes that the agent's heartbeat thread
and the server run and time passes, and that of a request that is sent again and
again some copy arrives and some answer to it does (strong fairness of the steps
that a loss disables). `AgentRecovers` further holds only for an agent whose token
the server takes from some time on.

## 5. Findings

* `StoppedStaysStopped`: `kitt-agent test stop` ("cancel a running test",
  README.md:305) marks the row failed, the daemon refuses the `cancel` command
  (daemon.py:670), the test runs on, and its last POST makes the row completed.
* `CancelSticks`: a cancel (api.md:80) between the launch and the executor's
  first update, or between its last check and its last update, is overwritten
  (campaign_executor.py:84 and :189).
* `OneTestInFlight`: two launch requests that read `draft` before either writes
  start two executors (campaigns.py:111-122), against "waits for it to
  finish before queuing the next" (docs/guides/campaigns.md:146).
* `MeasuresItsQuantization`: "For GGUF files, find the specific file"
  (runner.py:429); but the pattern passed for shards names no file, and the last
  fallback takes the first GGUF file of the repository, which may be another
  quantization that is still on disk (gguf_discovery.py:225).

Other places where the code does not do what a text beside it says. They are in
the models as the code has them, and no run is about them:

* README.md:316 lists stopping engines among the commands an agent receives; the
  server queues `stop_engine`, and `_dispatch_command` (daemon.py:597) does not
  know it: it is logged as unknown and the row stays dispatched.
* "Only pending and failed runs are re-executed" (docs/guides/campaigns.md:107);
  `completed_keys` counts failed and skipped runs as done (state_manager.py:46),
  so a resume never repeats them.
* `--resume` without an id starts a new campaign, while `--resume` is documented to
  continue the one that was interrupted.
* `kitt run` uses the Python benchmarks with `warmup` and `runs` only: the
  datasets of mmlu, gsm8k, truthfulqa and hellaswag stay empty, and an empty one
  passes; `tensor_parallel` and `speculative_decoding` always refuse.
* A checkpoint's name has no model and no engine
  (docs/concepts/benchmark-system.md:83).
* ExLlamaV2's container listens on 8080 and is asked on 8082, so it is never
  healthy without `port: 8080`; the containers of vLLM and Ollama ignore a
  configured port.
* "disk.reserve_gb" is kept by the sequential runner; a prefetch may use it up.
  A dry run of the parallel runner downloads, and dry runs are recorded as
  success.
* `HeartbeatThread.set_status` (docs/changelog.md:144) is never called; an interval of
  up to 300 s may be set, and the server's patience is 90 s: at 90 s, too, an agent is shown
  offline, by the time its beat takes beside the wait.
* A remote campaign "completed" may be one that never started: `nohup ... &`
  always yields a pid, and the default paths begin with a quoted `~`. `scp -r`
  nests directories, so an incremental sync never recognises what it has.
* The campaign script says "State saved" on Ctrl-C; a batch in progress is not.

## 6. Theorems

All are proved for every value of the constants (sets of rows, agents, models,
threads, disturbances, and every bound), from the assumptions named in the
modules. For the dispatch path and campaigns these are `KindsAssumption`,
`AgentsAssumption`, `BoundsAssumption`, `CampaignsAssumption`, `RunsAssumption`
(typing of the constants, at least one agent and campaign) and
`BenchmarksAssumption` (users may queue benchmarks); for the others
`ModelsAssumption`, `DirsAssumption` (a model exists, places are distinct),
`RemoteAssumption`, `TargetAssumption`, `ScriptAssumption`, `HooksAssumption`,
`DeathsAssumption`, `EnginesAssumption`, `ProcAssumption` (an engine exists, "no
process" is no process), `NameOfAssumption` and `IntervalsAssumption` (a machine
has one name, an interval is at least one unit of time), `RunnerAssumption`
(numbers are natural, there is an id, the modes are the two that exist, an Ollama
entry names a model), `MeasuredAssumption` (each key has an engine; the faults
that a kitt run can have are among those that the campaign reckons with),
`BenchAssumption` (five engines, three modes), `SuiteAssumption`,
`CheckpointAssumption`, `StagesAssumption`, `MineAssumption` and `SizesAssumption`
(sizes of suites, of stages and of queues are positive, an overridden number of
runs is within `MaxRuns`), `LongestAssumption` (there is a longest interval; the
server takes 10 to 300 s). None excludes a disturbance.

* `TypeInvariant`, `CampaignTypeInvariant`. The second is not inductive alone:
  that a counter stays within the runs needs `ShapeInv` (a thread in its loop
  has a run to go).
* `DispatchInvariant`: `DispatchInv` is `AtMostOnePlace` and `StatusIsEarned`
  with what makes them inductive. A POST may be handled at any later time, so
  `PostsAreTrue` says that each one on the wire still is the truth; for that,
  outcomes must be final (`OutcomeAtEnd`), and threads must start once, which
  needs that a response exists only within a call (`RepliesInCall`) and that
  absent rows are nowhere (`AbsentIsNowhere`).
  `OnePlace` and `EarnedStatus` follow.
* `BenchmarkOrder`: from `RowsInOrder` (the numbers and dates that launches took grow
  together, whenever they are inserted) and the query: of two queued benchmarks the one with
  the later time is never `FirstQueued`. A launch that still waits for the lock when a later
  one is inserted may find that one dispatched.
* `DispatchedRowsAreHeld`: without late requests `stale` stays 0, so that only a
  call that waits for its response marks a row.
* `DeliveryRefinement`: each step moves each `StageOf(t)` along an arrow of
  `CommandDelivery` or not at all.
* `CampaignRefinement`: each step of the composition is a step or a stutter of
  the dispatch path, so that the theorems above hold with campaigns.
* `ActiveCampaignsAreServed`: `ActiveHasExecutor` is inductive; a thread ends
  only in a step that ends the campaign, or finds it cancelled or deleted.
* `ExecutorLeavesNothing`: `LeftBehindEnded` by `LeftInv` per thread. It rests on
  `EarnedStatus`: the executor reads a row's status only, and that
  is why a row must not lie.

* `CountedInvariant` (`CampaignCountProofs`): per thread, the rows it made
  number its successes and failures, and one more while it waits; what it made is
  finite; `counts` of a campaign are at most its good rows, and those of a
  completed one are a thread's that ended. It rests on `LeftInv` and
  `DispatchInv` (a good count was read from a row that does not lie).
  `SucceededIsEarnedAlways` and `CompletedIsCountedAlways` follow, for any number
  of overlapping launches.
* `StorageInvariant` (`AgentHostProofs`): an entry with no trouble has
  at most one holder, who alone writes it, runs on it when whole, and removes
  it, be it in the middle of the removal; an entry that is there has a holder or a trouble.
  This needs `JobsSane`: a
  thread runs on an entry of the storage or on the path it was given, and removes where its
  check found the storage directory of that time. The
  three properties of the storage follow; `OnlyStorageShrinks` speaks of the directory at the
  check, since by the time `rmtree` runs it may be another.
* `VerdictIsExplainedAlways` (`RunnerSideProofs`): inductive with `AtWork`, a
  command in progress has given no verdict yet.
* `SchemaInvariant` (`ServerSideProofs`): versions are recorded in order and after their statements
  (`StatementsRan`), the parts of a Python step are run in order (`HooksInOrder`), and one not
  done was cut, or there is a process at the first part not done that goes on with the rest
  (`Owes`, `HooksAreKnown`): a process whose ALTER raises is at a part that another one has
  done, and leaves nothing. `RecordedMeansRunAlways` and `OpenIsWhole` follow.
* `StoreInvariant` (`ServerSideProofs`): rows that a save inserted are pending or on disk, whoever
  shares the transaction is a rival, and only a rival's row number can be taken
  for one's own. `SavesAreAtomicAlways` follows.
* `NoEngineLostAlways`, `NoContainerForgottenAlways` (`AgentHostProofs`): with
  `TableSound` and `CallSound`, a process that the table or a thread holds was
  started and is of its engine; with `StartAlone`, who starts an engine without an
  overlap is its only starter and overwrites no live entry; with `ContainerSound`,
  a running container has its thread or was given up.
* `ListenerIsReachableAlways`: while nothing has overlapped, at most two
  kitt-agent processes exist, a command and the agent it finds, and the command
  has not yet signalled the agent that the file names, or it has (`InTurn`);
  whoever is past `WritePid` is in the file (`FileNamesAgent`); and what systemd
  started never runs a command (`UnitsServe`), so that an uninstall signals
  agents only.
* `OfflineIsSilentAlways` (`ServerSideProofs`): ids are never given twice, so an agent's id, or the
  one its beat was resolved to before the lock, is of no row but its own
  (`IdsDiffer`, `OwnId`), and the age of that row and the time to the next beat
  together are within the interval and what the beat has been late (`Timely`).

* `StatusOnlyMovesForward`: with `ForwardInv`, a POST on its way is the only one
  of its row and ahead of it (`OneAtATime`, `PostsAreAhead`), and a row is never
  ahead of the work: dispatched before a thread begins, not ended while its work
  goes on, and where its simulator is (`RowsKeepUp`). All other disturbances are
  allowed: a lost POST leaves the row behind, never ahead.
* `MeasuresWholeModelAlways` (`MeasuredCampaignProofs`): the prefetch thread holds the
  run after the current one, or the current one while the loop waits for it
  (`Ahead`). From the end of a download to the measurement nothing removes a model
  (`WholeOnceReady`): a cleanup comes after the measurement, and what it takes of
  the next run's repository is downloaded again.
* `RecordedIsEarnedAlways`: `MemoryIsEarned` is about the file and the process's
  memory together, since a failed save leaves them apart and a later one writes
  all that was missed.
* `LeftoverIsExplainedAlways`: a process that runs answers for the models that it
  and its thread have in hand (`HoldsModel`) and for the engine it measures
  (`HoldsEngine`); all else has its reason in `excused` (`RestIsExplained`).
* `MeasuresItsOwnEngineAlways` (`BenchmarkRunProofs`): `BenchInv` says who listens where
  (`PortsAreKept`), that two runs in progress have met (`RunsHaveMet`), how models
  come into an Ollama (`TagsAreLoaded`) and what stands under the tag of a run that has
  loaded its own (`LoadedIsThere`). The proof refuted the first form of the
  property, in which a foreign answer was always of a run in the same company: of three
  runs, the first leaves a model in the user's home, the second one is at work, and the third one,
  an Ollama container on the same port, is answered by the second's server from
  the home. The second disjunct of `IsOwn` is that case. It needs three runs, so
  `runner_side` with two never needs that disjunct; `BenchInv` was also
  checked by TLC with three Ollama runs. Where an import was not read to its end the tags prove
  nothing, and the third disjunct (`Unread`) names what may stand there instead.
* `ResultsAddUpAlways`: each benchmark's counters are cardinalities of sets of
  prompts, so the proof is one lemma per way of counting and `SuiteInv` for the suite.
* `PassedIsWholeAlways`, `CheckpointTypeAlways`: as long as no two attempts have
  shared the file, one is busy (`OneIsBusy`); what is saved, and what an attempt
  holds, is in rising order and has each item before its index that was not given
  up (`SavedIsWhole`, `AttemptIsWhole`), across writes that are cut, by a death or
  an error, and leave a torn file.
* `MeasuredOnceAlways`: in the plan of a script each cell stands once, after those
  already in its batch (`InSequence`), and a measured cell is in the file, in the
  batch or in one that was lost (`MeasuredIsKnown`).
* `NothingElseIsLostAlways`, `PageLacksOnlyTheGapAlways` (`ServerSideProofs`): the
  history is the latest events in order (`HistoryIsRecent`), and what a subscriber
  has received, what is in its queue and what was dropped are its source's events since
  it came (`HeardOrQueued`).

* `RunnerTypesAlways` (`MeasuredCampaignProofs`): `RunnerBase` is where the loop,
  the file and the prefetch thread are; `OfTheCampaign` that what is left to do is
  of the plan, which needs what `FlattenSeq` and `Without` return.
  `BenchTypesAlways`: `BenchInv` and `Counted`, that items are counted up to
  `Items` only.
* `CampaignRefinementOfRunner`, `MachineRefinement`: under `MeasuredInv`, each step
  of the composition is a step or a stutter of both modules (`BothStep`, one lemma per
  action of `MeasuredCampaign`). The
  invariant is those of both modules with `Family` (the child is the run started for
  the current key; a run that was asked for and goes on is the child or an orphan;
  two runs of a campaign that is no orphan never met), `InView` (what the campaign
  knows of engines and orphans is what there is) and `Credits` (what is earned
  has a run with a report). `PartsAreImplemented` is the two together. With them every theorem about
  `CampaignRunner` and about `BenchmarkRun` holds in the composition.
* `SuccessIsReportedAlways` takes `RecordedIsEarnedAlways` through the refinement and
  joins it with `Credits`; `CampaignMeasuresItsModelAlways` joins `AnswersAreOwn` of
  `BenchInv` with `Family`: a campaign's run has met none of its siblings.
  `MeasuredTypesAlways` is `Family`, `InView` and `Credits`.
* `HostTypesAlways`, `SideTypesAlways`, `ServerTypesAlways`: the type invariants
  of the three instances with parts, each from the inductive invariants of its
  modules (of the campaign from `RunnerTypesAlways`) and what those do not need
  for themselves (`EngineSets`, `Counted`, `ScriptRest`, `RemoteRest`,
  `RegistryBounds`, `StreamBounds`, `StoreSets`). Two of these are more than
  types: a queue never exceeds its size because `put` drops, and the time to an
  agent's next beat stays within the longest interval (`LongestAssumption`).

Model-checked only: liveness (`QueuedWorkEnds`, `LaunchedCampaignEnds`,
`AgentRecovers`), which is out of the prover's reach, as is whatever needs
ENABLED. Every invariant, action property and refinement of a passing run has a
theorem.
Induction over data is out of reach too. Where a proof
needs it, for what `FlattenSeq` and `Without` return, it is done as a least
counterexample in a set of numbers (`LeastNumber`), which needs no operator as a parameter.

## 7. Not modelled

`run_container` as a command of the server (it never queues one; the agent's
side is in `EngineOps`). `HealthRecoveryManager`: nothing constructs it. PostgreSQL,
whose migrations run in one transaction. Pages and settings that write one row
behind the lock. Image builds, the probes of preflight, the text of install
scripts, the hardware fingerprint, notifications, cost estimates, parsing of
output into numbers, metrics' values and the collectors. Reporters, recommendation,
stacks, monitoring, bot, devon client, git operations, TUI, CI, plugins and
certificates: computation, formatting, generated configuration or clients of
external services, with no state shared between processes.

The result store's commit is taken to succeed: one that itself fails, with a full disk, is
not modelled.

A native engine's stderr is a pipe that nobody reads before it exits
(process_manager.py:80): whether it fills depends on the engine's log, so the
model has only an engine that hangs.

## 8. Plan

What is left, most useful first:

1. `CampaignScript` and `RemoteCampaign` start `kitt` processes as well: their
   children could be runs of `BenchmarkRun` and of `CampaignRunner`, as in
   `MeasuredCampaign`.
2. `BenchmarkSuite` and `ItemCheckpoint` as the items of `BenchmarkRun`.
