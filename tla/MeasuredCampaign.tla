--------------------------- MODULE MeasuredCampaign ---------------------------
(***************************************************************************)
(* CampaignRunner and BenchmarkRun together: the child that a campaign     *)
(* waits for is a kitt run with an engine, and its exit status is what     *)
(* became of that run.  Users start runs of their own beside it.           *)
(***************************************************************************)
EXTENDS CampaignRunner, BenchmarkRun

CONSTANTS
    EngineOf,  \* the engine of each key
    NoKey

ASSUME MeasuredAssumption ==
    /\ EngineOf \in [Keys -> EngineKinds] /\ NoKey \notin Keys
    /\ {"benchFails", "stopFails"} \subseteq RunnerFaults
    /\ "sweep" \in BenchFaults

VARIABLES
    child,     \* the kitt run that the campaign waits for
    askedFor,  \* the key that a campaign started each run for
    credited,  \* per campaign, the runs that exited with 0        (properties only)
    orphaned   \* runs that outlived the campaign that started them (properties only)

(* What the campaign says in CampaignRunner of engines and orphans, read   *)
(* off the machine.                                                        *)
HasContainer(r) == Mode(r) = "docker" /\ server[r] # "none"

Asked == {r \in Runs : askedFor[r] # NoKey}
EngineOn == {askedFor[r] : r \in {s \in Asked : s = child \/ (HasContainer(s) /\ ~InProgress(s))}}
Orphans  == {askedFor[r] : r \in {s \in Asked : s # child /\ InProgress(s)}}

measuredVars == <<runnerVars, benchVars, child, askedFor, credited, orphaned>>

MeasuredTypeOK ==
    /\ child \in Runs \cup {NoRun} /\ askedFor \in [Runs -> Keys \cup {NoKey}]
    /\ child # NoRun <=> runner.pc = "measuring"
    /\ credited \in [Ids -> SUBSET Asked] /\ orphaned \subseteq Asked
    /\ engineOn = EngineOn /\ orphans = Orphans

MeasuredInit ==
    /\ RunnerInit /\ BenchInit
    /\ child = NoRun
    /\ askedFor = [r \in Runs |-> NoKey]
    /\ credited = [i \in Ids |-> {}]
    /\ orphaned = {}

-----------------------------------------------------------------------------

(* A campaign that is created anew under an id forgets what it had.        *)
BeginCampaign ==
    /\ StartRunner
    /\ credited' = [i \in Ids |-> IF earned'[i] = {} THEN {} ELSE credited[i]]
    /\ UNCHANGED <<benchVars, child, askedFor, orphaned>>

(* What the runner does without a child.                                   *)
RunnerStep ==
    /\ \/ PlanRuns \/ NextRun \/ Prefetch \/ CheckRun \/ Download
       \/ RemoveModel \/ RecordSuccess \/ RecordFailure \/ RemoveFailed \/ Finish
    /\ UNCHANGED <<benchVars, child, askedFor, credited, orphaned>>

TakesStock == engineOn' = EngineOn' /\ orphans' = Orphans'

(* kitt run -m path -e engine -s suite: no mode, no configuration.         *)
Asks(r) ==
    /\ kitt[r].s.kind = EngineOf[Current] /\ <<kitt[r].s.model>> = runner.path
    /\ kitt[r].s.mode = "default" /\ kitt[r].s.port = 0

StartChild(r) ==
    /\ runner.pc = "bench"
    /\ Asks(r) /\ Begin(r)
    /\ child' = r
    /\ askedFor' = [askedFor EXCEPT ![r] = Current]
    /\ runner' = [runner EXCEPT !.pc = "measuring"]
    /\ TakesStock
    /\ UNCHANGED <<stateFile, prefetch, onDisk, configured, starts, history, excused,
                   credited, orphaned>>

(* Mutant: what the child has printed is taken for its exit status.        *)
ChildEndsUnread ==
    /\ runner.pc = "measuring" /\ kitt[child].pc = "over"
    /\ child' = NoRun
    /\ UNCHANGED <<benchVars, askedFor, orphaned>>
    /\ TakesStock
    /\ runner' = [runner EXCEPT !.pc = IF cleanup THEN "clean" ELSE "success", !.path = <<>>]
    /\ earned' = [earned EXCEPT ![runner.id] = @ \cup {Current}]
    /\ credited' = [credited EXCEPT ![runner.id] = @ \cup {child}]
    /\ excused' = excused \cup EngineMarks({Current} \cap EngineOn')
    /\ UNCHANGED <<stateFile, prefetch, onDisk, configured, starts, previewed>>

(* Mutant: a child past its time is given up and not killed.               *)
ChildEndsUnwaited ==
    /\ runner.pc = "measuring"
    /\ UNCHANGED <<benchVars, askedFor, orphaned, child>>
    /\ TakesStock
    /\ runner' = [runner EXCEPT !.pc = "failure", !.path = <<>>]
    /\ UNCHANGED <<earned, credited, excused>>
    /\ UNCHANGED <<stateFile, prefetch, onDisk, configured, starts, previewed>>

(* kitt run exits with 0 once its report is written, passed or not, and    *)
(* with 1 or by a signal else; a child past its time is killed first.      *)
ChildEnds ==
    /\ runner.pc = "measuring" /\ kitt[child].pc = "over"
    /\ child' = NoRun
    /\ UNCHANGED <<benchVars, askedFor, orphaned>>
    /\ TakesStock
    /\ \/ /\ report[child].there
          /\ runner' = [runner EXCEPT !.pc = IF cleanup THEN "clean" ELSE "success",
                                      !.path = <<>>]
          /\ earned' = [earned EXCEPT ![runner.id] = @ \cup {Current}]
          /\ credited' = [credited EXCEPT ![runner.id] = @ \cup {child}]
          /\ excused' = excused \cup EngineMarks({Current} \cap EngineOn')
       \/ /\ ~report[child].there
          /\ runner' = [runner EXCEPT !.pc = "failure", !.path = <<>>]
          /\ UNCHANGED <<earned, credited, excused>>
    /\ UNCHANGED <<stateFile, prefetch, onDisk, configured, starts, previewed>>

(* _cleanup_docker, whoever started the containers.                        *)
SweepContainers ==
    /\ runner.pc = "docker"
    /\ LET containers == {r \in Runs : Mode(r) = "docker"}
       IN  \E swept \in SUBSET containers :
              /\ swept = containers \/ "dockerFails" \in RunnerFaults
              /\ RemoveContainers(swept)
    /\ UNCHANGED <<child, askedFor, credited, orphaned>>
    /\ TakesStock
    /\ excused' = excused \cup EngineMarks(EngineOn')
    /\ runner' = [runner EXCEPT !.pc = "remove"]
    /\ UNCHANGED <<stateFile, prefetch, onDisk, configured, starts, history>>

(* The signal reaches the runner and its child, or the runner alone.       *)
CampaignDies ==
    /\ "dies" \in RunnerFaults
    /\ runner.pc # "off"
    /\ \/ /\ child # NoRun /\ Killed(child)
          /\ UNCHANGED orphaned
       \/ /\ UNCHANGED benchVars
          /\ IF child # NoRun /\ InProgress(child)
             THEN "orphan" \in RunnerFaults /\ orphaned' = orphaned \cup {child}
             ELSE UNCHANGED orphaned
    /\ child' = NoRun
    /\ UNCHANGED <<askedFor, credited>>
    /\ TakesStock
    /\ runner' = Off
    /\ prefetch' = NoPrefetch
    /\ excused' = excused \cup ModelMarks(Stored) \cup EngineMarks(engineOn)
    /\ UNCHANGED <<stateFile, onDisk, configured, starts, history>>

(* A kitt run or its engine goes on, the campaign's or another.            *)
MachineStep ==
    /\ \/ \E r \in Runs : Begin(r) \/ RunGoesOn(r)
       \/ \E kind \in EngineKinds : EnginesSetup(kind)
    /\ UNCHANGED <<child, askedFor, credited, orphaned>>
    /\ TakesStock
    /\ UNCHANGED <<stateFile, runner, prefetch, onDisk, configured, starts, history, excused>>

MeasuredNext ==
    \/ BeginCampaign \/ RunnerStep \/ (\E r \in Runs : StartChild(r)) \/ ChildEnds
    \/ SweepContainers \/ CampaignDies \/ MachineStep

MeasuredSpec == MeasuredInit /\ [][MeasuredNext]_measuredVars

-----------------------------------------------------------------------------

(* Seen from the campaign, kitt run does what CampaignRunner says a child  *)
(* may do: exit, fail, leave a container, outlive its parent.              *)
ImplementsCampaign == RunnerSpec

(* Seen from the machine, a campaign is a user who starts kitt run, kills  *)
(* it, and removes containers.                                             *)
ImplementsRuns == BenchSpec

(* Each side of the composition is one that its own module describes: what *)
(* is checked and proved of a campaign and of the machine alone holds of   *)
(* the two together.                                                       *)
ImplementsParts == ImplementsCampaign /\ ImplementsRuns

(* A run that the file of a campaign says succeeded has a report, written  *)
(* by a kitt run that the campaign started for it and whose exit it saw.   *)
SuccessIsReported ==
    \A i \in Ids \ previewed, k \in Keys :
        stateFile[i].run[k] = "success"
            => \E r \in credited[i] : askedFor[r] = k /\ report[r].there

(* Who else may have been at the ports while a run measured: a run that a  *)
(* user started, one that outlived its campaign, an engine that was left.  *)
Strangers(r) == ((met[r] \ (Asked \ orphaned)) \cup untidy) \ {r}

(* Campaigns measure one model at a time: with no stranger on the machine, *)
(* every answer in the report of a campaign's run is of its own engine, or *)
(* of the Ollama service, and of the model that it was given.  A native    *)
(* Ollama may have another one under the run's name, where an import was   *)
(* not read to its end.                                                    *)
CampaignMeasuresItsModel ==
    \A r \in Asked \ orphaned : Strangers(r) = {} =>
        \A a \in ToSet(report[r].by) :
            /\ a.engine = r \/ (a.engine = Service /\ Kind(r) = "ollama")
            /\ a.model = kitt[r].s.model \/ (Kind(r) = "ollama" /\ a.model \in Unread(r))

=============================================================================
