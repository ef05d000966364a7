----------------------------- MODULE AgentProcess -----------------------------
(***************************************************************************)
(* The kitt-agent command on one machine: processes that start an agent,   *)
(* stop it through its pid file, update the package or build the image     *)
(* from what the server serves, and the systemd service that starts an     *)
(* agent again after a failure.  Process ids are reused.                   *)
(***************************************************************************)
EXTENDS Naturals, FiniteSets

CONSTANTS
    Procs,       \* process ids
    NoProc,
    MaxBuilds,   \* bound: packages and contexts the server builds
    ProcFaults   \* what may go wrong

HostTroubles == {"crash", "interrupt", "badDownload", "noDigest",
                 "checkFails", "serverRestart", "serviceFails"}

ASSUME ProcAssumption == NoProc \notin Procs /\ MaxBuilds \in Nat
ASSUME ProcFaultsAssumption == ProcFaults \subseteq HostTroubles

VARIABLES
    conf,      \* agent.yaml is there, with a server_url
    ps,        \* the processes
    port,      \* the process that listens on the agent port
    pidFile,   \* what ~/.kitt/agent.pid says
    service,   \* the systemd unit
    served,    \* the server's caches: the build of each kind, 0 before the first
    builds,    \* builds the server has made
    alone      \* no kitt-agent process has met another one (properties only)

processVars == <<conf, ps, port, pidFile, service, served, builds, alone>>

Files      == {"package", "context"}
Download   == [build : 0..MaxBuilds, intact : BOOLEAN]
NoDownload == [build |-> 0, intact |-> TRUE]

Aims == {"start", "stop", "update", "build"}
ProcPcs == {"free", "preflight", "register", "beat", "bind", "listen", "unwind",
            "signalled", "fetch", "digest", "install", "halt", "unlink"}

ProcessTypeOK ==
    /\ conf \in BOOLEAN
    /\ ps \in [Procs -> [pc : ProcPcs, aim : Aims, unit : BOOLEAN, file : Download]]
    /\ port \in Procs \cup {NoProc}
    /\ pidFile \in Procs \cup {NoProc}
    /\ service \in [file : BOOLEAN, state : {"off", "on", "failed"}]
    /\ served \in [Files -> 0..MaxBuilds]
    /\ builds \in 0..MaxBuilds
    /\ alone \in BOOLEAN

Gone == [pc |-> "free", aim |-> "start", unit |-> FALSE, file |-> NoDownload]

ProcessInit ==
    /\ conf = FALSE
    /\ ps = [p \in Procs |-> Gone]
    /\ port = NoProc
    /\ pidFile = NoProc
    /\ service = [file |-> FALSE, state |-> "off"]
    /\ served = [f \in Files |-> 0]
    /\ builds = 0
    /\ alone = TRUE

-----------------------------------------------------------------------------

Move(p, pc) == ps' = [ps EXCEPT ![p].pc = pc]
Exit(p)     == ps' = [ps EXCEPT ![p] = Gone]

Exists(p) == ps[p].pc # "free"

(* A command is run when no other one is under way, or it is not alone.    *)
Launch(p, pc, aim, byUnit) ==
    /\ ps[p].pc = "free"
    /\ ps' = [ps EXCEPT ![p] = [Gone EXCEPT !.pc = pc, !.aim = aim, !.unit = byUnit]]
    /\ alone' = (alone /\ (aim = "start" => \A q \in Procs : ~Exists(q))
                       /\ (aim # "start" => \A q \in Procs : ps[q].pc \in {"free", "listen"}))

(* kitt-agent init writes agent.yaml.                                      *)
InitAgent ==
    /\ conf' = TRUE
    /\ UNCHANGED <<ps, port, pidFile, service, served, builds, alone>>

-----------------------------------------------------------------------------
(* kitt-agent start.                                                       *)

StartAgent(p) ==
    /\ conf
    /\ \E first \in {"preflight", "register"} : Launch(p, first, "start", FALSE)
    /\ UNCHANGED <<conf, port, pidFile, service, served, builds>>

RequiredChecks == {"python", "docker", "dockerGpu", "drivers", "server"}
AdvisoryChecks == {"image", "nfs", "disk", "port"}

(* run_all_checks: which checks may fail; the port check looks at the port *)
(* as it is now.                                                           *)
RunAllChecks(failed) ==
    /\ "port" \in failed <=> port # NoProc
    /\ "checkFails" \notin ProcFaults => failed \subseteq {"port"}

(* print_results: only a required check that failed is an obstacle.        *)
ChecksOK(failed) == failed \cap RequiredChecks = {}

Preflight(p) ==
    /\ ps[p].pc = "preflight"
    /\ \E bad \in {{}, {"docker"}, {"disk"}}, taken \in {{}, {"port"}} :
          /\ RunAllChecks(bad \cup taken)
          /\ IF ChecksOK(bad \cup taken) THEN Move(p, "register") ELSE Exit(p)
    /\ UNCHANGED <<conf, port, pidFile, service, served, builds, alone>>

(* Registered or not, the heartbeat thread starts before the port is bound.*)
RegisterAndBeat(p) ==
    /\ ps[p].pc = "register"
    /\ Move(p, "beat")
    /\ UNCHANGED <<conf, port, pidFile, service, served, builds, alone>>

WritePid(p) ==
    /\ ps[p].pc = "beat"
    /\ pidFile' = p
    /\ Move(p, "bind")
    /\ UNCHANGED <<conf, port, service, served, builds, alone>>

(* app.run: a taken port ends the process.                                 *)
Bind(p) ==
    /\ ps[p].pc = "bind"
    /\ IF port = NoProc THEN port' = p /\ Move(p, "listen")
                        ELSE Move(p, "unwind") /\ UNCHANGED port
    /\ UNCHANGED <<conf, pidFile, service, served, builds, alone>>

FreePort(p) == port' = IF port = p THEN NoProc ELSE port

Interrupt(p) ==
    /\ "interrupt" \in ProcFaults
    /\ ps[p].pc = "listen" /\ ~ps[p].unit
    /\ FreePort(p)
    /\ Move(p, "unwind")
    /\ UNCHANGED <<conf, pidFile, service, served, builds, alone>>

(* The finally block, whoever the file names.  A start that could not bind *)
(* exits with a failure, which the service answers with a restart.         *)
Unwind(p) ==
    /\ ps[p].pc = "unwind"
    /\ pidFile' = NoProc
    /\ Exit(p)
    /\ service' = IF ps[p].unit THEN [service EXCEPT !.state = "failed"] ELSE service
    /\ UNCHANGED <<conf, port, served, builds, alone>>

(* SIGTERM has no handler: no finally block runs.  systemd takes it for a  *)
(* clean exit.                                                             *)
Terminated(p) ==
    /\ ps[p].pc = "signalled"
    /\ FreePort(p)
    /\ Exit(p)
    /\ service' = IF ps[p].unit THEN [service EXCEPT !.state = "off"] ELSE service
    /\ UNCHANGED <<conf, pidFile, served, builds, alone>>

Crash(p) ==
    /\ "crash" \in ProcFaults
    /\ ps[p].pc \in {"preflight", "register", "beat", "bind", "listen"}
    /\ FreePort(p)
    /\ Exit(p)
    /\ service' = IF ps[p].unit THEN [service EXCEPT !.state = "failed"] ELSE service
    /\ UNCHANGED <<conf, pidFile, served, builds, alone>>

-----------------------------------------------------------------------------
(* kitt-agent stop, and the end of update --restart.                       *)

StopAgent(p) ==
    /\ Launch(p, "halt", "stop", FALSE)
    /\ UNCHANGED <<conf, port, pidFile, service, served, builds>>

(* What follows in the process: stop is done, update executes start.       *)
After(aim) ==
    IF aim = "update" THEN [Gone EXCEPT !.pc = "register"] ELSE Gone

(* Mutant: the process is looked for and not signalled.                    *)
HaltWithoutSignal(p) ==
    /\ ps[p].pc = "halt"
    /\ ps' = [ps EXCEPT ![p].pc = "unlink"]
    /\ UNCHANGED <<conf, port, pidFile, service, served, builds, alone>>

(* Read the file and signal the process it names; a stale file may name    *)
(* any process by now, this one included.                                  *)
Halt(p) ==
    /\ ps[p].pc = "halt"
    /\ ps' = IF pidFile = NoProc THEN [ps EXCEPT ![p] = After(ps[p].aim)]
             ELSE IF pidFile = p THEN [ps EXCEPT ![p].pc = "signalled"]
             ELSE IF Exists(pidFile)
             THEN [ps EXCEPT ![p].pc = "unlink", ![pidFile].pc = "signalled"]
             ELSE [ps EXCEPT ![p].pc = "unlink"]
    /\ UNCHANGED <<conf, port, pidFile, service, served, builds, alone>>

Unlink(p) ==
    /\ ps[p].pc = "unlink"
    /\ pidFile' = NoProc
    /\ ps' = [ps EXCEPT ![p] = After(ps[p].aim)]
    /\ alone' = (alone /\ (ps[p].aim = "update" => \A q \in Procs \ {p} : ~Exists(q)))
    /\ UNCHANGED <<conf, port, service, served, builds>>

-----------------------------------------------------------------------------
(* kitt-agent update and build, and the server's build caches.             *)

StartFetch(p, aim) ==
    /\ conf
    /\ Launch(p, "fetch", aim, FALSE)
    /\ UNCHANGED <<conf, port, pidFile, service, served, builds>>

FileOf(aim) == IF aim = "update" THEN "package" ELSE "context"

(* _get_or_build_package and _get_or_build_context, under their locks: the *)
(* cached file, or a new one, which differs from every earlier one.        *)
GetOrBuild(f) ==
    IF served[f] # 0 THEN UNCHANGED <<served, builds>>
    ELSE /\ builds < MaxBuilds
         /\ builds' = builds + 1
         /\ served' = [served EXCEPT ![f] = builds + 1]

FetchFile(p) ==
    LET f == FileOf(ps[p].aim)
    IN /\ ps[p].pc = "fetch"
       /\ \/ /\ GetOrBuild(f)
             /\ \E whole \in IF "badDownload" \in ProcFaults THEN BOOLEAN ELSE {TRUE} :
                   ps' = [ps EXCEPT ![p].pc = "digest",
                                    ![p].file = [build |-> served'[f], intact |-> whole]]
          \/ /\ "badDownload" \in ProcFaults  \* an error, or no build to be had
             /\ Exit(p)
             /\ UNCHANGED <<served, builds>>
       /\ UNCHANGED <<conf, port, pidFile, service, alone>>

(* The digest is of what the server serves now.  If it cannot be had, the  *)
(* file is used as it is.                                                  *)
CheckDigest(p) ==
    LET f == FileOf(ps[p].aim)
        got == ps[p].file
    IN /\ ps[p].pc = "digest"
       /\ \/ /\ GetOrBuild(f)
             /\ IF got.intact /\ got.build = served'[f]
                THEN Move(p, "install") ELSE Exit(p)
          \/ /\ "noDigest" \in ProcFaults
             /\ Move(p, "install")
             /\ UNCHANGED <<served, builds>>
       /\ UNCHANGED <<conf, port, pidFile, service, alone>>

(* pip install, or extract and docker build.  update --restart goes on.    *)
InstallFile(p) ==
    /\ ps[p].pc = "install"
    /\ \/ Exit(p)    \* it failed, or there is no more to do
       \/ /\ ps[p].aim = "update"
          /\ ps' = [ps EXCEPT ![p].pc = "halt", ![p].file = NoDownload]
    /\ UNCHANGED <<conf, port, pidFile, service, served, builds, alone>>

ServerForgetsBuilds ==
    /\ "serverRestart" \in ProcFaults
    /\ served' = [f \in Files |-> 0]
    /\ served' # served
    /\ UNCHANGED <<conf, ps, port, pidFile, service, builds, alone>>

-----------------------------------------------------------------------------
(* The systemd service.                                                    *)

(* service install: copy the unit, reload, enable (--now).  A command that *)
(* fails leaves what the ones before it did.                               *)
InstallService(now) ==
    /\ conf
    /\ ~service.file
    /\ \/ service' = [file |-> TRUE, state |-> IF now THEN "failed" ELSE "off"]
       \/ "serviceFails" \in ProcFaults /\ service' = [service EXCEPT !.file = TRUE]
    /\ UNCHANGED <<conf, ps, port, pidFile, served, builds, alone>>

(* Restart=on-failure, RestartSec=10; also the first start.                *)
ServiceStarts(p) ==
    /\ service.file /\ service.state = "failed"
    /\ conf
    /\ Launch(p, "register", "start", TRUE)
    /\ service' = [service EXCEPT !.state = "on"]
    /\ UNCHANGED <<conf, port, pidFile, served, builds>>

(* service uninstall: stop and disable may fail unnoticed.                 *)
UninstallService ==
    /\ service.file
    /\ service' = [file |-> FALSE, state |-> "off"]
    /\ \/ ps' = [p \in Procs |-> IF ps[p].unit THEN [ps[p] EXCEPT !.pc = "signalled"]
                                 ELSE ps[p]]
       \/ "serviceFails" \in ProcFaults /\ UNCHANGED ps
    /\ UNCHANGED <<conf, port, pidFile, served, builds, alone>>

-----------------------------------------------------------------------------

ProcessStep(p) ==
    \/ Preflight(p) \/ RegisterAndBeat(p) \/ WritePid(p) \/ Bind(p) \/ Unwind(p)
    \/ Terminated(p) \/ Halt(p) \/ Unlink(p)
    \/ FetchFile(p) \/ CheckDigest(p) \/ InstallFile(p)

ProcessNext ==
    \/ InitAgent
    \/ \E p \in Procs :
          \/ StartAgent(p) \/ StopAgent(p) \/ ServiceStarts(p)
          \/ \E aim \in {"update", "build"} : StartFetch(p, aim)
          \/ ProcessStep(p) \/ Interrupt(p) \/ Crash(p)
    \/ ServerForgetsBuilds
    \/ \E now \in BOOLEAN : InstallService(now)
    \/ UninstallService

ProcessSpec == ProcessInit /\ [][ProcessNext]_processVars

-----------------------------------------------------------------------------

(* The agent that listens is the one the pid file names, so that stop and  *)
(* update --restart reach it, unless kitt-agent commands have overlapped:  *)
(* a second start writes the file before it finds the port taken, and      *)
(* removes it on its way out.                                              *)
ListenerIsReachable ==
    \A p \in Procs : alone /\ ps[p].pc = "listen" => pidFile = p /\ port = p

=============================================================================
