------------------------------- MODULE EngineOps -------------------------------
(***************************************************************************)
(* The native inference engines of an agent: EngineOps, which starts them  *)
(* as child processes and remembers one process per engine, the commands   *)
(* that call it from threads of the daemon, and the run_container command, *)
(* which does the same for a Docker container.                             *)
(*                                                                         *)
(* The process table _processes and active_containers are locked; the look *)
(* at a table and the act that follows are not, so that every command is   *)
(* a sequence of steps here.                                               *)
(***************************************************************************)
EXTENDS Naturals, FiniteSets

CONSTANTS
    Engines,     \* the keys of _ENGINE_BINARIES
    Units,       \* engines that have a systemd unit (ollama)
    Venvs,       \* engines that live in a venv of their own (vllm)
    Pids,        \* process ids, each used once
    NoPid,
    Commands,    \* command threads of the daemon
    EngineFaults \* what may go wrong on the host

HostFaults == {"exitsEarly", "engineCrash", "spawnRaises", "unkillable", "unitRefuses",
               "installFails", "dockerRaises", "unhealthy", "logsEnd", "agentCrash"}

ASSUME EnginesAssumption ==
    Engines # {} /\ Units \cup Venvs \subseteq Engines /\ NoPid \notin Pids
ASSUME HostFaultsAssumption == EngineFaults \subseteq HostFaults

VARIABLES
    installed,  \* engines whose binary or module is found
    unit,       \* engines whose systemd unit is active
    venv,       \* the dedicated venvs
    proc,       \* processes of the host that agents started
    table,      \* EngineOps._processes
    call,       \* the commands being executed
    container,  \* per command: its container, and whether active_containers has it
    overlap,    \* engines of which two starts have overlapped (properties only)
    abandoned   \* processes a stop gave up on, commands a docker call failed,
                \* whose log stream ended before the container did, or that
                \* the daemon's end cut off (properties only)

engineVars == <<installed, unit, venv, proc, table, call, container, overlap, abandoned>>

ProcStates == {"free", "up", "dead"}
EnginePcs == {"idle", "check", "spawn", "verify", "pop", "kill", "unitStop", "look", "install", "wheels",
        "runContainer", "register", "health", "logs", "done"}

Calls == [pc : EnginePcs, engine : Engines, pid : Pids \cup {NoPid}]

EngineTypeOK ==
    /\ installed \subseteq Engines
    /\ unit \subseteq Units
    /\ venv \in [Venvs -> {"absent", "broken", "good"}]
    /\ proc \in [Pids -> [engine : Engines, state : ProcStates, child : BOOLEAN]]
    /\ table \in [Engines -> Pids \cup {NoPid}]
    /\ call \in [Commands -> Calls]
    /\ container \in [Commands -> [state : {"none", "running", "exited", "removed"},
                                   active : BOOLEAN]]
    /\ overlap \subseteq Engines
    /\ abandoned \subseteq Pids \cup Commands

SomeEngine == CHOOSE e \in Engines : TRUE
NoCall == [pc |-> "idle", engine |-> SomeEngine, pid |-> NoPid]

EngineInit ==
    /\ installed \in SUBSET Engines
    /\ unit \in SUBSET (Units \cap installed)
    /\ venv = [e \in Venvs |-> IF e \in installed THEN "good" ELSE "absent"]
    /\ proc = [p \in Pids |-> [engine |-> SomeEngine, state |-> "free", child |-> FALSE]]
    /\ table = [e \in Engines |-> NoPid]
    /\ call = [c \in Commands |-> NoCall]
    /\ container = [c \in Commands |-> [state |-> "none", active |-> FALSE]]
    /\ overlap = {}
    /\ abandoned = {}

-----------------------------------------------------------------------------

Alive(p) == p # NoPid /\ proc[p].state = "up"

(* engine_status: the tracked process, or else the systemd unit.           *)
Running(e) == Alive(table[e]) \/ e \in unit

(* find_engine: the dedicated venv, the interpreter or the PATH.           *)
FindEngine(e) == e \in installed

Goto(c, pc) == call' = [call EXCEPT ![c].pc = pc]
End(c)      == Goto(c, "done")

(* _dispatch_command and the synchronous stop_engine of /api/commands.     *)
TakeCommand(c, e, first) ==
    /\ call[c].pc = "idle"
    /\ call' = [call EXCEPT ![c] = [NoCall EXCEPT !.pc = first, !.engine = e]]
    /\ UNCHANGED <<installed, unit, venv, proc, table, container, overlap, abandoned>>

StartsOf(e) == {c \in Commands : call[c].engine = e /\ call[c].pc \in {"spawn", "verify"}}

(* start_engine: already running, not installed, or go on.                 *)
StartCheck(c) ==
    LET e == call[c].engine
    IN /\ call[c].pc = "check"
       /\ IF Running(e) \/ ~FindEngine(e)
          THEN End(c) /\ UNCHANGED overlap
          ELSE /\ Goto(c, "spawn")
               /\ overlap' = IF StartsOf(e) = {} THEN overlap ELSE overlap \cup {e}
       /\ UNCHANGED <<installed, unit, venv, proc, table, container, abandoned>>

(* _start_ollama, _start_llama_cpp and _start_vllm: Popen, or its          *)
(* exception (a llama_cpp binary that is gone, say).                       *)
Spawn(c) ==
    /\ call[c].pc = "spawn"
    /\ \/ \E p \in Pids :
             /\ proc[p].state = "free"
             /\ proc' = [proc EXCEPT ![p] = [engine |-> call[c].engine, state |-> "up",
                                            child |-> TRUE]]
             /\ call' = [call EXCEPT ![c].pc = "verify", ![c].pid = p]
       \/ /\ "spawnRaises" \in EngineFaults
          /\ End(c)
          /\ UNCHANGED proc
    /\ UNCHANGED <<installed, unit, venv, table, container, overlap, abandoned>>

(* 0.5 s later: a process that is gone is a failure, one that lives goes   *)
(* into the table, over the one that may be there.                         *)
Verify(c) ==
    LET p == call[c].pid
    IN /\ call[c].pc = "verify"
       /\ IF Alive(p)
          THEN /\ table' = [table EXCEPT ![call[c].engine] = p]
               /\ End(c)
          ELSE End(c) /\ UNCHANGED table
       /\ UNCHANGED <<installed, unit, venv, proc, container, overlap, abandoned>>

(* stop_engine takes the process out of the table first.                   *)
StopPop(c) ==
    LET e == call[c].engine  p == table[e]
    IN /\ call[c].pc = "pop"
       /\ table' = [table EXCEPT ![e] = NoPid]
       /\ call' = [call EXCEPT ![c].pid = p,
                               ![c].pc = IF Alive(p) THEN "kill" ELSE "unitStop"]
       /\ UNCHANGED <<installed, unit, venv, proc, container, overlap, abandoned>>

(* Mutant: terminate, and neither wait nor kill.                           *)
StopKillNoWait(c) ==
    /\ call[c].pc = "kill"
    /\ End(c)
    /\ UNCHANGED <<installed, unit, venv, proc, table, container, overlap, abandoned>>

(* terminate, wait 10 s, kill, wait 5 s; the last wait may raise.          *)
StopKill(c) ==
    LET p == call[c].pid
    IN /\ call[c].pc = "kill"
       /\ \/ /\ proc' = [proc EXCEPT ![p].state = "dead"]
             /\ End(c)
             /\ UNCHANGED abandoned
          \/ /\ "unkillable" \in EngineFaults /\ Alive(p)
             /\ End(c)
             /\ abandoned' = abandoned \cup {p}
             /\ UNCHANGED proc
       /\ UNCHANGED <<installed, unit, venv, table, container, overlap>>

(* Without a live process: systemctl stop, whose exit status is not read,  *)
(* if the unit is active.                                                  *)
StopUnit(c) ==
    LET e == call[c].engine
    IN /\ call[c].pc = "unitStop"
       /\ IF e \in unit
          THEN /\ \/ unit' = unit \ {e}
                  \/ "unitRefuses" \in EngineFaults /\ UNCHANGED unit
               /\ End(c)
          ELSE End(c) /\ UNCHANGED unit
       /\ UNCHANGED <<installed, venv, proc, table, container, overlap, abandoned>>

(* install_engine: already installed, or one of the installers.            *)
InstallLook(c) ==
    /\ call[c].pc = "look"
    /\ IF FindEngine(call[c].engine) THEN End(c) ELSE Goto(c, "install")
    /\ UNCHANGED <<installed, unit, venv, proc, table, container, overlap, abandoned>>

(* _install_ollama: success only if the binary is found afterwards.  The   *)
(* script also starts the unit.                                            *)
InstallOllama(c) ==
    /\ call[c].pc = "install" /\ call[c].engine \in Units
    /\ \/ /\ installed' = installed \cup {call[c].engine}
          /\ unit' = unit \cup {call[c].engine}
          /\ End(c)
       \/ /\ "installFails" \in EngineFaults
          /\ End(c)
          /\ UNCHANGED <<installed, unit>>
    /\ UNCHANGED <<venv, proc, table, container, overlap, abandoned>>

(* _install_llama_cpp: a build in /tmp/llama.cpp, which every build starts *)
(* and ends by removing, so that one beside another may find its tree      *)
(* gone; then pip; then the look that decides.                             *)
Building(c) == {b \in Commands \ {c} : call[b].pc = "install" /\ call[b].engine = call[c].engine}

InstallLlamaCpp(c) ==
    /\ call[c].pc = "install" /\ call[c].engine \notin Units \cup Venvs
    /\ End(c)
    /\ \/ installed' = installed \cup {call[c].engine}
       \/ /\ "installFails" \in EngineFaults \/ Building(c) # {}
          /\ UNCHANGED installed
    /\ UNCHANGED <<unit, venv, proc, table, container, overlap, abandoned>>

(* _install_vllm: make the venv unless its directory is there, whatever is *)
(* in it; a creation that failed leaves the directory behind.              *)
MakeVenv(c) ==
    LET e == call[c].engine
    IN /\ call[c].pc = "install" /\ e \in Venvs
       /\ IF venv[e] # "absent" THEN Goto(c, "wheels") /\ UNCHANGED venv
          ELSE \/ Goto(c, "wheels") /\ venv' = [venv EXCEPT ![e] = "good"]
               \/ /\ "installFails" \in EngineFaults
                  /\ End(c)
                  /\ venv' = [venv EXCEPT ![e] = "broken"]
       /\ UNCHANGED <<installed, unit, proc, table, container, overlap, abandoned>>

(* The wheels of the CUDA version found, or plain pip; nothing can be      *)
(* installed into a broken venv.                                           *)
InstallWheels(c) ==
    LET e == call[c].engine
    IN /\ call[c].pc = "wheels"
       /\ End(c)
       /\ \/ venv[e] = "good" /\ installed' = installed \cup {e}
          \/ venv[e] = "broken" /\ UNCHANGED installed
          \/ "installFails" \in EngineFaults /\ UNCHANGED installed
       /\ UNCHANGED <<unit, venv, proc, table, container, overlap, abandoned>>

(* An engine process ends by itself: at once (a port that is taken, a bad  *)
(* model path) or later.                                                   *)
EngineDies(p) ==
    /\ Alive(p)
    /\ \/ "engineCrash" \in EngineFaults
       \/ "exitsEarly" \in EngineFaults /\ \E c \in Commands : call[c].pc = "verify" /\ call[c].pid = p
       \/ \E q \in Pids \ {p} : Alive(q) /\ proc[q].engine = proc[p].engine
    /\ proc' = [proc EXCEPT ![p].state = "dead"]
    /\ UNCHANGED <<installed, unit, venv, table, call, container, overlap, abandoned>>

-----------------------------------------------------------------------------
(* run_container: pull (its result is not looked at), run, remember, wait  *)
(* for health, follow the logs.  Every docker call may raise.              *)

Raises == "dockerRaises" \in EngineFaults

(* The finally block forgets the container, whatever its state.            *)
Forget(c, s) == container' = [container EXCEPT ![c] = [state |-> s, active |-> FALSE]]

PullAndRun(c) ==
    /\ call[c].pc = "runContainer"
    /\ \/ /\ container' = [container EXCEPT ![c].state = "running"]
          /\ Goto(c, "register")
          /\ UNCHANGED abandoned
       \/ /\ Raises
          /\ End(c)
          /\ \E s \in {"none", "running"} : Forget(c, s)  \* running: docker run timed out
          /\ abandoned' = abandoned \cup {c}
    /\ UNCHANGED <<installed, unit, venv, proc, table, overlap>>

RegisterContainer(c) ==
    /\ call[c].pc = "register"
    /\ container' = [container EXCEPT ![c].active = TRUE]
    /\ Goto(c, "health")
    /\ UNCHANGED <<installed, unit, venv, proc, table, overlap, abandoned>>

(* Mutant: an unhealthy container is left where it is.                     *)
AwaitHealthOrLeave(c) ==
    /\ call[c].pc = "health"
    /\ \/ Goto(c, "logs") /\ UNCHANGED container
       \/ /\ "unhealthy" \in EngineFaults
          /\ End(c)
          /\ Forget(c, container[c].state)
    /\ UNCHANGED <<installed, unit, venv, proc, table, overlap, abandoned>>

(* wait_for_healthy; a container that is not healthy in time is removed.   *)
AwaitHealth(c) ==
    /\ call[c].pc = "health"
    /\ \/ Goto(c, "logs") /\ UNCHANGED <<container, abandoned>>
       \/ /\ "unhealthy" \in EngineFaults
          /\ End(c)
          /\ Forget(c, "removed")
          /\ UNCHANGED abandoned
       \/ /\ "unhealthy" \in EngineFaults /\ Raises
          /\ End(c)
          /\ Forget(c, container[c].state)
          /\ abandoned' = abandoned \cup {c}
    /\ UNCHANGED <<installed, unit, venv, proc, table, overlap>>

(* docker logs -f ends with the container, as a rule: the client may also  *)
(* be killed, lose the Docker daemon or find a log driver it cannot read,  *)
(* and Popen or the loop over its output may raise.  The thread posts      *)
(* completed or failed and, in any case, forgets the container.            *)
FollowLogs(c) ==
    /\ call[c].pc = "logs"
    /\ \/ container[c].state # "running" /\ UNCHANGED abandoned
       \/ "logsEnd" \in EngineFaults /\ abandoned' = abandoned \cup {c}
    /\ End(c)
    /\ Forget(c, container[c].state)
    /\ UNCHANGED <<installed, unit, venv, proc, table, overlap>>

ContainerExits(c) ==
    /\ container[c].state = "running"
    /\ container' = [container EXCEPT ![c].state = "exited"]
    /\ UNCHANGED <<installed, unit, venv, proc, table, call, overlap, abandoned>>

(* stop_container of /api/commands: only what active_containers has.       *)
StopContainer(c) ==
    /\ container[c].active
    /\ container' = [container EXCEPT ![c].state = "removed"]
    /\ UNCHANGED <<installed, unit, venv, proc, table, call, overlap, abandoned>>

-----------------------------------------------------------------------------
(* The daemon stops.  Its table is lost; its children live on, or die with *)
(* the service's control group.                                            *)
EngineRestart ==
    /\ "agentCrash" \in EngineFaults
    /\ table' = [e \in Engines |-> NoPid]
    /\ \E survives \in BOOLEAN :
          proc' = [p \in Pids |-> [proc[p] EXCEPT
                      !.state = IF @ = "up" /\ proc[p].child /\ ~survives THEN "dead" ELSE @,
                      !.child = FALSE]]
    /\ call' = [c \in Commands |-> IF call[c].pc = "idle" THEN call[c]
                                   ELSE [call[c] EXCEPT !.pc = "done"]]
    /\ container' = [c \in Commands |-> [container[c] EXCEPT !.active = FALSE]]
    /\ abandoned' = abandoned \cup {c \in Commands : call[c].pc \notin {"idle", "done"}}
    /\ UNCHANGED <<installed, unit, venv, overlap>>

FirstSteps == {"check", "pop", "look", "runContainer"}

EngineThread(c) ==
    \/ StartCheck(c) \/ Spawn(c) \/ Verify(c)
    \/ StopPop(c) \/ StopKill(c) \/ StopUnit(c)
    \/ InstallLook(c) \/ InstallOllama(c) \/ InstallLlamaCpp(c)
    \/ MakeVenv(c) \/ InstallWheels(c)
    \/ PullAndRun(c) \/ RegisterContainer(c) \/ AwaitHealth(c) \/ FollowLogs(c)

HostStep ==
    \/ \E p \in Pids : EngineDies(p)
    \/ \E c \in Commands : ContainerExits(c) \/ StopContainer(c)

EngineNext ==
    \/ \E c \in Commands, e \in Engines, first \in FirstSteps : TakeCommand(c, e, first)
    \/ \E c \in Commands : EngineThread(c)
    \/ HostStep
    \/ EngineRestart

EngineSpec == EngineInit /\ [][EngineNext]_engineVars

-----------------------------------------------------------------------------

InHand(p) == \E c \in Commands : call[c].pc \in {"verify", "kill"} /\ call[c].pid = p

(* A live engine process of this daemon is in the table, where status and  *)
(* stop find it, or in the hands of a thread that starts or stops it -     *)
(* unless two starts of that engine have overlapped (the check and the     *)
(* entry in the table are not one step) or a stop gave up on it.           *)
NoEngineLost ==
    \A p \in Pids :
        Alive(p) /\ proc[p].child /\ proc[p].engine \notin overlap /\ p \notin abandoned =>
            table[proc[p].engine] = p \/ InHand(p)

(* No container of a finished command runs on unnoticed: it exited or was  *)
(* removed, unless a docker call failed under the command, its log stream  *)
(* ended before the container (the finally block takes the container out   *)
(* of active_containers all the same, daemon.py:205-208, and no stop finds *)
(* it any more), or the daemon ended meanwhile.                            *)
NoContainerForgotten ==
    \A c \in Commands :
        call[c].pc = "done" /\ c \notin abandoned => container[c].state # "running"

=============================================================================
