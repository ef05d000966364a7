--------------------------- MODULE RemoteCampaign ---------------------------
(***************************************************************************)
(* kitt remote: commands on an operator's machine that keep hosts.yaml,    *)
(* provision a host, start a campaign there over ssh and poll for its end, *)
(* and copy its results.  A path that begins with ~ is quoted for the      *)
(* remote shell, so it leads to the home directory only if there is a link *)
(* named ~ in it.                                                          *)
(***************************************************************************)
EXTENDS Naturals, FiniteSets

CONSTANTS
    Operators,     \* kitt remote processes
    Hosts, NoHost,
    Results,       \* result directories that campaigns may leave
    MaxPolls,      \* timeout / poll_interval
    MaxCommands,   \* bound: commands given
    RemoteFaults   \* subset of {"ssh", "installFails", "enginesFail", "scp", "killed"}

ASSUME RemoteAssumption ==
    NoHost \notin Hosts /\ MaxPolls \in Nat \ {0} /\ MaxCommands \in Nat

VARIABLES
    hostsFile,   \* hosts.yaml, empty while it is being written
    operator,    \* the processes
    remote,      \* the hosts
    tildeLink,   \* a quoted ~ leads to the home directory
    shellMatches,\* the shell that runs pgrep has its pattern on its command line
    local,       \* directories under kitt-results with a metrics.json, here
    imported,    \* those that are in the result store
    commands

remoteVars == <<hostsFile, operator, remote, tildeLink, shellMatches, local, imported, commands>>
setting == <<tildeLink, shellMatches>>

OperatorPcs == {"off", "connect", "kitt", "probe", "load", "save", "mkdir", "upload", "start",
                "poll", "engines", "find", "copy", "import"}
Verdict == {"none", "started", "completed", "failed"}

(* A directory of a result, or the directory of its name that scp -r makes *)
(* in it.                                                                  *)
Directory == [result : Results, nested : BOOLEAN]

Resting == [pc |-> "off", does |-> "none", host |-> NoHost, read |-> {}, waits |-> FALSE,
            polls |-> 0, listed |-> {}, verdict |-> "none", blind |-> FALSE]

RemoteTypeOK ==
    /\ hostsFile \subseteq Hosts
    /\ \A o \in Operators :
          /\ operator[o].pc \in OperatorPcs /\ operator[o].host \in Hosts \cup {NoHost}
          /\ operator[o].read \subseteq Hosts /\ operator[o].polls \in 0..MaxPolls
          /\ operator[o].listed \subseteq Results
          /\ operator[o].verdict \in Verdict /\ operator[o].blind \in BOOLEAN
    /\ remote \in [Hosts -> [kitt : BOOLEAN, directory : BOOLEAN, config : BOOLEAN,
                             images : BOOLEAN, campaigns : SUBSET Operators,
                             results : SUBSET Results]]
    /\ tildeLink \in BOOLEAN /\ shellMatches \in BOOLEAN
    /\ local \subseteq Directory /\ imported \subseteq local
    /\ commands \in 0..MaxCommands

RemoteInit ==
    /\ hostsFile \in SUBSET Hosts
    /\ operator = [o \in Operators |-> Resting]
    /\ remote \in [Hosts -> [kitt : BOOLEAN, directory : BOOLEAN, config : {FALSE},
                             images : {FALSE}, campaigns : {{}}, results : {{}}]]
    /\ tildeLink \in BOOLEAN /\ shellMatches \in BOOLEAN
    /\ local = {} /\ imported = {}
    /\ commands = 0

-----------------------------------------------------------------------------

Host(o) == operator[o].host
Sets(o, pc) == operator' = [operator EXCEPT ![o].pc = pc]
Stops(o, verdict) ==
    operator' = [operator EXCEPT ![o] = [Resting EXCEPT !.host = Host(o), !.verdict = verdict]]
SshFails == "ssh" \in RemoteFaults

FirstStep(does) == CASE does = "setup"   -> "connect"
                     [] does = "remove"  -> "load"
                     [] does = "run"     -> "mkdir"
                     [] does = "engines" -> "engines"
                     [] does = "sync"    -> "find"

(* A command for a host that hosts.yaml has, or a set-up of any host.      *)
GiveCommand(o) ==
    /\ operator[o].pc = "off" /\ commands < MaxCommands
    /\ commands' = commands + 1
    /\ \E h \in Hosts, wait \in BOOLEAN, does \in {"setup", "remove", "run", "engines", "sync"} :
          /\ does # "setup" => h \in hostsFile
          /\ wait => does = "run"
          /\ operator' = [operator EXCEPT ![o] =
                [Resting EXCEPT !.does = does, !.host = h, !.waits = wait,
                                !.pc = FirstStep(does)]]
    /\ UNCHANGED <<hostsFile, remote, setting, local, imported>>

(* check_prerequisites, once for the display and once in setup_host.       *)
CheckPrerequisites(o) ==
    /\ operator[o].pc = "connect"
    /\ \/ Sets(o, "kitt")
       \/ Sets(o, "probe")                      \* --no-install
       \/ SshFails /\ Stops(o, "failed")
    /\ UNCHANGED <<hostsFile, remote, setting, local, imported, commands>>

(* verify_kitt and install_kitt; a version that is still unknown after the *)
(* installation is not an error.                                           *)
InstallKitt(o) ==
    /\ operator[o].pc = "kitt"
    /\ \/ Sets(o, "probe") /\ remote' = [remote EXCEPT ![Host(o)].kitt = TRUE]
       \/ /\ ~remote[Host(o)].kitt \/ SshFails
          /\ "installFails" \in RemoteFaults
          /\ Stops(o, "failed") /\ UNCHANGED remote
    /\ UNCHANGED <<hostsFile, setting, local, imported, commands>>

(* detect_hardware: what cannot be read is left out of the configuration.  *)
DetectHardware(o) ==
    /\ operator[o].pc = "probe"
    /\ Sets(o, "load")
    /\ UNCHANGED <<hostsFile, remote, setting, local, imported, commands>>

(* HostManager.add and remove: the whole file is read, changed in memory   *)
(* and written in place; a file that is empty is no hosts.                 *)
LoadHosts(o) ==
    /\ operator[o].pc = "load"
    /\ IF operator[o].does = "remove" /\ Host(o) \notin hostsFile
       THEN Stops(o, "failed") /\ UNCHANGED hostsFile
       ELSE /\ operator' = [operator EXCEPT ![o].pc = "save",
                  ![o].read = IF operator[o].does = "setup" THEN hostsFile \cup {Host(o)}
                              ELSE hostsFile \ {Host(o)}]
            /\ hostsFile' \in {hostsFile, {}}         \* before, or once truncated
    /\ UNCHANGED <<remote, setting, local, imported, commands>>

SaveHosts(o) ==
    /\ operator[o].pc = "save"
    /\ hostsFile' = operator[o].read
    /\ Stops(o, "none")
    /\ UNCHANGED <<remote, setting, local, imported, commands>>

(* mkdir -p '~/kitt-campaigns': a directory named ~, or the right one.     *)
MakeDirectory(o) ==
    /\ operator[o].pc = "mkdir"
    /\ Sets(o, "upload")
    /\ remote' = IF tildeLink THEN [remote EXCEPT ![Host(o)].directory = TRUE] ELSE remote
    /\ UNCHANGED <<hostsFile, setting, local, imported, commands>>

(* scp to ~/kitt-campaigns, which is in the home directory.                *)
UploadConfig(o) ==
    /\ operator[o].pc = "upload"
    /\ \/ /\ remote[Host(o)].directory
          /\ remote' = [remote EXCEPT ![Host(o)].config = TRUE]
          /\ Sets(o, "start")
       \/ /\ ~remote[Host(o)].directory \/ "scp" \in RemoteFaults
          /\ Stops(o, "failed") /\ UNCHANGED remote
    /\ UNCHANGED <<hostsFile, setting, local, imported, commands>>

(* nohup '~/.local/bin/kitt' campaign run '~/kitt-campaigns/...' & echo $! *)
(* answers with a process id, whether or not there is such a command and   *)
(* such a file.                                                            *)
Runnable(h) == tildeLink /\ remote[h].kitt /\ remote[h].config

Launched(o) ==
    IF Runnable(Host(o)) THEN [remote EXCEPT ![Host(o)].campaigns = @ \cup {o}] ELSE remote

(* ssh may fail before the command runs on the host, or after it.          *)
StartCampaign(o) ==
    /\ operator[o].pc = "start"
    /\ \/ /\ remote' = Launched(o)
          /\ IF operator[o].waits THEN Sets(o, "poll") ELSE Stops(o, "started")
       \/ /\ SshFails
          /\ Stops(o, "failed")
          /\ remote' \in {remote, Launched(o)}
    /\ UNCHANGED <<hostsFile, setting, local, imported, commands>>

(* Mutant: pgrep without -f, which looks at the name of the interpreter.   *)
RunningByName(h) == shellMatches

(* pgrep -f 'kitt campaign run': anybody's campaign.                       *)
CampaignRunning(h) == shellMatches \/ remote[h].campaigns # {}

(* check_status and the loop of run_and_wait: what is not "running", a     *)
(* failure of ssh included, is the campaign's end.                         *)
PollStatus(o) ==
    /\ operator[o].pc = "poll"
    /\ operator[o].polls < MaxPolls
    /\ \/ /\ CampaignRunning(Host(o))
          /\ operator' = [operator EXCEPT ![o].polls = @ + 1]
       \/ ~CampaignRunning(Host(o)) /\ Stops(o, "completed")
       \/ /\ SshFails
          /\ operator' = [operator EXCEPT ![o] = [Resting EXCEPT !.host = Host(o), !.blind = TRUE,
                                                                 !.verdict = "completed"]]
    /\ UNCHANGED <<hostsFile, remote, setting, local, imported, commands>>

GiveUpWaiting(o) ==
    /\ operator[o].pc = "poll" /\ operator[o].polls = MaxPolls
    /\ Stops(o, "failed")
    /\ UNCHANGED <<hostsFile, remote, setting, local, imported, commands>>

(* The campaign on the host goes on, whatever becomes of the operator.     *)
CampaignResult(h, r) ==
    /\ remote[h].campaigns # {}
    /\ remote' = [remote EXCEPT ![h].results = @ \cup {r}]
    /\ UNCHANGED <<hostsFile, operator, setting, local, imported, commands>>

CampaignEnds(h, o) ==
    /\ o \in remote[h].campaigns
    /\ remote' = [remote EXCEPT ![h].campaigns = @ \ {o}]
    /\ UNCHANGED <<hostsFile, operator, setting, local, imported, commands>>

(* kitt remote engines setup: kitt engines setup over ssh.                 *)
SetupEngines(o) ==
    /\ operator[o].pc = "engines"
    /\ \/ /\ remote[Host(o)].kitt
          /\ remote' = [remote EXCEPT ![Host(o)].images = TRUE]
          /\ Stops(o, "none")
       \/ /\ ~remote[Host(o)].kitt \/ "enginesFail" \in RemoteFaults \/ SshFails
          /\ Stops(o, "failed") /\ UNCHANGED remote
    /\ UNCHANGED <<hostsFile, setting, local, imported, commands>>

(* list_remote_results; without an answer there are none.  What is listed  *)
(* and not known here is copied.                                           *)
Known == {r \in Results : [result |-> r, nested |-> FALSE] \in local}

ListResults(o) ==
    /\ operator[o].pc = "find"
    /\ \/ operator' = [operator EXCEPT ![o].pc = "copy",
                                       ![o].listed = remote[Host(o)].results \ Known]
       \/ SshFails /\ Stops(o, "none")
    /\ UNCHANGED <<hostsFile, remote, setting, local, imported, commands>>

(* download_directory into a directory just made: scp -r makes another in  *)
(* it.                                                                     *)
CopyResult(o) ==
    /\ operator[o].pc = "copy"
    /\ IF operator[o].listed = {}
       THEN Sets(o, "import") /\ UNCHANGED local
       ELSE \E r \in operator[o].listed :
               /\ operator' = [operator EXCEPT ![o].listed = @ \ {r}]
               /\ \/ local' = local \cup {[result |-> r, nested |-> TRUE]}
                  \/ "scp" \in RemoteFaults /\ UNCHANGED local
    /\ UNCHANGED <<hostsFile, remote, setting, imported, commands>>

(* import_to_store, for a caller of ResultSync: all that is here, again.   *)
ImportResults(o) ==
    /\ operator[o].pc = "import"
    /\ \/ imported' = local
       \/ UNCHANGED imported                    \* kitt remote sync does not import
    /\ Stops(o, "none")
    /\ UNCHANGED <<hostsFile, remote, setting, local, commands>>

OperatorKilled(o) ==
    /\ "killed" \in RemoteFaults
    /\ operator[o].pc # "off"
    /\ Stops(o, "none")
    /\ UNCHANGED <<hostsFile, remote, setting, local, imported, commands>>

RemoteNext ==
    \/ \E o \in Operators :
          \/ GiveCommand(o) \/ CheckPrerequisites(o) \/ InstallKitt(o) \/ DetectHardware(o)
          \/ LoadHosts(o) \/ SaveHosts(o) \/ MakeDirectory(o) \/ UploadConfig(o)
          \/ StartCampaign(o) \/ PollStatus(o) \/ GiveUpWaiting(o) \/ SetupEngines(o)
          \/ ListResults(o) \/ CopyResult(o) \/ ImportResults(o) \/ OperatorKilled(o)
    \/ \E h \in Hosts, r \in Results : CampaignResult(h, r)
    \/ \E h \in Hosts, o \in Operators : CampaignEnds(h, o)

RemoteSpec == RemoteInit /\ [][RemoteNext]_remoteVars

-----------------------------------------------------------------------------

(* "Campaign completed" is never said of a campaign that still runs on the *)
(* host, whoever else has one there, but when ssh failed at the last poll. *)
(* (It is also said of a campaign that never started.)                     *)
VerdictIsExplained ==
    \A o \in Operators, h \in Hosts :
        /\ operator[o].verdict = "completed" /\ Host(o) = h
        /\ o \in remote[h].campaigns
        => operator[o].blind

=============================================================================
