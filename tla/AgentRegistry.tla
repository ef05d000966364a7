---------------------------- MODULE AgentRegistry ----------------------------
(***************************************************************************)
(* The server's table of agents and the agents' side of it: tokens are     *)
(* provisioned with the install script and rotated, agents register, beat, *)
(* register again when the server does not know them, and post results;    *)
(* whoever lists the agents first marks the silent ones offline.           *)
(*                                                                         *)
(* Time passes in units of 30 s.  A beat comes later than its interval by  *)
(* what the agent needs beside the wait: to look at its engines and its    *)
(* disk, to send and register (each request has 10 s), to take the answer  *)
(* and what it orders.  AgentManager locks its writes, not the checks its  *)
(* callers make before.                                                    *)
(***************************************************************************)
EXTENDS Naturals, FiniteSets

CONSTANTS
    Names,       \* agent names (hostnames)
    Machines,    \* machines that run an agent
    NameOf,      \* the name each machine registers under
    Intervals,   \* values of heartbeat_interval_s, in units
    Timeout,     \* HEARTBEAT_TIMEOUT_S, in units
    Latency,     \* bound: units between two beats beside the interval
    MaxIds,      \* bound: agent ids generated
    MaxTokens,   \* bound: tokens generated
    Disturbances \* what may happen

RegistryEvents == {"lost", "stop", "rotate", "delete", "reset", "interval", "reprovision"}

ASSUME NameOfAssumption == NameOf \in [Machines -> Names]
ASSUME BoundsAssumption == MaxIds \in Nat /\ MaxTokens \in Nat /\ Timeout \in Nat
                            /\ Latency \in Nat
ASSUME IntervalsAssumption == 1 \in Intervals /\ Intervals \subseteq Nat \ {0}
ASSUME LongestAssumption == \E i \in Intervals : \A j \in Intervals : j <= i  \* 10 to 300 s
ASSUME DisturbancesAssumption == Disturbances \subseteq RegistryEvents

Default == 1   \* heartbeat_interval_s = 30

VARIABLES
    row,      \* agents and agent_settings, by name: the name is unique
    ids,      \* ids generated so far
    tokens,   \* tokens generated so far
    yaml,     \* the token in each machine's agent.yaml
    agent,    \* the agent process of each machine
    result    \* what became of the last result each machine posted

registryVars == <<row, ids, tokens, yaml, agent, result>>

Ids    == 0..MaxIds      \* 0: none; an agent without an id uses its name
Tokens == 0..MaxTokens   \* 0: none
Ages   == 0..(Timeout + 1)

Rows == [id : Ids, token : Tokens, status : {"provisioned", "online", "idle", "offline"},
         age : Ages, known : BOOLEAN, interval : Intervals]
AgentPcs == {"off", "idle", "check", "commit", "registered", "resolve", "serve", "answered"}
Agents == [pc : AgentPcs,
           id : Ids, token : Tokens, target : Ids, base : Intervals, told : Intervals,
           wait : 0..(CHOOSE i \in Intervals : \A j \in Intervals : j <= i),
           again : BOOLEAN,
           missed : BOOLEAN, late : 0..Latency]  \* not handled; units since the last one was

RegistryTypeOK ==
    /\ row \in [Names -> Rows]
    /\ ids \in Ids /\ tokens \in Tokens
    /\ yaml \in [Machines -> Tokens]
    /\ agent \in [Machines -> Agents]
    /\ result \in [Machines -> {"none", "accepted", "unknown", "refused"}]

NoRow == [id |-> 0, token |-> 0, status |-> "provisioned", age |-> 0,
          known |-> FALSE, interval |-> Default]
NoAgent == [pc |-> "off", id |-> 0, token |-> 0, target |-> 0, base |-> Default,
            told |-> Default, wait |-> 0, again |-> FALSE, missed |-> TRUE, late |-> 0]

RegistryInit ==
    /\ row = [n \in Names |-> NoRow]
    /\ ids = 0 /\ tokens = 0
    /\ yaml = [m \in Machines |-> 0]
    /\ agent = [m \in Machines |-> NoAgent]
    /\ result = [m \in Machines |-> "none"]

-----------------------------------------------------------------------------
(* The server.                                                             *)

HasRow(n)  == row[n].id # 0
WithId(id) == {n \in Names : id # 0 /\ row[n].id = id}

(* check_agent_auth and verify_token: a row without a token takes any.     *)
TokenOK(n, token) == row[n].token \in {0, token}

(* provision: rotate the token of a known name, or insert a row.           *)
Provision(n) ==
    /\ tokens < MaxTokens
    /\ tokens' = tokens + 1
    /\ IF HasRow(n)
       THEN /\ "reprovision" \in Disturbances
            /\ row' = [row EXCEPT ![n].token = tokens + 1]
            /\ UNCHANGED ids
       ELSE /\ ids < MaxIds
            /\ ids' = ids + 1
            /\ row' = [row EXCEPT ![n] = [NoRow EXCEPT !.id = ids + 1, !.token = tokens + 1]]

(* The install script: provisions as it is downloaded, and writes          *)
(* agent.yaml when it is run, if it is.  Without a name it provisions a    *)
(* placeholder.                                                            *)
InstallScript(m, n) ==
    /\ n = NameOf[m] \/ n \notin {NameOf[k] : k \in Machines}
    /\ Provision(n)
    /\ \E run \in BOOLEAN : yaml' = IF run THEN [yaml EXCEPT ![m] = tokens + 1] ELSE yaml
    /\ UNCHANGED <<agent, result>>

RotateToken(n) ==
    /\ "rotate" \in Disturbances
    /\ HasRow(n)
    /\ tokens < MaxTokens
    /\ tokens' = tokens + 1
    /\ row' = [row EXCEPT ![n].token = tokens + 1]
    /\ UNCHANGED <<ids, yaml, agent, result>>

(* The settings go with the row.  A row that tests refer to stays.         *)
DeleteAgent(n) ==
    /\ "delete" \in Disturbances
    /\ HasRow(n)
    /\ row' = [row EXCEPT ![n] = NoRow]
    /\ UNCHANGED <<ids, tokens, yaml, agent, result>>

DatabaseReset ==
    /\ "reset" \in Disturbances
    /\ row' = [n \in Names |-> NoRow]
    /\ row' # row
    /\ UNCHANGED <<ids, tokens, yaml, agent, result>>

UpdateAgentSettings(n, i) ==
    /\ "interval" \in Disturbances
    /\ HasRow(n)
    /\ row[n].interval # i
    /\ row' = [row EXCEPT ![n].interval = i]
    /\ UNCHANGED <<ids, tokens, yaml, agent, result>>

(* _check_stale_agents: a row that never had a heartbeat stays as it is.   *)
Stale(n) == row[n].status # "offline" /\ row[n].known /\ row[n].age > Timeout

CheckStaleAgents ==
    /\ \E n \in Names : Stale(n)
    /\ row' = [n \in Names |-> IF Stale(n) THEN [row[n] EXCEPT !.status = "offline"] ELSE row[n]]
    /\ UNCHANGED <<ids, tokens, yaml, agent, result>>

-----------------------------------------------------------------------------
(* The agent.                                                              *)

StartRegistering(m) ==
    /\ agent[m].pc = "off"
    /\ agent' = [agent EXCEPT ![m] = [NoAgent EXCEPT !.pc = "check", !.token = yaml[m]]]
    /\ UNCHANGED <<row, ids, tokens, yaml, result>>

Stop(m) ==
    /\ "stop" \in Disturbances
    /\ agent[m].pc \notin {"off", "serve", "commit"}
    /\ agent' = [agent EXCEPT ![m] = NoAgent]
    /\ UNCHANGED <<row, ids, tokens, yaml, result>>

(* The loop waits for the interval, whatever happened.                     *)
Rest(a) == [a EXCEPT !.pc = "idle", !.again = FALSE, !.target = 0, !.told = Default,
                     !.wait = a.base]

(* A request that fails.  After a first registration that fails the name   *)
(* serves as id, and the first beat is sent at once.                       *)
AfterFailure(a) ==
    IF a.pc \in {"check", "registered"} /\ ~a.again THEN [a EXCEPT !.pc = "idle", !.target = 0]
    ELSE Rest(a)
GiveUp(m) ==
    agent' = [agent EXCEPT ![m] = AfterFailure([agent[m] EXCEPT !.missed = TRUE, !.late = 0])]

(* The register handler: check_agent_auth_by_name, outside the lock.       *)
RegisterCheck(m) ==
    /\ agent[m].pc = "check"
    /\ IF HasRow(NameOf[m]) /\ ~TokenOK(NameOf[m], agent[m].token)
       THEN GiveUp(m)
       ELSE agent' = [agent EXCEPT ![m].pc = "commit"]
    /\ UNCHANGED <<row, ids, tokens, yaml, result>>

(* AgentManager.register: update the row of that name, or insert one with  *)
(* the agent's own token.                                                  *)
RegisterCommit(m) ==
    LET n  == NameOf[m]
        id == IF HasRow(n) THEN row[n].id ELSE ids + 1
    IN /\ agent[m].pc = "commit"
       /\ id <= MaxIds
       /\ ids' = IF HasRow(n) THEN ids ELSE id
       /\ row' = [row EXCEPT ![n] =
                     [IF HasRow(n) THEN row[n]
                      ELSE [NoRow EXCEPT !.id = id, !.token = agent[m].token]
                      EXCEPT !.status = "online", !.age = 0, !.known = TRUE]]
       /\ agent' = [agent EXCEPT ![m].target = id, ![m].missed = FALSE, ![m].late = 0,
                                 ![m].pc = "registered"]
       /\ UNCHANGED <<tokens, yaml, result>>

(* The answer has the id.  Registered again, the agent repeats its beat.   *)
TakeId(m) ==
    /\ agent[m].pc = "registered"
    /\ agent' = [agent EXCEPT ![m].id = agent[m].target, ![m].target = 0,
                              ![m].pc = IF agent[m].again THEN "resolve" ELSE "idle"]
    /\ UNCHANGED <<row, ids, tokens, yaml, result>>

Beat(m) ==
    /\ agent[m].pc = "idle" /\ agent[m].wait = 0
    /\ agent' = [agent EXCEPT ![m].pc = "resolve"]
    /\ UNCHANGED <<row, ids, tokens, yaml, result>>

(* _resolve_agent_id: by id, else what was sent may be a name.             *)
Resolved(m) ==
    IF agent[m].id = 0 THEN {n \in Names : n = NameOf[m] /\ HasRow(n)}
                       ELSE WithId(agent[m].id)

(* Mutant: an agent that the server does not know just tries later.        *)
ResolveBeatOrWait(m) ==
    /\ agent[m].pc = "resolve"
    /\ IF Resolved(m) = {} THEN GiveUp(m)
       ELSE \E n \in Resolved(m) :
               IF TokenOK(n, agent[m].token)
               THEN agent' = [agent EXCEPT ![m].pc = "serve", ![m].target = row[n].id]
               ELSE GiveUp(m)
    /\ UNCHANGED <<row, ids, tokens, yaml, result>>

(* 404 makes the agent register again, once per beat; 401 and 403 do not.  *)
ResolveBeat(m) ==
    /\ agent[m].pc = "resolve"
    /\ IF Resolved(m) = {}
       THEN IF agent[m].again THEN GiveUp(m)
            ELSE agent' = [agent EXCEPT ![m].pc = "check", ![m].again = TRUE]
       ELSE \E n \in Resolved(m) :
               IF TokenOK(n, agent[m].token)
               THEN agent' = [agent EXCEPT ![m].pc = "serve", ![m].target = row[n].id]
               ELSE GiveUp(m)
    /\ UNCHANGED <<row, ids, tokens, yaml, result>>

(* Mutant: the time of the heartbeat is not stored.                        *)
ServeBeatUntimed(m) ==
    /\ agent[m].pc = "serve"
    /\ IF WithId(agent[m].target) = {} THEN GiveUp(m) /\ UNCHANGED row
       ELSE \E n \in WithId(agent[m].target) :
               /\ row' = [row EXCEPT ![n].status = "idle", ![n].known = TRUE]
               /\ agent' = [agent EXCEPT ![m].pc = "answered", ![m].told = row[n].interval,
                                         ![m].missed = FALSE, ![m].late = 0]
    /\ UNCHANGED <<ids, tokens, yaml, result>>

(* AgentManager.heartbeat; the answer has the canonical id and the         *)
(* interval.  The report of the engines of an agent that was deleted       *)
(* meanwhile breaks a foreign key: the handler fails.                      *)
ServeBeat(m) ==
    /\ agent[m].pc = "serve"
    /\ IF WithId(agent[m].target) = {} THEN GiveUp(m) /\ UNCHANGED row
       ELSE \E n \in WithId(agent[m].target) :
               /\ row' = [row EXCEPT ![n].status = "idle", ![n].age = 0, ![n].known = TRUE]
               /\ agent' = [agent EXCEPT ![m].pc = "answered", ![m].told = row[n].interval,
                                         ![m].missed = FALSE, ![m].late = 0]
    /\ UNCHANGED <<ids, tokens, yaml, result>>

TakeAnswer(m) ==
    /\ agent[m].pc = "answered"
    /\ agent' = [agent EXCEPT ![m] =
                    Rest([agent[m] EXCEPT !.id = agent[m].target, !.base = agent[m].told])]
    /\ UNCHANGED <<row, ids, tokens, yaml, result>>

(* The server is away, or the connection is, before the request is handled *)
(* or after: the agent cannot tell.                                        *)
RequestLost(m) ==
    /\ "lost" \in Disturbances
    /\ agent[m].pc \in {"check", "resolve"}
    /\ GiveUp(m)
    /\ UNCHANGED <<row, ids, tokens, yaml, result>>

AnswerLost(m) ==
    /\ "lost" \in Disturbances
    /\ agent[m].pc \in {"registered", "answered"}
    /\ agent' = [agent EXCEPT ![m] = AfterFailure(agent[m])]
    /\ UNCHANGED <<row, ids, tokens, yaml, result>>

(* The POST of a result: the same resolution, and no second attempt.       *)
Report(m) ==
    /\ agent[m].pc = "idle"
    /\ result' = [result EXCEPT ![m] =
                     IF Resolved(m) = {} THEN "unknown"
                     ELSE IF \E n \in Resolved(m) : TokenOK(n, agent[m].token)
                     THEN "accepted" ELSE "refused"]
    /\ UNCHANGED <<row, ids, tokens, yaml, agent>>

Waits(m) == agent[m].pc = "idle" /\ agent[m].wait > 0

Tick ==
    /\ \A m \in Machines : agent[m].pc = "off" \/ Waits(m) \/ agent[m].late < Latency
    /\ agent' = [m \in Machines |->
                    IF agent[m].pc = "off" THEN agent[m]
                    ELSE IF Waits(m) THEN [agent[m] EXCEPT !.wait = @ - 1]
                    ELSE [agent[m] EXCEPT !.late = @ + 1]]
    /\ row' = [n \in Names |-> IF row[n].known /\ row[n].age <= Timeout
                               THEN [row[n] EXCEPT !.age = @ + 1] ELSE row[n]]
    /\ UNCHANGED <<ids, tokens, yaml, result>>

-----------------------------------------------------------------------------

AgentStep(m) ==
    \/ RegisterCheck(m) \/ RegisterCommit(m) \/ TakeId(m)
    \/ Beat(m) \/ ResolveBeat(m) \/ ServeBeat(m) \/ TakeAnswer(m)

RegistryNext ==
    \/ \E m \in Machines, n \in Names : InstallScript(m, n)
    \/ \E n \in Names : RotateToken(n) \/ DeleteAgent(n)
    \/ \E n \in Names, i \in Intervals : UpdateAgentSettings(n, i)
    \/ DatabaseReset
    \/ CheckStaleAgents
    \/ \E m \in Machines :
          \/ StartRegistering(m) \/ Stop(m) \/ AgentStep(m)
          \/ RequestLost(m) \/ AnswerLost(m) \/ Report(m)
    \/ Tick

RegistrySpec == RegistryInit /\ [][RegistryNext]_registryVars

(* The threads of agent and server run, and time passes; of a request that *)
(* is sent again and again, some copy arrives, and some answer to it does. *)
RegistryFairness ==
    /\ WF_registryVars(Tick)
    /\ \A m \in Machines :
          /\ WF_registryVars(Beat(m))
          /\ SF_registryVars(RegisterCheck(m))
          /\ SF_registryVars(ResolveBeat(m))
          /\ WF_registryVars(RegisterCommit(m))
          /\ WF_registryVars(ServeBeat(m))
          /\ SF_registryVars(TakeId(m))
          /\ SF_registryVars(TakeAnswer(m))

FairRegistrySpec == RegistrySpec /\ RegistryFairness

-----------------------------------------------------------------------------

(* A running agent is shown offline only if its last beat did not reach    *)
(* the server, or its interval and its latency together are longer than    *)
(* the server's patience: the settings allow 300 s, HEARTBEAT_TIMEOUT_S is *)
(* 90, and at 90 every beat is late.  A lost answer does no harm.          *)
OfflineIsSilent ==
    \A m \in Machines :
        /\ row[NameOf[m]].status = "offline"
        /\ agent[m].pc # "off"
        => agent[m].missed \/ agent[m].base + Latency > Timeout

(* An agent whose token the server takes, or does not know yet, gets back  *)
(* to its row, however the row was deleted, reset or made anew meanwhile   *)
(* (README.md:285).  The ids that remain bound how often it may happen.    *)
Welcome(m) ==
    /\ agent[m].pc # "off"
    /\ ~HasRow(NameOf[m]) => ids < MaxIds
    /\ HasRow(NameOf[m]) => TokenOK(NameOf[m], agent[m].token)

AgentRecovers ==
    \A m \in Machines :
        <>[]Welcome(m) => []<>(/\ HasRow(NameOf[m])
                               /\ agent[m].id = row[NameOf[m]].id
                               /\ row[NameOf[m]].status = "idle")

=============================================================================
