----------------------------- MODULE MCAgentHost -----------------------------
(***************************************************************************)
(* Instances for TLC of what an agent keeps on its machine: the model      *)
(* storage, the engines and containers, the kitt-agent processes.  They    *)
(* share no state, so that each is explored alone, the others at rest.     *)
(***************************************************************************)
EXTENDS ModelStorage, EngineOps, AgentProcess, TLC

VARIABLE part

HostInit ==
    /\ part \in {"storage", "engines", "process"}
    /\ StorageInit /\ EngineInit /\ ProcessInit
    /\ installed \in {{}, Engines}
    /\ part # "engines" => installed = {}

HostNext ==
    /\ UNCHANGED part
    /\ \/ part = "storage" /\ StorageNext /\ UNCHANGED <<engineVars, processVars>>
       \/ part = "engines" /\ EngineNext /\ UNCHANGED <<storageVars, processVars>>
       \/ part = "process" /\ ProcessNext /\ UNCHANGED <<storageVars, engineVars>>

HostSpec == HostInit /\ [][HostNext]_<<part, storageVars, engineVars, processVars>>

(* Every variable of the three modules stays within its type: a model's    *)
(* entry, an engine's process and a kitt-agent process are always in one   *)
(* of the states that the code gives them.                                 *)
HostTypeOK == StorageTypeOK /\ EngineTypeOK /\ ProcessTypeOK

HostSymmetry == Permutations(Commands) \cup Permutations(Pids)

=============================================================================
