---------------------------- MODULE MCServerSide ----------------------------
(***************************************************************************)
(* Instances for TLC of what the server keeps: the registry of agents, the *)
(* event streams, the schema of its database, the results in it.  Each is  *)
(* explored alone, the others at rest.                                     *)
(***************************************************************************)
EXTENDS AgentRegistry, EventStream, SchemaMigration, ResultStore, TLC

CONSTANTS n1, n2, a1

(* One machine; the other name is the placeholder of a script that was     *)
(* downloaded without a name.                                              *)
MachineName == a1 :> n1

(* Statements of five versions of MIGRATIONS: a new table, ALTER TABLE     *)
(* twice, a table again, a table and an ALTER TABLE, a table.              *)
FiveVersions == <<<<"safe">>, <<"once", "once">>, <<"safe">>, <<"safe", "once">>, <<"safe">>>>

(* Three have a step in Python, the last one in two parts.                 *)
FiveHooks == <<0, 1, 1, 0, 2>>

VARIABLE part

ServerInit ==
    /\ part \in {"registry", "stream", "schema", "store"}
    /\ RegistryInit /\ StreamInit /\ SchemaInit /\ StoreInit
    /\ part # "stream" => ~replays
    /\ part # "schema" => recorded = {}
    /\ part # "store" => cleaner = [c \in Cleaners |->
                                      [pc |-> "new", of |-> CHOOSE s \in Savers : TRUE]]

ServerNext ==
    /\ UNCHANGED part
    /\ \/ part = "registry" /\ RegistryNext /\ UNCHANGED <<streamVars, schemaVars, storeVars>>
       \/ part = "stream" /\ StreamNext /\ UNCHANGED <<registryVars, schemaVars, storeVars>>
       \/ part = "schema" /\ SchemaNext /\ UNCHANGED <<registryVars, streamVars, storeVars>>
       \/ part = "store" /\ StoreNext /\ UNCHANGED <<registryVars, streamVars, schemaVars>>

ServerSpec ==
    /\ ServerInit
    /\ [][ServerNext]_<<part, registryVars, streamVars, schemaVars, storeVars>>
    /\ RegistryFairness

(* Every variable of the four modules stays within its type: an agent's    *)
(* row, a queue, the version table and a result's rows are always of the   *)
(* form that the handlers expect.                                          *)
ServerTypeOK == RegistryTypeOK /\ StreamTypeOK /\ SchemaTypeOK /\ StoreTypeOK

=============================================================================
