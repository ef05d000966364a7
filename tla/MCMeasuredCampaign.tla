-------------------------- MODULE MCMeasuredCampaign --------------------------
(***************************************************************************)
(* Instance for TLC of a campaign of two runs, whose engine listens on one *)
(* port and answers for any model, with kitt run processes of a user       *)
(* beside it.                                                              *)
(***************************************************************************)
EXTENDS MeasuredCampaign

CONSTANTS k1, k2

OneEach == [k \in Keys |-> 1]
OwnRepo == [k \in Keys |-> k]
LlamaCpp == [k \in Keys |-> "llama_cpp"]
BothRuns == <<[how |-> "plain", keys |-> <<k1, k2>>]>>

RunSettings == [kind : {"llama_cpp"}, mode : {"default"}, port : {0}, model : {k1, k2},
                gguf : {TRUE}]

(* A machine with docker and without the image; the campaign is sequential *)
(* and removes its models.                                                 *)
OneMachineInit ==
    /\ MeasuredInit
    /\ host = [docker |-> TRUE, spark |-> FALSE, service |-> FALSE,
               images |-> EngineKinds \ {"llama_cpp"}, binaries |-> {}]
    /\ cleanup

RunSymmetry == Permutations(Runs)

OneMachineSpec == OneMachineInit /\ [][MeasuredNext]_measuredVars

=============================================================================
