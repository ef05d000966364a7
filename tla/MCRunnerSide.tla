---------------------------- MODULE MCRunnerSide ----------------------------
(***************************************************************************)
(* Instances for TLC of what runs on the machine that measures: a campaign *)
(* of kitt campaign run, kitt run processes and their engines, the         *)
(* checkpoint of a YAML benchmark, a suite of built-in benchmarks, the     *)
(* campaign script, kitt remote and its hosts.  Each is explored alone,    *)
(* the others at rest.                                                     *)
(***************************************************************************)
EXTENDS CampaignRunner, BenchmarkRun, ItemCheckpoint, BenchmarkSuite, CampaignScript,
        RemoteCampaign

CONSTANTS k1, k2, k3, r1, r2, a1, a2, a3, c1, c2, c3

(* The first two runs are quantizations of one model, from one repository, *)
(* the second in shards; the third is for Ollama.  The disk has not room   *)
(* for all, and the size of one is not known beforehand.                   *)
CampaignRepo == (k1 :> "repo") @@ (k2 :> "repo") @@ (k3 :> "other")
CampaignSize == (k1 :> 1) @@ (k2 :> 2) @@ (k3 :> 1)
CampaignParams == [k \in Keys |-> 1]
CampaignBpp == (k1 :> 0) @@ (k2 :> 2) @@ (k3 :> 1)
CampaignSpecs == <<[how |-> "gguf", keys |-> <<k1, k2>>], [how |-> "ollama", keys |-> <<k3>>]>>

(* The GGUF quantizations of one model, then the tag of the other.         *)
ScriptStages == <<[engine |-> "vllm", cells |-> <<>>],
                  [engine |-> "llama_cpp", cells |-> <<c1, c2>>],
                  [engine |-> "ollama", cells |-> <<c3>>]>>

(* What kitt run may be asked: the kinds of engine in both modes, each     *)
(* with two models where a foreign answer could be taken for the own one,  *)
(* a directory without a GGUF file, and the port that ExLlamaV2 binds.     *)
Setting(kind, how, port, model, gguf) ==
    [kind |-> kind, mode |-> how, port |-> port, model |-> model, gguf |-> gguf]

RunSettings == {Setting("vllm", "docker", 0, "m", FALSE), Setting("vllm", "docker", 0, "n", FALSE),
                Setting("vllm", "native", 0, "m", FALSE), Setting("vllm", "docker", 8081, "m", FALSE),
                Setting("llama_cpp", "default", 0, "m", TRUE),
                Setting("llama_cpp", "default", 0, "n", TRUE),
                Setting("llama_cpp", "default", 0, "m", FALSE),
                Setting("exllamav2", "default", 0, "m", FALSE),
                Setting("exllamav2", "default", 8080, "n", FALSE),
                Setting("ollama", "default", 0, "m", TRUE), Setting("ollama", "native", 0, "n", TRUE),
                Setting("ollama", "docker", 0, "m", FALSE), Setting("mlx", "default", 0, "m", FALSE)}

Machines == {[docker |-> TRUE, spark |-> FALSE, service |-> FALSE,
              images |-> EngineKinds \ {"vllm"}, binaries |-> EngineKinds],
             [docker |-> TRUE, spark |-> TRUE, service |-> TRUE,
              images |-> EngineKinds, binaries |-> {"llama_cpp", "ollama"}]}

(* Each benchmark alone, and two that leave the engine changed.            *)
SomeSuites == {<<b>> : b \in Benchmarks}
              \cup {<<"tensor_parallel", "mmlu">>, <<"speculative_decoding", "coding">>, <<>>}
SomeOverrides == {<<>>, "mmlu" :> 1}
Sizes == <<1, 2, 4>>

VARIABLE part

SideInit ==
    /\ part \in {"campaign", "run", "checkpoint", "suite", "script", "remote"}
    /\ RunnerInit
    /\ sizeLimit > 0 \/ part # "campaign" => mode = "sequential"
    /\ sizeLimit > 0 \/ mode = "parallel" \/ part # "campaign" => cleanup
    /\ part # "campaign" => sizeLimit = 0
    /\ host \in IF part = "run" THEN Machines ELSE {CHOOSE m \in Machines : TRUE}
    /\ BenchInit
    /\ kitt[r1].s.kind = kitt[r2].s.kind
    /\ part # "run" => kitt[r1].s.kind = "mlx"
    /\ CheckpointInit
    /\ SuiteInit
    /\ part # "suite" => /\ suite = <<>> /\ testOverrides = <<>> /\ engine.url
                         /\ globalConfig = [data |-> "none", modelPath |-> FALSE,
                                            draft |-> FALSE, runs |-> 1]
    /\ ScriptInit
    /\ RemoteInit
    /\ part # "remote" => /\ hostsFile = {} /\ tildeLink /\ shellMatches
                          /\ \A h \in Hosts : remote[h].kitt /\ remote[h].directory

(* Of the six groups of variables, all but one stay as they are.           *)
Others(group) ==
    /\ group # "campaign"   => UNCHANGED runnerVars
    /\ group # "run"        => UNCHANGED benchVars
    /\ group # "checkpoint" => UNCHANGED checkpointVars
    /\ group # "suite"      => UNCHANGED suiteVars
    /\ group # "script"     => UNCHANGED scriptVars
    /\ group # "remote"     => UNCHANGED remoteVars

SideNext ==
    /\ UNCHANGED part
    /\ \/ part = "campaign" /\ RunnerNext
       \/ part = "run" /\ BenchNext
       \/ part = "checkpoint" /\ CheckpointNext
       \/ part = "suite" /\ SuiteNext
       \/ part = "script" /\ ScriptNext
       \/ part = "remote" /\ RemoteNext
    /\ Others(part)

SideSpec == SideInit /\ [][SideNext]_<<part, runnerVars, benchVars, checkpointVars, suiteVars,
                                      scriptVars, remoteVars>>

(* The kitt runs are alike, and so are the attempts at a YAML benchmark:   *)
(* they start in one order, the others differ from it in names (symmetry   *)
(* sets would cost more, in the other parts).  Two attempts may meet; the  *)
(* third one comes after both.                                             *)
InTurn ==
    /\ kitt[r2].pc # "off" => kitt[r1].pc # "off"
    /\ attempt[a2].pc # "off" => attempt[a1].pc # "off"
    /\ attempt[a3].pc # "off" => attempt[a2].pc # "off" /\ ~Busy(a1) /\ ~Busy(a2)

SideNextInTurn == SideNext /\ InTurn'

SideSpecInTurn ==
    SideInit /\ [][SideNextInTurn]_<<part, runnerVars, benchVars, checkpointVars, suiteVars,
                                     scriptVars, remoteVars>>

(* Every variable of the six modules stays within its type: a state file, *)
(* a run, a checkpoint and a suite's results are always of the form that   *)
(* the code reads back.                                                    *)
SideTypeOK == /\ RunnerTypeOK /\ BenchTypeOK /\ CheckpointTypeOK /\ SuiteTypeOK
              /\ ScriptTypeOK /\ RemoteTypeOK

=============================================================================
