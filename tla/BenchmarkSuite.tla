--------------------------- MODULE BenchmarkSuite ---------------------------
(***************************************************************************)
(* A suite of the built-in benchmarks over one engine: SuiteRunner.run     *)
(* merges a configuration for each benchmark, runs it a number of times    *)
(* and collects its results.  A benchmark is what it makes of the engine's *)
(* outcomes, one for each prompt, in order.                                *)
(***************************************************************************)
EXTENDS Naturals, Sequences, FiniteSets

CONSTANTS
    Suites,      \* the suites: sequences of names of benchmarks
    Overrides,   \* per-benchmark numbers of runs, one for some of the names
    MaxRuns,     \* bound on the runs of a benchmark
    Prompts,     \* number of prompts (or problems, requests, turns) of a benchmark
    Gpus,        \* GPUs that tensor_parallel finds
    TpSizes      \* the sizes it tries, in order

Quality == {"mmlu", "gsm8k", "truthfulqa", "hellaswag", "coding", "function_calling",
            "multiturn", "prompt_robustness", "rag_pipeline", "vlm_benchmark"}
Performance == {"throughput", "latency", "memory_usage", "warmup_analysis", "long_context",
                "streaming_latency", "batch_inference", "tensor_parallel",
                "speculative_decoding"}
Benchmarks == Quality \cup Performance

ASSUME SuiteAssumption ==
    /\ Suites \subseteq Seq(Benchmarks)
    /\ {MaxRuns, Prompts, Gpus} \subseteq Nat \ {0}
    /\ TpSizes \in Seq(Nat \ {0})
    /\ \A v \in Overrides : \A b \in DOMAIN v : v[b] \in 1..MaxRuns

(* What a prompt comes to: an answer (right, wrong, or with nothing in it  *)
(* to score), an error, or an error that ends the engine.                  *)
Outcomes == {"right", "wrong", "blank", "error", "dead"}
Failures == {"error", "dead"}

VARIABLES
    suite, globalConfig, testOverrides,  \* the arguments of run
    at,          \* index of the benchmark, and of its run
    pc,          \* "start", "running" or "over"
    config,      \* the merged configuration, "runs" taken out of it
    runs,        \* and what it was
    engine,      \* what the engine runs with
    results      \* suite_result.results

suiteVars == <<suite, globalConfig, testOverrides, at, pc, config, runs, engine, results>>

Configs ==
    [data : {"none", "unreadable", "texts"},  \* dataset: its source
     modelPath : BOOLEAN, draft : BOOLEAN,    \* model_path, speculative_model
     runs : 1..MaxRuns]

SuiteTypeOK ==
    /\ suite \in Suites /\ globalConfig \in Configs /\ config \in Configs
    /\ testOverrides \in Overrides
    /\ at.bench \in 1..(Len(suite) + 1) /\ at.run \in 1..MaxRuns
    /\ pc \in {"start", "running", "over"} /\ runs \in 1..MaxRuns
    /\ engine \in [alive : BOOLEAN, url : BOOLEAN, tp : Nat, draft : BOOLEAN]
    /\ \A n \in DOMAIN results :
          /\ results[n].result.passed \in BOOLEAN
          /\ {results[n].result.outputs, results[n].result.errors, results[n].result.correct,
              results[n].result.total} \subseteq 0..(Prompts + Len(TpSizes) + 1)

SuiteInit ==
    /\ suite \in Suites
    /\ globalConfig \in Configs
    /\ testOverrides \in Overrides
    /\ at = [bench |-> 1, run |-> 1]
    /\ pc = "start"
    /\ config = globalConfig
    /\ runs = 1
    /\ engine \in [alive : {TRUE}, url : BOOLEAN, tp : {0}, draft : {FALSE}]
    /\ results = <<>>

-----------------------------------------------------------------------------
(* The benchmarks: what _execute returns, from the outcomes.               *)

Count(o, S) == Cardinality({n \in DOMAIN o : o[n] \in S})
Errors(o) == Count(o, Failures)
Answered(o) == Len(o) - Errors(o)
Right(o) == Count(o, {"right"})

Result(passed, outputs, errors, correct, total) ==
    [passed |-> passed, outputs |-> outputs, errors |-> errors,
     correct |-> correct, total |-> total]

(* One prompt after the other, an error is noted and the next one follows. *)
EachPrompt(o) == Result(Errors(o) = 0, Answered(o), Errors(o), 0, Answered(o))

Throughput(o) == EachPrompt(o)
Latency(o) == EachPrompt(o)
WarmupAnalysis(o) == EachPrompt(o)

(* The outcomes of each prompt and each output length.                     *)
Memory(o) == EachPrompt(o)

(* ... of each context length and each position of the needle; the         *)
(* accuracy leaves out the prompts that failed.                            *)
LongContext(o) == Result(Errors(o) = 0, Answered(o), Errors(o), Right(o), Answered(o))

(* A stream that ends without a chunk is an error as well.                 *)
StreamingLatency(o) ==
    IF ~engine.url THEN Result(FALSE, 0, 1, 0, 0)
    ELSE LET failed == Errors(o) + Count(o, {"blank"})
         IN Result(failed = 0, Len(o) - failed, failed, 0, Len(o) - failed)

(* Here the outcomes are those of one level each, "wrong" a level some of  *)
(* whose requests failed: it has an output and an error.                   *)
BatchInference(o) ==
    LET failed == Errors(o) + Count(o, {"wrong"})
    IN Result(failed = 0, Answered(o), failed, 0, Answered(o))

(* A dataset is a list of texts, without the answers and the choices; an   *)
(* error counts in the total.                                              *)
NoQuestions == Result(TRUE, 0, 1, 0, 0)
Unloaded == config.data # "texts"

(* Mutant: a benchmark passes if any prompt was answered.                  *)
ScoredLeniently(o, correct) == Result(Answered(o) > 0, Answered(o), Errors(o), correct, Len(o))

Scored(o, correct) == Result(Errors(o) = 0, Answered(o), Errors(o), correct, Len(o))

(* The expected answer is "", which an output with nothing to extract is.  *)
Mmlu(o) == IF Unloaded THEN NoQuestions ELSE Scored(o, Count(o, {"blank"}))
Gsm8k(o) == IF Unloaded THEN NoQuestions ELSE Scored(o, Count(o, {"blank"}))

(* Neither targets nor a best answer: nothing is correct.                  *)
TruthfulQa(o) == IF Unloaded THEN NoQuestions ELSE Scored(o, 0)

(* Texts are dropped.                                                      *)
HellaSwag(o) == NoQuestions

(* Own problems, one sample each: there is an output for a failed one too. *)
Coding(o) == Result(Errors(o) = 0, Len(o), Errors(o), Right(o), Len(o))

FunctionCalling(o) ==
    Result(Errors(o) = 0 /\ 2 * Right(o) >= Len(o), Len(o), Errors(o), Right(o), Len(o))

(* The turns of one conversation, which ends with the first error; the     *)
(* rate of completed ones must be 0.8.                                     *)
MultiTurn(o) ==
    LET done == Cardinality({n \in DOMAIN o : \A m \in 1..n : o[m] \notin Failures})
        failed == IF done < Len(o) THEN 1 ELSE 0
    IN Result(failed = 0 /\ 10 * done >= 8 * Len(o), 1, failed, 0, done)

(* One group of prompts; consistent if two answers are, by their words.    *)
PromptRobustness(o) ==
    LET consistent == Len(o) < 2 \/ Right(o) >= 2
    IN Result(Errors(o) = 0 /\ consistent, 1, Errors(o), 0, Len(o))

RagPipeline(o) == Scored(o, Right(o))
VlmBenchmark(o) == Scored(o, Right(o))

(* The outcomes of the sizes there are GPUs for: "dead" if initialize()    *)
(* failed, "error" if an iteration did.  Sizes that are skipped have an    *)
(* output, and so do the failed ones.                                      *)
Tried == {i \in DOMAIN TpSizes : TpSizes[i] <= Gpus}
TensorParallel(o) ==
    Result(Errors(o) = 0 /\ Answered(o) > 0, Len(TpSizes), Errors(o), 0, Answered(o))

(* Each of the two modes is one outcome: the baseline's and, if there is a *)
(* draft model, the speculative one's, "dead" if initialize() failed.      *)
SpeculativeDecoding(o) ==
    Result(Errors(o) = 0, Len(o) - Count(SubSeq(o, 2, Len(o)), {"dead"}), Errors(o), 0,
           Answered(o))

Execute(b, o) ==
    CASE b = "throughput" -> Throughput(o)
      [] b = "latency" -> Latency(o)
      [] b = "memory_usage" -> Memory(o)
      [] b = "warmup_analysis" -> WarmupAnalysis(o)
      [] b = "long_context" -> LongContext(o)
      [] b = "streaming_latency" -> StreamingLatency(o)
      [] b = "batch_inference" -> BatchInference(o)
      [] b = "tensor_parallel" -> TensorParallel(o)
      [] b = "speculative_decoding" -> SpeculativeDecoding(o)
      [] b = "mmlu" -> Mmlu(o)
      [] b = "gsm8k" -> Gsm8k(o)
      [] b = "truthfulqa" -> TruthfulQa(o)
      [] b = "hellaswag" -> HellaSwag(o)
      [] b = "coding" -> Coding(o)
      [] b = "function_calling" -> FunctionCalling(o)
      [] b = "multiturn" -> MultiTurn(o)
      [] b = "prompt_robustness" -> PromptRobustness(o)
      [] b = "rag_pipeline" -> RagPipeline(o)
      [] b = "vlm_benchmark" -> VlmBenchmark(o)

-----------------------------------------------------------------------------

Restarting == {"tensor_parallel", "speculative_decoding"}
Bench == suite[at.bench]

PromptsOf(b) ==
    CASE b = "tensor_parallel" -> Cardinality(Tried)
      [] b = "speculative_decoding" -> IF config.draft THEN 2 ELSE 1
      [] b = "hellaswag" -> 0
      [] b \in {"mmlu", "gsm8k", "truthfulqa"} -> IF Unloaded THEN 0 ELSE Prompts
      [] b = "streaming_latency" -> IF engine.url THEN Prompts ELSE 0
      [] OTHER -> Prompts

(* The outcomes an engine can have: one that is dead answers nothing until *)
(* it is initialized again.                                                *)
OutcomesOf(b) ==
    {o \in [1..PromptsOf(b) -> Outcomes] :
        \A n \in DOMAIN o :
            IF b = "tensor_parallel" \/ (b = "speculative_decoding" /\ n = 2)
            THEN TRUE
            ELSE (~engine.alive \/ \E m \in 1..(n - 1) : o[m] = "dead") => o[n] = "error"}

(* What the engine is left with.                                           *)
EngineAfter(b, o) ==
    LET died == \E n \in DOMAIN o : o[n] = "dead"
        last == CHOOSE i \in Tried : \A j \in Tried : j <= i
    IN CASE b = "tensor_parallel" /\ Tried # {} ->
              [engine EXCEPT !.alive = o[Len(o)] # "dead", !.tp = TpSizes[last],
                             !.draft = FALSE]
         [] b = "speculative_decoding" /\ Len(o) = 2 ->
              [engine EXCEPT !.alive = o[2] # "dead", !.tp = 0, !.draft = TRUE]
         [] OTHER -> [engine EXCEPT !.alive = @ /\ ~died]

(* The merge: a copy of the global configuration, updated.                 *)
StartBenchmark ==
    /\ pc = "start" /\ at.bench <= Len(suite)
    /\ config' = globalConfig
    /\ runs' = IF Bench \in DOMAIN testOverrides THEN testOverrides[Bench]
               ELSE globalConfig.runs
    /\ at' = [at EXCEPT !.run = 1]
    /\ pc' = "running"
    /\ UNCHANGED <<suite, globalConfig, testOverrides, engine, results>>

AfterRun ==
    IF at.run < runs
    THEN at' = [at EXCEPT !.run = @ + 1] /\ UNCHANGED pc
    ELSE at' = [bench |-> at.bench + 1, run |-> 1] /\ pc' = "start"

(* What is kept of a run: the result, and (for the properties only) what   *)
(* it was asked and what it was measured with.                             *)
Kept(r, o) ==
    [result |-> r, place |-> at.bench, bench |-> Bench, run |-> at.run, prompts |-> Len(o),
     failures |-> Errors(o), right |-> Right(o)]

(* SingleTestRunner.run and LLMBenchmark.run: a benchmark that needs a     *)
(* model_path is not run without it.                                       *)
Refuse ==
    /\ pc = "running"
    /\ Bench \in Restarting /\ ~config.modelPath
    /\ results' = Append(results, Kept(Result(FALSE, 0, 1, 0, 0), <<>>))
    /\ AfterRun
    /\ UNCHANGED <<suite, globalConfig, testOverrides, config, runs, engine>>

RunOnce ==
    /\ pc = "running"
    /\ ~(Bench \in Restarting /\ ~config.modelPath)
    /\ \E o \in OutcomesOf(Bench) :
          /\ results' = Append(results, Kept(Execute(Bench, o), o))
          /\ engine' = EngineAfter(Bench, o)
    /\ AfterRun
    /\ UNCHANGED <<suite, globalConfig, testOverrides, config, runs>>

(* The warm-up, whose failures are ignored, or the time between two        *)
(* prompts.                                                                *)
ServerDies ==
    /\ pc = "running" /\ engine.alive
    /\ engine' = [engine EXCEPT !.alive = FALSE]
    /\ UNCHANGED <<suite, globalConfig, testOverrides, at, pc, config, runs, results>>

EndSuite ==
    /\ pc = "start" /\ at.bench > Len(suite)
    /\ pc' = "over"
    /\ UNCHANGED <<suite, globalConfig, testOverrides, at, config, runs, engine, results>>

SuiteNext == StartBenchmark \/ Refuse \/ RunOnce \/ ServerDies \/ EndSuite

SuiteSpec == SuiteInit /\ [][SuiteNext]_suiteVars

-----------------------------------------------------------------------------

(* The benchmarks that keep an output for a whole group of prompts, or for *)
(* a failed one.                                                           *)
Grouping == Restarting \cup {"batch_inference", "coding", "function_calling", "multiturn",
                             "prompt_robustness"}

(* A result adds up, for each of the nineteen: a benchmark that passed had *)
(* no prompt fail; a prompt is counted once, as an output or as an error;  *)
(* and what is counted as correct is something the engine answered right   *)
(* (the datasets, which come without answers, aside).                      *)
AddsUp(k) ==
    LET r == k.result
    IN /\ r.passed => k.failures = 0
       /\ k.prompts > 0 /\ k.bench \notin Grouping => r.outputs + r.errors = k.prompts
       /\ k.bench \notin {"mmlu", "gsm8k"} => r.correct <= k.right
       /\ r.correct <= r.total

ResultsAddUp == \A n \in DOMAIN results : AddsUp(results[n])

=============================================================================
