-------------------------- MODULE RunnerSideProofs --------------------------
(***************************************************************************)
(* Theorems about what else runs on the machine that measures: the suites  *)
(* of BenchmarkSuite, the checkpoints of ItemCheckpoint, the script of     *)
(* CampaignScript, and kitt remote of RemoteCampaign, for every number of  *)
(* benchmarks, prompts, attempts, cells, processes, hosts and operators,   *)
(* and whatever fails.  The parts share no state and are independent of    *)
(* one another; the last theorem is of them, of kitt run and of campaigns  *)
(* together.                                                               *)
(***************************************************************************)
EXTENDS MCRunnerSide, MeasuredCampaignProofs, SequenceTheorems, FiniteSetTheorems,
        WellFoundedInduction, TLAPS

(* What an element that is appended adds.                                  *)
LEMMA AppendElements ==
    ASSUME NEW S, NEW s \in Seq(S), NEW e \in S
    PROVE  Append(s, e) \in Seq(S) /\ ToSet(Append(s, e)) = ToSet(s) \cup {e}
<1>1. /\ Append(s, e) \in Seq(S) /\ Len(Append(s, e)) = Len(s) + 1
      /\ \A i \in 1..Len(s) : Append(s, e)[i] = s[i]
      /\ Append(s, e)[Len(s) + 1] = e
      /\ Len(s) \in Nat /\ DOMAIN s = 1..Len(s) /\ DOMAIN Append(s, e) = 1..(Len(s) + 1)
  BY AppendProperties, LenProperties
<1>2. ASSUME NEW i \in 1..(Len(s) + 1) PROVE Append(s, e)[i] \in ToSet(s) \cup {e}
  BY <1>1 DEF ToSet
<1>3. e \in ToSet(Append(s, e))
  BY <1>1 DEF ToSet
<1>4. \A i \in 1..Len(s) : s[i] \in ToSet(Append(s, e))
  BY <1>1 DEF ToSet
<1>5. QED
  BY <1>1, <1>2, <1>3, <1>4 DEF ToSet

-----------------------------------------------------------------------------
(* Suites of benchmarks.                                                   *)

(* The outcomes of n prompts, counted.                                     *)
LEMMA Counts ==
    ASSUME NEW n \in Nat, NEW o \in [1..n -> Outcomes]
    PROVE  /\ Len(o) = n /\ DOMAIN o = 1..n
           /\ Errors(o) \in Nat /\ Right(o) \in Nat /\ Count(o, {"blank"}) \in Nat
           /\ Right(o) + Errors(o) <= n /\ Count(o, {"blank"}) + Errors(o) <= n
           /\ Errors(o) = 0 <=> \A i \in 1..n : o[i] \notin Failures
           /\ n = 0 => Errors(o) = 0
<1> DEFINE At(S) == {i \in 1..n : o[i] \in S}
<1>1. o \in Seq(Outcomes) /\ Len(o) = n /\ DOMAIN o = 1..n
  OBVIOUS
<1>2. IsFiniteSet(1..n) /\ Cardinality(1..n) = n
  BY FS_Interval
<1>3. \A S : IsFiniteSet(At(S)) /\ Cardinality(At(S)) \in Nat /\ Count(o, S) = Cardinality(At(S))
  BY <1>1, <1>2, FS_Subset, FS_CardinalityType DEF Count
<1>4. ASSUME NEW s \in {"right", "blank"} PROVE Count(o, {s}) + Errors(o) <= n
  <2>1. At({s}) \cap At(Failures) = {} /\ At({s}) \cup At(Failures) \subseteq 1..n
    BY DEF Failures
  <2>2. PICK A, B : A = At({s}) /\ B = At(Failures)
    OBVIOUS
  <2>3. /\ IsFiniteSet(A) /\ IsFiniteSet(B) /\ Cardinality(A) \in Nat /\ Cardinality(B) \in Nat
        /\ Count(o, {s}) = Cardinality(A) /\ Errors(o) = Cardinality(B)
    BY <1>3, <2>2 DEF Errors
  <2>4. A \cap B = {} /\ A \cup B \in SUBSET (1..n)
    BY <2>1, <2>2
  <2>5. Cardinality(A \cup B) = Cardinality(A) + Cardinality(B) - Cardinality(A \cap B)
    BY <2>3, FS_Union
  <2>6. Cardinality(A \cap B) = 0
    BY <2>4, FS_EmptySet
  <2>7. Cardinality(A \cup B) <= n
    BY <1>2, <2>4, FS_Subset
  <2>8. QED
    BY <2>3, <2>5, <2>6, <2>7
<1>5. Errors(o) = 0 <=> \A i \in 1..n : o[i] \notin Failures
  <2>1. Errors(o) = 0 <=> At(Failures) = {}
    BY <1>3, FS_EmptySet DEF Errors
  <2>2. QED
    BY <2>1
<1> HIDE DEF At
<1>6. Right(o) + Errors(o) <= n /\ Count(o, {"blank"}) + Errors(o) <= n
  BY <1>4 DEF Right
<1>7. Errors(o) \in Nat /\ Right(o) \in Nat /\ Count(o, {"blank"}) \in Nat
  BY <1>3 DEF Errors, Right
<1>8. n = 0 => Errors(o) = 0
  BY <1>5
<1>9. QED
  BY <1>1, <1>5, <1>6, <1>7, <1>8

LEMMA CountIsNat ==
    ASSUME NEW n \in Nat, NEW o \in [1..n -> Outcomes], NEW S PROVE Count(o, S) \in Nat
<1>1. IsFiniteSet(1..n)
  BY FS_Interval
<1>2. {i \in DOMAIN o : o[i] \in S} \subseteq 1..n
  OBVIOUS
<1>3. QED
  BY <1>1, <1>2, FS_Subset, FS_CardinalityType DEF Count

(* The sizes that tensor_parallel tries: some of the list.                 *)
LEMMA TriedIsFinite == Cardinality(Tried) \in Nat
<1>1. IsFiniteSet(DOMAIN TpSizes)
  BY SuiteAssumption, LenProperties, FS_Interval
<1>2. QED
  BY <1>1, FS_Subset, FS_CardinalityType DEF Tried

LEMMA PromptsAreCounted == ASSUME NEW b PROVE PromptsOf(b) \in Nat
  BY TriedIsFinite, SuiteAssumption DEF PromptsOf

-----------------------------------------------------------------------------

(* What a record of a run must have for its numbers to add up.             *)
LEMMA NumbersAddUp ==
    ASSUME NEW k, NEW out, NEW e, NEW c, NEW t, k.result.passed => k.failures = 0,
           k.result.outputs = out, k.result.errors = e, k.result.correct = c,
           k.result.total = t, c <= t,
           k.prompts > 0 /\ k.bench \notin Grouping => out + e = k.prompts,
           k.bench \notin {"mmlu", "gsm8k"} => c <= k.right
    PROVE  AddsUp(k)
  BY Zenon DEF AddsUp

(* Each benchmark's result, of any outcomes its prompts can have, adds up. *)
LEMMA BenchmarkAddsUp ==
    ASSUME NEW b \in Benchmarks, NEW o \in OutcomesOf(b), NEW k,
           k.result = Execute(b, o), k.bench = b, k.prompts = Len(o), k.failures = Errors(o),
           k.right = Right(o)
    PROVE  AddsUp(k)
<1> DEFINE n == PromptsOf(b)
           x == Count(o, {"blank"})
<1>1. n \in Nat /\ o \in [1..n -> Outcomes]
  BY PromptsAreCounted DEF OutcomesOf
<1>2. /\ Len(o) = n /\ DOMAIN o = 1..n
      /\ Errors(o) \in Nat /\ Right(o) \in Nat /\ x \in Nat
      /\ Right(o) + Errors(o) <= n /\ x + Errors(o) <= n
      /\ Errors(o) = 0 <=> \A i \in 1..n : o[i] \notin Failures
      /\ n = 0 => Errors(o) = 0
  BY <1>1, Counts
<1> HIDE DEF n, x
<1>3. Answered(o) = n - Errors(o) /\ Answered(o) \in Nat
  BY <1>1, <1>2 DEF Answered
<1>4. /\ k.result = Execute(b, o) /\ k.bench = b /\ k.prompts = n /\ k.failures = Errors(o)
      /\ k.right = Right(o)
  BY <1>2
<1>5. CASE b \in {"throughput", "latency", "memory_usage", "warmup_analysis"}
  <2>1. Execute(b, o) = Result(Errors(o) = 0, Answered(o), Errors(o), 0, Answered(o))
    BY <1>5 DEF Execute, Throughput, Latency, Memory, WarmupAnalysis, EachPrompt
  <2>2. /\ Errors(o) = 0 => k.failures = 0
        /\ k.prompts > 0 /\ k.bench \notin Grouping => Answered(o) + Errors(o) = k.prompts
        /\ k.bench \notin {"mmlu", "gsm8k"} => 0 <= k.right
        /\ 0 <= Answered(o)
    BY <1>1, <1>2, <1>3, <1>4, <1>5
  <2>3. k.result = Result(Errors(o) = 0, Answered(o), Errors(o), 0, Answered(o))
    BY <1>4, <2>1
  <2>4. /\ k.result.outputs = Answered(o) /\ k.result.errors = Errors(o)
        /\ k.result.correct = 0 /\ k.result.total = Answered(o)
    BY <2>3 DEF Result
  <2>5. k.result.passed = (Errors(o) = 0)
    BY <2>3 DEF Result
  <2>6. k.result.passed => k.failures = 0
    BY <2>2, <2>5
  <2>7. QED
    BY <2>2, <2>4, <2>6, NumbersAddUp
<1>6. CASE b = "long_context"
  <2>1. Execute(b, o) = Result(Errors(o) = 0, Answered(o), Errors(o), Right(o), Answered(o))
    BY <1>6 DEF Execute, LongContext
  <2>2. /\ Errors(o) = 0 => k.failures = 0
        /\ k.prompts > 0 /\ k.bench \notin Grouping => Answered(o) + Errors(o) = k.prompts
        /\ k.bench \notin {"mmlu", "gsm8k"} => Right(o) <= k.right
        /\ Right(o) <= Answered(o)
    BY <1>1, <1>2, <1>3, <1>4, <1>6
  <2>3. k.result = Result(Errors(o) = 0, Answered(o), Errors(o), Right(o), Answered(o))
    BY <1>4, <2>1
  <2>4. /\ k.result.outputs = Answered(o) /\ k.result.errors = Errors(o)
        /\ k.result.correct = Right(o) /\ k.result.total = Answered(o)
    BY <2>3 DEF Result
  <2>5. k.result.passed = (Errors(o) = 0)
    BY <2>3 DEF Result
  <2>6. k.result.passed => k.failures = 0
    BY <2>2, <2>5
  <2>7. QED
    BY <2>2, <2>4, <2>6, NumbersAddUp
<1>7. CASE b = "streaming_latency"
  <2>1. CASE ~engine.url
    <3>1. Execute(b, o) = Result(FALSE, 0, 1, 0, 0) /\ n = 0
      BY <1>7, <2>1 DEF Execute, StreamingLatency, n, PromptsOf
    <3>2. QED
      BY <1>2, <1>4, <3>1 DEF AddsUp, Result
  <2>2. CASE engine.url
    <3>1. Execute(b, o) = Result(Errors(o) + x = 0, n - (Errors(o) + x), Errors(o) + x, 0,
                                 n - (Errors(o) + x))
      BY <1>2, <1>7, <2>2 DEF Execute, StreamingLatency, x
    <3>2. /\ Errors(o) + x = 0 => k.failures = 0
          /\ k.prompts > 0 /\ k.bench \notin Grouping
                => n - (Errors(o) + x) + (Errors(o) + x) = k.prompts
          /\ k.bench \notin {"mmlu", "gsm8k"} => 0 <= k.right
          /\ 0 <= n - (Errors(o) + x)
      BY <1>1, <1>2, <1>4
    <3>3. k.result = Result(Errors(o) + x = 0, n - (Errors(o) + x), Errors(o) + x, 0,
                            n - (Errors(o) + x))
      BY <1>4, <3>1
    <3>4. /\ k.result.outputs = n - (Errors(o) + x) /\ k.result.errors = Errors(o) + x
          /\ k.result.correct = 0 /\ k.result.total = n - (Errors(o) + x)
      BY <3>3 DEF Result
    <3>5. k.result.passed = (Errors(o) + x = 0)
      BY <3>3 DEF Result
    <3>6. k.result.passed => k.failures = 0
      BY <3>2, <3>5
    <3>7. QED
      BY <3>2, <3>4, <3>6, NumbersAddUp
  <2>3. QED
    BY <2>1, <2>2
<1>8. CASE b = "batch_inference"
  <2> DEFINE w == Count(o, {"wrong"})
  <2>1. Execute(b, o) = Result(Errors(o) + w = 0, Answered(o), Errors(o) + w, 0, Answered(o))
    BY <1>8 DEF Execute, BatchInference
  <2>2. w \in Nat
    BY <1>1, CountIsNat
  <2> HIDE DEF w
  <2>3. /\ Errors(o) + w = 0 => k.failures = 0
        /\ k.prompts > 0 /\ k.bench \notin Grouping
              => Answered(o) + (Errors(o) + w) = k.prompts
        /\ k.bench \notin {"mmlu", "gsm8k"} => 0 <= k.right
        /\ 0 <= Answered(o)
    BY <1>2, <1>3, <1>4, <1>8, <2>2 DEF Grouping
  <2>4. k.result = Result(Errors(o) + w = 0, Answered(o), Errors(o) + w, 0, Answered(o))
    BY <1>4, <2>1
  <2>5. /\ k.result.outputs = Answered(o) /\ k.result.errors = Errors(o) + w
        /\ k.result.correct = 0 /\ k.result.total = Answered(o)
    BY <2>4 DEF Result
  <2>6. k.result.passed = (Errors(o) + w = 0)
    BY <2>4 DEF Result
  <2>7. k.result.passed => k.failures = 0
    BY <2>3, <2>6
  <2>8. QED
    BY <2>3, <2>5, <2>7, NumbersAddUp
<1>9. CASE b = "hellaswag" \/ (b \in {"mmlu", "gsm8k", "truthfulqa"} /\ Unloaded)
  <2>1. Execute(b, o) = Result(TRUE, 0, 1, 0, 0) /\ n = 0
    BY <1>9 DEF Execute, Mmlu, Gsm8k, TruthfulQa, HellaSwag, NoQuestions, n, PromptsOf
  <2>2. QED
    BY <1>2, <1>4, <2>1 DEF AddsUp, Result
<1>10. CASE b \in {"mmlu", "gsm8k"} /\ ~Unloaded
  <2>1. Execute(b, o) = Result(Errors(o) = 0, Answered(o), Errors(o), x, n)
    BY <1>2, <1>10 DEF Execute, Mmlu, Gsm8k, Scored, x
  <2>2. /\ Errors(o) = 0 => k.failures = 0
        /\ k.prompts > 0 /\ k.bench \notin Grouping => Answered(o) + Errors(o) = k.prompts
        /\ k.bench \notin {"mmlu", "gsm8k"} => x <= k.right
        /\ x <= n
    BY <1>1, <1>2, <1>3, <1>4, <1>10
  <2>3. k.result = Result(Errors(o) = 0, Answered(o), Errors(o), x, n)
    BY <1>4, <2>1
  <2>4. /\ k.result.outputs = Answered(o) /\ k.result.errors = Errors(o)
        /\ k.result.correct = x /\ k.result.total = n
    BY <2>3 DEF Result
  <2>5. k.result.passed = (Errors(o) = 0)
    BY <2>3 DEF Result
  <2>6. k.result.passed => k.failures = 0
    BY <2>2, <2>5
  <2>7. QED
    BY <2>2, <2>4, <2>6, NumbersAddUp
<1>11. CASE b = "truthfulqa" /\ ~Unloaded
  <2>1. Execute(b, o) = Result(Errors(o) = 0, Answered(o), Errors(o), 0, n)
    BY <1>2, <1>11 DEF Execute, TruthfulQa, Scored
  <2>2. /\ Errors(o) = 0 => k.failures = 0
        /\ k.prompts > 0 /\ k.bench \notin Grouping => Answered(o) + Errors(o) = k.prompts
        /\ k.bench \notin {"mmlu", "gsm8k"} => 0 <= k.right
        /\ 0 <= n
    BY <1>1, <1>2, <1>3, <1>4, <1>11
  <2>3. k.result = Result(Errors(o) = 0, Answered(o), Errors(o), 0, n)
    BY <1>4, <2>1
  <2>4. /\ k.result.outputs = Answered(o) /\ k.result.errors = Errors(o)
        /\ k.result.correct = 0 /\ k.result.total = n
    BY <2>3 DEF Result
  <2>5. k.result.passed = (Errors(o) = 0)
    BY <2>3 DEF Result
  <2>6. k.result.passed => k.failures = 0
    BY <2>2, <2>5
  <2>7. QED
    BY <2>2, <2>4, <2>6, NumbersAddUp
<1>12. CASE b \in {"rag_pipeline", "vlm_benchmark"}
  <2>1. Execute(b, o) = Result(Errors(o) = 0, Answered(o), Errors(o), Right(o), n)
    BY <1>2, <1>12 DEF Execute, RagPipeline, VlmBenchmark, Scored
  <2>2. /\ Errors(o) = 0 => k.failures = 0
        /\ k.prompts > 0 /\ k.bench \notin Grouping => Answered(o) + Errors(o) = k.prompts
        /\ k.bench \notin {"mmlu", "gsm8k"} => Right(o) <= k.right
        /\ Right(o) <= n
    BY <1>1, <1>2, <1>3, <1>4, <1>12
  <2>3. k.result = Result(Errors(o) = 0, Answered(o), Errors(o), Right(o), n)
    BY <1>4, <2>1
  <2>4. /\ k.result.outputs = Answered(o) /\ k.result.errors = Errors(o)
        /\ k.result.correct = Right(o) /\ k.result.total = n
    BY <2>3 DEF Result
  <2>5. k.result.passed = (Errors(o) = 0)
    BY <2>3 DEF Result
  <2>6. k.result.passed => k.failures = 0
    BY <2>2, <2>5
  <2>7. QED
    BY <2>2, <2>4, <2>6, NumbersAddUp
<1>13. CASE b = "coding"
  <2>1. Execute(b, o) = Result(Errors(o) = 0, n, Errors(o), Right(o), n)
    BY <1>2, <1>13 DEF Execute, Coding
  <2>2. /\ Errors(o) = 0 => k.failures = 0
        /\ k.prompts > 0 /\ k.bench \notin Grouping => n + Errors(o) = k.prompts
        /\ k.bench \notin {"mmlu", "gsm8k"} => Right(o) <= k.right
        /\ Right(o) <= n
    BY <1>1, <1>2, <1>3, <1>4, <1>13 DEF Grouping, Restarting
  <2>3. k.result = Result(Errors(o) = 0, n, Errors(o), Right(o), n)
    BY <1>4, <2>1
  <2>4. /\ k.result.outputs = n /\ k.result.errors = Errors(o)
        /\ k.result.correct = Right(o) /\ k.result.total = n
    BY <2>3 DEF Result
  <2>5. k.result.passed = (Errors(o) = 0)
    BY <2>3 DEF Result
  <2>6. k.result.passed => k.failures = 0
    BY <2>2, <2>5
  <2>7. QED
    BY <2>2, <2>4, <2>6, NumbersAddUp
<1>14. CASE b = "function_calling"
  <2>1. Execute(b, o) = Result(Errors(o) = 0 /\ 2 * Right(o) >= n, n, Errors(o), Right(o), n)
    BY <1>2, <1>14 DEF Execute, FunctionCalling
  <2>2. /\ k.prompts > 0 /\ k.bench \notin Grouping => n + Errors(o) = k.prompts
        /\ k.bench \notin {"mmlu", "gsm8k"} => Right(o) <= k.right
        /\ Right(o) <= n
    BY <1>1, <1>2, <1>3, <1>4, <1>14 DEF Grouping, Restarting
  <2>3. k.result = Result(Errors(o) = 0 /\ 2 * Right(o) >= n, n, Errors(o), Right(o), n)
    BY <1>4, <2>1
  <2>4. /\ k.result.outputs = n /\ k.result.errors = Errors(o)
        /\ k.result.correct = Right(o) /\ k.result.total = n
    BY <2>3 DEF Result
  <2>5. k.result.passed = (Errors(o) = 0 /\ 2 * Right(o) >= n)
    BY <2>3 DEF Result
  <2>6. k.result.passed => k.failures = 0
    BY <1>1, <1>2, <1>3, <1>4, <1>14, <2>5
  <2>7. QED
    BY <2>2, <2>4, <2>6, NumbersAddUp
<1>15. CASE b = "multiturn"
  <2> DEFINE D == {i \in DOMAIN o : \A m \in 1..i : o[m] \notin Failures}
             done == Cardinality(D)
             failed == IF done < Len(o) THEN 1 ELSE 0
  <2>1. Execute(b, o) = MultiTurn(o)
    BY <1>15 DEF Execute
  <2>2. MultiTurn(o) = Result(failed = 0 /\ 10 * done >= 8 * Len(o), 1, failed, 0, done)
    BY Zenon DEF MultiTurn
  <2>3. D \in SUBSET (1..n) /\ IsFiniteSet(1..n) /\ Cardinality(1..n) = n
    <3>1. D \subseteq 1..n
      BY <1>2
    <3>2. IsFiniteSet(1..n) /\ Cardinality(1..n) = n
      BY <1>1, FS_Interval
    <3>3. QED
      BY <3>1, <3>2
  <2> HIDE DEF D
  <2>4. done \in Nat /\ done <= n /\ (done = n => D = 1..n)
    BY <2>3, FS_Subset, FS_CardinalityType
  <2>5. D = 1..n => Errors(o) = 0
    <3>1. \A i \in 1..n : i \in 1..i
      BY <1>1
    <3>2. QED
      BY <1>2, <3>1 DEF D
  <2> HIDE DEF done
  <2>6. /\ k.prompts > 0 /\ k.bench \notin Grouping => 1 + failed = k.prompts
        /\ k.bench \notin {"mmlu", "gsm8k"} => 0 <= k.right
        /\ 0 <= done
        /\ failed = 0 => Errors(o) = 0
    BY <1>1, <1>2, <1>3, <1>4, <1>15, <2>4, <2>5 DEF Grouping, Restarting
  <2> HIDE DEF failed
  <2>7. k.result = Result(failed = 0 /\ 10 * done >= 8 * Len(o), 1, failed, 0, done)
    BY <1>4, <2>1, <2>2
  <2>8. /\ k.result.outputs = 1 /\ k.result.errors = failed
        /\ k.result.correct = 0 /\ k.result.total = done
    BY <2>7 DEF Result
  <2>9. k.result.passed = (failed = 0 /\ 10 * done >= 8 * Len(o))
    BY <2>7 DEF Result
  <2>10. k.result.passed => k.failures = 0
    BY <1>4, <2>6, <2>9
  <2>11. QED
    BY <2>6, <2>8, <2>10, NumbersAddUp
<1>16. CASE b = "prompt_robustness"
  <2>1. Execute(b, o) = Result(Errors(o) = 0 /\ (n < 2 \/ Right(o) >= 2), 1, Errors(o), 0, n)
    BY <1>2, <1>16 DEF Execute, PromptRobustness
  <2>2. /\ k.prompts > 0 /\ k.bench \notin Grouping => 1 + Errors(o) = k.prompts
        /\ k.bench \notin {"mmlu", "gsm8k"} => 0 <= k.right
        /\ 0 <= n
    BY <1>1, <1>2, <1>3, <1>4, <1>16 DEF Grouping, Restarting
  <2>3. k.result = Result(Errors(o) = 0 /\ (n < 2 \/ Right(o) >= 2), 1, Errors(o), 0, n)
    BY <1>4, <2>1
  <2>4. /\ k.result.outputs = 1 /\ k.result.errors = Errors(o)
        /\ k.result.correct = 0 /\ k.result.total = n
    BY <2>3 DEF Result
  <2>5. k.result.passed = (Errors(o) = 0 /\ (n < 2 \/ Right(o) >= 2))
    BY <2>3 DEF Result
  <2>6. k.result.passed => k.failures = 0
    BY <1>1, <1>2, <1>3, <1>4, <1>16, <2>5
  <2>7. QED
    BY <2>2, <2>4, <2>6, NumbersAddUp
<1>17. CASE b = "tensor_parallel"
  <2>1. Execute(b, o) = Result(Errors(o) = 0 /\ Answered(o) > 0, Len(TpSizes), Errors(o), 0,
                               Answered(o))
    BY <1>17 DEF Execute, TensorParallel
  <2>2. /\ k.prompts > 0 /\ k.bench \notin Grouping => Len(TpSizes) + Errors(o) = k.prompts
        /\ k.bench \notin {"mmlu", "gsm8k"} => 0 <= k.right
        /\ 0 <= Answered(o)
    BY <1>1, <1>2, <1>3, <1>4, <1>17 DEF Grouping, Restarting
  <2>3. k.result = Result(Errors(o) = 0 /\ Answered(o) > 0, Len(TpSizes), Errors(o), 0, Answered(o))
    BY <1>4, <2>1
  <2>4. /\ k.result.outputs = Len(TpSizes) /\ k.result.errors = Errors(o)
        /\ k.result.correct = 0 /\ k.result.total = Answered(o)
    BY <2>3 DEF Result
  <2>5. k.result.passed = (Errors(o) = 0 /\ Answered(o) > 0)
    BY <2>3 DEF Result
  <2>6. k.result.passed => k.failures = 0
    BY <1>1, <1>2, <1>3, <1>4, <1>17, <2>5
  <2>7. QED
    BY <2>2, <2>4, <2>6, NumbersAddUp
<1>18. CASE b = "speculative_decoding"
  <2> DEFINE y == Len(o) - Count(SubSeq(o, 2, Len(o)), {"dead"})
  <2>1. Execute(b, o) = Result(Errors(o) = 0, y, Errors(o), 0, Answered(o))
    BY <1>18 DEF Execute, SpeculativeDecoding
  <2> HIDE DEF y
  <2>2. /\ Errors(o) = 0 => k.failures = 0
        /\ k.prompts > 0 /\ k.bench \notin Grouping => y + Errors(o) = k.prompts
        /\ k.bench \notin {"mmlu", "gsm8k"} => 0 <= k.right
        /\ 0 <= Answered(o)
    BY <1>1, <1>2, <1>3, <1>4, <1>18 DEF Grouping, Restarting
  <2>3. k.result = Result(Errors(o) = 0, y, Errors(o), 0, Answered(o))
    BY <1>4, <2>1
  <2>4. /\ k.result.outputs = y /\ k.result.errors = Errors(o)
        /\ k.result.correct = 0 /\ k.result.total = Answered(o)
    BY <2>3 DEF Result
  <2>5. k.result.passed = (Errors(o) = 0)
    BY <2>3 DEF Result
  <2>6. k.result.passed => k.failures = 0
    BY <2>2, <2>5
  <2>7. QED
    BY <2>2, <2>4, <2>6, NumbersAddUp
<1>19. QED
  BY <1>5, <1>6, <1>7, <1>8, <1>9, <1>10, <1>11, <1>12, <1>13, <1>14, <1>15, <1>16, <1>17, <1>18
     DEF Benchmarks, Quality, Performance

(* The numbers of a result are no more than the prompts, the sizes that    *)
(* tensor_parallel tries, or the modes of speculative_decoding.            *)
Most == Prompts + Len(TpSizes) + 1

Sized(r) ==
    /\ r.passed \in BOOLEAN
    /\ {r.outputs, r.errors, r.correct, r.total} \subseteq 0..Most

LEMMA ResultIsSized ==
    ASSUME NEW p \in BOOLEAN, NEW x \in 0..Most, NEW e \in 0..Most, NEW c \in 0..Most,
           NEW t \in 0..Most
    PROVE  Sized(Result(p, x, e, c, t))
  BY DEF Result, Sized

LEMMA PromptsAreFew ==
    ASSUME NEW b PROVE Most \in Nat /\ Most >= 2 /\ Len(TpSizes) <= Most /\ PromptsOf(b) <= Most
<1>1. Len(TpSizes) \in Nat /\ DOMAIN TpSizes = 1..Len(TpSizes)
  BY SuiteAssumption, LenProperties
<1>2. Prompts \in Nat /\ Prompts >= 1
  BY SuiteAssumption
<1>3. Most \in Nat /\ Most >= 2 /\ Len(TpSizes) <= Most /\ Prompts <= Most
  BY <1>1, <1>2 DEF Most
<1>4. Cardinality(Tried) <= Len(TpSizes)
  <2>1. Tried \subseteq 1..Len(TpSizes)
    BY <1>1 DEF Tried
  <2>2. PICK k \in Nat : k = Len(TpSizes)
    BY <1>1
  <2>3. IsFiniteSet(1..k) /\ Cardinality(1..k) = k
    BY FS_Interval
  <2>4. QED
    BY <2>1, <2>2, <2>3, FS_Subset
<1>5. PromptsOf(b) \in {Cardinality(Tried), 2, 1, 0, Prompts}
  BY DEF PromptsOf
<1>6. QED
  BY <1>1, <1>2, <1>3, <1>4, <1>5, TriedIsFinite

(* The prompts that two disjoint kinds of outcome stand for are not more   *)
(* than there are.                                                         *)
LEMMA LevelsAreCounted ==
    ASSUME NEW n \in Nat, NEW o \in [1..n -> Outcomes], NEW s \in {"wrong", "blank"}
    PROVE  /\ Count(o, {s}) \in Nat /\ Errors(o) + Count(o, {s}) <= n
           /\ \A S : Count(o, S) \in 0..n
<1> DEFINE At(S) == {i \in 1..n : o[i] \in S}
<1>1. Len(o) = n /\ DOMAIN o = 1..n /\ IsFiniteSet(1..n) /\ Cardinality(1..n) = n
  BY FS_Interval
<1>2. \A S : /\ IsFiniteSet(At(S)) /\ Cardinality(At(S)) \in Nat
             /\ Cardinality(At(S)) <= n /\ Count(o, S) = Cardinality(At(S))
  BY <1>1, FS_Subset, FS_CardinalityType DEF Count
<1>3. At({s}) \cap At(Failures) = {} /\ At({s}) \cup At(Failures) \subseteq 1..n
  BY DEF Failures
<1>4. PICK A, B : A = At({s}) /\ B = At(Failures)
  OBVIOUS
<1>5. /\ IsFiniteSet(A) /\ IsFiniteSet(B) /\ Cardinality(A) \in Nat /\ Cardinality(B) \in Nat
      /\ Count(o, {s}) = Cardinality(A) /\ Errors(o) = Cardinality(B)
  BY <1>2, <1>4 DEF Errors
<1>6. A \cap B = {} /\ A \cup B \in SUBSET (1..n)
  BY <1>3, <1>4
<1>7. Cardinality(A \cup B) = Cardinality(A) + Cardinality(B) - Cardinality(A \cap B)
  BY <1>5, FS_Union
<1>8. Cardinality(A \cap B) = 0
  BY <1>6, FS_EmptySet
<1>9. Cardinality(A \cup B) <= n
  BY <1>1, <1>6, FS_Subset
<1> HIDE DEF At
<1>10. \A S : Count(o, S) \in 0..n
  BY <1>2
<1>11. QED
  BY <1>5, <1>7, <1>8, <1>9, <1>10

LEMMA BenchmarkIsSized ==
    ASSUME NEW b \in Benchmarks, NEW o \in OutcomesOf(b)
    PROVE  Sized(Execute(b, o))
<1> DEFINE n == PromptsOf(b)
           x == Count(o, {"blank"})
           w == Count(o, {"wrong"})
<1>1. n \in Nat /\ o \in [1..n -> Outcomes] /\ n <= Most /\ Most \in Nat /\ Most >= 2
      /\ Len(TpSizes) \in 0..Most
  BY PromptsAreCounted, PromptsAreFew, SuiteAssumption, LenProperties DEF OutcomesOf
<1>2. /\ Len(o) = n /\ Errors(o) \in Nat /\ Right(o) \in Nat /\ x \in Nat /\ w \in Nat
      /\ Right(o) + Errors(o) <= n /\ Errors(o) + x <= n /\ Errors(o) + w <= n
  BY <1>1, Counts, LevelsAreCounted
<1> HIDE DEF n, x, w
<1>3. Answered(o) = n - Errors(o) /\ Answered(o) \in Nat
  BY <1>1, <1>2 DEF Answered
<1>4. /\ 0 \in 0..Most /\ 1 \in 0..Most /\ n \in 0..Most /\ Errors(o) \in 0..Most
      /\ Right(o) \in 0..Most /\ Answered(o) \in 0..Most /\ x \in 0..Most
      /\ Errors(o) + x \in 0..Most /\ Errors(o) + w \in 0..Most
      /\ n - (Errors(o) + x) \in 0..Most
  BY <1>1, <1>2, <1>3
<1> DEFINE none == Errors(o) = 0
<1>n. none \in BOOLEAN
  OBVIOUS
<1>5. CASE b \in {"throughput", "latency", "memory_usage", "warmup_analysis"}
  <2>1. Execute(b, o) = Result(none, Answered(o), Errors(o), 0, Answered(o))
    BY <1>5 DEF Execute, Throughput, Latency, Memory, WarmupAnalysis, EachPrompt
  <2> HIDE DEF none
  <2>2. QED
    BY <1>4, <1>n, <2>1, ResultIsSized
<1>6. CASE b = "long_context"
  <2>1. Execute(b, o) = Result(none, Answered(o), Errors(o), Right(o), Answered(o))
    BY <1>6 DEF Execute, LongContext
  <2> HIDE DEF none
  <2>2. QED
    BY <1>4, <1>n, <2>1, ResultIsSized
<1>7. CASE b = "streaming_latency"
  <2> DEFINE f == Errors(o) + x
             p == f = 0
             d == n - f
  <2>1. \/ Execute(b, o) = Result(FALSE, 0, 1, 0, 0)
        \/ Execute(b, o) = Result(p, d, f, 0, d)
    BY <1>2, <1>7 DEF Execute, StreamingLatency, x
  <2>2. p \in BOOLEAN
    OBVIOUS
  <2>3. f \in 0..Most /\ d \in 0..Most
    BY <1>4
  <2> HIDE DEF f, p, d
  <2>4. Sized(Result(p, d, f, 0, d)) /\ Sized(Result(FALSE, 0, 1, 0, 0))
    <3>1. Sized(Result(p, d, f, 0, d))
      BY <1>4, <2>2, <2>3, ResultIsSized
    <3>2. Sized(Result(FALSE, 0, 1, 0, 0))
      BY <1>4 DEF Result, Sized
    <3>3. QED
      BY <3>1, <3>2
  <2>5. QED
    BY <2>1, <2>4
<1>8. CASE b = "batch_inference"
  <2> DEFINE f == Errors(o) + w
             p == f = 0
  <2>1. Execute(b, o) = Result(p, Answered(o), f, 0, Answered(o))
    BY <1>8 DEF Execute, BatchInference, w
  <2>2. p \in BOOLEAN
    OBVIOUS
  <2>3. f \in 0..Most
    BY <1>4
  <2> HIDE DEF f, p
  <2>4. QED
    BY <1>4, <2>1, <2>2, <2>3, ResultIsSized
<1>9. CASE b \in {"mmlu", "gsm8k", "truthfulqa", "hellaswag", "rag_pipeline", "vlm_benchmark"}
  <2>1. \/ Execute(b, o) = Result(TRUE, 0, 1, 0, 0)
        \/ \E c \in {0, x, Right(o)} :
              Execute(b, o) = Result(none, Answered(o), Errors(o), c, n)
    BY <1>2, <1>9 DEF Execute, Mmlu, Gsm8k, TruthfulQa, HellaSwag, RagPipeline, VlmBenchmark,
                      NoQuestions, Scored, x
  <2> HIDE DEF none
  <2>2. Sized(Result(TRUE, 0, 1, 0, 0))
    BY <1>4 DEF Result, Sized
  <2>3. \A c \in 0..Most : Sized(Result(none, Answered(o), Errors(o), c, n))
    BY <1>4, <1>n, ResultIsSized
  <2>4. QED
    BY <1>4, <2>1, <2>2, <2>3
<1>10. CASE b \in {"coding", "function_calling"}
  <2> DEFINE half == Errors(o) = 0 /\ 2 * Right(o) >= n
  <2>1. \/ Execute(b, o) = Result(none, n, Errors(o), Right(o), n)
        \/ Execute(b, o) = Result(half, n, Errors(o), Right(o), n)
    BY <1>2, <1>10 DEF Execute, Coding, FunctionCalling
  <2>2. half \in BOOLEAN
    OBVIOUS
  <2> HIDE DEF none, half
  <2>3. QED
    BY <1>4, <1>n, <2>1, <2>2, ResultIsSized
<1>11. CASE b = "multiturn"
  <2> DEFINE Done == {i \in DOMAIN o : \A m \in 1..i : o[m] \notin Failures}
             done == Cardinality(Done)
             f == IF done < n THEN 1 ELSE 0
             p == f = 0 /\ 10 * done >= 8 * n
  <2>1. Execute(b, o) = Result(p, 1, f, 0, done)
    BY <1>2, <1>11 DEF Execute, MultiTurn
  <2>2. done \in 0..n
    <3>1. IsFiniteSet(1..n) /\ Cardinality(1..n) = n
      BY <1>1, FS_Interval
    <3>2. Done \subseteq 1..n
      BY <1>1
    <3> HIDE DEF Done
    <3>3. IsFiniteSet(Done) /\ Cardinality(Done) <= n
      BY <3>1, <3>2, FS_Subset
    <3>4. QED
      BY <1>1, <3>3, FS_CardinalityType
  <2>3. p \in BOOLEAN
    OBVIOUS
  <2> HIDE DEF p, done
  <2>4. done \in 0..Most /\ f \in 0..Most
    BY <1>1, <2>2
  <2> HIDE DEF f
  <2>5. QED
    BY <1>4, <2>1, <2>3, <2>4, ResultIsSized
<1>12. CASE b = "prompt_robustness"
  <2> DEFINE p == Errors(o) = 0 /\ (n < 2 \/ Right(o) >= 2)
  <2>1. Execute(b, o) = Result(p, 1, Errors(o), 0, n)
    BY <1>2, <1>12 DEF Execute, PromptRobustness
  <2>2. p \in BOOLEAN
    OBVIOUS
  <2> HIDE DEF p
  <2>3. QED
    BY <1>4, <2>1, <2>2, ResultIsSized
<1>13. CASE b = "tensor_parallel"
  <2> DEFINE p == Errors(o) = 0 /\ Answered(o) > 0
  <2>1. Execute(b, o) = Result(p, Len(TpSizes), Errors(o), 0, Answered(o))
    BY <1>13 DEF Execute, TensorParallel
  <2>2. p \in BOOLEAN
    OBVIOUS
  <2> HIDE DEF p
  <2>3. QED
    BY <1>1, <1>4, <2>1, <2>2, ResultIsSized
<1>14. CASE b = "speculative_decoding"
  <2> DEFINE tail == SubSeq(o, 2, n)
             y == n - Count(tail, {"dead"})
  <2>1. Execute(b, o) = Result(none, y, Errors(o), 0, Answered(o))
    BY <1>2, <1>14 DEF Execute, SpeculativeDecoding
  <2>2. n \in {1, 2}
    BY <1>14 DEF n, PromptsOf
  <2>3. tail \in [1..(n - 1) -> Outcomes]
    <3>1. o \in Seq(Outcomes) /\ Len(o) = n
      BY <1>1, <1>2
    <3>2. tail = [i \in 1..(n - 1) |-> o[i + 1]]
      <4>1. /\ tail \in Seq(Outcomes) /\ Len(tail) = n - 1
            /\ \A i \in 1..(n - 1) : tail[i] = o[2 + i - 1]
        BY <2>2, <3>1, SubSeqProperties
      <4>2. DOMAIN tail = 1..(n - 1) /\ \A i \in 1..(n - 1) : tail[i] = o[i + 1]
        BY <2>2, <4>1, LenProperties
      <4> HIDE DEF tail
      <4>3. tail = [i \in DOMAIN tail |-> tail[i]]
        BY <4>1
      <4>4. QED
        BY <4>2, <4>3
    <3>3. \A i \in 1..(n - 1) : o[i + 1] \in Outcomes
      BY <1>1, <2>2
    <3>4. QED
      BY <3>2, <3>3
  <2>4. Count(tail, {"dead"}) \in 0..(n - 1)
    <3> HIDE DEF tail
    <3>1. QED
      BY <2>2, <2>3, LevelsAreCounted
  <2>5. y \in 0..Most
    <3> HIDE DEF tail
    <3>1. QED
      BY <1>1, <2>2, <2>4
  <2> HIDE DEF y, none
  <2>6. QED
    BY <1>4, <1>n, <2>1, <2>5, ResultIsSized
<1>15. QED
  BY <1>5, <1>6, <1>7, <1>8, <1>9, <1>10, <1>11, <1>12, <1>13, <1>14
     DEF Benchmarks, Quality, Performance

-----------------------------------------------------------------------------

Engines == [alive : BOOLEAN, url : BOOLEAN, tp : Nat, draft : BOOLEAN]

(* The arguments, the configuration and the engine; the runs of a          *)
(* benchmark are counted to its number.                                    *)
SuiteRest ==
    /\ suite \in Suites /\ globalConfig \in Configs /\ config \in Configs
    /\ testOverrides \in Overrides
    /\ at.bench <= Len(suite) + 1 /\ at.run \in Nat \ {0} /\ at.run <= runs
    /\ pc \in {"start", "running", "over"} /\ runs \in 1..MaxRuns
    /\ engine \in Engines

SuiteInv ==
    /\ suite \in Seq(Benchmarks) /\ at.bench \in Nat \ {0} /\ DOMAIN at = {"bench", "run"}
    /\ pc = "running" => at.bench <= Len(suite)
    /\ \E S : results \in Seq(S) /\ \A k \in S : AddsUp(k) /\ Sized(k.result)
    /\ SuiteRest

LEMMA SuiteInitIsSound == SuiteInit => SuiteInv
<1> SUFFICES ASSUME SuiteInit PROVE SuiteInv
  OBVIOUS
<1>1. results \in Seq({}) /\ \A k \in {} : AddsUp(k) /\ Sized(k.result)
  BY EmptySeq DEF SuiteInit
<1>2. \E S : results \in Seq(S) /\ \A k \in S : AddsUp(k) /\ Sized(k.result)
  BY <1>1
<1>3. at = [bench |-> 1, run |-> 1] /\ suite \in Seq(Benchmarks) /\ pc = "start"
  BY SuiteAssumption DEF SuiteInit
<1>4. SuiteRest
  <2>1. Len(suite) \in Nat /\ MaxRuns \in Nat \ {0}
    BY <1>3, SuiteAssumption, LenProperties
  <2>2. engine \in Engines
    <3>1. engine \in [alive : {TRUE}, url : BOOLEAN, tp : {0}, draft : {FALSE}]
      BY DEF SuiteInit
    <3>2. /\ TRUE \in BOOLEAN /\ FALSE \in BOOLEAN /\ 0 \in Nat
      OBVIOUS
    <3>3. /\ engine.alive \in BOOLEAN /\ engine.url \in BOOLEAN /\ engine.draft \in BOOLEAN
          /\ engine.tp \in Nat
          /\ engine = [alive |-> engine.alive, url |-> engine.url, tp |-> engine.tp,
                       draft |-> engine.draft]
      BY <3>1, <3>2
    <3>4. QED
      BY <3>3 DEF Engines
  <2>3. at.bench = 1 /\ at.run = 1 /\ runs = 1 /\ runs \in 1..MaxRuns
    BY <1>3, <2>1 DEF SuiteInit
  <2>4. /\ suite \in Suites /\ globalConfig \in Configs /\ config \in Configs
        /\ testOverrides \in Overrides
    BY DEF SuiteInit
  <2>5. QED
    BY <1>3, <2>1, <2>2, <2>3, <2>4 DEF SuiteRest
<1>5. QED
  BY <1>2, <1>3, <1>4 DEF SuiteInv

(* A run is over, its result kept.                                         *)
LEMMA ResultKept ==
    ASSUME SuiteInv, pc = "running", AfterRun, NEW k, AddsUp(k), Sized(k.result),
           results' = Append(results, k), engine' \in Engines,
           UNCHANGED <<suite, globalConfig, testOverrides, config, runs>>
    PROVE  SuiteInv'
<1>1. PICK S : results \in Seq(S) /\ \A j \in S : AddsUp(j) /\ Sized(j.result)
  BY DEF SuiteInv
<1>2. results' \in Seq(S \cup {k}) /\ \A j \in S \cup {k} : AddsUp(j) /\ Sized(j.result)
  <2>1. results \in Seq(S \cup {k})
    BY <1>1
  <2>2. QED
    BY <1>1, <2>1, AppendProperties
<1>3. \E T : results' \in Seq(T) /\ \A j \in T : AddsUp(j) /\ Sized(j.result)
  BY <1>2
<1>4. Len(suite) \in Nat /\ runs \in Nat /\ at.run \in Nat /\ at.bench \in Nat
  BY LenProperties, SuiteAssumption DEF SuiteInv, SuiteRest
<1>5. /\ at'.bench \in Nat \ {0} /\ DOMAIN at' = {"bench", "run"}
      /\ pc' = "running" => at'.bench <= Len(suite)
  <2>1. at.bench \in Nat \ {0} /\ DOMAIN at = {"bench", "run"} /\ at.bench <= Len(suite)
    BY DEF SuiteInv
  <2>2. CASE at' = [at EXCEPT !.run = @ + 1]
    <3>1. at'.bench = at.bench /\ DOMAIN at' = {"bench", "run"}
      BY <2>1, <2>2
    <3>2. QED
      BY <2>1, <3>1
  <2>3. CASE at' = [bench |-> at.bench + 1, run |-> 1] /\ pc' = "start"
    <3>1. at'.bench = at.bench + 1 /\ DOMAIN at' = {"bench", "run"}
      BY <2>3
    <3>2. at'.bench \in Nat \ {0}
      BY <1>4, <3>1
    <3>3. QED
      BY <2>3, <3>1, <3>2
  <2>4. QED
    BY <2>2, <2>3 DEF AfterRun
<1>6. /\ at'.bench <= Len(suite) + 1 /\ at'.run \in Nat \ {0} /\ at'.run <= runs
      /\ pc' \in {"start", "running"}
  <2>1. CASE at.run < runs
    <3>1. at'.run = at.run + 1 /\ at'.bench = at.bench /\ pc' = pc
      BY <2>1 DEF AfterRun, SuiteInv
    <3>2. QED
      BY <1>4, <2>1, <3>1 DEF SuiteInv, SuiteRest
  <2>2. CASE ~(at.run < runs)
    <3>1. at'.run = 1 /\ at'.bench = at.bench + 1 /\ pc' = "start"
      BY <2>2 DEF AfterRun
    <3>2. runs >= 1
      BY SuiteAssumption DEF SuiteInv, SuiteRest
    <3>3. QED
      BY <1>4, <3>1, <3>2 DEF SuiteInv
  <2>3. QED
    BY <2>1, <2>2
<1>7. SuiteRest'
  BY <1>6 DEF SuiteInv, SuiteRest
<1>8. QED
  BY <1>3, <1>5, <1>7 DEF SuiteInv

(* The largest of the sizes that tensor_parallel tries.                    *)
LEMMA LastOfTried ==
    ASSUME Tried # {}
    PROVE  TpSizes[CHOOSE i \in Tried : \A j \in Tried : j <= i] \in Nat
<1>1. Len(TpSizes) \in Nat /\ Tried \subseteq 1..Len(TpSizes)
  BY SuiteAssumption, LenProperties DEF Tried
<1> DEFINE Bounds == {m \in Nat : \A i \in Tried : i <= m}
<1>2. Len(TpSizes) \in Bounds /\ Bounds \in SUBSET Nat
  BY <1>1
<1>3. PICK m \in Bounds : \A k \in Bounds : m <= k
  BY <1>2, LeastNumber
<1>4. m \in Tried
  <2> SUFFICES ASSUME m \notin Tried PROVE FALSE
    OBVIOUS
  <2>1. \A i \in Tried : i \in Nat /\ 1 <= i /\ i <= m /\ i # m
    BY <1>1
  <2>2. m \in Nat /\ m >= 1
    BY <2>1
  <2>3. m - 1 \in Bounds
    BY <2>1, <2>2
  <2>4. QED
    BY <1>3, <2>2, <2>3
<1>5. (CHOOSE i \in Tried : \A j \in Tried : j <= i) \in Tried
  BY <1>4
<1>6. QED
  BY <1>1, <1>5, SuiteAssumption, ElementOfSeq

LEMMA EngineIsTyped ==
    ASSUME engine \in Engines, NEW b, NEW o PROVE EngineAfter(b, o) \in Engines
<1>1. CASE b = "tensor_parallel" /\ Tried # {}
  BY <1>1, LastOfTried DEF EngineAfter, Engines
<1>2. CASE ~(b = "tensor_parallel" /\ Tried # {}) /\ b = "speculative_decoding" /\ Len(o) = 2
  BY <1>2 DEF EngineAfter, Engines
<1>3. CASE /\ ~(b = "tensor_parallel" /\ Tried # {})
           /\ ~(b = "speculative_decoding" /\ Len(o) = 2)
  BY <1>3 DEF EngineAfter, Engines
<1>4. QED
  BY <1>1, <1>2, <1>3

LEMMA SuiteStepKeeps == SuiteInv /\ [SuiteNext]_suiteVars => SuiteInv'
<1> SUFFICES ASSUME SuiteInv, [SuiteNext]_suiteVars PROVE SuiteInv'
  OBVIOUS
<1>1. SuiteRest /\ Len(suite) \in Nat
  BY LenProperties DEF SuiteInv
<1>2. CASE UNCHANGED suiteVars
  BY <1>2 DEF suiteVars, SuiteInv, SuiteRest
<1>3. CASE StartBenchmark
  <2>1. runs' \in 1..MaxRuns
    BY <1>1, <1>3, SuiteAssumption DEF StartBenchmark, SuiteRest, Configs
  <2>2. /\ at' = [at EXCEPT !.run = 1] /\ pc' = "running" /\ config' = globalConfig
        /\ UNCHANGED <<suite, globalConfig, testOverrides, engine, results>>
        /\ at.bench <= Len(suite)
    BY <1>3 DEF StartBenchmark
  <2>3. at'.run = 1 /\ at'.bench = at.bench /\ DOMAIN at' = {"bench", "run"}
    BY <2>2 DEF SuiteInv
  <2>4. SuiteRest'
    BY <1>1, <2>1, <2>2, <2>3, SuiteAssumption DEF SuiteInv, SuiteRest
  <2>5. QED
    BY <2>2, <2>3, <2>4 DEF SuiteInv
<1>4. CASE Refuse
  <2> DEFINE k == Kept(Result(FALSE, 0, 1, 0, 0), <<>>)
  <2>1. /\ k.result = Result(FALSE, 0, 1, 0, 0) /\ k.prompts = 0 /\ k.failures = Errors(<<>>)
        /\ k.right = Right(<<>>)
    BY DEF Kept
  <2>2. <<>> \in [1..0 -> Outcomes]
    OBVIOUS
  <2>3. k.failures \in Nat /\ k.right \in Nat
    BY <2>1, <2>2, Counts
  <2> HIDE DEF k
  <2>4. AddsUp(k)
    BY <2>1, <2>3 DEF AddsUp, Result
  <2>5. Sized(k.result)
    <3>1. 0 \in 0..Most /\ 1 \in 0..Most
      BY PromptsAreFew
    <3>2. QED
      BY <2>1, <3>1 DEF Result, Sized
  <2>6. engine' \in Engines
    BY <1>1, <1>4 DEF Refuse, SuiteRest
  <2>7. QED
    BY <1>4, <2>4, <2>5, <2>6, ResultKept DEF Refuse, k
<1>5. CASE RunOnce
  <2>1. /\ pc = "running" /\ AfterRun
        /\ UNCHANGED <<suite, globalConfig, testOverrides, config, runs>>
    BY <1>5 DEF RunOnce
  <2>2. PICK o \in OutcomesOf(Bench) : /\ results' = Append(results, Kept(Execute(Bench, o), o))
                                       /\ engine' = EngineAfter(Bench, o)
    BY <1>5 DEF RunOnce
  <2>3. Bench \in Benchmarks
    BY <2>1, ElementOfSeq, LenProperties DEF SuiteInv, Bench
  <2> DEFINE k == Kept(Execute(Bench, o), o)
  <2>4. /\ k.result = Execute(Bench, o) /\ k.bench = Bench /\ k.prompts = Len(o)
        /\ k.failures = Errors(o) /\ k.right = Right(o)
    BY DEF Kept
  <2> HIDE DEF k
  <2>5. AddsUp(k) /\ Sized(k.result)
    BY <2>3, <2>4, BenchmarkAddsUp, BenchmarkIsSized
  <2>6. engine' \in Engines
    BY <1>1, <2>2, EngineIsTyped DEF SuiteRest
  <2>7. QED
    BY <2>1, <2>2, <2>5, <2>6, ResultKept DEF k
<1>6. CASE ServerDies \/ EndSuite
  BY <1>6 DEF ServerDies, EndSuite, SuiteInv, SuiteRest, Engines
<1>7. QED
  BY <1>2, <1>3, <1>4, <1>5, <1>6 DEF SuiteNext

LEMMA SuiteIsTyped == SuiteInv => SuiteTypeOK
<1> SUFFICES ASSUME SuiteInv PROVE SuiteTypeOK
  OBVIOUS
<1>1. SuiteRest /\ Len(suite) \in Nat /\ MaxRuns \in Nat
  BY LenProperties, SuiteAssumption DEF SuiteInv
<1>2. at.bench \in 1..(Len(suite) + 1) /\ at.run \in 1..MaxRuns
  BY <1>1 DEF SuiteInv, SuiteRest
<1>3. ASSUME NEW n \in DOMAIN results PROVE Sized(results[n].result)
  <2>1. PICK S : results \in Seq(S) /\ \A k \in S : AddsUp(k) /\ Sized(k.result)
    BY DEF SuiteInv
  <2>2. results[n] \in S
    BY <2>1, ElementOfSeq, LenProperties
  <2>3. QED
    BY <2>1, <2>2
<1>4. QED
  BY <1>1, <1>2, <1>3 DEF SuiteRest, SuiteTypeOK, Engines, Sized, Most

(* For any suite, any numbers of prompts, runs and GPUs: every result of   *)
(* each of the nineteen benchmarks adds up, whatever the engine answers.   *)
THEOREM ResultsAddUpAlways == SuiteSpec => []ResultsAddUp
<1>1. SuiteInv => ResultsAddUp
  <2> SUFFICES ASSUME SuiteInv, NEW n \in DOMAIN results PROVE AddsUp(results[n])
    BY DEF ResultsAddUp
  <2>1. PICK S : results \in Seq(S) /\ \A k \in S : AddsUp(k) /\ Sized(k.result)
    BY DEF SuiteInv
  <2>2. results[n] \in S
    BY <2>1, ElementOfSeq, LenProperties
  <2>3. QED
    BY <2>1, <2>2
<1>2. QED
  BY <1>1, SuiteInitIsSound, SuiteStepKeeps, PTL DEF SuiteSpec

-----------------------------------------------------------------------------
(* Checkpoints.                                                            *)

-----------------------------------------------------------------------------

AttemptPcs == {"off", "index", "outputs", "items", "passed", "failed", "dead"}
AttemptStates == [pc : AttemptPcs, item : 0..ItemCount, errors : 0..ItemCount, out : Seq(Output),
                  resumed : BOOLEAN]
SavedStates == [last : Output, out : Seq(Output), there : BOOLEAN]

(* A run that has not begun with its items has nothing yet.                *)
Fresh(x) ==
    /\ x.pc \in {"off", "index", "outputs"} => x.out = <<>> /\ x.errors = 0
    /\ x.pc \in {"off", "index"} => x.item = 0 /\ ~x.resumed
    /\ x.errors <= x.item

CheckpointTypes ==
    /\ attempt \in [Attempts -> AttemptStates]
    /\ saved \in SavedStates
    /\ together \subseteq Attempts /\ given \subseteq Output
    /\ \A a \in Attempts : Fresh(attempt[a])

(* Outputs in order, of all items before one but for some.                 *)
Rising(s) == \A n \in 1..(Len(s) - 1) : s[n] < s[n + 1]
AllBefore(s, i, but) ==
    /\ Rising(s)
    /\ \A n \in 1..Len(s) : s[n] < i
    /\ \A j \in Output : j < i => j \in ToSet(s) \cup but

(* The runs as long as they share nothing: one at a time is busy; what it  *)
(* has, what is saved and what a passed run had lacks only the prompts that*)
(* were given up, and nothing without a resume or an error.                *)
OneIsBusy == \A a, b \in Attempts : Busy(a) /\ Busy(b) => a = b
SavedIsWhole == saved.there => AllBefore(saved.out, saved.last + 1, given)
AttemptIsWhole(a) ==
    LET x == attempt[a]
    IN /\ x.pc = "outputs" => saved.there /\ x.item = saved.last + 1
       /\ x.pc \in {"items", "passed"} =>
             AllBefore(x.out, x.item, IF x.resumed \/ x.errors > 0 THEN given ELSE {})
       /\ x.pc = "passed" => x.item = ItemCount /\ x.errors = 0

CheckpointInv ==
    /\ CheckpointTypes
    /\ together = {} => OneIsBusy /\ SavedIsWhole /\ \A a \in Attempts : AttemptIsWhole(a)

-----------------------------------------------------------------------------

LEMMA OutputIs == Output = 0..(ItemCount - 1) /\ ItemCount \in Nat /\ ItemCount > 0 /\ Output \subseteq Nat
  BY CheckpointAssumption DEF Output

LEMMA NothingBefore == \A but : AllBefore(<<>>, 0, but)
  BY OutputIs, EmptySeq DEF AllBefore, Rising

LEMMA MoreIsGiven ==
    ASSUME NEW s, NEW i, NEW but, NEW more, AllBefore(s, i, but), but \subseteq more
    PROVE  AllBefore(s, i, more)
  BY DEF AllBefore

(* The next item is answered, or is given up.                              *)
LEMMA OneMore ==
    ASSUME NEW s \in Seq(Output), NEW i \in Output, NEW but, AllBefore(s, i, but)
    PROVE  /\ AllBefore(Append(s, i), i + 1, but)
           /\ AllBefore(s, i + 1, but \cup {i})
<1>1. /\ Len(s) \in Nat /\ Len(Append(s, i)) = Len(s) + 1
      /\ \A n \in 1..Len(s) : Append(s, i)[n] = s[n] /\ s[n] \in Output
      /\ Append(s, i)[Len(s) + 1] = i
      /\ ToSet(Append(s, i)) = ToSet(s) \cup {i}
  BY AppendProperties, LenProperties, ElementOfSeq, AppendElements
<1>2. Rising(Append(s, i))
  BY <1>1, OutputIs DEF AllBefore, Rising
<1>3. \A n \in 1..Len(Append(s, i)) : Append(s, i)[n] < i + 1
  BY <1>1, OutputIs DEF AllBefore
<1>4. \A j \in Output : j < i + 1 => j < i \/ j = i
  BY OutputIs
<1>5. \A n \in 1..Len(s) : s[n] < i + 1
  BY <1>1, OutputIs DEF AllBefore
<1>6. QED
  BY <1>1, <1>2, <1>3, <1>4, <1>5 DEF AllBefore

LEMMA CheckpointInitIsSound == CheckpointInit => CheckpointInv
<1> SUFFICES ASSUME CheckpointInit PROVE CheckpointInv
  OBVIOUS
<1>1. CheckpointTypes
  BY OutputIs, EmptySeq
     DEF CheckpointInit, CheckpointTypes, AttemptStates, AttemptPcs, SavedStates, NoCheckpoint,
         Fresh
<1>2. OneIsBusy /\ SavedIsWhole /\ \A a \in Attempts : AttemptIsWhole(a)
  BY DEF CheckpointInit, OneIsBusy, Busy, SavedIsWhole, AttemptIsWhole, NoCheckpoint
<1>3. QED
  BY <1>1, <1>2 DEF CheckpointInv

(* One run goes on to x.                                                   *)
LEMMA AttemptGoesOn ==
    ASSUME CheckpointInv, NEW a \in Attempts, NEW x \in AttemptStates,
           attempt' = [attempt EXCEPT ![a] = x], Fresh(x),
           saved' \in SavedStates, given' \subseteq Output, given \subseteq given',
           UNCHANGED together, Busy(a),
           together = {} =>
              /\ SavedIsWhole'
              /\ x.pc \in {"index", "outputs", "items", "passed", "failed", "dead"}
              /\ x.pc = "outputs" => saved'.there /\ x.item = saved'.last + 1
              /\ x.pc \in {"items", "passed"} =>
                    AllBefore(x.out, x.item, IF x.resumed \/ x.errors > 0 THEN given' ELSE {})
              /\ x.pc = "passed" => x.item = ItemCount /\ x.errors = 0
    PROVE  CheckpointInv'
<1>1. /\ attempt' \in [Attempts -> AttemptStates] /\ attempt'[a] = x
      /\ \A b \in Attempts : b # a => attempt'[b] = attempt[b]
  BY DEF CheckpointInv, CheckpointTypes
<1>2. CheckpointTypes'
  BY <1>1 DEF CheckpointInv, CheckpointTypes
<1>3. ASSUME together = {} PROVE OneIsBusy' /\ \A b \in Attempts : AttemptIsWhole(b)'
  <2>1. \A b \in Attempts : b # a => ~Busy(b) /\ ~Busy(b)'
    BY <1>1, <1>3 DEF CheckpointInv, OneIsBusy, Busy
  <2>2. OneIsBusy'
    BY <2>1 DEF OneIsBusy
  <2>3. AttemptIsWhole(a)'
    BY <1>1, <1>3 DEF AttemptIsWhole
  <2>4. ASSUME NEW b \in Attempts, b # a PROVE AttemptIsWhole(b)'
    <3>1. attempt'[b] = attempt[b] /\ attempt[b].pc \notin {"index", "outputs", "items"}
      BY <1>1, <2>1, <2>4 DEF Busy
    <3>2. AttemptIsWhole(b)
      BY <1>3 DEF CheckpointInv
    <3>3. \A s, i : AllBefore(s, i, given) => AllBefore(s, i, given')
      BY MoreIsGiven
    <3>4. QED
      BY <3>1, <3>2, <3>3 DEF AttemptIsWhole
  <2>5. QED
    BY <2>2, <2>3, <2>4
<1>4. QED
  BY <1>2, <1>3 DEF CheckpointInv

LEMMA AttemptIsTyped ==
    ASSUME CheckpointInv, NEW a \in Attempts
    PROVE  /\ attempt[a] \in AttemptStates /\ attempt[a].item \in 0..ItemCount
           /\ attempt[a].errors \in 0..ItemCount /\ Fresh(attempt[a])
           /\ attempt[a].out \in Seq(Output) /\ attempt[a].resumed \in BOOLEAN
           /\ saved \in SavedStates /\ saved.last \in Output /\ saved.out \in Seq(Output)
           /\ saved.there \in BOOLEAN
  BY DEF CheckpointInv, CheckpointTypes, AttemptStates, SavedStates

LEMMA StartAttemptKeeps ==
    ASSUME CheckpointInv, NEW a \in Attempts, StartAttempt(a)
    PROVE  CheckpointInv'
<1> DEFINE x == [attempt[a] EXCEPT !.pc = "index"]
<1>1. /\ attempt[a].pc = "off" /\ UNCHANGED <<saved, given>> /\ attempt' = [attempt EXCEPT ![a] = x]
      /\ together' = IF \E b \in Attempts : Busy(b)
                     THEN together \cup {a} \cup {b \in Attempts : Busy(b)} ELSE together
  BY DEF StartAttempt, CheckpointInv, CheckpointTypes
<1>2. /\ x \in AttemptStates /\ x.pc = "index" /\ x.out = attempt[a].out
      /\ x.item = attempt[a].item /\ x.errors = attempt[a].errors /\ x.resumed = attempt[a].resumed
  BY AttemptIsTyped DEF AttemptStates, AttemptPcs
<1> HIDE DEF x
<1>3. /\ attempt' \in [Attempts -> AttemptStates] /\ attempt'[a] = x
      /\ \A b \in Attempts : b # a => attempt'[b] = attempt[b]
  BY <1>1, <1>2 DEF CheckpointInv, CheckpointTypes
<1>4. CheckpointTypes'
  BY <1>1, <1>2, <1>3 DEF CheckpointInv, CheckpointTypes, Fresh
<1>5. ASSUME together' = {}
      PROVE  OneIsBusy' /\ SavedIsWhole' /\ \A b \in Attempts : AttemptIsWhole(b)'
  <2>1. together = {} /\ \A b \in Attempts : ~Busy(b)
    BY <1>1, <1>5
  <2>2. \A b \in Attempts : b # a => ~Busy(b)'
    BY <1>3, <2>1 DEF Busy
  <2>3. \A b \in Attempts : AttemptIsWhole(b)'
    BY <1>1, <1>2, <1>3, <2>1 DEF CheckpointInv, AttemptIsWhole
  <2>4. QED
    BY <1>1, <2>1, <2>2, <2>3 DEF OneIsBusy, CheckpointInv, SavedIsWhole
<1>6. QED
  BY <1>4, <1>5 DEF CheckpointInv

LEMMA ReadIndexKeeps ==
    ASSUME CheckpointInv, NEW a \in Attempts, ReadIndex(a)
    PROVE  CheckpointInv'
<1>1. /\ attempt[a].pc = "index" /\ UNCHANGED <<saved, together, given>> /\ Busy(a)
      /\ attempt[a] \in AttemptStates /\ attempt \in [Attempts -> AttemptStates]
      /\ attempt[a].out = <<>> /\ attempt[a].errors = 0 /\ attempt[a].item = 0
      /\ ~attempt[a].resumed
  BY AttemptIsTyped DEF ReadIndex, Busy, CheckpointInv, CheckpointTypes, Fresh
<1>2. together = {} => ~Torn(a) /\ SavedIsWhole
  BY DEF Torn, CheckpointInv
<1>3. saved.last + 1 \in 0..ItemCount /\ saved.there \in BOOLEAN
  BY AttemptIsTyped, OutputIs
<1>4. \E goal \in {"outputs", "items"}, item \in 0..ItemCount :
          /\ attempt' = [attempt EXCEPT ![a] = [attempt[a] EXCEPT !.pc = goal, !.item = item]]
          /\ \/ goal = "outputs" /\ saved.there /\ item = saved.last + 1
             \/ goal = "items" /\ item = 0
  <2>1. CASE attempt' = [attempt EXCEPT ![a].pc = IF saved.there THEN "outputs" ELSE "items",
                                        ![a].item = IF saved.there THEN saved.last + 1 ELSE 0]
    <3>1. CASE saved.there
      <4>1. attempt' = [attempt EXCEPT ![a] = [attempt[a] EXCEPT !.pc = "outputs",
                                                                 !.item = saved.last + 1]]
        BY <1>1, <2>1, <3>1
      <4>2. QED
        BY <1>3, <3>1, <4>1
    <3>2. CASE ~saved.there
      <4>1. attempt' = [attempt EXCEPT ![a] = [attempt[a] EXCEPT !.pc = "items", !.item = 0]]
        BY <1>1, <2>1, <3>2
      <4>2. 0 \in 0..ItemCount
        BY OutputIs
      <4>3. QED
        BY <4>1, <4>2
    <3>3. QED
      BY <3>1, <3>2
  <2>2. CASE attempt' = [attempt EXCEPT ![a].pc = "items"]
    <3>1. [attempt[a] EXCEPT !.pc = "items", !.item = 0] = [attempt[a] EXCEPT !.pc = "items"]
      BY <1>1 DEF AttemptStates
    <3>2. attempt' = [attempt EXCEPT ![a] = [attempt[a] EXCEPT !.pc = "items"]]
      BY <1>1, <2>2
    <3>3. attempt' = [attempt EXCEPT ![a] = [attempt[a] EXCEPT !.pc = "items", !.item = 0]]
      BY <3>1, <3>2
    <3>4. 0 \in 0..ItemCount
      BY OutputIs
    <3>5. QED
      BY <3>3, <3>4
  <2>3. QED
    BY <2>1, <2>2 DEF ReadIndex
<1>5. PICK goal \in {"outputs", "items"}, item \in 0..ItemCount :
          /\ attempt' = [attempt EXCEPT ![a] = [attempt[a] EXCEPT !.pc = goal, !.item = item]]
          /\ \/ goal = "outputs" /\ saved.there /\ item = saved.last + 1
             \/ goal = "items" /\ item = 0
  BY <1>4
<1> DEFINE x == [attempt[a] EXCEPT !.pc = goal, !.item = item]
<1>6. /\ x \in AttemptStates /\ x.pc = goal /\ x.out = <<>>
      /\ x.item = item /\ x.errors = 0 /\ ~x.resumed
  BY <1>1 DEF AttemptStates, AttemptPcs
<1>7. attempt' = [attempt EXCEPT ![a] = x]
  BY <1>5
<1> HIDE DEF x
<1>8. Fresh(x)
  BY <1>5, <1>6 DEF Fresh
<1>9. x.pc = "items" => AllBefore(x.out, x.item, {})
  BY <1>5, <1>6, NothingBefore
<1>10. saved' \in SavedStates /\ given' \subseteq Output
  BY <1>1 DEF CheckpointInv, CheckpointTypes
<1>11. SavedIsWhole => SavedIsWhole'
  BY <1>1 DEF SavedIsWhole
<1>12. /\ x.pc \in {"index", "outputs", "items", "passed", "failed", "dead"} /\ x.pc # "passed"
       /\ x.pc = "outputs" => saved'.there /\ x.item = saved'.last + 1
       /\ given \subseteq given'
  BY <1>1, <1>5, <1>6
<1>13. x.pc \in {"items", "passed"} =>
           AllBefore(x.out, x.item, IF x.resumed \/ x.errors > 0 THEN given' ELSE {})
  BY <1>6, <1>9, <1>12
<1>14. QED
  BY <1>1, <1>2, <1>6, <1>7, <1>8, <1>10, <1>11, <1>12, <1>13, AttemptGoesOn

LEMMA ReadOutputsKeeps ==
    ASSUME CheckpointInv, NEW a \in Attempts, ReadOutputs(a)
    PROVE  CheckpointInv'
<1>1. /\ attempt[a].pc = "outputs" /\ UNCHANGED <<saved, together, given>> /\ Busy(a)
      /\ attempt[a] \in AttemptStates /\ attempt \in [Attempts -> AttemptStates]
      /\ attempt[a].errors = 0 /\ Fresh(attempt[a])
  BY AttemptIsTyped DEF ReadOutputs, Busy, CheckpointInv, CheckpointTypes, Fresh
<1>2. together = {} => /\ ~Torn(a) /\ SavedIsWhole /\ saved.there
                       /\ attempt[a].item = saved.last + 1
  BY <1>1 DEF Torn, CheckpointInv, AttemptIsWhole
<1>3. PICK out \in {IF saved.there THEN saved.out ELSE <<>>} \cup (IF Torn(a) THEN {<<>>} ELSE {}) :
          attempt' = [attempt EXCEPT ![a].pc = "items", ![a].resumed = TRUE, ![a].out = out]
  BY DEF ReadOutputs
<1>4. out \in Seq(Output) /\ (together = {} => out = saved.out)
  BY <1>2, <1>3, AttemptIsTyped, EmptySeq
<1> DEFINE x == [attempt[a] EXCEPT !.pc = "items", !.resumed = TRUE, !.out = out]
<1>5. attempt' = [attempt EXCEPT ![a] = x]
  BY <1>1, <1>3
<1>6. /\ x \in AttemptStates /\ x.pc = "items" /\ x.out = out
      /\ x.item = attempt[a].item /\ x.errors = 0 /\ x.resumed
  BY <1>1, <1>4 DEF AttemptStates, AttemptPcs
<1> HIDE DEF x
<1>7. Fresh(x)
  BY <1>1, <1>6 DEF Fresh
<1>8. saved' \in SavedStates /\ given' \subseteq Output /\ (SavedIsWhole => SavedIsWhole')
  BY <1>1 DEF CheckpointInv, CheckpointTypes, SavedIsWhole
<1>9. QED
  BY <1>1, <1>2, <1>4, <1>5, <1>6, <1>7, <1>8, AttemptGoesOn DEF SavedIsWhole

(* A checkpoint that is written, or not: it is whole with what is given up.*)
LEMMA TornIsNone == TornCheckpoint \in SavedStates /\ ~TornCheckpoint.there
  BY OutputIs, EmptySeq DEF TornCheckpoint, NoCheckpoint, SavedStates

LEMMA CheckpointIsSaved ==
    ASSUME CheckpointInv, NEW i \in Output, NEW out \in Seq(Output), SaveCheckpoint(i, out),
           given \subseteq given',
           together = {} => AllBefore(out, i + 1, given')
    PROVE  saved' \in SavedStates /\ (together = {} => SavedIsWhole')
<1>1. saved \in SavedStates /\ (together = {} => SavedIsWhole)
  BY DEF CheckpointInv, CheckpointTypes
<1>2. CASE saved' = [last |-> i, out |-> out, there |-> TRUE]
  <2>1. saved'.last = i /\ saved'.out = out /\ saved' \in SavedStates
    BY <1>2 DEF SavedStates
  <2>2. QED
    BY <2>1 DEF SavedIsWhole
<1>3. CASE UNCHANGED saved
  <2>1. \A s, n : AllBefore(s, n, given) => AllBefore(s, n, given')
    BY MoreIsGiven
  <2>2. QED
    BY <1>1, <1>3, <2>1 DEF SavedIsWhole
<1>4. CASE saved' = TornCheckpoint
  BY <1>4, TornIsNone DEF SavedIsWhole
<1>5. QED
  BY <1>2, <1>3, <1>4 DEF SaveCheckpoint

LEMMA NextItemKeeps ==
    ASSUME CheckpointInv, NEW a \in Attempts, NextItem(a)
    PROVE  CheckpointInv'
<1> DEFINE i == attempt[a].item
           out == Append(attempt[a].out, i)
           but == IF attempt[a].resumed \/ attempt[a].errors > 0 THEN given ELSE {}
<1>1. /\ attempt[a].pc = "items" /\ i < ItemCount /\ UNCHANGED together /\ Busy(a)
      /\ attempt[a] \in AttemptStates /\ attempt \in [Attempts -> AttemptStates]
      /\ Fresh(attempt[a])
  BY AttemptIsTyped DEF NextItem, Busy, CheckpointInv, CheckpointTypes
<1>2. /\ i \in Output /\ i + 1 \in 0..ItemCount /\ attempt[a].errors + 1 \in 0..ItemCount
      /\ attempt[a].errors \in Nat /\ i \in Nat /\ attempt[a].errors <= i
      /\ attempt[a].out \in Seq(Output) /\ out \in Seq(Output)
  BY <1>1, AttemptIsTyped, OutputIs, AppendElements DEF Fresh
<1>3. together = {} => SavedIsWhole /\ AllBefore(attempt[a].out, i, but)
  BY <1>1 DEF CheckpointInv, AttemptIsWhole
<1>4. given \subseteq Output /\ saved \in SavedStates /\ but \subseteq given
  BY DEF CheckpointInv, CheckpointTypes
<1>5. CASE /\ attempt' = [attempt EXCEPT ![a].item = i + 1, ![a].out = out]
           /\ IF (i + 1) % Every = 0 THEN SaveCheckpoint(i, out) ELSE UNCHANGED saved
           /\ UNCHANGED given
  <2> DEFINE x == [attempt[a] EXCEPT !.item = i + 1, !.out = out]
  <2>1. attempt' = [attempt EXCEPT ![a] = x]
    BY <1>1, <1>5
  <2>2. /\ x \in AttemptStates /\ x.pc = "items" /\ x.out = out /\ x.item = i + 1
        /\ x.errors = attempt[a].errors /\ x.resumed = attempt[a].resumed
    BY <1>1, <1>2 DEF AttemptStates, AttemptPcs
  <2> HIDE DEF x
  <2>3. Fresh(x)
    BY <1>2, <2>2 DEF Fresh
  <2>4. together = {} => AllBefore(out, i + 1, but)
    BY <1>2, <1>3, OneMore
  <2>5. together = {} => AllBefore(out, i + 1, given)
    BY <1>4, <2>4, MoreIsGiven
  <2> HIDE DEF out
  <2>6. saved' \in SavedStates /\ (together = {} => SavedIsWhole')
    <3>1. CASE SaveCheckpoint(i, out)
      BY <1>2, <1>5, <2>5, <3>1, CheckpointIsSaved
    <3>2. CASE UNCHANGED saved
      BY <1>3, <1>4, <1>5, <3>2 DEF SavedIsWhole
    <3>3. QED
      BY <1>5, <3>1, <3>2
  <2> HIDE DEF i
  <2>7. QED
    BY <1>1, <1>4, <1>5, <2>1, <2>2, <2>3, <2>4, <2>6, AttemptGoesOn
<1>6. CASE /\ attempt' = [attempt EXCEPT ![a].item = i + 1, ![a].errors = @ + 1]
           /\ SaveCheckpoint(i, attempt[a].out)
           /\ given' = given \cup {i}
  <2> DEFINE x == [attempt[a] EXCEPT !.item = i + 1, !.errors = @ + 1]
  <2>1. attempt' = [attempt EXCEPT ![a] = x]
    BY <1>1, <1>6
  <2>2. /\ x \in AttemptStates /\ x.pc = "items" /\ x.out = attempt[a].out /\ x.item = i + 1
        /\ x.errors = attempt[a].errors + 1 /\ x.resumed = attempt[a].resumed
    BY <1>1, <1>2 DEF AttemptStates, AttemptPcs
  <2> HIDE DEF x
  <2>3. Fresh(x) /\ x.errors > 0
    BY <1>2, <2>2 DEF Fresh
  <2>4. together = {} => AllBefore(attempt[a].out, i + 1, but \cup {i})
    BY <1>2, <1>3, OneMore
  <2>5. together = {} => AllBefore(attempt[a].out, i + 1, given')
    BY <1>4, <1>6, <2>4, MoreIsGiven
  <2>6. saved' \in SavedStates /\ (together = {} => SavedIsWhole')
    BY <1>2, <1>6, <2>5, CheckpointIsSaved
  <2>7. given' \subseteq Output /\ given \subseteq given'
    BY <1>2, <1>4, <1>6
  <2> HIDE DEF i
  <2>8. QED
    BY <1>1, <2>1, <2>2, <2>3, <2>5, <2>6, <2>7, AttemptGoesOn
<1>7. QED
  BY <1>5, <1>6 DEF NextItem

LEMMA EndAttemptKeeps ==
    ASSUME CheckpointInv, NEW a \in Attempts, EndAttempt(a)
    PROVE  CheckpointInv'
<1> DEFINE goal == IF attempt[a].errors = 0 THEN "passed" ELSE "failed"
           x == [attempt[a] EXCEPT !.pc = goal]
<1>1. /\ attempt[a].pc = "items" /\ attempt[a].item = ItemCount /\ Busy(a)
      /\ UNCHANGED <<together, given>> /\ Fresh(attempt[a])
      /\ attempt[a] \in AttemptStates /\ attempt \in [Attempts -> AttemptStates]
  BY AttemptIsTyped DEF EndAttempt, Busy, CheckpointInv, CheckpointTypes
<1>2. attempt' = [attempt EXCEPT ![a] = x]
  BY <1>1 DEF EndAttempt
<1>3. /\ x \in AttemptStates /\ x.pc = goal /\ x.out = attempt[a].out
      /\ x.item = attempt[a].item /\ x.errors = attempt[a].errors
      /\ x.resumed = attempt[a].resumed
  BY <1>1 DEF AttemptStates, AttemptPcs
<1> HIDE DEF x
<1>4. Fresh(x)
  BY <1>1, <1>3 DEF Fresh
<1>5. /\ saved' = NoCheckpoint \/ UNCHANGED saved
      /\ NoCheckpoint \in SavedStates /\ ~NoCheckpoint.there
  BY OutputIs, EmptySeq DEF EndAttempt, NoCheckpoint, SavedStates
<1>6. saved' \in SavedStates /\ (SavedIsWhole => SavedIsWhole')
  BY <1>1, <1>5 DEF SavedIsWhole, CheckpointInv, CheckpointTypes
<1>7. together = {} =>
         /\ SavedIsWhole
         /\ AllBefore(attempt[a].out, ItemCount,
                      IF attempt[a].resumed \/ attempt[a].errors > 0 THEN given ELSE {})
  BY <1>1 DEF CheckpointInv, AttemptIsWhole
<1>8. given' \subseteq Output
  BY <1>1 DEF CheckpointInv, CheckpointTypes
<1>9. QED
  BY <1>1, <1>2, <1>3, <1>4, <1>6, <1>7, <1>8, AttemptGoesOn

LEMMA KillAttemptKeeps ==
    ASSUME CheckpointInv, NEW a \in Attempts, KillAttempt(a)
    PROVE  CheckpointInv'
<1> DEFINE x == [attempt[a] EXCEPT !.pc = "dead"]
<1>1. /\ Busy(a) /\ UNCHANGED <<together, given>> /\ Fresh(attempt[a])
      /\ saved' = TornCheckpoint \/ UNCHANGED saved
      /\ attempt[a] \in AttemptStates /\ attempt \in [Attempts -> AttemptStates]
  BY AttemptIsTyped DEF KillAttempt, CheckpointInv, CheckpointTypes
<1>2. attempt' = [attempt EXCEPT ![a] = x]
  BY <1>1 DEF KillAttempt
<1>3. /\ x \in AttemptStates /\ x.pc = "dead" /\ x.item = attempt[a].item
      /\ x.errors = attempt[a].errors
  BY <1>1 DEF AttemptStates, AttemptPcs
<1> HIDE DEF x
<1>4. Fresh(x)
  BY <1>1, <1>3 DEF Fresh
<1>5. saved' \in SavedStates /\ given' \subseteq Output /\ (together = {} => SavedIsWhole')
  BY <1>1, TornIsNone DEF CheckpointInv, CheckpointTypes, SavedIsWhole
<1>6. QED
  BY <1>1, <1>2, <1>3, <1>4, <1>5, AttemptGoesOn

LEMMA CheckpointStepKeeps == CheckpointInv /\ [CheckpointNext]_checkpointVars => CheckpointInv'
<1> SUFFICES ASSUME CheckpointInv, [CheckpointNext]_checkpointVars PROVE CheckpointInv'
  OBVIOUS
<1>1. CASE UNCHANGED checkpointVars
  BY <1>1 DEF checkpointVars, CheckpointInv, CheckpointTypes, OneIsBusy, Busy, SavedIsWhole,
     AttemptIsWhole
<1>2. CASE CheckpointNext
  BY <1>2, StartAttemptKeeps, ReadIndexKeeps, ReadOutputsKeeps, NextItemKeeps, EndAttemptKeeps,
     KillAttemptKeeps DEF CheckpointNext
<1>3. QED
  BY <1>1, <1>2

(* Whatever was killed or failed before it: a run that passed, with no     *)
(* other at the same time, has an output for every prompt in order, but    *)
(* for those that the checkpoint it resumed from had given up.             *)
THEOREM PassedIsWholeAlways == CheckpointSpec => []PassedIsWhole
<1>1. CheckpointInv => PassedIsWhole
  <2> SUFFICES ASSUME CheckpointInv, together = {}, NEW a \in Attempts, attempt[a].pc = "passed"
               PROVE  /\ Rising(attempt[a].out)
                      /\ (0..(ItemCount - 1)) \ ToSet(attempt[a].out) \subseteq
                            IF attempt[a].resumed THEN given ELSE {}
    BY DEF PassedIsWhole, Rising
  <2>1. /\ attempt[a].item = ItemCount /\ attempt[a].errors = 0
        /\ AllBefore(attempt[a].out, ItemCount,
                     IF attempt[a].resumed \/ attempt[a].errors > 0 THEN given ELSE {})
    BY DEF CheckpointInv, AttemptIsWhole
  <2>2. \A j \in 0..(ItemCount - 1) : j \in Output /\ j < ItemCount
    BY OutputIs
  <2>3. QED
    BY <2>1, <2>2 DEF AllBefore
<1>2. QED
  BY <1>1, CheckpointInitIsSound, CheckpointStepKeeps, PTL DEF CheckpointSpec

LEMMA CheckpointIsWhole == CheckpointInv => CheckpointTypeOK
  BY OutputIs DEF CheckpointInv, CheckpointTypes, CheckpointTypeOK, AttemptStates, AttemptPcs,
     SavedStates

(* The file and the runs are always of the form that the code reads back.  *)
THEOREM CheckpointTypeAlways == CheckpointSpec => []CheckpointTypeOK
  BY CheckpointIsWhole, CheckpointInitIsSound, CheckpointStepKeeps, PTL DEF CheckpointSpec

-----------------------------------------------------------------------------
(* The campaign script.                                                    *)

(* The elements of a sequence that loses its head.                         *)
LEMMA TailElements ==
    ASSUME NEW S, NEW s \in Seq(S), s # <<>>
    PROVE  /\ Head(s) \in S /\ Tail(s) \in Seq(S)
           /\ ToSet(s) = {Head(s)} \cup ToSet(Tail(s))
           /\ IsInjective(s) => Head(s) \notin ToSet(Tail(s)) /\ IsInjective(Tail(s))
<1>1. /\ Head(s) \in S /\ Head(s) = s[1] /\ Tail(s) \in Seq(S) /\ Len(Tail(s)) = Len(s) - 1
      /\ \A i \in 1..Len(Tail(s)) : Tail(s)[i] = s[i + 1]
      /\ Len(s) \in Nat \ {0} /\ DOMAIN s = 1..Len(s) /\ DOMAIN Tail(s) = 1..(Len(s) - 1)
  BY HeadTailProperties, EmptySeq, LenProperties
<1>2. ToSet(s) = {Head(s)} \cup ToSet(Tail(s))
  <2>1. ASSUME NEW i \in 1..Len(s) PROVE s[i] = Head(s) \/ s[i] \in ToSet(Tail(s))
    <3>1. i = 1 \/ (i - 1 \in 1..(Len(s) - 1) /\ s[i] = Tail(s)[i - 1])
      BY <1>1
    <3>2. QED
      BY <1>1, <3>1 DEF ToSet
  <2>2. ASSUME NEW i \in 1..(Len(s) - 1) PROVE Tail(s)[i] \in ToSet(s)
    <3>1. i + 1 \in 1..Len(s) /\ Tail(s)[i] = s[i + 1]
      BY <1>1
    <3>2. QED
      BY <1>1, <3>1 DEF ToSet
  <2>3. QED
    BY <1>1, <2>1, <2>2 DEF ToSet
<1>3. ASSUME IsInjective(s) PROVE Head(s) \notin ToSet(Tail(s)) /\ IsInjective(Tail(s))
  BY <1>1, <1>3 DEF IsInjective, ToSet
<1>4. QED
  BY <1>1, <1>2, <1>3

LEMMA EmptyElements ==
    /\ ToSet(<<>>) = {} /\ IsInjective(<<>>)
    /\ \A S : <<>> \in Seq(S) /\ \A e \in S : <<e>> \in Seq(S) /\ IsInjective(<<e>>)
  BY DEF ToSet, IsInjective

-----------------------------------------------------------------------------

BatchEntries == [cell : Cells, status : Outcome \ {"none"}]
ScriptStates == [pc : ScriptPcs, stage : Nat, todo : Seq(Cells), batch : Seq(BatchEntries),
                 dry : BOOLEAN, from : Nat, outcome : [Cells -> Outcome]]

ScriptTypes ==
    /\ script \in ScriptStates
    /\ campaignState \in [there : BOOLEAN, torn : BOOLEAN, outcome : [Cells -> Outcome]]

Batched(x) == {b.cell : b \in ToSet(x.batch)}

(* The cells still to do are different ones, and none of them is in the    *)
(* batch yet, the one that was just measured and is to be removed aside.   *)
InSequence(x) ==
    /\ IsInjective(x.todo)
    /\ x.pc \in {"cell", "download", "path", "run", "running"} =>
          ToSet(x.todo) \cap Batched(x) = {}
    /\ x.pc = "remove" => x.todo # <<>> /\ ToSet(Tail(x.todo)) \cap Batched(x) = {}
    /\ x.pc = "stage" \/ x.stage > Len(Stages) => x.batch = <<>>
    /\ x.pc \in {"cell", "download", "path", "run", "running", "remove", "record"} =>
          x.stage \in 1..Len(Stages)
    /\ x.pc \in {"download", "path", "run", "running"} =>
          x.todo # <<>> /\ x.outcome[Head(x.todo)] = "none"
    /\ x.pc # "off" => x.stage >= 1

(* Whatever was measured is done, or in the batch; when no process runs,   *)
(* the file has it.                                                        *)
MeasuredIsKnown ==
    \A c \in measured \ dropped :
        IF script.pc = "off" THEN campaignState.outcome[c] # "none"
        ELSE script.outcome[c] # "none" \/ c \in Batched(script)

ScriptInv ==
    /\ ScriptTypes
    /\ measured \subseteq Cells
    /\ InSequence(script)
    /\ MeasuredIsKnown

-----------------------------------------------------------------------------

LEMMA IdleIsSound ==
    /\ Idle \in ScriptStates /\ Idle.pc = "off" /\ InSequence(Idle)
    /\ Idle.batch = <<>> /\ Idle.todo = <<>> /\ NoOutcomes \in [Cells -> Outcome]
<1>1. NoOutcomes \in [Cells -> Outcome]
  BY DEF NoOutcomes, Outcome
<1>2. Idle \in ScriptStates
  BY <1>1, EmptyElements DEF Idle, ScriptStates, ScriptPcs
<1>3. /\ Idle.pc = "off" /\ Idle.todo = <<>> /\ Idle.stage = 0 /\ Idle.batch = <<>>
  BY DEF Idle
<1>4. InSequence(Idle)
  BY <1>3, EmptyElements DEF InSequence
<1>5. QED
  BY <1>1, <1>2, <1>3, <1>4

LEMMA ScriptInitIsSound == ScriptInit => ScriptInv
  BY IdleIsSound DEF ScriptInit, ScriptInv, ScriptTypes, Absent, MeasuredIsKnown

(* The process goes on to x: it forgets no outcome and nothing in its      *)
(* batch, and has what it newly measured there.                            *)
LEMMA ScriptGoesOn ==
    ASSUME ScriptInv, NEW x \in ScriptStates, script' = x, script.pc # "off", x.pc # "off",
           campaignState' \in [there : BOOLEAN, torn : BOOLEAN, outcome : [Cells -> Outcome]],
           dropped' = dropped, measured' \subseteq Cells,
           InSequence(x),
           \A c \in Cells : \/ c \in measured' => c \in measured \/ c \in Batched(x),
           \A c \in Cells :
               /\ script.outcome[c] # "none" => x.outcome[c] # "none"
               /\ c \in Batched(script) => c \in Batched(x) \/ x.outcome[c] # "none"
    PROVE  ScriptInv'
  BY DEF ScriptInv, ScriptTypes, MeasuredIsKnown, Batched

FileStates == [there : BOOLEAN, torn : BOOLEAN, outcome : [Cells -> Outcome]]

LEMMA ScriptIsTyped ==
    ASSUME ScriptInv
    PROVE  /\ script \in ScriptStates /\ InSequence(script) /\ campaignState \in FileStates
           /\ script.pc \in ScriptPcs /\ script.stage \in Nat /\ script.from \in Nat
           /\ script.todo \in Seq(Cells) /\ script.batch \in Seq(BatchEntries)
           /\ script.outcome \in [Cells -> Outcome] /\ Len(Stages) \in Nat
           /\ measured \subseteq Cells
  BY StagesAssumption, LenProperties DEF ScriptInv, ScriptTypes, ScriptStates, FileStates

LEMMA StageIsTyped ==
    ASSUME ScriptInv, script.stage \in 1..Len(Stages)
    PROVE  Stage.cells \in Seq(Cells) /\ IsInjective(Stage.cells)
<1>1. Stages[script.stage] \in [engine : {"vllm", "llama_cpp", "ollama"}, cells : Seq(Cells)]
  BY StagesAssumption, ElementOfSeq
<1>2. QED
  BY <1>1, StagesAssumption DEF Stage

(* Only the program counter moves.                                         *)
LEMMA ScriptGoes ==
    ASSUME ScriptInv, NEW goal \in ScriptPcs, Go(goal), script.pc # "off", goal # "off",
           campaignState' \in FileStates, UNCHANGED <<measured, dropped>>,
           /\ goal \in {"cell", "download", "path", "run", "running"} =>
                 script.pc \in {"cell", "download", "path", "run", "running"}
           /\ goal # "remove" /\ goal # "stage"
           /\ goal \in {"download", "path", "run", "running"} =>
                 script.todo # <<>> /\ script.outcome[Head(script.todo)] = "none"
           /\ goal = "record" => script.pc = "cell"
    PROVE  ScriptInv'
<1> DEFINE x == [script EXCEPT !.pc = goal]
<1>1. script' = x
  BY DEF Go
<1>2. /\ x \in ScriptStates /\ x.pc = goal /\ x.stage = script.stage /\ x.todo = script.todo
      /\ x.batch = script.batch /\ x.outcome = script.outcome
  BY ScriptIsTyped DEF ScriptStates
<1> HIDE DEF x
<1>3. InSequence(script)
  BY DEF ScriptInv
<1>4. Batched(x) = Batched(script)
  BY <1>2 DEF Batched
<1>5. InSequence(x)
  BY <1>2, <1>3, <1>4 DEF InSequence
<1>6. QED
  BY <1>1, <1>2, <1>4, <1>5, ScriptIsTyped, ScriptGoesOn DEF FileStates

(* A new outcome in the batch, with the cell it is of.                     *)
LEMMA BatchGrows ==
    ASSUME ScriptInv, script.todo # <<>>, NEW s \in Outcome \ {"none"},
           NEW x \in ScriptStates, x.batch = Append(script.batch, [cell |-> Cell, status |-> s])
    PROVE  Cell \in Cells /\ Batched(x) = Batched(script) \cup {Cell}
<1>1. Cell \in Cells
  BY ScriptIsTyped, TailElements DEF Cell
<1> DEFINE e == [cell |-> Cell, status |-> s]
<1>2. e \in BatchEntries /\ e.cell = Cell
  BY <1>1 DEF BatchEntries
<1> HIDE DEF e
<1>3. ToSet(x.batch) = ToSet(script.batch) \cup {e}
  BY <1>2, ScriptIsTyped, AppendElements DEF e
<1>4. QED
  BY <1>1, <1>2, <1>3 DEF Batched

(* Appended: the cell is passed to the batch, the next one is its tail.    *)
LEMMA AppendedKeeps ==
    ASSUME ScriptInv, script.pc \in {"cell", "download", "path", "run", "running"},
           script.todo # <<>>, NEW s \in Outcome \ {"none"}, script' = Appended(Cell, s),
           campaignState' = campaignState, dropped' = dropped,
           measured' \subseteq measured \cup {Cell}
    PROVE  ScriptInv'
<1> DEFINE x == Appended(Cell, s)
<1>1. /\ Cell \in Cells /\ Cell = Head(script.todo)
      /\ Tail(script.todo) \in Seq(Cells)
      /\ ToSet(script.todo) = {Cell} \cup ToSet(Tail(script.todo))
      /\ Cell \notin ToSet(Tail(script.todo)) /\ IsInjective(Tail(script.todo))
  BY ScriptIsTyped, TailElements DEF Cell, InSequence
<1>2. [cell |-> Cell, status |-> s] \in BatchEntries
  BY <1>1 DEF BatchEntries
<1>3. Append(script.batch, [cell |-> Cell, status |-> s]) \in Seq(BatchEntries)
  BY <1>2, ScriptIsTyped, AppendElements
<1>4. /\ x \in ScriptStates /\ x.pc = "cell" /\ x.stage = script.stage
      /\ x.todo = Tail(script.todo) /\ x.outcome = script.outcome
      /\ x.batch = Append(script.batch, [cell |-> Cell, status |-> s])
  BY <1>1, <1>3, ScriptIsTyped DEF ScriptStates, Appended, ScriptPcs
<1> HIDE DEF x
<1>5. Batched(x) = Batched(script) \cup {Cell}
  BY <1>4, BatchGrows
<1>6. InSequence(x)
  BY <1>1, <1>4, <1>5, ScriptIsTyped DEF InSequence
<1>7. QED
  BY <1>1, <1>4, <1>5, <1>6, ScriptIsTyped, ScriptGoesOn DEF FileStates, x

LEMMA StartScriptKeeps == ASSUME ScriptInv, StartScript PROVE ScriptInv'
<1>1. UNCHANGED <<campaignState, measured, dropped>> /\ script.pc = "off"
  BY DEF StartScript
<1>2. CASE UNCHANGED script
  BY <1>1, <1>2 DEF ScriptInv, ScriptTypes, MeasuredIsKnown
<1>3. CASE \E dry \in BOOLEAN, from \in 0..(Len(Stages) + 1) :
              script' = [Idle EXCEPT !.pc = "stage", !.stage = 1, !.dry = dry, !.from = from,
                                     !.outcome = campaignState.outcome]
  <2>1. PICK dry \in BOOLEAN, from \in 0..(Len(Stages) + 1) :
              script' = [Idle EXCEPT !.pc = "stage", !.stage = 1, !.dry = dry, !.from = from,
                                     !.outcome = campaignState.outcome]
    BY <1>3
  <2> DEFINE x == [Idle EXCEPT !.pc = "stage", !.stage = 1, !.dry = dry, !.from = from,
                               !.outcome = campaignState.outcome]
  <2>2. from \in Nat /\ campaignState.outcome \in [Cells -> Outcome]
    BY ScriptIsTyped DEF FileStates
  <2>3. /\ x \in ScriptStates /\ x.pc = "stage" /\ x.stage = 1 /\ x.todo = <<>>
        /\ x.batch = <<>> /\ x.outcome = campaignState.outcome
    BY <2>2, IdleIsSound DEF ScriptStates, ScriptPcs
  <2> HIDE DEF x
  <2>4. InSequence(x)
    BY <2>3, EmptyElements DEF InSequence
  <2>5. script' = x
    BY <2>1 DEF x
  <2>6. QED
    BY <1>1, <2>3, <2>4, <2>5 DEF ScriptInv, ScriptTypes, MeasuredIsKnown
<1>4. QED
  BY <1>2, <1>3 DEF StartScript

LEMMA NextStageKeeps == ASSUME ScriptInv, NextStage PROVE ScriptInv'
<1>1. script.pc = "stage" /\ UNCHANGED <<measured, dropped>> /\ script.batch = <<>>
  BY ScriptIsTyped DEF NextStage, InSequence
<1>2. ASSUME NEW x \in ScriptStates, script' = x, UNCHANGED campaignState, x.batch = <<>>,
             x.outcome = script.outcome, IsInjective(x.todo),
             \/ x.pc = "stage" /\ x.stage >= 1
             \/ x.pc = "cell" /\ x.stage \in 1..Len(Stages)
      PROVE  ScriptInv'
  <2>1. Batched(x) = {} /\ Batched(script) = {}
    BY <1>1, <1>2, EmptyElements DEF Batched
  <2>2. InSequence(x)
    BY <1>2, <2>1 DEF InSequence
  <2>3. QED
    BY <1>1, <1>2, <2>1, <2>2, ScriptIsTyped, ScriptGoesOn DEF FileStates
<1>3. CASE script' = [script EXCEPT !.stage = @ + 1] /\ UNCHANGED campaignState
  <2> DEFINE x == [script EXCEPT !.stage = @ + 1]
  <2>1. /\ x \in ScriptStates /\ x.pc = "stage" /\ x.stage = script.stage + 1
        /\ x.batch = <<>> /\ x.todo = script.todo /\ x.outcome = script.outcome
    BY <1>1, ScriptIsTyped DEF ScriptStates
  <2> HIDE DEF x
  <2>2. x.stage >= 1 /\ IsInjective(x.todo)
    BY <2>1, ScriptIsTyped DEF InSequence
  <2>3. QED
    BY <1>2, <1>3, <2>1, <2>2 DEF x
<1>4. CASE /\ script.stage <= Len(Stages) /\ UNCHANGED campaignState
           /\ DiscoverVllm \/ DiscoverQuants \/ DiscoverTags
  <2>1. script.stage \in 1..Len(Stages)
    BY <1>1, <1>4, ScriptIsTyped DEF InSequence
  <2>2. \E todo \in Seq(Cells) :
            /\ IsInjective(todo)
            /\ script' = [script EXCEPT !.pc = "cell", !.todo = todo]
    <3>1. /\ Stage.cells \in Seq(Cells) /\ IsInjective(Stage.cells)
          /\ Stage.cells # <<>> => Head(Stage.cells) \in Cells
      BY <2>1, StageIsTyped, TailElements
    <3>2. CASE script' = [script EXCEPT !.pc = "cell", !.todo = Stage.cells]
      BY <3>1, <3>2
    <3>3. CASE script' = [script EXCEPT !.pc = "cell", !.todo = <<>>]
      BY <3>3, EmptyElements
    <3>4. CASE /\ Stage.cells # <<>>
               /\ script' = [script EXCEPT !.pc = "cell", !.todo = <<Head(Stage.cells)>>]
      BY <3>1, <3>4, EmptyElements
    <3>5. QED
      BY <1>4, <3>2, <3>3, <3>4 DEF DiscoverVllm, DiscoverQuants, DiscoverTags
  <2>3. PICK todo \in Seq(Cells) :
            IsInjective(todo) /\ script' = [script EXCEPT !.pc = "cell", !.todo = todo]
    BY <2>2
  <2> DEFINE x == [script EXCEPT !.pc = "cell", !.todo = todo]
  <2>4. /\ x \in ScriptStates /\ x.pc = "cell" /\ x.stage = script.stage /\ x.todo = todo
        /\ x.batch = <<>> /\ x.outcome = script.outcome
    BY <1>1, ScriptIsTyped DEF ScriptStates, ScriptPcs
  <2>5. script' = x
    BY <2>3
  <2> HIDE DEF x
  <2>6. QED
    BY <1>2, <1>4, <2>1, <2>3, <2>4, <2>5
<1>5. CASE script.stage > Len(Stages) /\ Go("saving") /\ campaignState' = TornFile
  <2>1. TornFile \in FileStates
    BY IdleIsSound DEF TornFile, FileStates
  <2>2. QED
    BY <1>1, <1>5, <2>1, ScriptGoes DEF ScriptPcs
<1>6. QED
  BY <1>3, <1>4, <1>5 DEF NextStage

LEMMA NextCellKeeps == ASSUME ScriptInv, NextCell PROVE ScriptInv'
<1>1. script.pc = "cell" /\ UNCHANGED <<campaignState, measured, dropped>>
  BY DEF NextCell
<1>2. campaignState' \in FileStates
  BY <1>1, ScriptIsTyped
<1>3. CASE Go("record")
  BY <1>1, <1>2, <1>3, ScriptGoes DEF ScriptPcs
<1>4. CASE script.todo # <<>> /\ script' = [script EXCEPT !.todo = Tail(@)]
  <2> DEFINE x == [script EXCEPT !.todo = Tail(@)]
  <2>1. /\ Tail(script.todo) \in Seq(Cells)
        /\ ToSet(Tail(script.todo)) \subseteq ToSet(script.todo)
        /\ IsInjective(Tail(script.todo))
    BY <1>4, ScriptIsTyped, TailElements DEF InSequence
  <2>2. /\ x \in ScriptStates /\ x.pc = "cell" /\ x.stage = script.stage
        /\ x.todo = Tail(script.todo) /\ x.batch = script.batch /\ x.outcome = script.outcome
    BY <1>1, <2>1, ScriptIsTyped DEF ScriptStates
  <2>3. script' = x
    BY <1>4
  <2> HIDE DEF x
  <2>4. Batched(x) = Batched(script)
    BY <2>2 DEF Batched
  <2>5. InSequence(x)
    BY <1>1, <2>1, <2>2, <2>4, ScriptIsTyped DEF InSequence
  <2>6. QED
    BY <1>1, <2>2, <2>3, <2>4, <2>5, ScriptIsTyped, ScriptGoesOn DEF FileStates
<1>5. ASSUME NEW goal \in {"run", "download"}, script.todo # <<>>, ~IsDone(Cell), Go(goal)
      PROVE  ScriptInv'
  BY <1>1, <1>2, <1>5, ScriptGoes DEF ScriptPcs, IsDone, Cell
<1>6. CASE script.todo # <<>> /\ script' = Appended(Cell, "skipped")
  BY <1>1, <1>6, AppendedKeeps DEF Outcome, ScriptInv
<1>7. QED
  BY <1>3, <1>4, <1>5, <1>6 DEF NextCell

LEMMA CellKeeps ==
    ASSUME ScriptInv
    PROVE  /\ DevonDownload \/ FindModelPath \/ StartKitt => ScriptInv'
           /\ EndKitt => ScriptInv'
           /\ RemoveCell => ScriptInv'
<1>1. /\ script.pc \in {"download", "path", "run", "running"} =>
            /\ script.todo # <<>> /\ script.outcome[Head(script.todo)] = "none"
            /\ Cell \in Cells
      /\ script.pc = "remove" => script.todo # <<>>
  BY ScriptIsTyped, TailElements DEF InSequence, Cell
<1>2. ASSUME DevonDownload \/ FindModelPath \/ StartKitt PROVE ScriptInv'
  <2>1. /\ UNCHANGED <<campaignState, measured, dropped>>
        /\ script.pc \in {"download", "path", "run"}
        /\ Go("path") \/ Go("run") \/ Go("running") \/ script' = Appended(Cell, "failed")
    BY <1>2 DEF DevonDownload, FindModelPath, StartKitt
  <2>2. CASE Go("path") \/ Go("run") \/ Go("running")
    BY <1>1, <2>1, <2>2, ScriptGoes, ScriptIsTyped DEF ScriptPcs
  <2>3. CASE script' = Appended(Cell, "failed")
    BY <1>1, <2>1, <2>3, AppendedKeeps DEF Outcome, ScriptInv
  <2>4. QED
    BY <2>1, <2>2, <2>3
<1>3. ASSUME EndKitt PROVE ScriptInv'
  <2>1. /\ UNCHANGED <<campaignState, dropped>> /\ script.pc = "running"
        /\ measured' \subseteq measured \cup {Cell}
    BY <1>3 DEF EndKitt
  <2>2. PICK s \in KittOutcomes :
            script' = IF Engine = "ollama" THEN Appended(Cell, s)
                      ELSE [script EXCEPT !.pc = "remove",
                                          !.batch = Append(@, [cell |-> Cell, status |-> s])]
    BY <1>3 DEF EndKitt
  <2>3. s \in Outcome \ {"none"}
    BY DEF KittOutcomes, Outcome
  <2>4. CASE script' = Appended(Cell, s)
    BY <1>1, <2>1, <2>3, <2>4, AppendedKeeps
  <2> DEFINE x == [script EXCEPT !.pc = "remove",
                                 !.batch = Append(@, [cell |-> Cell, status |-> s])]
  <2>5. CASE script' = x
    <3>1. [cell |-> Cell, status |-> s] \in BatchEntries
      BY <1>1, <2>1, <2>3 DEF BatchEntries
    <3>2. Append(script.batch, [cell |-> Cell, status |-> s]) \in Seq(BatchEntries)
      BY <3>1, ScriptIsTyped, AppendElements
    <3>3. /\ x \in ScriptStates /\ x.pc = "remove" /\ x.stage = script.stage
          /\ x.todo = script.todo /\ x.outcome = script.outcome
          /\ x.batch = Append(script.batch, [cell |-> Cell, status |-> s])
      BY <3>2, ScriptIsTyped DEF ScriptStates, ScriptPcs
    <3> HIDE DEF x
    <3>4. Batched(x) = Batched(script) \cup {Cell}
      BY <1>1, <2>1, <2>3, <3>3, BatchGrows
    <3>5. /\ ToSet(script.todo) = {Cell} \cup ToSet(Tail(script.todo))
          /\ Cell \notin ToSet(Tail(script.todo))
      BY <1>1, <2>1, ScriptIsTyped, TailElements DEF InSequence, Cell
    <3>6. InSequence(x)
      BY <1>1, <2>1, <3>3, <3>4, <3>5, ScriptIsTyped DEF InSequence
    <3>7. QED
      BY <1>1, <2>1, <2>5, <3>3, <3>4, <3>6, ScriptIsTyped, ScriptGoesOn DEF FileStates
  <2>6. QED
    BY <2>2, <2>4, <2>5
<1>4. ASSUME RemoveCell PROVE ScriptInv'
  <2> DEFINE x == [script EXCEPT !.pc = "cell", !.todo = Tail(@)]
  <2>1. /\ script.pc = "remove" /\ script' = x
        /\ UNCHANGED <<campaignState, measured, dropped>>
    BY <1>4 DEF RemoveCell
  <2>2. /\ Tail(script.todo) \in Seq(Cells) /\ IsInjective(Tail(script.todo))
    BY <1>1, <2>1, ScriptIsTyped, TailElements DEF InSequence
  <2>3. /\ x \in ScriptStates /\ x.pc = "cell" /\ x.stage = script.stage
        /\ x.todo = Tail(script.todo) /\ x.batch = script.batch /\ x.outcome = script.outcome
    BY <2>2, ScriptIsTyped DEF ScriptStates, ScriptPcs
  <2> HIDE DEF x
  <2>4. Batched(x) = Batched(script)
    BY <2>3 DEF Batched
  <2>5. InSequence(x)
    BY <2>1, <2>2, <2>3, <2>4, ScriptIsTyped DEF InSequence
  <2>6. QED
    BY <2>1, <2>3, <2>4, <2>5, ScriptIsTyped, ScriptGoesOn DEF FileStates
<1>5. QED
  BY <1>2, <1>3, <1>4

LEMMA RecordKeeps == ASSUME ScriptInv, RecordOutcome PROVE ScriptInv'
<1>1. script.pc = "record" /\ UNCHANGED <<measured, dropped>>
  BY DEF RecordOutcome
<1>2. script.stage \in 1..Len(Stages) /\ IsInjective(script.todo)
  BY <1>1, ScriptIsTyped DEF InSequence
<1>3. CASE script.batch = <<>>
  <2> DEFINE x == [script EXCEPT !.pc = "stage", !.stage = @ + 1]
  <2>1. script' = x /\ UNCHANGED campaignState
    BY <1>1, <1>3 DEF RecordOutcome
  <2>2. /\ x \in ScriptStates /\ x.pc = "stage" /\ x.stage = script.stage + 1
        /\ x.batch = <<>> /\ x.todo = script.todo /\ x.outcome = script.outcome
    <3>1. script.stage + 1 \in Nat /\ "stage" \in ScriptPcs /\ script \in ScriptStates
      BY ScriptIsTyped DEF ScriptPcs
    <3>2. QED
      BY <1>3, <3>1 DEF ScriptStates
  <2> HIDE DEF x
  <2>3. InSequence(x) /\ Batched(x) = Batched(script)
    BY <1>2, <1>3, <2>2 DEF InSequence, Batched
  <2>4. QED
    BY <1>1, <2>1, <2>2, <2>3, ScriptIsTyped, ScriptGoesOn DEF FileStates
<1>4. CASE script.batch # <<>>
  <2> DEFINE b == Head(script.batch)
             x == [script EXCEPT !.pc = "saving", !.batch = Tail(@), !.outcome[b.cell] = b.status]
  <2>1. script' = x /\ campaignState' = TornFile
    BY <1>1, <1>4 DEF RecordOutcome
  <2>2. /\ b \in BatchEntries /\ Tail(script.batch) \in Seq(BatchEntries)
        /\ ToSet(script.batch) = {b} \cup ToSet(Tail(script.batch))
    BY <1>4, ScriptIsTyped, TailElements
  <2>3. b.cell \in Cells /\ b.status \in Outcome /\ b.status # "none"
    BY <2>2 DEF BatchEntries
  <2> HIDE DEF b
  <2> DEFINE o == [script.outcome EXCEPT ![b.cell] = b.status]
  <2>4. o \in [Cells -> Outcome]
    BY <2>3, ScriptIsTyped
  <2>5. x = [script EXCEPT !.pc = "saving", !.batch = Tail(@), !.outcome = o]
    BY ScriptIsTyped DEF ScriptStates
  <2>6. o = [script.outcome EXCEPT ![b.cell] = b.status]
    OBVIOUS
  <2> HIDE DEF o, x
  <2>7. /\ x \in ScriptStates /\ x.pc = "saving" /\ x.stage = script.stage
        /\ x.todo = script.todo /\ x.batch = Tail(script.batch)
        /\ x.outcome = [script.outcome EXCEPT ![b.cell] = b.status]
    BY <2>2, <2>4, <2>5, <2>6, ScriptIsTyped DEF ScriptStates, ScriptPcs
  <2>8. InSequence(x)
    BY <1>2, <2>7, ScriptIsTyped DEF InSequence
  <2>9. Batched(script) = {b.cell} \cup Batched(x)
    BY <2>2, <2>7 DEF Batched
  <2>10. \A c \in Cells : x.outcome[c] = IF c = b.cell THEN b.status ELSE script.outcome[c]
    BY <2>3, <2>7, ScriptIsTyped
  <2>11. TornFile \in FileStates
    BY IdleIsSound DEF TornFile, FileStates
  <2>12. QED
    BY <1>1, <2>1, <2>3, <2>7, <2>8, <2>9, <2>10, <2>11, ScriptIsTyped, ScriptGoesOn
       DEF FileStates
<1>5. QED
  BY <1>3, <1>4

LEMMA SaveKeeps == ASSUME ScriptInv, SaveOutcomes PROVE ScriptInv'
<1>1. /\ script.pc = "saving" /\ campaignState' = FileOf(script.outcome)
      /\ UNCHANGED <<measured, dropped>>
  BY DEF SaveOutcomes
<1>2. campaignState' \in FileStates /\ campaignState'.outcome = script.outcome
  BY <1>1, ScriptIsTyped DEF FileOf, FileStates
<1>3. CASE script.stage > Len(Stages)
  <2>1. script' = Idle /\ Batched(script) = {}
    BY <1>1, <1>3, ScriptIsTyped, EmptyElements DEF SaveOutcomes, InSequence, Batched
  <2>2. QED
    BY <1>1, <1>2, <2>1, IdleIsSound
       DEF ScriptInv, ScriptTypes, MeasuredIsKnown, FileStates
<1>4. CASE ~(script.stage > Len(Stages))
  <2> DEFINE x == [script EXCEPT !.pc = "record"]
  <2>1. script' = x
    BY <1>1, <1>4 DEF SaveOutcomes
  <2>2. /\ x \in ScriptStates /\ x.pc = "record" /\ x.stage = script.stage
        /\ x.todo = script.todo /\ x.batch = script.batch /\ x.outcome = script.outcome
    BY ScriptIsTyped DEF ScriptStates, ScriptPcs
  <2> HIDE DEF x
  <2>3. InSequence(x)
    BY <1>1, <1>4, <2>2, ScriptIsTyped DEF InSequence
  <2>4. Batched(x) = Batched(script)
    BY <2>2 DEF Batched
  <2>5. QED
    BY <1>1, <1>2, <2>1, <2>2, <2>3, <2>4, ScriptIsTyped, ScriptGoesOn DEF FileStates
<1>5. QED
  BY <1>3, <1>4

LEMMA KillKeeps == ASSUME ScriptInv, KillScript PROVE ScriptInv'
<1>1. /\ script' = Idle /\ UNCHANGED <<campaignState, measured>>
      /\ dropped' = dropped \cup {c \in measured : campaignState.outcome[c] = "none"}
  BY DEF KillScript
<1>2. QED
  BY <1>1, IdleIsSound DEF ScriptInv, ScriptTypes, MeasuredIsKnown

LEMMA ScriptStepKeeps == ScriptInv /\ [ScriptNext]_scriptVars => ScriptInv'
<1> SUFFICES ASSUME ScriptInv, [ScriptNext]_scriptVars PROVE ScriptInv'
  OBVIOUS
<1>1. CASE UNCHANGED scriptVars
  BY <1>1 DEF scriptVars, ScriptInv, ScriptTypes, InSequence, MeasuredIsKnown, Batched
<1>2. QED
  BY <1>1, StartScriptKeeps, NextStageKeeps, NextCellKeeps, CellKeeps, RecordKeeps, SaveKeeps,
     KillKeeps DEF ScriptNext

(* However many processes a campaign takes, whatever fails in them and     *)
(* wherever they are killed: kitt run is not started for a cell that was   *)
(* measured, unless a killed process had not saved it.                     *)
THEOREM MeasuredOnceAlways == ScriptSpec => []MeasuredOnce
<1>1. ScriptInv => MeasuredOnce
  <2> SUFFICES ASSUME ScriptInv, script.pc = "running", Cell \in measured \ dropped
               PROVE  FALSE
    BY DEF MeasuredOnce
  <2>1. Cell \in ToSet(script.todo)
    BY ScriptIsTyped, TailElements DEF InSequence, Cell
  <2>2. QED
    BY <2>1, ScriptIsTyped DEF ScriptInv, MeasuredIsKnown, InSequence, Cell
<1>2. QED
  BY <1>1, ScriptInitIsSound, ScriptStepKeeps, PTL DEF ScriptSpec

-----------------------------------------------------------------------------

(* The rest of the state: the stages are counted to their number, and the  *)
(* models and containers are those of the cells.                           *)
ScriptRest ==
    /\ script.stage <= Len(Stages) + 1 /\ script.from <= Len(Stages) + 1
    /\ devonHas \in [Cells -> {"absent", "partial", "whole"}]
    /\ kittContainers \subseteq Cells /\ dropped \subseteq Cells
    /\ scriptsRun \in 0..MaxScripts

LEMMA ScriptRestInit == ScriptInit => ScriptRest
<1> SUFFICES ASSUME ScriptInit PROVE ScriptRest
  OBVIOUS
<1>1. script.stage = 0 /\ script.from = 0 /\ Len(Stages) \in Nat /\ MaxScripts \in Nat
  BY StagesAssumption, LenProperties DEF ScriptInit, Idle
<1>2. QED
  BY <1>1 DEF ScriptInit, ScriptRest

(* The process is ended, or goes on in its stage or to the next one.       *)
LEMMA RestFollows ==
    ASSUME ScriptInv, ScriptRest, UNCHANGED <<scriptsRun, dropped>>,
           \/ script' = Idle
           \/ /\ script'.from = script.from
              /\ \/ script'.stage = script.stage
                 \/ script'.stage = script.stage + 1 /\ script.stage <= Len(Stages),
           devonHas' \in [Cells -> {"absent", "partial", "whole"}],
           kittContainers' \subseteq Cells
    PROVE  ScriptRest'
<1>1. Idle.stage = 0 /\ Idle.from = 0 /\ Len(Stages) \in Nat
  BY StagesAssumption, LenProperties DEF Idle
<1>2. script.stage \in Nat /\ script.from \in Nat
  BY ScriptIsTyped
<1>3. script'.stage <= Len(Stages) + 1 /\ script'.from <= Len(Stages) + 1
  BY <1>1, <1>2 DEF ScriptRest
<1>4. QED
  BY <1>3 DEF ScriptRest

(* The forms of a step of the process, none of which is its start.         *)
LEMMA StagesFollow ==
    ASSUME ScriptInv
    PROVE  /\ \A goal : Go(goal) => script'.from = script.from /\ script'.stage = script.stage
           /\ \A c, s : script' = Appended(c, s) =>
                 script'.from = script.from /\ script'.stage = script.stage
           /\ \A goal, todo : script' = [script EXCEPT !.pc = goal, !.todo = todo] =>
                 script'.from = script.from /\ script'.stage = script.stage
           /\ \A goal, batch : script' = [script EXCEPT !.pc = goal, !.batch = batch] =>
                 script'.from = script.from /\ script'.stage = script.stage
           /\ \A todo : script' = [script EXCEPT !.todo = todo] =>
                 script'.from = script.from /\ script'.stage = script.stage
<1>1. script \in ScriptStates
  BY ScriptIsTyped
<1>2. QED
  BY <1>1 DEF ScriptStates, Go, Appended

LEMMA ScriptRestKeep == ScriptInv /\ ScriptRest /\ [ScriptNext]_scriptVars => ScriptRest'
<1> SUFFICES ASSUME ScriptInv, ScriptRest, [ScriptNext]_scriptVars PROVE ScriptRest'
  OBVIOUS
<1>1. /\ devonHas \in [Cells -> {"absent", "partial", "whole"}]
      /\ kittContainers \subseteq Cells /\ dropped \subseteq Cells
      /\ script \in ScriptStates /\ Len(Stages) \in Nat
      /\ script.pc \in {"download", "path", "run", "running"} => Cell \in Cells
  BY ScriptIsTyped, TailElements DEF ScriptRest, InSequence, Cell
<1>2. ASSUME StartScript PROVE ScriptRest'
  <2>1. scriptsRun' \in 0..MaxScripts
    <3>1. MaxScripts \in Nat /\ scriptsRun \in 0..MaxScripts
      BY StagesAssumption DEF ScriptRest
    <3>2. scriptsRun < MaxScripts /\ scriptsRun' = scriptsRun + 1
      BY <1>2 DEF StartScript
    <3>3. QED
      BY <3>1, <3>2
  <2>2. script'.stage <= Len(Stages) + 1 /\ script'.from <= Len(Stages) + 1
    <3>1. CASE UNCHANGED script
      BY <3>1 DEF ScriptRest
    <3>2. CASE \E dry \in BOOLEAN, from \in 0..(Len(Stages) + 1) :
                  script' = [Idle EXCEPT !.pc = "stage", !.stage = 1, !.dry = dry, !.from = from,
                                         !.outcome = campaignState.outcome]
      <4>1. PICK dry \in BOOLEAN, from \in 0..(Len(Stages) + 1) :
                  script' = [Idle EXCEPT !.pc = "stage", !.stage = 1, !.dry = dry, !.from = from,
                                         !.outcome = campaignState.outcome]
        BY <3>2
      <4>2. script'.stage = 1 /\ script'.from = from
        BY <4>1 DEF Idle
      <4>3. QED
        BY <1>1, <4>2
    <3>3. QED
      BY <1>2, <3>1, <3>2 DEF StartScript
  <2>3. QED
    BY <1>2, <2>1, <2>2 DEF StartScript, ScriptRest
<1>3. ASSUME NextStage PROVE ScriptRest'
  <2>1. CASE script.stage <= Len(Stages) /\ script' = [script EXCEPT !.stage = @ + 1]
    <3>1. script'.stage = script.stage + 1 /\ script'.from = script.from
      BY <1>1, <2>1 DEF ScriptStates
    <3>2. QED
      BY <1>1, <1>3, <2>1, <3>1, RestFollows DEF NextStage
  <2>2. CASE \/ Go("saving")
             \/ \E todo : script' = [script EXCEPT !.pc = "cell", !.todo = todo]
    BY <1>1, <1>3, <2>2, StagesFollow, RestFollows DEF NextStage
  <2>3. QED
    BY <1>3, <2>1, <2>2 DEF NextStage, DiscoverVllm, DiscoverQuants, DiscoverTags
<1>4. ASSUME NextCell PROVE ScriptRest'
  <2>1. /\ UNCHANGED <<devonHas, scriptsRun, dropped>> /\ kittContainers' \subseteq Cells
        /\ \/ \E goal : Go(goal)
           \/ \E c, s : script' = Appended(c, s)
           \/ \E todo : script' = [script EXCEPT !.todo = todo]
    BY <1>1, <1>4 DEF NextCell, CleanupKittContainers
  <2>2. QED
    BY <1>1, <2>1, StagesFollow, RestFollows
<1>5. ASSUME DevonDownload PROVE ScriptRest'
  <2>1. /\ UNCHANGED <<kittContainers, scriptsRun, dropped>>
        /\ (\E goal : Go(goal)) \/ (\E c, s : script' = Appended(c, s))
    BY <1>5 DEF DevonDownload
  <2>2. devonHas' \in [Cells -> {"absent", "partial", "whole"}]
    BY <1>1, <1>5 DEF DevonDownload
  <2>3. QED
    BY <1>1, <2>1, <2>2, StagesFollow, RestFollows
<1>r. DevonRemove => devonHas' \in [Cells -> {"absent", "partial", "whole"}]
  BY <1>1 DEF DevonRemove
<1>6. ASSUME FindModelPath PROVE ScriptRest'
  <2>1. /\ UNCHANGED <<kittContainers, scriptsRun, dropped>>
        /\ (\E goal : Go(goal)) \/ (\E c, s : script' = Appended(c, s))
        /\ devonHas' \in [Cells -> {"absent", "partial", "whole"}]
    BY <1>1, <1>6, <1>r DEF FindModelPath
  <2>2. QED
    BY <1>1, <2>1, StagesFollow, RestFollows
<1>7. ASSUME StartKitt PROVE ScriptRest'
  <2>1. /\ UNCHANGED <<devonHas, scriptsRun, dropped>> /\ (\E goal : Go(goal))
        /\ kittContainers' \subseteq Cells
    BY <1>1, <1>7 DEF StartKitt
  <2>2. QED
    BY <1>1, <2>1, StagesFollow, RestFollows
<1>8. ASSUME EndKitt PROVE ScriptRest'
  <2>1. /\ UNCHANGED <<devonHas, scriptsRun, dropped>> /\ kittContainers' \subseteq Cells
    BY <1>1, <1>8 DEF EndKitt
  <2>2. \/ \E c, s : script' = Appended(c, s)
        \/ \E goal, batch : script' = [script EXCEPT !.pc = goal, !.batch = batch]
    BY <1>8 DEF EndKitt
  <2>3. QED
    BY <1>1, <2>1, <2>2, StagesFollow, RestFollows
<1>9. ASSUME RemoveCell PROVE ScriptRest'
  <2>1. /\ UNCHANGED <<kittContainers, scriptsRun, dropped>>
        /\ \E goal, todo : script' = [script EXCEPT !.pc = goal, !.todo = todo]
        /\ devonHas' \in [Cells -> {"absent", "partial", "whole"}]
    BY <1>9, <1>r DEF RemoveCell
  <2>2. QED
    BY <1>1, <2>1, StagesFollow, RestFollows
<1>10. ASSUME RecordOutcome PROVE ScriptRest'
  <2>1. UNCHANGED <<devonHas, kittContainers, scriptsRun, dropped>>
    BY <1>10 DEF RecordOutcome
  <2>2. script.stage <= Len(Stages)
    BY <1>10, ScriptIsTyped DEF RecordOutcome, InSequence
  <2>3. /\ script'.from = script.from
        /\ script'.stage = script.stage \/ script'.stage = script.stage + 1
    BY <1>1, <1>10 DEF RecordOutcome, ScriptStates
  <2>4. QED
    BY <1>1, <2>1, <2>2, <2>3, RestFollows
<1>11. ASSUME SaveOutcomes PROVE ScriptRest'
  <2>1. /\ UNCHANGED <<devonHas, kittContainers, scriptsRun, dropped>>
        /\ script' = Idle \/ Go("record")
    BY <1>11 DEF SaveOutcomes, Go
  <2>2. QED
    BY <1>1, <2>1, StagesFollow, RestFollows
<1>12. ASSUME KillScript PROVE ScriptRest'
  <2>1. /\ UNCHANGED <<devonHas, kittContainers, scriptsRun>> /\ script' = Idle
        /\ dropped' \subseteq Cells
    BY <1>1, <1>12, ScriptIsTyped DEF KillScript
  <2>2. Idle.stage = 0 /\ Idle.from = 0
    BY DEF Idle
  <2>3. QED
    BY <1>1, <2>1, <2>2 DEF ScriptRest
<1>13. CASE UNCHANGED scriptVars
  BY <1>13 DEF scriptVars, ScriptRest
<1>14. QED
  BY <1>2, <1>3, <1>4, <1>5, <1>6, <1>7, <1>8, <1>9, <1>10, <1>11, <1>12, <1>13 DEF ScriptNext

LEMMA ScriptIsWhole == ScriptInv /\ ScriptRest => ScriptTypeOK
<1> SUFFICES ASSUME ScriptInv, ScriptRest PROVE ScriptTypeOK
  OBVIOUS
<1>1. script \in ScriptStates /\ script.stage \in Nat /\ script.from \in Nat /\ Len(Stages) \in Nat
  BY ScriptIsTyped
<1>2. /\ script.stage \in 0..(Len(Stages) + 1) /\ script.from \in 0..(Len(Stages) + 1)
  BY <1>1 DEF ScriptRest
<1>3. script.batch \in Seq([cell : Cells, status : Outcome \ {"none"}]) /\ script.dry \in BOOLEAN
  BY <1>1 DEF ScriptStates, BatchEntries
<1>4. QED
  BY <1>2, <1>3, ScriptIsTyped DEF ScriptTypeOK, ScriptRest, FileStates

-----------------------------------------------------------------------------
(* kitt remote.                                                            *)

HostNames == Hosts \cup {NoHost}
Doings == {"none", "setup", "remove", "run", "engines", "sync"}

Processes == [pc : OperatorPcs, does : Doings, host : HostNames, read : SUBSET Hosts,
              waits : BOOLEAN, polls : 0..MaxPolls, listed : SUBSET Results,
              verdict : Verdict, blind : BOOLEAN]

HostStates == [kitt : BOOLEAN, directory : BOOLEAN, config : BOOLEAN, images : BOOLEAN,
             campaigns : SUBSET Operators, results : SUBSET Results]

RemoteTypes ==
    /\ operator \in [Operators -> Processes]
    /\ remote \in [Hosts -> HostStates]
    /\ hostsFile \subseteq Hosts

(* A command in progress is for a host, and has said nothing of its        *)
(* campaign's end.                                                         *)
AtWork(x) == x.pc # "off" => x.verdict = "none" /\ x.host \in Hosts

RemoteInv == RemoteTypes /\ (\A o \in Operators : AtWork(operator[o])) /\ VerdictIsExplained

-----------------------------------------------------------------------------

LEMMA RestingIsSound ==
    Resting \in Processes /\ Resting.verdict = "none" /\ Resting.pc = "off"
<1>1. 0 \in 0..MaxPolls
  BY RemoteAssumption
<1>2. QED
  BY <1>1 DEF Resting, Processes, OperatorPcs, Doings, HostNames, Verdict

LEMMA RemoteInitIsSound == RemoteInit => RemoteInv
<1> SUFFICES ASSUME RemoteInit PROVE RemoteInv
  OBVIOUS
<1>1. Resting \in Processes /\ Resting.verdict = "none"
  BY RestingIsSound
<1>2. RemoteTypes
  BY <1>1 DEF RemoteInit, RemoteTypes, HostStates, HostNames
<1>3. QED
  BY <1>1, <1>2 DEF RemoteInit, RemoteInv, AtWork, Resting, VerdictIsExplained

(* One process goes on to x, and no host gets a new campaign: the          *)
(* invariant is kept if x says nothing before its end, and says            *)
(* "completed" only when the host has no campaign or ssh failed.           *)
LEMMA MoveKeeps ==
    ASSUME RemoteInv, NEW o \in Operators, NEW x \in Processes,
           operator' = [operator EXCEPT ![o] = x],
           remote' \in [Hosts -> HostStates], hostsFile' \subseteq Hosts,
           \A h \in Hosts : remote'[h].campaigns \subseteq remote[h].campaigns,
           AtWork(x),
           x.verdict = "completed" =>
               x.blind \/ \A h \in Hosts : x.host = h => remote[h].campaigns = {}
    PROVE  RemoteInv'
<1>1. /\ operator' \in [Operators -> Processes]
      /\ operator'[o] = x
      /\ \A p \in Operators \ {o} : operator'[p] = operator[p]
  BY DEF RemoteInv, RemoteTypes
<1>2. RemoteTypes' /\ \A p \in Operators : AtWork(operator'[p])
  BY <1>1 DEF RemoteInv, RemoteTypes
<1>3. VerdictIsExplained'
  <2> SUFFICES ASSUME NEW p \in Operators, NEW h \in Hosts, operator'[p].verdict = "completed",
                      operator'[p].host = h, p \in remote'[h].campaigns
               PROVE  operator'[p].blind
    BY DEF VerdictIsExplained, Host
  <2>1. CASE p = o
    BY <1>1, <2>1
  <2>2. CASE p # o
    BY <1>1, <2>2 DEF RemoteInv, VerdictIsExplained, Host
  <2>3. QED
    BY <2>1, <2>2
<1>4. QED
  BY <1>2, <1>3 DEF RemoteInv

(* The processes a step makes: one that has ended, one that goes on.       *)
LEMMA StopsMakes ==
    ASSUME RemoteTypes, NEW o \in Operators, NEW v \in Verdict
    PROVE  LET x == [Resting EXCEPT !.host = Host(o), !.verdict = v]
           IN  /\ x \in Processes /\ AtWork(x) /\ x.verdict = v /\ x.host = Host(o)
               /\ Stops(o, v) => operator' = [operator EXCEPT ![o] = x]
<1>1. Host(o) \in HostNames
  BY DEF RemoteTypes, Processes, Host
<1>2. QED
  BY <1>1, RestingIsSound DEF Processes, Stops, AtWork

LEMMA SetsMakes ==
    ASSUME RemoteInv, NEW o \in Operators, NEW goal \in OperatorPcs, operator[o].pc # "off"
    PROVE  LET x == [operator[o] EXCEPT !.pc = goal]
           IN  /\ x \in Processes /\ x.verdict = "none" /\ AtWork(x)
               /\ Sets(o, goal) => operator' = [operator EXCEPT ![o] = x]
<1>1. operator[o] \in Processes /\ operator[o].verdict = "none" /\ operator[o].host \in Hosts
  BY DEF RemoteInv, RemoteTypes, AtWork
<1>2. QED
  BY <1>1 DEF Processes, Sets, AtWork

LEMMA StopsKeep ==
    ASSUME RemoteInv, NEW o \in Operators, NEW v \in Verdict, Stops(o, v),
           remote' \in [Hosts -> HostStates], hostsFile' \subseteq Hosts,
           \A h \in Hosts : remote'[h].campaigns \subseteq remote[h].campaigns,
           v = "completed" => \A h \in Hosts : Host(o) = h => remote[h].campaigns = {}
    PROVE  RemoteInv'
<1> DEFINE x == [Resting EXCEPT !.host = Host(o), !.verdict = v]
<1>1. /\ x \in Processes /\ AtWork(x) /\ x.verdict = v /\ x.host = Host(o)
      /\ operator' = [operator EXCEPT ![o] = x]
  BY StopsMakes DEF RemoteInv
<1> HIDE DEF x
<1>2. QED
  BY <1>1, MoveKeeps

LEMMA SetsKeep ==
    ASSUME RemoteInv, NEW o \in Operators, NEW goal \in OperatorPcs, operator[o].pc # "off",
           Sets(o, goal), remote' \in [Hosts -> HostStates], hostsFile' \subseteq Hosts,
           \A h \in Hosts : remote'[h].campaigns \subseteq remote[h].campaigns
    PROVE  RemoteInv'
<1> DEFINE x == [operator[o] EXCEPT !.pc = goal]
<1>1. /\ x \in Processes /\ x.verdict = "none" /\ AtWork(x)
      /\ operator' = [operator EXCEPT ![o] = x]
  BY SetsMakes
<1> HIDE DEF x
<1>2. QED
  BY <1>1, MoveKeeps

-----------------------------------------------------------------------------

(* The steps of one process, each with what it does to its host.           *)
LEMMA OperatorKeeps ==
    ASSUME RemoteInv, NEW o \in Operators
    PROVE  /\ GiveCommand(o) => RemoteInv'
           /\ CheckPrerequisites(o) \/ InstallKitt(o) \/ DetectHardware(o) => RemoteInv'
           /\ LoadHosts(o) \/ SaveHosts(o) => RemoteInv'
           /\ MakeDirectory(o) \/ UploadConfig(o) => RemoteInv'
           /\ StartCampaign(o) => RemoteInv'
           /\ PollStatus(o) \/ GiveUpWaiting(o) => RemoteInv'
           /\ SetupEngines(o) => RemoteInv'
           /\ ListResults(o) \/ CopyResult(o) \/ ImportResults(o) => RemoteInv'
           /\ OperatorKilled(o) => RemoteInv'
<1>1. /\ RemoteTypes /\ operator[o] \in Processes
      /\ operator[o].pc # "off" => operator[o].verdict = "none" /\ operator[o].host \in Hosts
      /\ {"none", "started", "completed", "failed"} = Verdict
  BY DEF RemoteInv, RemoteTypes, AtWork, Verdict
<1>s. (* nothing but the processes, and the file, changes *)
      UNCHANGED remote => /\ remote' \in [Hosts -> HostStates]
                          /\ \A h \in Hosts : remote'[h].campaigns \subseteq remote[h].campaigns
  BY <1>1 DEF RemoteTypes
<1>f. UNCHANGED hostsFile => hostsFile' \subseteq Hosts
  BY <1>1 DEF RemoteTypes
<1>m. (* one of a host's flags is set *)
      ASSUME NEW h \in HostNames
      PROVE  \/ remote' = [remote EXCEPT ![h].kitt = TRUE]
             \/ remote' = [remote EXCEPT ![h].directory = TRUE]
             \/ remote' = [remote EXCEPT ![h].config = TRUE]
             \/ remote' = [remote EXCEPT ![h].images = TRUE]
             => /\ remote' \in [Hosts -> HostStates]
                /\ \A g \in Hosts : remote'[g].campaigns \subseteq remote[g].campaigns
  <2>1. remote \in [Hosts -> HostStates]
    BY <1>1 DEF RemoteTypes
  <2>2. ASSUME remote' = [remote EXCEPT ![h].kitt = TRUE]
        PROVE  /\ remote' \in [Hosts -> HostStates]
               /\ \A g \in Hosts : remote'[g].campaigns \subseteq remote[g].campaigns
    BY <2>1, <2>2 DEF HostStates
  <2>3. ASSUME remote' = [remote EXCEPT ![h].directory = TRUE]
        PROVE  /\ remote' \in [Hosts -> HostStates]
               /\ \A g \in Hosts : remote'[g].campaigns \subseteq remote[g].campaigns
    BY <2>1, <2>3 DEF HostStates
  <2>4. ASSUME remote' = [remote EXCEPT ![h].config = TRUE]
        PROVE  /\ remote' \in [Hosts -> HostStates]
               /\ \A g \in Hosts : remote'[g].campaigns \subseteq remote[g].campaigns
    BY <2>1, <2>4 DEF HostStates
  <2>5. ASSUME remote' = [remote EXCEPT ![h].images = TRUE]
        PROVE  /\ remote' \in [Hosts -> HostStates]
               /\ \A g \in Hosts : remote'[g].campaigns \subseteq remote[g].campaigns
    BY <2>1, <2>5 DEF HostStates
  <2>6. QED
    BY <2>2, <2>3, <2>4, <2>5
<1>h. Host(o) \in HostNames
  BY <1>1 DEF Processes, Host
<1>2. ASSUME GiveCommand(o) PROVE RemoteInv'
  <2>1. PICK h \in Hosts, wait \in BOOLEAN, does \in {"setup", "remove", "run", "engines", "sync"} :
            operator' = [operator EXCEPT ![o] =
                [Resting EXCEPT !.does = does, !.host = h, !.waits = wait,
                                !.pc = FirstStep(does)]]
    BY <1>2 DEF GiveCommand
  <2> DEFINE x == [Resting EXCEPT !.does = does, !.host = h, !.waits = wait,
                                !.pc = FirstStep(does)]
  <2>2. x \in Processes /\ AtWork(x) /\ x.verdict = "none"
    <3>1. FirstStep(does) \in OperatorPcs
      BY DEF FirstStep, OperatorPcs
    <3>2. QED
      BY <3>1, RestingIsSound DEF Processes, Doings, HostNames, AtWork
  <2>3. UNCHANGED <<hostsFile, remote>>
    BY <1>2 DEF GiveCommand
  <2> HIDE DEF x
  <2>4. operator' = [operator EXCEPT ![o] = x]
    BY <2>1 DEF x
  <2>5. QED
    BY <1>s, <1>f, <2>2, <2>3, <2>4, MoveKeeps
<1>3. ASSUME CheckPrerequisites(o) \/ InstallKitt(o) \/ DetectHardware(o) PROVE RemoteInv'
  <2>1. /\ operator[o].pc # "off" /\ UNCHANGED hostsFile
        /\ UNCHANGED remote \/ remote' = [remote EXCEPT ![Host(o)].kitt = TRUE]
        /\ Sets(o, "kitt") \/ Sets(o, "probe") \/ Sets(o, "load") \/ Stops(o, "failed")
    BY <1>3 DEF CheckPrerequisites, InstallKitt, DetectHardware
  <2>2. {"kitt", "probe", "load"} \subseteq OperatorPcs
    BY DEF OperatorPcs
  <2>3. /\ remote' \in [Hosts -> HostStates] /\ hostsFile' \subseteq Hosts
        /\ \A h \in Hosts : remote'[h].campaigns \subseteq remote[h].campaigns
    BY <1>s, <1>f, <1>h, <1>m, <2>1
  <2>4. CASE Stops(o, "failed")
    BY <1>1, <2>3, <2>4, StopsKeep
  <2>5. CASE Sets(o, "kitt") \/ Sets(o, "probe") \/ Sets(o, "load")
    BY <2>1, <2>2, <2>3, <2>5, SetsKeep
  <2>6. QED
    BY <2>1, <2>4, <2>5
<1>4. ASSUME LoadHosts(o) \/ SaveHosts(o) PROVE RemoteInv'
  <2>1. UNCHANGED remote /\ operator[o].pc # "off"
    BY <1>4 DEF LoadHosts, SaveHosts
  <2>2. CASE SaveHosts(o)
    <3>1. hostsFile' \subseteq Hosts
      BY <1>1, <2>2 DEF SaveHosts, Processes
    <3>2. Stops(o, "none")
      BY <2>2 DEF SaveHosts
    <3>3. QED
      BY <1>1, <1>s, <2>1, <3>1, <3>2, StopsKeep
  <2>3. CASE LoadHosts(o) /\ Stops(o, "failed") /\ UNCHANGED hostsFile
    BY <1>1, <1>s, <1>f, <2>1, <2>3, StopsKeep
  <2>4. CASE LoadHosts(o) /\ ~(Stops(o, "failed") /\ UNCHANGED hostsFile)
    <3>1. PICK read \in SUBSET Hosts :
              operator' = [operator EXCEPT ![o].pc = "save", ![o].read = read]
      <4>1. hostsFile \cup {Host(o)} \subseteq Hosts /\ hostsFile \ {Host(o)} \subseteq Hosts
        BY <1>1, <2>1 DEF RemoteTypes, Host
      <4>2. QED
        BY <2>4, <4>1 DEF LoadHosts
    <3>2. hostsFile' \subseteq Hosts
      BY <1>1, <2>4 DEF LoadHosts, RemoteTypes
    <3> DEFINE x == [operator[o] EXCEPT !.pc = "save", !.read = read]
    <3>3. x \in Processes /\ x.verdict = "none" /\ AtWork(x)
      BY <1>1, <2>1 DEF AtWork, Processes, OperatorPcs
    <3>4. operator' = [operator EXCEPT ![o] = x]
      BY <1>1, <3>1 DEF RemoteTypes
    <3> HIDE DEF x
    <3>5. QED
      BY <1>s, <2>1, <3>2, <3>3, <3>4, MoveKeeps
  <2>5. QED
    BY <1>4, <2>2, <2>3, <2>4
<1>5. ASSUME MakeDirectory(o) \/ UploadConfig(o) PROVE RemoteInv'
  <2>1. /\ operator[o].pc # "off" /\ UNCHANGED hostsFile
        /\ \/ UNCHANGED remote
           \/ remote' = [remote EXCEPT ![Host(o)].directory = TRUE]
           \/ remote' = [remote EXCEPT ![Host(o)].config = TRUE]
        /\ Sets(o, "upload") \/ Sets(o, "start") \/ Stops(o, "failed")
    BY <1>5 DEF MakeDirectory, UploadConfig
  <2>2. {"upload", "start"} \subseteq OperatorPcs
    BY DEF OperatorPcs
  <2>3. /\ remote' \in [Hosts -> HostStates] /\ hostsFile' \subseteq Hosts
        /\ \A h \in Hosts : remote'[h].campaigns \subseteq remote[h].campaigns
    BY <1>s, <1>f, <1>h, <1>m, <2>1
  <2>4. CASE Stops(o, "failed")
    BY <1>1, <2>3, <2>4, StopsKeep
  <2>5. CASE Sets(o, "upload") \/ Sets(o, "start")
    BY <2>1, <2>2, <2>3, <2>5, SetsKeep
  <2>6. QED
    BY <2>1, <2>4, <2>5
<1>6. ASSUME StartCampaign(o) PROVE RemoteInv'
  <2>1. /\ UNCHANGED hostsFile /\ operator[o].pc = "start"
        /\ \/ UNCHANGED remote
           \/ remote' = [remote EXCEPT ![Host(o)].campaigns = @ \cup {o}]
        /\ Sets(o, "poll") \/ Stops(o, "started") \/ Stops(o, "failed")
    BY <1>6 DEF StartCampaign, Launched
  <2>2. /\ remote' \in [Hosts -> HostStates]
        /\ \A h \in Hosts : remote'[h].campaigns \subseteq remote[h].campaigns \cup {o}
    BY <1>1, <2>1 DEF RemoteTypes, HostStates
  <2>3. PICK x \in Processes : /\ operator' = [operator EXCEPT ![o] = x]
                               /\ x.verdict # "completed"
                               /\ AtWork(x)
    <3>1. CASE Sets(o, "poll")
      BY <2>1, <3>1, SetsMakes DEF OperatorPcs
    <3>2. CASE Stops(o, "started")
      BY <1>1, <3>2, StopsMakes
    <3>3. CASE Stops(o, "failed")
      BY <1>1, <3>3, StopsMakes
    <3>4. QED
      BY <2>1, <3>1, <3>2, <3>3
  <2>4. /\ operator' \in [Operators -> Processes]
        /\ operator'[o] = x
        /\ \A p \in Operators \ {o} : operator'[p] = operator[p]
    BY <1>1, <2>3 DEF RemoteTypes
  <2>5. VerdictIsExplained'
    BY <2>2, <2>3, <2>4 DEF RemoteInv, VerdictIsExplained, Host
  <2>6. RemoteTypes' /\ \A p \in Operators : AtWork(operator'[p])
    BY <1>f, <2>1, <2>2, <2>3, <2>4 DEF RemoteInv, RemoteTypes
  <2>7. QED
    BY <2>5, <2>6 DEF RemoteInv
<1>7. ASSUME PollStatus(o) \/ GiveUpWaiting(o) PROVE RemoteInv'
  <2>1. UNCHANGED <<hostsFile, remote>> /\ operator[o].pc # "off"
    BY <1>7 DEF PollStatus, GiveUpWaiting
  <2>2. CASE operator[o].polls < MaxPolls /\ operator' = [operator EXCEPT ![o].polls = @ + 1]
    <3> DEFINE x == [operator[o] EXCEPT !.polls = @ + 1]
    <3>1. x \in Processes /\ x.verdict = "none" /\ AtWork(x)
      BY <1>1, <2>1, <2>2, RemoteAssumption DEF AtWork, Processes
    <3>2. operator' = [operator EXCEPT ![o] = x]
      BY <1>1, <2>2 DEF RemoteTypes
    <3> HIDE DEF x
    <3>3. QED
      BY <1>s, <1>f, <2>1, <3>1, <3>2, MoveKeeps
  <2>3. CASE ~CampaignRunning(Host(o)) /\ Stops(o, "completed")
    BY <1>1, <1>s, <1>f, <2>1, <2>3, StopsKeep DEF CampaignRunning
  <2>4. CASE operator' = [operator EXCEPT ![o] =
                   [Resting EXCEPT !.host = Host(o), !.blind = TRUE, !.verdict = "completed"]]
    <3> DEFINE x == [Resting EXCEPT !.host = Host(o), !.blind = TRUE, !.verdict = "completed"]
    <3>1. x \in Processes /\ x.blind /\ AtWork(x)
      BY <1>1, <1>h, RestingIsSound DEF AtWork, Processes
    <3>2. operator' = [operator EXCEPT ![o] = x]
      BY <2>4
    <3> HIDE DEF x
    <3>3. QED
      BY <1>s, <1>f, <2>1, <3>1, <3>2, MoveKeeps
  <2>5. CASE Stops(o, "failed")
    BY <1>1, <1>s, <1>f, <2>1, <2>5, StopsKeep
  <2>6. QED
    BY <1>7, <2>2, <2>3, <2>4, <2>5 DEF PollStatus, GiveUpWaiting
<1>8. ASSUME SetupEngines(o) PROVE RemoteInv'
  <2>1. /\ UNCHANGED hostsFile
        /\ Stops(o, "none") \/ Stops(o, "failed")
        /\ UNCHANGED remote \/ remote' = [remote EXCEPT ![Host(o)].images = TRUE]
    BY <1>8 DEF SetupEngines
  <2>2. /\ remote' \in [Hosts -> HostStates] /\ hostsFile' \subseteq Hosts
        /\ \A h \in Hosts : remote'[h].campaigns \subseteq remote[h].campaigns
    BY <1>s, <1>f, <1>h, <1>m, <2>1
  <2>3. QED
    BY <1>1, <2>1, <2>2, StopsKeep
<1>9. ASSUME ListResults(o) \/ CopyResult(o) \/ ImportResults(o) PROVE RemoteInv'
  <2>1. UNCHANGED <<hostsFile, remote>> /\ operator[o].pc # "off"
    BY <1>9 DEF ListResults, CopyResult, ImportResults
  <2>2. CASE Stops(o, "none")
    BY <1>1, <1>s, <1>f, <2>1, <2>2, StopsKeep
  <2>3. CASE Sets(o, "import")
    BY <1>s, <1>f, <2>1, <2>3, SetsKeep DEF OperatorPcs
  <2>4. ASSUME NEW goal \in OperatorPcs, NEW listed \in SUBSET Results,
               operator' = [operator EXCEPT ![o].pc = goal, ![o].listed = listed]
        PROVE  RemoteInv'
    <3> DEFINE x == [operator[o] EXCEPT !.pc = goal, !.listed = listed]
    <3>1. x \in Processes /\ x.verdict = "none" /\ AtWork(x)
      BY <1>1, <2>1 DEF AtWork, Processes
    <3>2. operator' = [operator EXCEPT ![o] = x]
      BY <1>1, <2>4 DEF RemoteTypes
    <3> HIDE DEF x
    <3>3. QED
      BY <1>s, <1>f, <2>1, <3>1, <3>2, MoveKeeps
  <2>5. CASE operator' = [operator EXCEPT ![o].pc = "copy",
                                          ![o].listed = remote[Host(o)].results \ Known]
    <3>1. remote[Host(o)].results \ Known \in SUBSET Results /\ "copy" \in OperatorPcs
      BY <1>1, <2>1 DEF RemoteTypes, HostStates, OperatorPcs, Host
    <3>2. QED
      BY <2>4, <2>5, <3>1
  <2>6. CASE \E r \in operator[o].listed :
                operator' = [operator EXCEPT ![o].listed = @ \ {r}]
    <3>1. PICK r \in operator[o].listed : operator' = [operator EXCEPT ![o].listed = @ \ {r}]
      BY <2>6
    <3> DEFINE x == [operator[o] EXCEPT !.listed = @ \ {r}]
    <3>2. x \in Processes /\ x.verdict = "none" /\ AtWork(x)
      BY <1>1, <2>1 DEF AtWork, Processes
    <3>3. operator' = [operator EXCEPT ![o] = x]
      BY <1>1, <3>1 DEF RemoteTypes
    <3> HIDE DEF x
    <3>4. QED
      BY <1>s, <1>f, <2>1, <3>2, <3>3, MoveKeeps
  <2>7. QED
    BY <1>9, <2>2, <2>3, <2>5, <2>6 DEF ListResults, CopyResult, ImportResults
<1>10. ASSUME OperatorKilled(o) PROVE RemoteInv'
  <2>1. UNCHANGED <<hostsFile, remote>> /\ Stops(o, "none")
    BY <1>10 DEF OperatorKilled
  <2>2. QED
    BY <1>1, <1>s, <1>f, <2>1, StopsKeep
<1>11. QED
  BY <1>2, <1>3, <1>4, <1>5, <1>6, <1>7, <1>8, <1>9, <1>10

(* The steps of a host, and those that change nothing.                     *)
LEMMA HostKeeps ==
    ASSUME RemoteInv, UNCHANGED <<hostsFile, operator>>, remote' \in [Hosts -> HostStates],
           \A h \in Hosts : remote'[h].campaigns \subseteq remote[h].campaigns
    PROVE  RemoteInv'
  BY DEF RemoteInv, RemoteTypes, VerdictIsExplained, Host

LEMMA RemoteStepKeeps == RemoteInv /\ [RemoteNext]_remoteVars => RemoteInv'
<1> SUFFICES ASSUME RemoteInv, [RemoteNext]_remoteVars PROVE RemoteInv'
  OBVIOUS
<1>1. remote \in [Hosts -> HostStates]
  BY DEF RemoteInv, RemoteTypes
<1>2. ASSUME NEW h \in Hosts, NEW r \in Results, CampaignResult(h, r) PROVE RemoteInv'
  <2>1. /\ remote' \in [Hosts -> HostStates]
        /\ \A g \in Hosts : remote'[g].campaigns \subseteq remote[g].campaigns
    BY <1>1, <1>2 DEF CampaignResult, HostStates
  <2>2. QED
    BY <1>2, <2>1, HostKeeps DEF CampaignResult
<1>3. ASSUME NEW h \in Hosts, NEW o \in Operators, CampaignEnds(h, o) PROVE RemoteInv'
  <2>1. /\ remote' \in [Hosts -> HostStates]
        /\ \A g \in Hosts : remote'[g].campaigns \subseteq remote[g].campaigns
    BY <1>1, <1>3 DEF CampaignEnds, HostStates
  <2>2. QED
    BY <1>3, <2>1, HostKeeps DEF CampaignEnds
<1>4. CASE UNCHANGED remoteVars
  BY <1>1, <1>4, HostKeeps DEF remoteVars
<1>5. QED
  BY <1>2, <1>3, <1>4, OperatorKeeps DEF RemoteNext

(* kitt remote never says "completed" of a campaign that still runs on     *)
(* that host, unless ssh failed at the last poll.                          *)
THEOREM VerdictIsExplainedAlways == RemoteSpec => []VerdictIsExplained
<1>1. RemoteInv => VerdictIsExplained
  BY DEF RemoteInv
<1>2. QED
  BY <1>1, RemoteInitIsSound, RemoteStepKeeps, PTL DEF RemoteSpec

-----------------------------------------------------------------------------

(* The rest of the state.                                                  *)
RemoteRest ==
    /\ tildeLink \in BOOLEAN /\ shellMatches \in BOOLEAN
    /\ local \subseteq Directory /\ imported \subseteq local
    /\ commands \in 0..MaxCommands

LEMMA RemoteRestInit == RemoteInit => RemoteRest
  BY RemoteAssumption DEF RemoteInit, RemoteRest

(* Most steps leave it alone, a command counts, results are copied here    *)
(* and imported.                                                           *)
LEMMA RemoteRestKeep == RemoteInv /\ RemoteRest /\ [RemoteNext]_remoteVars => RemoteRest'
<1> SUFFICES ASSUME RemoteInv, RemoteRest, [RemoteNext]_remoteVars PROVE RemoteRest'
  OBVIOUS
<1>1. CASE UNCHANGED <<setting, local, imported, commands>>
  BY <1>1 DEF RemoteRest, setting
<1>2. ASSUME NEW o \in Operators, GiveCommand(o) PROVE RemoteRest'
  <2>1. /\ commands < MaxCommands /\ commands' = commands + 1
        /\ UNCHANGED <<tildeLink, shellMatches, local, imported>>
    BY <1>2 DEF GiveCommand, setting
  <2>2. MaxCommands \in Nat /\ commands \in 0..MaxCommands
    BY RemoteAssumption DEF RemoteRest
  <2>3. commands' \in 0..MaxCommands
    BY <2>1, <2>2
  <2>4. QED
    BY <2>1, <2>3 DEF RemoteRest
<1>3. ASSUME NEW o \in Operators, CopyResult(o) PROVE RemoteRest'
  <2>1. UNCHANGED <<tildeLink, shellMatches, imported, commands>>
    BY <1>3 DEF CopyResult, setting
  <2>2. operator[o].listed \subseteq Results
    BY DEF RemoteInv, RemoteTypes, Processes
  <2>3. CASE UNCHANGED local
    BY <2>1, <2>3 DEF RemoteRest
  <2>4. ASSUME NEW r \in operator[o].listed, local' = local \cup {[result |-> r, nested |-> TRUE]}
        PROVE  RemoteRest'
    <3>1. [result |-> r, nested |-> TRUE] \in Directory
      BY <2>2 DEF Directory
    <3>2. QED
      BY <2>1, <2>4, <3>1 DEF RemoteRest
  <2>5. QED
    BY <1>3, <2>3, <2>4 DEF CopyResult
<1>4. ASSUME NEW o \in Operators, ImportResults(o) PROVE RemoteRest'
  BY <1>4 DEF ImportResults, RemoteRest, setting
<1>5. ASSUME NEW o \in Operators,
             \/ CheckPrerequisites(o) \/ InstallKitt(o) \/ DetectHardware(o) \/ LoadHosts(o)
             \/ SaveHosts(o) \/ MakeDirectory(o) \/ UploadConfig(o) \/ StartCampaign(o)
             \/ PollStatus(o) \/ GiveUpWaiting(o) \/ SetupEngines(o) \/ ListResults(o)
             \/ OperatorKilled(o)
      PROVE  RemoteRest'
  <2>1. UNCHANGED <<setting, local, imported, commands>>
    BY <1>5 DEF CheckPrerequisites, InstallKitt, DetectHardware, LoadHosts, SaveHosts,
       MakeDirectory, UploadConfig, StartCampaign, PollStatus, GiveUpWaiting, SetupEngines,
       ListResults, OperatorKilled
  <2>2. QED
    BY <1>1, <2>1
<1>6. ASSUME NEW h \in Hosts, \/ \E r \in Results : CampaignResult(h, r)
                              \/ \E o \in Operators : CampaignEnds(h, o)
      PROVE  RemoteRest'
  <2>1. UNCHANGED <<setting, local, imported, commands>>
    BY <1>6 DEF CampaignResult, CampaignEnds
  <2>2. QED
    BY <1>1, <2>1
<1>7. CASE UNCHANGED remoteVars
  BY <1>1, <1>7 DEF remoteVars, setting
<1>8. QED
  BY <1>2, <1>3, <1>4, <1>5, <1>6, <1>7 DEF RemoteNext

LEMMA RemoteIsWhole == RemoteInv /\ RemoteRest => RemoteTypeOK
<1> SUFFICES ASSUME RemoteInv, RemoteRest PROVE RemoteTypeOK
  OBVIOUS
<1>1. ASSUME NEW o \in Operators
      PROVE  /\ operator[o].pc \in OperatorPcs /\ operator[o].host \in Hosts \cup {NoHost}
             /\ operator[o].read \subseteq Hosts /\ operator[o].polls \in 0..MaxPolls
             /\ operator[o].listed \subseteq Results
             /\ operator[o].verdict \in Verdict /\ operator[o].blind \in BOOLEAN
  <2>1. operator[o] \in Processes
    BY DEF RemoteInv, RemoteTypes
  <2>2. QED
    BY <2>1 DEF Processes, HostNames
<1>2. QED
  BY <1>1 DEF RemoteTypeOK, RemoteRest, RemoteInv, RemoteTypes, HostStates

-----------------------------------------------------------------------------
(* The parts together.                                                     *)

SideInv ==
    /\ BenchInv /\ Counted
    /\ CheckpointInv
    /\ SuiteInv
    /\ ScriptInv /\ ScriptRest
    /\ RemoteInv /\ RemoteRest

(* A machine that measures keeps its state typed: the runs, their engines, *)
(* ports and reports; the checkpoint; the suite with its results; the      *)
(* state file and the process of the campaign script; hosts.yaml, the      *)
(* remote hosts and what was copied from them; the campaign's state file,  *)
(* its runner and the models on the disk.                                  *)
THEOREM SideTypesAlways == SideSpec => []SideTypeOK
<1> DEFINE sideVars == <<part, runnerVars, benchVars, checkpointVars, suiteVars, scriptVars,
                       remoteVars>>
<1>1. SideInit => SideInv
  <2> SUFFICES ASSUME SideInit PROVE SideInv
    OBVIOUS
  <2>1. BenchInit /\ CheckpointInit /\ SuiteInit /\ ScriptInit /\ RemoteInit
    BY DEF SideInit
  <2>2. QED
    BY <2>1, BenchInitIsSound, CountInit, CheckpointInitIsSound, SuiteInitIsSound,
       ScriptInitIsSound, ScriptRestInit, RemoteInitIsSound, RemoteRestInit DEF SideInv
<1>2. SideInv /\ [SideNext]_sideVars => SideInv'
  <2> SUFFICES ASSUME SideInv, [SideNext]_sideVars PROVE SideInv'
    OBVIOUS
  <2>1. /\ [BenchNext]_benchVars /\ [CheckpointNext]_checkpointVars /\ [SuiteNext]_suiteVars
        /\ [ScriptNext]_scriptVars /\ [RemoteNext]_remoteVars
    BY DEF SideNext, Others
  <2>2. QED
    BY <2>1, BenchStepKeeps, CountStepKeeps, CheckpointStepKeeps, SuiteStepKeeps,
       ScriptStepKeeps, ScriptRestKeep, RemoteStepKeeps, RemoteRestKeep DEF SideInv
<1>3. SideInv /\ RunnerTypeOK => SideTypeOK
  BY BenchIsWhole, CheckpointIsWhole, SuiteIsTyped, ScriptIsWhole, RemoteIsWhole
     DEF SideInv, SideTypeOK
<1>4. SideInit => RunnerInit
  BY DEF SideInit
<1>5. [SideNext]_sideVars => [RunnerNext]_runnerVars
  BY DEF SideNext, Others
<1>6. SideSpec => RunnerSpec
  BY <1>4, <1>5, PTL DEF SideSpec, RunnerSpec
<1>7. QED
  BY <1>1, <1>2, <1>3, <1>6, RunnerTypesAlways, PTL DEF SideSpec

=============================================================================
