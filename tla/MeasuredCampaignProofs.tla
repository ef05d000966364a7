----------------------- MODULE MeasuredCampaignProofs -----------------------
(***************************************************************************)
(* Theorems about the campaign of CampaignRunner, for every set of keys    *)
(* and of models, every number of processes, and whatever fails; and about *)
(* its composition with the kitt run processes that it starts: each side   *)
(* of MeasuredCampaign implements the module it is made of, and what a     *)
(* campaign records is what its runs have reported.                        *)
(***************************************************************************)
EXTENDS MeasuredCampaign, BenchmarkRunProofs, SequenceTheorems, WellFoundedInduction, TLAPS

-----------------------------------------------------------------------------
(* The campaign of kitt campaign run.                                      *)

(* A set of numbers has a least one: what an induction rests on here.      *)
LEMMA LeastNumber == \A T \in SUBSET Nat : T # {} => \E n \in T : \A m \in T : n <= m
<1> SUFFICES ASSUME NEW T, T \subseteq Nat, T # {} PROVE \E n \in T : \A m \in T : n <= m
  OBVIOUS
<1>1. PICK n \in T : \A m \in T : ~(<<m, n>> \in OpToRel(<, Nat))
  BY WFMin, NatLessThanWellFounded, Zenon
<1>2. \A m \in T : ~(m < n)
  BY <1>1 DEF OpToRel
<1>3. QED
  BY <1>2

(* FlattenSeq and Without are defined by recursion on the length of the    *)
(* list: the function that each names exists, and what it has is in S.     *)
LEMMA FlattenUnfolds ==
    ASSUME NEW S, NEW s \in Seq(Seq(S)), s # <<>>
    PROVE  \E f : /\ FlattenSeq(s) = f[Len(s)]
                  /\ \A n \in 1..Len(s) : /\ f[n] = IF n = 1 THEN s[n] ELSE f[n - 1] \o s[n]
                                          /\ f[n] \in Seq(S)
<1>1. Len(s) \in Nat /\ Len(s) # 0 /\ \A i \in 1..Len(s) : s[i] \in Seq(S)
  BY LenProperties, ElementOfSeq, EmptySeq
<1> DEFINE Flat(g, n) == g = [i \in 1..n |-> IF i = 1 THEN s[i] ELSE g[i - 1] \o s[i]]
           Solved(n) == \E g : Flat(g, n)
           Missing == {n \in 1..Len(s) : ~Solved(n)}
<1>2. Missing = {}
  <2> SUFFICES ASSUME Missing # {} PROVE FALSE
    OBVIOUS
  <2> HIDE DEF Missing, Solved
  <2>1. Missing \subseteq Nat
    BY <1>1 DEF Missing
  <2>2. PICK n \in Missing : \A m \in Missing : n <= m
    BY <2>1, LeastNumber
  <2>3. n \in Nat /\ 1 <= n /\ n <= Len(s) /\ ~Solved(n)
    BY <1>1 DEF Missing
  <2>4. CASE n = 1
    <3>1. Flat([i \in 1..1 |-> s[i]], 1)
      OBVIOUS
    <3>2. QED
      BY <2>3, <2>4, <3>1 DEF Solved
  <2>5. CASE n # 1
    <3>1. n - 1 \in 1..Len(s) /\ n - 1 \notin Missing
      BY <1>1, <2>2, <2>3, <2>5
    <3>2. PICK g : Flat(g, n - 1)
      BY <3>1 DEF Missing, Solved
    <3> DEFINE last == g[n - 1] \o s[n]
               h == [i \in 1..n |-> IF i = n THEN last ELSE g[i]]
    <3> HIDE DEF last
    <3>3. /\ h = [i \in 1..n |-> h[i]] /\ h[n] = last
          /\ \A i \in 1..(n - 1) : h[i] = g[i]
      BY <2>3
    <3> HIDE DEF h
    <3>4. ASSUME NEW i \in 1..n PROVE h[i] = IF i = 1 THEN s[i] ELSE h[i - 1] \o s[i]
      <4>1. CASE i = n
        <5>1. i # 1 /\ n - 1 \in 1..(n - 1)
          BY <2>3, <2>5, <4>1
        <5>2. QED
          BY <3>3, <4>1, <5>1 DEF last
      <4>2. CASE i # n
        <5>1. i \in 1..(n - 1) /\ (i # 1 => i - 1 \in 1..(n - 1))
          BY <2>3, <4>2
        <5>2. g[i] = IF i = 1 THEN s[i] ELSE g[i - 1] \o s[i]
          BY <3>2, <5>1
        <5>3. QED
          BY <3>3, <5>1, <5>2
      <4>3. QED
        BY <4>1, <4>2
    <3>5. Flat(h, n)
      BY <3>3, <3>4
    <3>6. QED
      BY <2>3, <3>5 DEF Solved
  <2>6. QED
    BY <2>4, <2>5
<1>3. Len(s) \in 1..Len(s) /\ \E g : Flat(g, Len(s))
  <2> HIDE DEF Solved
  <2>1. Len(s) \in 1..Len(s) /\ Solved(Len(s))
    BY <1>1, <1>2
  <2>2. QED
    BY <2>1 DEF Solved
<1> DEFINE f == CHOOSE g : Flat(g, Len(s))
<1>4. Flat(f, Len(s))
  BY <1>3
<1>5. FlattenSeq(s) = f[Len(s)]
  BY <1>1 DEF FlattenSeq
<1> HIDE DEF f
<1> DEFINE Wrong == {n \in 1..Len(s) : f[n] \notin Seq(S)}
<1>6. Wrong = {}
  <2> SUFFICES ASSUME Wrong # {} PROVE FALSE
    OBVIOUS
  <2> HIDE DEF Wrong
  <2>1. Wrong \subseteq Nat
    BY <1>1 DEF Wrong
  <2>2. PICK n \in Wrong : \A m \in Wrong : n <= m
    BY <2>1, LeastNumber
  <2>3. n \in 1..Len(s) /\ f[n] \notin Seq(S)
    BY DEF Wrong
  <2>4. f[n] = IF n = 1 THEN s[n] ELSE f[n - 1] \o s[n]
    BY <1>4, <2>3
  <2>5. CASE n # 1
    <3>1. n - 1 \in 1..Len(s) /\ n - 1 \notin Wrong
      BY <1>1, <2>2, <2>3, <2>5
    <3>2. f[n - 1] \in Seq(S) /\ s[n] \in Seq(S)
      BY <1>1, <2>3, <3>1 DEF Wrong
    <3>3. QED
      BY <2>3, <2>4, <2>5, <3>2, ConcatProperties
  <2>6. QED
    BY <1>1, <2>3, <2>4, <2>5
<1>7. \A n \in 1..Len(s) : f[n] = IF n = 1 THEN s[n] ELSE f[n - 1] \o s[n]
  BY <1>4
<1>8. \A n \in 1..Len(s) : f[n] \in Seq(S)
  BY <1>6
<1> HIDE DEF Wrong, Flat
<1>9. QED
  BY <1>5, <1>7, <1>8

LEMMA FlattenIsTyped ==
    ASSUME NEW S, NEW s \in Seq(Seq(S))
    PROVE  FlattenSeq(s) \in Seq(S)
<1>1. CASE s = <<>>
  <2>1. FlattenSeq(s) = s /\ s = <<>>
    BY <1>1, EmptySeq DEF FlattenSeq
  <2>2. QED
    BY <2>1
<1>2. CASE s # <<>>
  <2>1. Len(s) \in 1..Len(s)
    BY <1>2, LenProperties, EmptySeq
  <2>2. PICK f : FlattenSeq(s) = f[Len(s)] /\ \A n \in 1..Len(s) : f[n] \in Seq(S)
    BY <1>2, FlattenUnfolds
  <2>3. QED
    BY <2>1, <2>2
<1>3. QED
  BY <1>1, <1>2

LEMMA ElementsOfConcat ==
    ASSUME NEW S, NEW s \in Seq(S), NEW t \in Seq(S)
    PROVE  ToSet(s) \subseteq ToSet(s \o t) /\ ToSet(t) \subseteq ToSet(s \o t)
<1>1. /\ Len(s \o t) = Len(s) + Len(t) /\ Len(s) \in Nat /\ Len(t) \in Nat
      /\ DOMAIN s = 1..Len(s) /\ DOMAIN t = 1..Len(t) /\ DOMAIN (s \o t) = 1..Len(s \o t)
      /\ \A i \in 1..(Len(s) + Len(t)) :
             (s \o t)[i] = IF i <= Len(s) THEN s[i] ELSE t[i - Len(s)]
  BY ConcatProperties, LenProperties
<1>2. ASSUME NEW i \in 1..Len(s) PROVE s[i] \in ToSet(s \o t)
  <2>1. i \in 1..Len(s \o t) /\ (s \o t)[i] = s[i]
    BY <1>1
  <2>2. QED
    BY <2>1 DEF ToSet
<1>3. ASSUME NEW i \in 1..Len(t) PROVE t[i] \in ToSet(s \o t)
  <2>1. Len(s) + i \in 1..Len(s \o t) /\ (s \o t)[Len(s) + i] = t[i]
    BY <1>1
  <2>2. QED
    BY <2>1 DEF ToSet
<1>4. ToSet(s) = {s[i] : i \in 1..Len(s)} /\ ToSet(t) = {t[i] : i \in 1..Len(t)}
  BY <1>1 DEF ToSet
<1>5. QED
  BY <1>2, <1>3, <1>4

(* What is flattened has all that its parts have.                          *)
LEMMA FlattenKeeps ==
    ASSUME NEW S, NEW s \in Seq(Seq(S)), NEW i \in 1..Len(s)
    PROVE  ToSet(s[i]) \subseteq ToSet(FlattenSeq(s))
<1>1. /\ Len(s) \in Nat /\ s # <<>> /\ Len(s) \in 1..Len(s)
      /\ \A j \in 1..Len(s) : s[j] \in Seq(S)
  BY LenProperties, ElementOfSeq, EmptySeq
<1>2. PICK f : /\ FlattenSeq(s) = f[Len(s)]
               /\ \A n \in 1..Len(s) : /\ f[n] = IF n = 1 THEN s[n] ELSE f[n - 1] \o s[n]
                                       /\ f[n] \in Seq(S)
  BY <1>1, FlattenUnfolds
<1> DEFINE Wrong == {n \in i..Len(s) : ~(ToSet(s[i]) \subseteq ToSet(f[n]))}
<1>3. Wrong = {}
  <2> SUFFICES ASSUME Wrong # {} PROVE FALSE
    OBVIOUS
  <2> HIDE DEF Wrong
  <2>1. Wrong \subseteq Nat
    BY <1>1 DEF Wrong
  <2>2. PICK n \in Wrong : \A m \in Wrong : n <= m
    BY <2>1, LeastNumber
  <2>3. n \in i..Len(s) /\ ~(ToSet(s[i]) \subseteq ToSet(f[n]))
    BY DEF Wrong
  <2>4. n # 1
    <3> SUFFICES ASSUME n = 1 PROVE FALSE
      OBVIOUS
    <3>1. i = 1 /\ 1 \in 1..Len(s)
      BY <1>1, <2>3
    <3>2. f[1] = s[1]
      BY <1>2, <3>1
    <3>3. QED
      BY <2>3, <3>1, <3>2
  <2>5. n \in 1..Len(s) /\ n - 1 \in 1..Len(s)
    BY <1>1, <2>3, <2>4
  <2>6. f[n] = f[n - 1] \o s[n] /\ f[n - 1] \in Seq(S) /\ s[n] \in Seq(S)
    <3>1. \A m \in 1..Len(s) : f[m] \in Seq(S)
      BY <1>2
    <3>2. f[n] = IF n = 1 THEN s[n] ELSE f[n - 1] \o s[n]
      BY <1>2, <2>5
    <3>3. QED
      BY <1>1, <2>4, <2>5, <3>1, <3>2
  <2>7. ToSet(f[n - 1]) \subseteq ToSet(f[n]) /\ ToSet(s[n]) \subseteq ToSet(f[n])
    BY <2>6, ElementsOfConcat
  <2>8. n # i /\ ~(ToSet(s[i]) \subseteq ToSet(f[n - 1]))
    BY <2>3, <2>7
  <2>9. n - 1 \in Wrong
    BY <1>1, <2>3, <2>5, <2>8 DEF Wrong
  <2>10. n <= n - 1 /\ n \in Nat
    BY <1>1, <2>2, <2>5, <2>9
  <2>11. QED
    BY <2>10
<1>4. Len(s) \in i..Len(s) /\ Len(s) \notin Wrong
  BY <1>1, <1>3
<1>5. QED
  BY <1>2, <1>4

LeftStep(ks, D, l, i) ==
    IF i = 0 THEN <<>> ELSE IF ks[i] \in D THEN l[i - 1] ELSE Append(l[i - 1], ks[i])

LEMMA WithoutUnfolds ==
    ASSUME NEW S, NEW ks \in Seq(S), NEW D
    PROVE  \E f : /\ Without(ks, D) = f[Len(ks)]
                  /\ \A n \in 0..Len(ks) : f[n] = LeftStep(ks, D, f, n) /\ f[n] \in Seq(S)
<1>1. Len(ks) \in Nat /\ \A i \in 1..Len(ks) : ks[i] \in S
  BY LenProperties, ElementOfSeq
<1> DEFINE Step(l, i) == IF i = 0 THEN <<>> ELSE IF ks[i] \in D THEN l[i - 1]
                         ELSE Append(l[i - 1], ks[i])
           Left(l, n) == l = [i \in 0..n |-> Step(l, i)]
           Solved(n) == \E l : Left(l, n)
           Missing == {n \in 0..Len(ks) : ~Solved(n)}
<1>2. Missing = {}
  <2> SUFFICES ASSUME Missing # {} PROVE FALSE
    OBVIOUS
  <2> HIDE DEF Missing, Solved
  <2>1. Missing \subseteq Nat
    BY <1>1 DEF Missing
  <2>2. PICK n \in Missing : \A m \in Missing : n <= m
    BY <2>1, LeastNumber
  <2>3. n \in Nat /\ n <= Len(ks) /\ ~Solved(n)
    BY <1>1 DEF Missing
  <2>4. CASE n = 0
    <3>1. Left([i \in 0..0 |-> <<>>], 0)
      OBVIOUS
    <3>2. QED
      BY <2>3, <2>4, <3>1 DEF Solved
  <2>5. CASE n # 0
    <3>1. n - 1 \in 0..Len(ks) /\ n - 1 \notin Missing
      BY <1>1, <2>2, <2>3, <2>5
    <3>2. PICK l : Left(l, n - 1)
      BY <3>1 DEF Missing, Solved
    <3> DEFINE h == [i \in 0..n |-> IF i = n THEN Step(l, n) ELSE l[i]]
    <3>3. /\ h = [i \in 0..n |-> h[i]] /\ h[n] = Step(l, n)
          /\ \A i \in 0..(n - 1) : h[i] = l[i]
      BY <2>3
    <3> HIDE DEF h
    <3>4. ASSUME NEW i \in 0..n PROVE h[i] = Step(h, i)
      <4>1. CASE i = n
        <5>1. i # 0 /\ n - 1 \in 0..(n - 1)
          BY <2>3, <2>5, <4>1
        <5>2. QED
          BY <3>3, <4>1, <5>1
      <4>2. CASE i # n
        <5>1. i \in 0..(n - 1) /\ (i # 0 => i - 1 \in 0..(n - 1))
          BY <2>3, <4>2
        <5>2. l[i] = Step(l, i)
          BY <3>2, <5>1
        <5>3. QED
          BY <3>3, <5>1, <5>2
      <4>3. QED
        BY <4>1, <4>2
    <3>5. Left(h, n)
      BY <3>3, <3>4
    <3>6. QED
      BY <2>3, <3>5 DEF Solved
  <2>6. QED
    BY <2>4, <2>5
<1>3. Len(ks) \in 0..Len(ks) /\ \E l : Left(l, Len(ks))
  <2> HIDE DEF Solved
  <2>1. Len(ks) \in 0..Len(ks) /\ Solved(Len(ks))
    BY <1>1, <1>2
  <2>2. QED
    BY <2>1 DEF Solved
<1> DEFINE f == CHOOSE l : Left(l, Len(ks))
<1>4. Left(f, Len(ks))
  BY <1>3
<1>5. Without(ks, D) = f[Len(ks)]
  BY DEF Without
<1> HIDE DEF f
<1>6. \A n \in 0..Len(ks) : f[n] = LeftStep(ks, D, f, n)
  BY <1>4 DEF LeftStep
<1> DEFINE Wrong == {n \in 0..Len(ks) : f[n] \notin Seq(S)}
<1>7. Wrong = {}
  <2> SUFFICES ASSUME Wrong # {} PROVE FALSE
    OBVIOUS
  <2> HIDE DEF Wrong
  <2>1. Wrong \subseteq Nat
    BY <1>1 DEF Wrong
  <2>2. PICK n \in Wrong : \A m \in Wrong : n <= m
    BY <2>1, LeastNumber
  <2>3. n \in 0..Len(ks) /\ f[n] \notin Seq(S)
    BY DEF Wrong
  <2>4. f[n] = LeftStep(ks, D, f, n)
    BY <1>6, <2>3
  <2>5. CASE n # 0
    <3>1. n - 1 \in 0..Len(ks) /\ n - 1 \notin Wrong
      BY <1>1, <2>2, <2>3, <2>5
    <3>2. f[n - 1] \in Seq(S) /\ ks[n] \in S
      BY <1>1, <2>3, <2>5, <3>1 DEF Wrong
    <3>3. QED
      BY <2>3, <2>4, <2>5, <3>2, AppendProperties DEF LeftStep
  <2>6. QED
    BY <2>3, <2>4, <2>5 DEF LeftStep
<1>8. QED
  BY <1>5, <1>6, <1>7

LEMMA WithoutIsTyped ==
    ASSUME NEW S, NEW ks \in Seq(S), NEW D
    PROVE  Without(ks, D) \in Seq(S)
  BY WithoutUnfolds, LenProperties

(* Something is left when something is not taken out.                      *)
LEMMA SomethingIsLeft ==
    ASSUME NEW S, NEW ks \in Seq(S), NEW D, NEW x \in ToSet(ks) \ D
    PROVE  Without(ks, D) # <<>>
<1>1. Len(ks) \in Nat /\ \A i \in 1..Len(ks) : ks[i] \in S
  BY LenProperties, ElementOfSeq
<1>2. PICK f : /\ Without(ks, D) = f[Len(ks)]
               /\ \A n \in 0..Len(ks) : f[n] = LeftStep(ks, D, f, n) /\ f[n] \in Seq(S)
  BY WithoutUnfolds
<1>3. PICK i \in 1..Len(ks) : ks[i] = x
  BY DEF ToSet
<1> DEFINE Wrong == {n \in i..Len(ks) : f[n] = <<>>}
<1>4. Wrong = {}
  <2> SUFFICES ASSUME Wrong # {} PROVE FALSE
    OBVIOUS
  <2> HIDE DEF Wrong
  <2>1. Wrong \subseteq Nat
    BY <1>1 DEF Wrong
  <2>2. PICK n \in Wrong : \A m \in Wrong : n <= m
    BY <2>1, LeastNumber
  <2>3. n \in i..Len(ks) /\ f[n] = <<>>
    BY DEF Wrong
  <2>4. n \in 1..Len(ks) /\ n - 1 \in 0..Len(ks)
    BY <1>1, <2>3
  <2>5. f[n] = (IF ks[n] \in D THEN f[n - 1] ELSE Append(f[n - 1], ks[n])) /\ f[n - 1] \in Seq(S)
    BY <1>1, <1>2, <2>4 DEF LeftStep
  <2>6. ks[n] \in D /\ n # i
    <3>1. f[n - 1] \in Seq(S) /\ ks[n] \in S
      BY <1>1, <2>4, <2>5
    <3>2. \A l \in Seq(S), k \in S : Append(l, k) # <<>>
      BY AppendProperties
    <3>3. QED
      BY <1>3, <2>3, <2>5, <3>1, <3>2
  <2>7. n - 1 \in i..Len(ks) /\ f[n - 1] = <<>>
    BY <1>1, <2>3, <2>5, <2>6
  <2>8. QED
    BY <2>2, <2>3, <2>7 DEF Wrong
<1>5. QED
  BY <1>1, <1>2, <1>3, <1>4

-----------------------------------------------------------------------------

States == [status : {"none", "running", "completed"}, run : [Keys -> RunStatus]]
Disks  == [Keys -> {"absent", "partial", "whole"}]
IsRunner(x) == DOMAIN x = {"pc", "id", "dry", "todo", "all", "path", "mem"}

RunnerTypes ==
    /\ stateFile \in [Ids -> States]
    /\ IsRunner(runner)
    /\ runner.pc \in RunnerPcs /\ runner.dry \in BOOLEAN
    /\ runner.id \in Ids
    /\ runner.todo \in Seq(Keys) /\ runner.mem \in States
    /\ onDisk \in Disks
    /\ cleanup \in BOOLEAN
    /\ earned \in [Ids -> SUBSET Keys] /\ previewed \subseteq Ids

WithARun == {"check", "download", "loading", "bench", "measuring", "clean", "success", "failure",
             "docker", "remove"}

(* The run that is under way is the first of those to do, and the thread   *)
(* has the one after it, or that one itself before the loop comes to it.   *)
Ahead ==
    /\ runner.pc \in WithARun => runner.todo # <<>>
    /\ prefetch.at \in {"none", "queued", "loading", "done"}
    /\ prefetch = [todo |-> prefetch.todo, at |-> prefetch.at]
    /\ prefetch.at = "none" => prefetch.todo = <<>>
    /\ prefetch.at # "none" =>
          /\ runner.pc \in WithARun \cup {"await"}
          /\ IF runner.pc = "await"
             THEN runner.todo # <<>> /\ prefetch.todo = <<Head(runner.todo)>>
             ELSE Len(runner.todo) > 1 /\ prefetch.todo = <<runner.todo[2]>>

RunnerBase == RunnerTypes /\ Ahead

LEMMA Marking ==
    ASSUME RunnerBase, NEW k, NEW s \in RunStatus
    PROVE  Marked(k, s) \in States
  BY DEF RunnerBase, RunnerTypes, Marked, States

LEMMA WholePlan ==
    /\ Plan \in Seq(Keys) /\ ToSet(Plan) \subseteq Keys
    /\ Len(Specs) \in Nat
    /\ \A i \in 1..Len(Specs) : Specs[i].keys \in Seq(ToSet(Plan))
<1> DEFINE How == {"plain", "gguf", "ollama"}
           parts == [i \in 1..Len(Specs) |-> Specs[i].keys]
<1>1. /\ Len(Specs) \in Nat
      /\ \A i \in 1..Len(Specs) : Specs[i] \in [how : How, keys : Seq(Keys)]
  BY RunnerAssumption, LenProperties, ElementOfSeq
<1>2. parts \in [1..Len(Specs) -> Seq(Keys)]
  BY <1>1
<1>3. parts \in Seq(Seq(Keys)) /\ Len(parts) = Len(Specs)
  BY <1>1, <1>2, SeqDef
<1>4. Plan = FlattenSeq(parts)
  BY DEF Plan
<1>5. Plan \in Seq(Keys)
  BY <1>3, <1>4, FlattenIsTyped
<1>6. ToSet(Plan) \subseteq Keys
  BY <1>5, ElementOfSeq, LenProperties DEF ToSet
<1>7. ASSUME NEW i \in 1..Len(Specs) PROVE Specs[i].keys \in Seq(ToSet(Plan))
  <2>1. ToSet(parts[i]) \subseteq ToSet(FlattenSeq(parts))
    BY <1>3, <1>7, FlattenKeeps
  <2>2. ToSet(Specs[i].keys) \subseteq ToSet(Plan) /\ Specs[i].keys \in Seq(Keys)
    BY <1>1, <1>4, <1>7, <2>1
  <2> DEFINE ks == Specs[i].keys
  <2>3. Len(ks) \in Nat /\ ks \in [1..Len(ks) -> Keys] /\ ToSet(ks) \subseteq ToSet(Plan)
    BY <2>2, LenProperties
  <2> HIDE DEF ks
  <2>4. ks \in [1..Len(ks) -> ToSet(Plan)]
    BY <2>3 DEF ToSet
  <2>5. ks \in Seq(ToSet(Plan))
    BY <2>3, <2>4, SeqDef
  <2>6. QED
    BY <2>5 DEF ks
<1>8. QED
  BY <1>1, <1>5, <1>6, <1>7

(* Whatever discovery finds, what is planned is of the campaign.           *)
LEMMA Planned ==
    ASSUME NEW plan \in ExpandRuns
    PROVE  plan \in Seq(ToSet(Plan)) /\ plan \in Seq(Keys)
<1> DEFINE How == {"plain", "gguf", "ollama"}
           All == ToSet(Plan)
           Found(s) == DiscoverGguf(s) \cup DiscoverOllama(s)
                       \cup (IF s.how = "plain" THEN {s.keys} ELSE {})
<1>1. /\ Len(Specs) \in Nat
      /\ \A i \in 1..Len(Specs) : Specs[i].keys \in Seq(All)
  BY WholePlan
<1> HIDE DEF All
<1>2. ASSUME NEW i \in 1..Len(Specs), NEW ks \in Found(Specs[i]) PROVE ks \in Seq(All)
  <2>1. Specs[i].keys \in Seq(All)
    BY <1>1
  <2>2. Specs[i].how = "ollama" => Specs[i].keys # <<>>
    BY RunnerAssumption
  <2>3. ASSUME ks \in DiscoverGguf(Specs[i]) PROVE ks \in Seq(All)
    <3>1. FilterQuants(Specs[i].keys) \in Seq(All)
      BY <2>1, WithoutIsTyped DEF FilterQuants
    <3>2. ks \in {FilterQuants(Specs[i].keys), <<>>}
      BY <2>3 DEF DiscoverGguf
    <3> DEFINE q == FilterQuants(Specs[i].keys)
    <3>3. ks = q \/ ks = <<>>
      BY <3>2
    <3>4. q \in Seq(All)
      BY <3>1
    <3> HIDE DEF q
    <3>5. QED
      BY <3>3, <3>4, EmptySeq
  <2>4. ASSUME ks \in DiscoverOllama(Specs[i]) PROVE ks \in Seq(All)
    <3>1. Specs[i].keys # <<>> /\ ks \in {Specs[i].keys, <<Head(Specs[i].keys)>>}
      BY <2>2, <2>4 DEF DiscoverOllama
    <3>2. Head(Specs[i].keys) \in All
      BY <2>1, <3>1, HeadTailProperties
    <3> DEFINE k == Head(Specs[i].keys)
    <3>3. ks = Specs[i].keys \/ ks = <<k>>
      BY <3>1
    <3>4. k \in All
      BY <3>2
    <3> HIDE DEF k
    <3>5. <<k>> \in Seq(All)
      BY <3>4
    <3>6. QED
      BY <2>1, <3>3, <3>5, Zenon
  <2>5. QED
    BY <2>1, <2>3, <2>4
<1> HIDE DEF Found
<1>3. PICK f \in [1..Len(Specs) -> UNION {Found(s) : s \in ToSet(Specs)}] :
          /\ plan = FlattenSeq(f)
          /\ \A i \in 1..Len(Specs) : f[i] \in Found(Specs[i])
  BY DEF ExpandRuns, Found
<1>4. f \in [1..Len(Specs) -> Seq(All)]
  BY <1>2, <1>3
<1>5. f \in Seq(Seq(All))
  BY <1>1, <1>4, SeqDef
<1>6. plan \in Seq(All)
  BY <1>3, <1>5, FlattenIsTyped
<1>7. All \subseteq Keys
  BY WholePlan DEF All
<1>8. plan \in Seq(Keys)
  BY <1>6, <1>7, SeqMonotonic
<1>9. QED
  BY <1>6, <1>8 DEF All

LEMMA OffIsSound ==
    /\ IsRunner(Off) /\ Off.pc = "off" /\ Off.dry = FALSE /\ Off.id \in Ids
    /\ Off.todo = <<>> /\ Off.todo \in Seq(Keys) /\ Off.mem = NoState /\ NoState \in States
    /\ "off" \in RunnerPcs \ (WithARun \cup {"await"})
<1>1. IsRunner(Off) /\ Off.pc = "off" /\ Off.dry = FALSE /\ Off.todo = <<>> /\ Off.mem = NoState
  <2>1. DOMAIN Off = {"pc", "id", "dry", "todo", "all", "path", "mem"}
    BY DEF Off
  <2>2. Off.pc = "off" /\ Off.dry = FALSE /\ Off.todo = <<>> /\ Off.mem = NoState
    BY DEF Off
  <2>3. QED
    BY <2>1, <2>2 DEF IsRunner
<1>2. NoState \in States
  BY DEF NoState, States, RunStatus
<1>3. Off.id \in Ids
  BY RunnerAssumption DEF Off
<1>4. QED
  BY <1>1, <1>2, <1>3, EmptySeq DEF RunnerPcs, WithARun

LEMMA BaseInit == RunnerInit => RunnerBase
<1> SUFFICES ASSUME RunnerInit PROVE RunnerBase
  OBVIOUS
<1>1. /\ stateFile = [i \in Ids |-> NoState] /\ runner = Off /\ prefetch = NoPrefetch
      /\ onDisk = [k \in Keys |-> "absent"] /\ cleanup \in BOOLEAN
      /\ earned = [i \in Ids |-> {}] /\ previewed = {}
  BY DEF RunnerInit
<1>2. RunnerTypes
  BY <1>1, OffIsSound DEF RunnerTypes, Disks
<1>3. Ahead
  BY <1>1, OffIsSound DEF Ahead, NoPrefetch
<1>4. QED
  BY <1>2, <1>3 DEF RunnerBase

LEMMA AbortKeeps == ASSUME RunnerBase, Abort PROVE RunnerBase'
<1>1. /\ runner' = Off /\ prefetch' = NoPrefetch
      /\ UNCHANGED <<stateFile, cleanup, earned, previewed>>
  BY DEF Abort, configured, history
<1>2. onDisk' \in Disks
  BY DEF Abort, RunnerBase, RunnerTypes, Disks
<1>3. RunnerTypes'
  BY <1>1, <1>2, OffIsSound DEF RunnerBase, RunnerTypes
<1>4. Ahead'
  BY <1>1, OffIsSound DEF Ahead, NoPrefetch
<1>5. QED
  BY <1>3, <1>4 DEF RunnerBase

LEMMA SecondIsNext ==
    ASSUME NEW S, NEW s \in Seq(S), Len(s) > 1
    PROVE  Tail(s) # <<>> /\ Head(Tail(s)) = s[2]
<1> DEFINE t == Tail(s)
<1>1. t \in Seq(S) /\ Len(t) = Len(s) - 1 /\ \A i \in 1..Len(t) : t[i] = s[i + 1]
  BY HeadTailProperties, LenProperties, EmptySeq
<1>2. Len(s) \in Nat
  BY LenProperties
<1> HIDE DEF t
<1>3. t[1] = s[2] /\ Len(t) # 0
  BY <1>1, <1>2
<1>4. t # <<>>
  BY <1>3, EmptySeq
<1>5. Head(t) = t[1]
  BY <1>1, <1>4, HeadTailProperties
<1>6. QED
  BY <1>3, <1>4, <1>5 DEF t

LEMMA UpdateKeeps ==
    ASSUME RunnerBase, NEW k, NEW s \in RunStatus, NEW goal \in RunnerPcs \ {"off"},
           NEW todo \in Seq(Keys), NEW stays, runner.pc \in WithARun,
           Update(k, s, goal, todo, stays),
           \/ goal \in WithARun /\ todo = runner.todo
           \/ goal = "await" /\ todo = Tail(runner.todo)
    PROVE  RunnerBase'
<1>1. CASE Abort
  BY <1>1, AbortKeeps
<1> DEFINE x == [runner EXCEPT !.mem = Marked(k, s), !.pc = goal, !.todo = todo]
<1>2. CASE /\ SaveOf(Marked(k, s)) /\ runner' = x
           /\ UNCHANGED <<prefetch, onDisk, engineOn, orphans, configured, starts, history>>
  <2>1. /\ IsRunner(x) /\ x.pc = goal /\ x.todo = todo /\ x.mem = Marked(k, s)
        /\ x.dry = runner.dry /\ x.id = runner.id
    BY DEF RunnerBase, RunnerTypes, IsRunner
  <2> HIDE DEF x
  <2>2. stateFile' \in [Ids -> States]
    BY <1>2, Marking DEF SaveOf, RunnerBase, RunnerTypes, WithARun
  <2>3. RunnerTypes'
    BY <1>2, <2>1, <2>2, Marking DEF RunnerBase, RunnerTypes, configured, history, WithARun
  <2>4. Ahead'
    <3>1. runner.todo # <<>> /\ Len(runner.todo) \in Nat /\ runner.todo \in Seq(Keys)
      BY LenProperties DEF RunnerBase, RunnerTypes, Ahead
    <3>2. Len(runner.todo) > 1 => Tail(runner.todo) # <<>> /\ Head(Tail(runner.todo)) = runner.todo[2]
      BY <3>1, SecondIsNext
    <3>3. UNCHANGED prefetch /\ runner'.pc = goal /\ runner'.todo = todo
      BY <1>2, <2>1
    <3>4. CASE goal \in WithARun /\ todo = runner.todo
      BY <3>1, <3>3, <3>4 DEF RunnerBase, Ahead, WithARun
    <3>5. CASE goal = "await" /\ todo = Tail(runner.todo)
      BY <3>1, <3>2, <3>3, <3>5 DEF RunnerBase, Ahead, WithARun
    <3>6. QED
      BY <3>4, <3>5
  <2>5. QED
    BY <2>3, <2>4 DEF RunnerBase
<1>3. QED
  BY <1>1, <1>2 DEF Update

LEMMA StartKeeps == ASSUME RunnerBase, StartRunner PROVE RunnerBase'
<1>1. /\ runner.pc = "off" /\ UNCHANGED <<prefetch, onDisk, cleanup>>
  BY DEF StartRunner, configured
<1>2. PICK i, dry, known, mem :
          /\ i \in Ids /\ dry \in BOOLEAN /\ known \in BOOLEAN
          /\ mem = IF known THEN stateFile[i] ELSE [NoState EXCEPT !.status = "running"]
          /\ runner' = [Off EXCEPT !.pc = "plan", !.id = i, !.dry = dry, !.mem = mem]
          /\ stateFile' = [stateFile EXCEPT ![i] = mem]
          /\ earned' = IF known THEN earned ELSE [earned EXCEPT ![i] = {}]
          /\ previewed' = IF dry THEN previewed \cup {i}
                          ELSE IF known THEN previewed ELSE previewed \ {i}
  BY Zenon DEF StartRunner
<1>3. mem \in States
  <2>1. stateFile[i] \in States
    BY <1>2 DEF RunnerBase, RunnerTypes
  <2>2. [NoState EXCEPT !.status = "running"] \in States
    BY DEF NoState, States, RunStatus
  <2>3. QED
    BY <1>2, <2>1, <2>2
<1> DEFINE x == [Off EXCEPT !.pc = "plan", !.id = i, !.dry = dry, !.mem = mem]
<1>4. /\ IsRunner(x) /\ x.pc = "plan" /\ x.id = i /\ x.dry = dry /\ x.mem = mem /\ x.todo = <<>>
  BY DEF IsRunner, Off
<1>5. runner' = x
  BY <1>2
<1> HIDE DEF x
<1>6. /\ stateFile' \in [Ids -> States] /\ earned' \in [Ids -> SUBSET Keys]
      /\ previewed' \subseteq Ids
  BY <1>2, <1>3 DEF RunnerBase, RunnerTypes
<1>7. prefetch.at = "none"
  BY <1>1 DEF RunnerBase, Ahead, WithARun
<1>8. RunnerTypes'
  BY <1>1, <1>2, <1>3, <1>4, <1>5, <1>6, OffIsSound DEF RunnerBase, RunnerTypes, RunnerPcs
<1>9. Ahead'
  BY <1>1, <1>4, <1>5, <1>7 DEF RunnerBase, Ahead, WithARun
<1>10. QED
  BY <1>8, <1>9 DEF RunnerBase

(* What a process plans, if it can save it.                                *)
PlansAs(plan, mem, todo) ==
    /\ plan \in ExpandRuns
    /\ mem = [runner.mem EXCEPT !.run =
                 [k \in Keys |-> IF @[k] = "none" /\ k \in ToSet(plan)
                                 THEN "pending" ELSE @[k]]]
    /\ todo = Without(plan, {k \in Keys : mem.run[k] \in DoneStatus})
    /\ \/ /\ SaveOf(mem)
          /\ runner' = [runner EXCEPT !.pc = "await", !.mem = mem, !.todo = todo,
                                      !.all = ToSet(plan)]
          /\ prefetch' = IF mode = "parallel" /\ todo # <<>>
                         THEN [todo |-> <<Head(todo)>>, at |-> "queued"]
                         ELSE NoPrefetch
          /\ UNCHANGED <<onDisk, engineOn, orphans, configured, starts, history, excused>>
       \/ Abort

LEMMA PlanSteps ==
    ASSUME PlanRuns
    PROVE  \E plan, mem, todo : PlansAs(plan, mem, todo)
  BY Zenon DEF PlanRuns, PlansAs

LEMMA PlanKeeps == ASSUME RunnerBase, PlanRuns PROVE RunnerBase'
<1>1. PICK plan, mem, todo : PlansAs(plan, mem, todo)
  BY PlanSteps
<1>2. CASE Abort
  BY <1>2, AbortKeeps
<1>3. CASE ~Abort
  <2>1. todo \in Seq(Keys)
    BY <1>1, Planned, WithoutIsTyped DEF PlansAs
  <2>2. mem \in States
    BY <1>1 DEF PlansAs, RunnerBase, RunnerTypes, States, RunStatus
  <2> DEFINE x == [runner EXCEPT !.pc = "await", !.mem = mem, !.todo = todo, !.all = ToSet(plan)]
  <2>3. /\ IsRunner(x) /\ x.pc = "await" /\ x.todo = todo /\ x.mem = mem
        /\ x.dry = runner.dry /\ x.id = runner.id
    BY DEF RunnerBase, RunnerTypes, IsRunner
  <2>4. runner' = x /\ UNCHANGED <<onDisk, cleanup, earned, previewed>> /\ SaveOf(mem)
    BY <1>1, <1>3 DEF PlansAs, configured, history
  <2> HIDE DEF x
  <2>5. runner.pc = "plan" /\ stateFile' \in [Ids -> States]
    BY <2>2, <2>4 DEF PlanRuns, SaveOf, RunnerBase, RunnerTypes
  <2>6. RunnerTypes'
    BY <2>1, <2>2, <2>3, <2>4, <2>5 DEF RunnerBase, RunnerTypes, RunnerPcs
  <2>7. Ahead'
    BY <1>1, <1>3, <2>1, <2>3, <2>4 DEF PlansAs, Ahead, WithARun, NoPrefetch
  <2>8. QED
    BY <2>6, <2>7 DEF RunnerBase
<1>4. QED
  BY <1>2, <1>3

(* The process goes on with the run it has, or comes to the next.          *)
LEMMA RunnerGoesOn ==
    ASSUME RunnerBase, NEW x, runner' = x, IsRunner(x), x.pc \in RunnerPcs \ {"off"},
           runner.pc \in WithARun, x.id = runner.id, x.dry = runner.dry, x.mem \in States,
           stateFile' \in [Ids -> States], onDisk' \in Disks, earned' \in [Ids -> SUBSET Keys],
           UNCHANGED <<prefetch, cleanup, previewed>>,
           \/ x.pc \in WithARun /\ x.todo = runner.todo
           \/ x.pc = "await" /\ x.todo = Tail(runner.todo)
    PROVE  RunnerBase'
<1>1. runner.todo # <<>> /\ runner.todo \in Seq(Keys) /\ Tail(runner.todo) \in Seq(Keys)
      /\ Len(runner.todo) \in Nat
  BY HeadTailProperties, LenProperties DEF RunnerBase, RunnerTypes, Ahead
<1>2. Len(runner.todo) > 1 => Tail(runner.todo) # <<>> /\ Head(Tail(runner.todo)) = runner.todo[2]
  BY <1>1, SecondIsNext
<1>3. RunnerTypes'
  BY <1>1 DEF RunnerBase, RunnerTypes, WithARun
<1>4. CASE x.pc \in WithARun /\ x.todo = runner.todo
  BY <1>1, <1>3, <1>4 DEF RunnerBase, Ahead, WithARun
<1>5. CASE x.pc = "await" /\ x.todo = Tail(runner.todo)
  BY <1>1, <1>2, <1>3, <1>5 DEF RunnerBase, Ahead, WithARun
<1>6. QED
  BY <1>4, <1>5

LEMMA NextKeeps == ASSUME RunnerBase, NextRun PROVE RunnerBase'
<1> DEFINE goal == IF runner.todo = <<>> THEN "finish" ELSE "check"
           x == [runner EXCEPT !.pc = goal]
<1>1. /\ runner.pc = "await" /\ runner' = x
      /\ prefetch' = IF mode = "parallel" /\ Len(runner.todo) > 1
                     THEN [todo |-> <<runner.todo[2]>>, at |-> "queued"] ELSE NoPrefetch
      /\ UNCHANGED <<stateFile, onDisk, cleanup, earned, previewed>>
  BY DEF NextRun, configured, history
<1>2. /\ IsRunner(x) /\ x.pc = goal /\ x.id = runner.id /\ x.dry = runner.dry
      /\ x.todo = runner.todo /\ x.mem = runner.mem
  BY DEF IsRunner, RunnerBase, RunnerTypes
<1>3. goal \in RunnerPcs \ {"off"} /\ (goal \in WithARun => runner.todo # <<>>)
      /\ (Len(runner.todo) > 1 => goal \in WithARun)
  BY LenProperties, EmptySeq DEF RunnerPcs, WithARun
<1> HIDE DEF x, goal
<1>4. RunnerTypes'
  BY <1>1, <1>2, <1>3 DEF RunnerBase, RunnerTypes
<1>5. Ahead'
  BY <1>1, <1>2, <1>3 DEF Ahead, NoPrefetch, WithARun
<1>6. QED
  BY <1>4, <1>5 DEF RunnerBase

LEMMA PrefetchKeeps == ASSUME RunnerBase, Prefetch PROVE RunnerBase'
<1>1. /\ UNCHANGED <<stateFile, runner, cleanup, earned, previewed>>
      /\ prefetch.at \in {"queued", "loading"}
      /\ prefetch' \in {[prefetch EXCEPT !.at = "done"], [prefetch EXCEPT !.at = "loading"]}
  BY DEF Prefetch, configured, history
<1>2. onDisk' \in Disks
  BY DEF Prefetch, RunnerBase, RunnerTypes, Disks
<1>3. prefetch'.at \in {"loading", "done"} /\ prefetch'.todo = prefetch.todo
      /\ prefetch' = [todo |-> prefetch'.todo, at |-> prefetch'.at]
  BY <1>1 DEF RunnerBase, Ahead
<1>4. RunnerTypes'
  BY <1>1, <1>2 DEF RunnerBase, RunnerTypes
<1>5. Ahead'
  BY <1>1, <1>3 DEF RunnerBase, Ahead
<1>6. QED
  BY <1>4, <1>5 DEF RunnerBase

LEMMA CheckSteps ==
    ASSUME CheckRun
    PROVE  /\ runner.pc = "check"
           /\ \/ Update(Current, "skipped", "await", Tail(runner.todo),
                        IF mode = "parallel" THEN {Current} ELSE {})
              \/ runner.dry /\ Update(Current, "running", "success", runner.todo, {})
              \/ ~runner.dry /\ Update(Current, "running", "download", runner.todo, {})
<1>1. CASE runner.dry
  BY <1>1 DEF CheckRun
<1>2. CASE ~runner.dry
  BY <1>2 DEF CheckRun
<1>3. QED
  BY <1>1, <1>2

LEMMA CheckKeeps == ASSUME RunnerBase, CheckRun PROVE RunnerBase'
<1>1. /\ runner.todo # <<>> /\ runner.todo \in Seq(Keys) /\ Tail(runner.todo) \in Seq(Keys)
      /\ runner.pc \in WithARun
  BY HeadTailProperties DEF CheckRun, RunnerBase, RunnerTypes, Ahead, WithARun
<1>2. {"await", "success", "download"} \subseteq RunnerPcs \ {"off"}
      /\ {"success", "download"} \subseteq WithARun /\ {"skipped", "running"} \subseteq RunStatus
  BY DEF RunnerPcs, WithARun, RunStatus
<1>3. CASE Update(Current, "skipped", "await", Tail(runner.todo),
                  IF mode = "parallel" THEN {Current} ELSE {})
  BY <1>1, <1>2, <1>3, UpdateKeeps
<1>4. CASE Update(Current, "running", "success", runner.todo, {})
  BY <1>1, <1>2, <1>4, UpdateKeeps
<1>5. CASE Update(Current, "running", "download", runner.todo, {})
  BY <1>1, <1>2, <1>5, UpdateKeeps
<1>6. QED
  BY <1>3, <1>4, <1>5, CheckSteps

(* What the actions that measure a run do to the runner.                   *)
LEMMA MeasuringSteps ==
    ASSUME RunnerBase,
           Download \/ StartBench \/ EndBench \/ RemoveModel \/ CleanupDocker \/ RemoveFailed
    PROVE  /\ runner.pc \in WithARun
           /\ UNCHANGED <<stateFile, prefetch, cleanup, previewed>>
           /\ IsRunner(runner') /\ runner'.pc \in RunnerPcs \ {"off"}
           /\ runner'.id = runner.id /\ runner'.dry = runner.dry /\ runner'.mem = runner.mem
           /\ \/ runner'.pc \in WithARun /\ runner'.todo = runner.todo
              \/ runner'.pc = "await" /\ runner'.todo = Tail(runner.todo)
           /\ onDisk' \in Disks /\ earned' \in [Ids -> SUBSET Keys]
<1>1. IsRunner(runner) /\ onDisk \in Disks /\ earned \in [Ids -> SUBSET Keys]
      /\ (runner.pc \in WithARun => Current \in Keys)
  BY HeadTailProperties DEF RunnerBase, RunnerTypes, Ahead, Current
<1>2. CASE Download
  <2>1. /\ runner.pc \in {"download", "loading"}
        /\ UNCHANGED <<stateFile, prefetch, cleanup, previewed, earned>>
    BY <1>2 DEF Download, configured, history
  <2>2. onDisk' \in Disks
    BY <1>1, <1>2 DEF Download, Disks
  <2>3. \/ \E path : runner' = [runner EXCEPT !.pc = "bench", !.path = path]
        \/ \E goal \in {"loading", "failure"} : runner' = [runner EXCEPT !.pc = goal]
    BY <1>2 DEF Download
  <2>4. /\ IsRunner(runner') /\ runner'.pc \in {"bench", "loading", "failure"}
        /\ runner'.id = runner.id
        /\ runner'.dry = runner.dry /\ runner'.mem = runner.mem /\ runner'.todo = runner.todo
    BY <1>1, <2>3 DEF IsRunner
  <2>5. QED
    BY <1>1, <2>1, <2>2, <2>4 DEF WithARun, RunnerPcs
<1>3. CASE StartBench
  <2>1. /\ runner.pc = "bench" /\ runner' = [runner EXCEPT !.pc = "measuring"]
        /\ UNCHANGED <<stateFile, prefetch, cleanup, previewed, earned, onDisk>>
    BY <1>3 DEF StartBench, configured, history
  <2>2. /\ IsRunner(runner') /\ runner'.pc = "measuring" /\ runner'.id = runner.id
        /\ runner'.dry = runner.dry /\ runner'.mem = runner.mem /\ runner'.todo = runner.todo
    BY <1>1, <2>1 DEF IsRunner
  <2>3. QED
    BY <1>1, <2>1, <2>2 DEF WithARun, RunnerPcs
<1>4. CASE EndBench
  <2>1. /\ runner.pc = "measuring"
        /\ UNCHANGED <<stateFile, prefetch, cleanup, previewed, onDisk>>
    BY <1>4 DEF EndBench, configured
  <2>2. earned' \in [Ids -> SUBSET Keys]
    BY <1>1, <1>4, <2>1 DEF EndBench, WithARun
  <2>3. PICK goal \in {"clean", "success", "failure"} :
            runner' = [runner EXCEPT !.pc = goal, !.path = <<>>]
    BY <1>4 DEF EndBench
  <2>4. /\ IsRunner(runner') /\ runner'.pc = goal /\ runner'.id = runner.id
        /\ runner'.dry = runner.dry /\ runner'.mem = runner.mem /\ runner'.todo = runner.todo
    BY <1>1, <2>3 DEF IsRunner
  <2>5. QED
    BY <1>1, <2>1, <2>2, <2>4 DEF WithARun, RunnerPcs
<1>5. CASE RemoveModel
  <2>1. /\ runner.pc = "clean" /\ runner' = [runner EXCEPT !.pc = "success"]
        /\ UNCHANGED <<stateFile, prefetch, cleanup, previewed, earned>>
    BY <1>5 DEF RemoveModel, configured, history
  <2>2. onDisk' \in Disks
    BY <1>1, <1>5 DEF RemoveModel, RemoveRepo, Disks
  <2>3. /\ IsRunner(runner') /\ runner'.pc = "success" /\ runner'.id = runner.id
        /\ runner'.dry = runner.dry /\ runner'.mem = runner.mem /\ runner'.todo = runner.todo
    BY <1>1, <2>1 DEF IsRunner
  <2>4. QED
    BY <1>1, <2>1, <2>2, <2>3 DEF WithARun, RunnerPcs
<1>6. CASE CleanupDocker
  <2>1. /\ runner.pc = "docker" /\ runner' = [runner EXCEPT !.pc = "remove"]
        /\ UNCHANGED <<stateFile, prefetch, cleanup, previewed, earned, onDisk>>
    BY <1>6 DEF CleanupDocker, configured, history
  <2>2. /\ IsRunner(runner') /\ runner'.pc = "remove" /\ runner'.id = runner.id
        /\ runner'.dry = runner.dry /\ runner'.mem = runner.mem /\ runner'.todo = runner.todo
    BY <1>1, <2>1 DEF IsRunner
  <2>3. QED
    BY <1>1, <2>1, <2>2 DEF WithARun, RunnerPcs
<1>7. CASE RemoveFailed
  <2>1. /\ runner.pc = "remove" /\ runner' = [runner EXCEPT !.pc = "await", !.todo = Tail(@)]
        /\ UNCHANGED <<stateFile, prefetch, cleanup, previewed, earned>>
    BY <1>7 DEF RemoveFailed, configured, history
  <2>2. onDisk' \in Disks
    BY <1>1, <1>7 DEF RemoveFailed, RemoveRepo, Disks
  <2>3. /\ IsRunner(runner') /\ runner'.pc = "await" /\ runner'.id = runner.id
        /\ runner'.dry = runner.dry /\ runner'.mem = runner.mem
        /\ runner'.todo = Tail(runner.todo)
    BY <1>1, <2>1 DEF IsRunner
  <2>4. QED
    BY <1>1, <2>1, <2>2, <2>3 DEF WithARun, RunnerPcs
<1>8. QED
  BY <1>2, <1>3, <1>4, <1>5, <1>6, <1>7

LEMMA RecordSteps ==
    ASSUME RunnerBase, RecordSuccess
    PROVE  /\ runner.pc = "success"
           /\ UNCHANGED <<prefetch, onDisk, engineOn, cleanup, earned, previewed, mode>>
           /\ IsRunner(runner') /\ runner'.id = runner.id /\ runner'.dry = runner.dry
           /\ runner'.mem = Marked(Current, "success") /\ runner'.mem \in States
           /\ \/ /\ runner'.pc = "await" /\ runner'.todo = Tail(runner.todo)
                 /\ SaveOf(Marked(Current, "success"))
                 /\ excused' = IF cleanup /\ ~runner.dry THEN excused
                               ELSE excused \cup ModelMarks({Current})
              \/ /\ runner'.pc = "failure" /\ runner'.todo = runner.todo
                 /\ UNCHANGED <<stateFile, excused>>
           /\ stateFile' \in [Ids -> States]
<1>1. IsRunner(runner) /\ Marked(Current, "success") \in States
  BY Marking DEF RunnerBase, RunnerTypes, RunStatus
<1>2. /\ runner.pc = "success"
      /\ UNCHANGED <<prefetch, onDisk, engineOn, cleanup, earned, previewed, mode>>
  BY DEF RecordSuccess, configured, history
<1>3. CASE /\ SaveOf(Marked(Current, "success"))
           /\ runner' = [runner EXCEPT !.mem = Marked(Current, "success"), !.pc = "await",
                                       !.todo = Tail(@)]
           /\ excused' = IF cleanup /\ ~runner.dry THEN excused
                         ELSE excused \cup ModelMarks({Current})
  <2>1. stateFile' \in [Ids -> States]
    BY <1>1, <1>2, <1>3 DEF SaveOf, RunnerBase, RunnerTypes
  <2>2. /\ IsRunner(runner') /\ runner'.pc = "await" /\ runner'.id = runner.id
        /\ runner'.dry = runner.dry /\ runner'.mem = Marked(Current, "success")
        /\ runner'.todo = Tail(runner.todo)
    BY <1>1, <1>3 DEF IsRunner
  <2>3. QED
    BY <1>1, <1>2, <1>3, <2>1, <2>2
<1>4. CASE /\ runner' = [runner EXCEPT !.mem = Marked(Current, "success"), !.pc = "failure"]
           /\ UNCHANGED <<stateFile, excused>>
  <2>1. /\ IsRunner(runner') /\ runner'.pc = "failure" /\ runner'.id = runner.id
        /\ runner'.dry = runner.dry /\ runner'.mem = Marked(Current, "success")
        /\ runner'.todo = runner.todo
    BY <1>1, <1>4 DEF IsRunner
  <2>2. QED
    BY <1>1, <1>2, <1>4, <2>1 DEF RunnerBase, RunnerTypes
<1>5. QED
  BY <1>3, <1>4 DEF RecordSuccess

LEMMA BaseStepKeeps == ASSUME RunnerBase, [RunnerNext]_runnerVars PROVE RunnerBase'
<1>1. CASE UNCHANGED runnerVars
  BY <1>1 DEF runnerVars, configured, RunnerBase, RunnerTypes, Ahead
<1>2. CASE Download \/ StartBench \/ EndBench \/ RemoveModel \/ CleanupDocker \/ RemoveFailed
  <2>1. stateFile \in [Ids -> States] /\ runner.mem \in States
    BY DEF RunnerBase, RunnerTypes
  <2>2. QED
    BY <1>2, <2>1, MeasuringSteps, RunnerGoesOn
<1>3. CASE RecordSuccess
  BY <1>3, RecordSteps, RunnerGoesOn DEF RunnerBase, RunnerTypes, WithARun, RunnerPcs
<1>4. CASE RecordFailure
  <2>1. Update(Current, "failed", "docker", runner.todo, {}) /\ runner.pc = "failure"
        /\ runner.todo \in Seq(Keys)
    BY <1>4 DEF RecordFailure, RunnerBase, RunnerTypes
  <2>2. QED
    BY <2>1, UpdateKeeps DEF RunStatus, RunnerPcs, WithARun
<1>5. CASE Finish
  <2>1. CASE Abort
    BY <2>1, AbortKeeps
  <2>2. CASE /\ SaveOf([runner.mem EXCEPT !.status = "completed"]) /\ runner' = Off
             /\ UNCHANGED <<prefetch, onDisk, cleanup, earned, previewed>>
    <3>1. runner.pc = "finish" /\ [runner.mem EXCEPT !.status = "completed"] \in States
      BY <1>5 DEF Finish, RunnerBase, RunnerTypes, States
    <3>2. stateFile' \in [Ids -> States]
      BY <2>2, <3>1 DEF SaveOf, RunnerBase, RunnerTypes
    <3>3. RunnerTypes'
      BY <2>2, <3>2, OffIsSound DEF RunnerBase, RunnerTypes
    <3>4. Ahead'
      BY <2>2, <3>1, OffIsSound DEF RunnerBase, Ahead, WithARun
    <3>5. QED
      BY <3>3, <3>4 DEF RunnerBase
  <2>3. QED
    BY <1>5, <2>1, <2>2 DEF Finish, configured, history
<1>6. CASE RunnerDies
  <2>1. /\ runner' = Off /\ prefetch' = NoPrefetch
        /\ UNCHANGED <<stateFile, onDisk, cleanup, earned, previewed>>
    BY <1>6 DEF RunnerDies, configured, history
  <2>2. RunnerTypes'
    BY <2>1, OffIsSound DEF RunnerBase, RunnerTypes
  <2>3. Ahead'
    BY <2>1, OffIsSound DEF Ahead, NoPrefetch
  <2>4. QED
    BY <2>2, <2>3 DEF RunnerBase
<1>7. CASE OrphanEnds
  BY <1>7 DEF OrphanEnds, configured, history, RunnerBase, RunnerTypes, Ahead
<1>8. QED
  BY <1>1, <1>2, <1>3, <1>4, <1>5, <1>6, <1>7, StartKeeps, PlanKeeps, NextKeeps, PrefetchKeeps,
     CheckKeeps DEF RunnerNext

-----------------------------------------------------------------------------

(* From the end of its download to that of its benchmark, the file that a  *)
(* run measures is wholly on the disk.                                     *)
WholeOnceReady ==
    runner.pc \in {"bench", "measuring"} /\ runner.path = <<Current>> /\ Current \notin InContainer
        => onDisk[Current] = "whole"

LEMMA Updated ==
    ASSUME RunnerBase, NEW k, NEW s, NEW goal, NEW todo, NEW stays, Update(k, s, goal, todo, stays)
    PROVE  /\ Abort \/ /\ IsRunner(runner') /\ runner'.pc = goal /\ runner'.todo = todo
                       /\ runner'.mem = Marked(k, s) /\ SaveOf(Marked(k, s))
                       /\ runner'.id = runner.id /\ runner'.dry = runner.dry
                       /\ excused' = excused \cup ModelMarks(stays)
                       /\ UNCHANGED <<prefetch, onDisk, engineOn, cleanup, mode>>
           /\ UNCHANGED <<earned, previewed>>
<1>1. IsRunner(runner)
  BY DEF RunnerBase, RunnerTypes
<1>2. UNCHANGED <<earned, previewed>>
  BY DEF Update, Abort, history
<1>3. CASE /\ SaveOf(Marked(k, s))
           /\ runner' = [runner EXCEPT !.mem = Marked(k, s), !.pc = goal, !.todo = todo]
           /\ excused' = excused \cup ModelMarks(stays)
           /\ UNCHANGED <<prefetch, onDisk, engineOn, configured>>
  <2>1. /\ IsRunner(runner') /\ runner'.pc = goal /\ runner'.todo = todo
        /\ runner'.mem = Marked(k, s) /\ runner'.id = runner.id /\ runner'.dry = runner.dry
    BY <1>1, <1>3 DEF IsRunner
  <2>2. QED
    BY <1>2, <1>3, <2>1 DEF configured
<1>4. QED
  BY <1>2, <1>3 DEF Update

(* Only the end of a download makes a run ready to be measured.            *)
LEMMA ReadyOnlyByDownload ==
    ASSUME RunnerBase, [RunnerNext]_runnerVars, runner'.pc \in {"bench", "measuring"}
    PROVE  \/ Download
           \/ StartBench
           \/ UNCHANGED runner /\ (Prefetch \/ OrphanEnds \/ UNCHANGED runnerVars)
<1>1. IsRunner(runner) /\ Off.pc = "off"
  BY OffIsSound DEF RunnerBase, RunnerTypes
<1>2. ~StartRunner
  BY <1>1 DEF StartRunner, Off
<1>3. ~PlanRuns
  <2>1. ASSUME PlanRuns PROVE runner'.pc \in {"await", "off"}
    BY <1>1, <2>1 DEF PlanRuns, Abort, IsRunner
  <2>2. QED
    BY <2>1
<1>4. ~NextRun
  BY <1>1 DEF NextRun, IsRunner
<1>5. ~CheckRun
  <2>1. ASSUME CheckRun PROVE runner'.pc \in {"await", "download", "success", "off"}
    BY <1>1, <2>1, CheckSteps, Updated DEF Abort
  <2>2. QED
    BY <2>1
<1>6. ~EndBench /\ ~RemoveModel /\ ~CleanupDocker /\ ~RemoveFailed
  BY <1>1 DEF EndBench, RemoveModel, CleanupDocker, RemoveFailed, IsRunner
<1>7. ~RecordSuccess
  BY RecordSteps
<1>8. ~RecordFailure
  BY <1>1, Updated DEF RecordFailure, Abort
<1>9. ~Finish /\ ~RunnerDies
  BY <1>1 DEF Finish, RunnerDies, Abort
<1>10. QED
  BY <1>2, <1>3, <1>4, <1>5, <1>6, <1>7, <1>8, <1>9
     DEF RunnerNext, Prefetch, OrphanEnds, runnerVars

LEMMA WholeStepKeeps ==
    ASSUME RunnerBase, WholeOnceReady, [RunnerNext]_runnerVars
    PROVE  WholeOnceReady'
<1> SUFFICES ASSUME runner'.pc \in {"bench", "measuring"}, runner'.path = <<Head(runner'.todo)>>,
                    Head(runner'.todo) \notin InContainer
             PROVE  onDisk'[Head(runner'.todo)] = "whole"
  BY DEF WholeOnceReady, Current
<1>1. IsRunner(runner) /\ onDisk \in Disks
  BY DEF RunnerBase, RunnerTypes
<1>2. CASE Download
  <2>1. runner.pc \in WithARun /\ Current \in Keys
    BY <1>2, HeadTailProperties DEF Download, WithARun, RunnerBase, RunnerTypes, Ahead, Current
  <2>2. runner'.todo = runner.todo /\ runner'.pc # "loading"
    BY <1>1, <1>2 DEF Download, IsRunner
  <2>3. ~(runner' = [runner EXCEPT !.pc = "loading"]) /\ ~(runner' = [runner EXCEPT !.pc = "failure"])
    BY <1>1 DEF IsRunner
  <2>4. onDisk' = [onDisk EXCEPT ![Current] = "whole"]
    BY <1>2, <2>2, <2>3 DEF Download, Current
  <2>5. QED
    BY <1>1, <2>1, <2>2, <2>4 DEF Disks, Current
<1>3. CASE StartBench
  <2>1. runner.pc = "bench" /\ UNCHANGED onDisk /\ runner'.todo = runner.todo
        /\ runner'.path = runner.path
    BY <1>1, <1>3 DEF StartBench, IsRunner
  <2>2. QED
    BY <2>1 DEF WholeOnceReady, Current
<1>4. CASE UNCHANGED runner /\ Prefetch
  <2>1. onDisk[Current] = "whole" /\ UNCHANGED runner
    BY <1>4 DEF WholeOnceReady, Current
  <2>2. Current \in Keys
    BY <1>4, HeadTailProperties DEF WithARun, RunnerBase, RunnerTypes, Ahead, Current
  <2>3. onDisk'[Current] = "whole"
    BY <1>1, <1>4, <2>1, <2>2 DEF Prefetch, Disks
  <2>4. QED
    BY <2>1, <2>3 DEF Current
<1>5. CASE UNCHANGED runner /\ (OrphanEnds \/ UNCHANGED runnerVars)
  BY <1>5 DEF OrphanEnds, runnerVars, WholeOnceReady, Current
<1>6. QED
  BY <1>2, <1>3, <1>4, <1>5, ReadyOnlyByDownload

(* Whatever the thread downloads meanwhile, and whatever the end of an     *)
(* earlier run removed: a model that is measured by its own path is whole. *)
THEOREM MeasuresWholeModelAlways == RunnerSpec => []MeasuresWholeModel
<1>1. RunnerInit => RunnerBase /\ WholeOnceReady
  BY BaseInit, OffIsSound DEF RunnerInit, WholeOnceReady
<1>2. RunnerBase /\ WholeOnceReady /\ [RunnerNext]_runnerVars => (RunnerBase /\ WholeOnceReady)'
  BY BaseStepKeeps, WholeStepKeeps
<1>3. RunnerBase /\ WholeOnceReady => MeasuresWholeModel
  BY DEF WholeOnceReady, MeasuresWholeModel
<1>4. QED
  BY <1>1, <1>2, <1>3, PTL DEF RunnerSpec

-----------------------------------------------------------------------------

(* What the memory of the process and its file say was earned.             *)
MemoryIsEarned ==
    /\ \A i \in Ids \ previewed, k \in Keys :
          stateFile[i].run[k] = "success" => k \in earned[i]
    /\ runner.pc # "off" /\ runner.id \notin previewed =>
          /\ ~runner.dry
          /\ \A k \in Keys : runner.mem.run[k] = "success" => k \in earned[runner.id]
          /\ runner.pc \in {"clean", "success"} => Current \in earned[runner.id]

(* A step writes the memory of the process to its file, or nothing.        *)
MemorySaved ==
    \/ UNCHANGED stateFile
    \/ stateFile' = [stateFile EXCEPT ![runner.id] = runner'.mem]

(* A step that marks no run as a success, and forgets none that was.       *)
LEMMA NoNewSuccess ==
    ASSUME RunnerBase, MemoryIsEarned, UNCHANGED <<earned, previewed>>,
           runner.pc # "off", MemorySaved, runner'.id = runner.id, runner'.dry = runner.dry,
           \A k \in Keys : runner'.mem.run[k] = "success" => runner.mem.run[k] = "success",
           \/ runner'.pc \notin {"clean", "success"}
           \/ runner.dry
           \/ runner.pc = "clean" /\ runner'.todo = runner.todo
    PROVE  MemoryIsEarned'
<1>1. runner.id \in Ids /\ stateFile \in [Ids -> States]
  BY DEF RunnerBase, RunnerTypes
<1>2. ASSUME NEW i \in Ids \ previewed, NEW k \in Keys, stateFile'[i].run[k] = "success"
      PROVE  k \in earned[i]
  <2>1. CASE stateFile'[i] = stateFile[i]
    BY <1>2, <2>1 DEF MemoryIsEarned
  <2>2. CASE stateFile'[i] # stateFile[i]
    <3>1. i = runner.id /\ stateFile'[i] = runner'.mem
      BY <1>1, <1>2, <2>2 DEF MemorySaved
    <3>2. QED
      BY <1>2, <3>1 DEF MemoryIsEarned
  <2>3. QED
    BY <2>1, <2>2
<1>3. QED
  BY <1>2 DEF MemoryIsEarned, Current

LEMMA MarkedIs ==
    ASSUME RunnerBase, NEW l, NEW s
    PROVE  \A k \in Keys : Marked(l, s).run[k] = IF k = l THEN s ELSE runner.mem.run[k]
  BY DEF RunnerBase, RunnerTypes, States, Marked

LEMMA AbortEarns == ASSUME RunnerBase, MemoryIsEarned, Abort PROVE MemoryIsEarned'
<1>1. UNCHANGED <<stateFile, earned, previewed>> /\ runner'.pc = "off"
  BY OffIsSound DEF Abort, history
<1>2. QED
  BY <1>1 DEF MemoryIsEarned

LEMMA UpdateEarns ==
    ASSUME RunnerBase, MemoryIsEarned, NEW k, NEW s, NEW goal, NEW todo, NEW stays,
           Update(k, s, goal, todo, stays), runner.pc # "off", s # "success",
           goal \notin {"clean", "success"} \/ runner.dry
    PROVE  MemoryIsEarned'
<1>1. CASE Abort
  BY <1>1, AbortEarns
<1>2. CASE ~Abort
  <2>1. /\ runner'.pc = goal /\ runner'.mem = Marked(k, s) /\ SaveOf(Marked(k, s))
        /\ runner'.id = runner.id /\ runner'.dry = runner.dry /\ UNCHANGED <<earned, previewed>>
    BY <1>2, Updated
  <2>2. \A l \in Keys : runner'.mem.run[l] = "success" => runner.mem.run[l] = "success"
    BY <2>1, MarkedIs
  <2>3. stateFile' = [stateFile EXCEPT ![runner.id] = runner'.mem]
    BY <2>1 DEF SaveOf
  <2>4. QED
    BY <2>1, <2>2, <2>3, NoNewSuccess DEF MemorySaved
<1>3. QED
  BY <1>1, <1>2

LEMMA StartEarns == ASSUME RunnerBase, MemoryIsEarned, StartRunner PROVE MemoryIsEarned'
<1>1. PICK i, dry, known, mem :
          /\ i \in Ids /\ dry \in BOOLEAN /\ known \in BOOLEAN
          /\ mem = IF known THEN stateFile[i] ELSE [NoState EXCEPT !.status = "running"]
          /\ runner' = [Off EXCEPT !.pc = "plan", !.id = i, !.dry = dry, !.mem = mem]
          /\ stateFile' = [stateFile EXCEPT ![i] = mem]
          /\ earned' = IF known THEN earned ELSE [earned EXCEPT ![i] = {}]
          /\ previewed' = IF dry THEN previewed \cup {i}
                          ELSE IF known THEN previewed ELSE previewed \ {i}
  BY Zenon DEF StartRunner
<1>2. /\ runner'.pc = "plan" /\ runner'.id = i /\ runner'.dry = dry /\ runner'.mem = mem
  BY <1>1, OffIsSound DEF IsRunner
<1>3. \A k \in Keys : ~known => mem.run[k] = "none"
  BY <1>1 DEF NoState
<1>4. stateFile \in [Ids -> States] /\ earned \in [Ids -> SUBSET Keys] /\ previewed \subseteq Ids
  BY DEF RunnerBase, RunnerTypes
<1>5. ASSUME i \notin previewed' PROVE ~dry /\ (known => i \notin previewed)
  BY <1>1, <1>4, <1>5
<1>6. ASSUME i \notin previewed', NEW k \in Keys, mem.run[k] = "success" PROVE k \in earned'[i]
  <2>1. known /\ mem = stateFile[i] /\ earned' = earned /\ i \notin previewed
    BY <1>1, <1>3, <1>5, <1>6
  <2>2. QED
    BY <1>1, <1>6, <2>1 DEF MemoryIsEarned
<1>7. ASSUME NEW j \in Ids \ previewed', NEW k \in Keys, stateFile'[j].run[k] = "success"
      PROVE  k \in earned'[j]
  <2>1. CASE j = i
    BY <1>1, <1>4, <1>6, <1>7, <2>1
  <2>2. CASE j # i
    <3>1. stateFile'[j] = stateFile[j] /\ earned'[j] = earned[j] /\ j \notin previewed
      BY <1>1, <1>4, <1>7, <2>2
    <3>2. QED
      BY <1>7, <3>1 DEF MemoryIsEarned
  <2>3. QED
    BY <2>1, <2>2
<1>8. QED
  BY <1>2, <1>5, <1>6, <1>7 DEF MemoryIsEarned

LEMMA MeasuringEarns ==
    ASSUME RunnerBase, MemoryIsEarned,
           Download \/ StartBench \/ EndBench \/ RemoveModel \/ CleanupDocker \/ RemoveFailed
    PROVE  MemoryIsEarned'
<1>1. /\ runner.pc \in WithARun /\ UNCHANGED <<stateFile, previewed>>
      /\ runner'.id = runner.id /\ runner'.dry = runner.dry /\ runner'.mem = runner.mem
  BY MeasuringSteps
<1>2. IsRunner(runner) /\ earned \in [Ids -> SUBSET Keys] /\ runner.id \in Ids /\ runner.pc # "off"
  BY <1>1 DEF RunnerBase, RunnerTypes, WithARun
<1>3. CASE EndBench
  <2>1. /\ runner.pc = "measuring" /\ runner'.todo = runner.todo
        /\ runner'.pc \in {"clean", "success", "failure"}
        /\ \/ earned' = [earned EXCEPT ![runner.id] = @ \cup {Current}]
           \/ UNCHANGED earned /\ runner'.pc = "failure"
    BY <1>2, <1>3 DEF EndBench, IsRunner
  <2>2. \A i \in Ids : earned[i] \subseteq earned'[i]
    BY <1>2, <2>1
  <2>3. runner'.pc \in {"clean", "success"} => Head(runner'.todo) \in earned'[runner.id]
    BY <1>2, <2>1 DEF Current
  <2>4. QED
    BY <1>1, <1>2, <2>1, <2>2, <2>3 DEF MemoryIsEarned, Current
<1>4. CASE ~EndBench
  <2>1. UNCHANGED earned
    BY <1>4 DEF Download, StartBench, RemoveModel, CleanupDocker, RemoveFailed, history
  <2>2. \/ runner'.pc \notin {"clean", "success"}
        \/ runner.pc = "clean" /\ runner'.todo = runner.todo
    BY <1>2, <1>4
       DEF Download, StartBench, RemoveModel, CleanupDocker, RemoveFailed, IsRunner
  <2>3. QED
    BY <1>1, <1>2, <2>1, <2>2, NoNewSuccess DEF MemorySaved
<1>5. QED
  BY <1>3, <1>4

LEMMA RecordEarns == ASSUME RunnerBase, MemoryIsEarned, RecordSuccess PROVE MemoryIsEarned'
<1>1. /\ runner.pc = "success" /\ UNCHANGED <<earned, previewed>>
      /\ runner'.id = runner.id /\ runner'.dry = runner.dry
      /\ runner'.mem = Marked(Current, "success") /\ runner'.pc \in {"await", "failure"}
      /\ UNCHANGED stateFile \/ SaveOf(Marked(Current, "success"))
  BY RecordSteps
<1>2. runner.id \in Ids /\ stateFile \in [Ids -> States]
  BY <1>1 DEF RunnerBase, RunnerTypes
<1>3. ASSUME runner.id \notin previewed, NEW k \in Keys, runner'.mem.run[k] = "success"
      PROVE  k \in earned[runner.id]
  BY <1>1, <1>3, MarkedIs DEF MemoryIsEarned
<1>4. ASSUME NEW i \in Ids \ previewed, NEW k \in Keys, stateFile'[i].run[k] = "success"
      PROVE  k \in earned[i]
  <2>1. CASE stateFile'[i] = stateFile[i]
    BY <1>4, <2>1 DEF MemoryIsEarned
  <2>2. CASE stateFile'[i] # stateFile[i]
    <3>1. i = runner.id /\ stateFile'[i] = runner'.mem
      BY <1>1, <1>2, <1>4, <2>2 DEF SaveOf
    <3>2. QED
      BY <1>3, <1>4, <3>1
  <2>3. QED
    BY <2>1, <2>2
<1>5. QED
  BY <1>1, <1>3, <1>4 DEF MemoryIsEarned

LEMMA EarnedStepKeeps ==
    ASSUME RunnerBase, MemoryIsEarned, [RunnerNext]_runnerVars
    PROVE  MemoryIsEarned'
<1>1. IsRunner(runner)
  BY DEF RunnerBase, RunnerTypes
<1>2. CASE \/ UNCHANGED runnerVars
           \/ Prefetch
           \/ OrphanEnds
  BY <1>2 DEF runnerVars, Prefetch, OrphanEnds, history, MemoryIsEarned, Current
<1>3. CASE PlanRuns
  <2>1. PICK plan, mem, todo : PlansAs(plan, mem, todo)
    BY <1>3, PlanSteps
  <2>2. CASE Abort
    BY <2>2, AbortEarns
  <2>3. CASE ~Abort
    <3>1. /\ runner'.pc = "await" /\ runner'.mem = mem /\ runner'.id = runner.id
          /\ runner'.dry = runner.dry
      BY <1>1, <2>1, <2>3 DEF PlansAs, IsRunner
    <3>2. \A k \in Keys : mem.run[k] = "success" => runner.mem.run[k] = "success"
      BY <2>1 DEF PlansAs, RunnerBase, RunnerTypes, States
    <3>3. /\ stateFile' = [stateFile EXCEPT ![runner.id] = runner'.mem]
          /\ UNCHANGED <<earned, previewed>> /\ runner.pc = "plan"
      BY <1>3, <2>1, <2>3, <3>1 DEF PlansAs, SaveOf, history, PlanRuns
    <3>4. QED
      BY <3>1, <3>2, <3>3, NoNewSuccess DEF MemorySaved
  <2>4. QED
    BY <2>2, <2>3
<1>4. CASE NextRun
  <2>1. /\ runner'.pc \in {"finish", "check"} /\ runner'.mem = runner.mem
        /\ runner'.id = runner.id /\ runner'.dry = runner.dry /\ runner.pc = "await"
        /\ UNCHANGED <<stateFile, earned, previewed>>
    BY <1>1, <1>4 DEF NextRun, IsRunner, history
  <2>2. QED
    BY <2>1, NoNewSuccess DEF MemorySaved
<1>5. CASE CheckRun
  BY <1>5, CheckSteps, UpdateEarns
<1>6. CASE RecordFailure
  BY <1>6, UpdateEarns DEF RecordFailure
<1>7. CASE Finish
  <2>1. CASE Abort
    BY <2>1, AbortEarns
  <2>2. CASE SaveOf([runner.mem EXCEPT !.status = "completed"]) /\ runner' = Off
             /\ UNCHANGED history
    <3> DEFINE mem == [runner.mem EXCEPT !.status = "completed"]
    <3>1. mem.run = runner.mem.run /\ runner.pc = "finish" /\ runner.id \in Ids
      BY <1>7 DEF RunnerBase, RunnerTypes, States, Finish
    <3>2. stateFile' = [stateFile EXCEPT ![runner.id] = mem] /\ runner'.pc = "off"
          /\ UNCHANGED <<earned, previewed>>
      BY <2>2, OffIsSound DEF SaveOf, history
    <3> HIDE DEF mem
    <3>3. ASSUME NEW i \in Ids \ previewed, NEW k \in Keys, stateFile'[i].run[k] = "success"
          PROVE  k \in earned[i]
      <4>1. CASE i = runner.id
        BY <3>1, <3>2, <3>3, <4>1 DEF MemoryIsEarned, RunnerBase, RunnerTypes
      <4>2. CASE i # runner.id
        BY <3>1, <3>2, <3>3, <4>2 DEF MemoryIsEarned, RunnerBase, RunnerTypes
      <4>3. QED
        BY <4>1, <4>2
    <3>4. QED
      BY <3>2, <3>3 DEF MemoryIsEarned
  <2>3. QED
    BY <1>7, <2>1, <2>2 DEF Finish
<1>8. CASE RunnerDies
  <2>1. UNCHANGED <<stateFile, earned, previewed>> /\ runner'.pc = "off"
    BY <1>8, OffIsSound DEF RunnerDies, history
  <2>2. QED
    BY <2>1 DEF MemoryIsEarned
<1>9. QED
  BY <1>2, <1>3, <1>4, <1>5, <1>6, <1>7, <1>8, StartEarns, MeasuringEarns, RecordEarns
     DEF RunnerNext

(* Every success in a campaign's file, in whatever process it was written  *)
(* and however often those died or failed to save, was measured, but for a *)
(* campaign that was previewed.                                            *)
THEOREM RecordedIsEarnedAlways == RunnerSpec => []RecordedIsEarned
<1>1. RunnerInit => RunnerBase /\ MemoryIsEarned
  <2>1. RunnerInit => MemoryIsEarned
    BY OffIsSound DEF RunnerInit, MemoryIsEarned, NoState
  <2>2. QED
    BY <2>1, BaseInit
<1>2. RunnerBase /\ MemoryIsEarned /\ [RunnerNext]_runnerVars => (RunnerBase /\ MemoryIsEarned)'
  BY BaseStepKeeps, EarnedStepKeeps
<1>3. RunnerBase /\ MemoryIsEarned => RecordedIsEarned
  BY DEF MemoryIsEarned, RecordedIsEarned
<1>4. QED
  BY <1>1, <1>2, <1>3, PTL DEF RunnerSpec

-----------------------------------------------------------------------------

(* The model of the run that is under way, unless it has just been removed *)
(* or was never there, and the engine of one that is measured or failed.   *)
HoldsModel ==
    \/ runner.pc \in {"download", "loading", "bench", "measuring", "clean", "failure", "docker",
                      "remove"}
    \/ runner.pc = "check" /\ mode = "parallel"
    \/ runner.pc = "success" /\ (~cleanup \/ runner.dry)
HoldsEngine == runner.pc \in {"measuring", "failure", "docker"}

(* A process that runs answers for the models that it and its thread have  *)
(* in hand and for that engine; the rest is explained already.             *)
RestIsExplained ==
    /\ prefetch.at # "none" => mode = "parallel"
    /\ \A k \in Stored : \/ <<"model", k>> \in excused
                         \/ prefetch.at # "none" /\ k = Head(prefetch.todo)
                         \/ HoldsModel /\ k = Current
    /\ \A k \in engineOn : \/ <<"engine", k>> \in excused
                           \/ HoldsEngine /\ k = Current

LEMMA Marks ==
    \A k, ks : /\ <<"model", k>> \in ModelMarks(ks) <=> k \in ks
               /\ <<"engine", k>> \in EngineMarks(ks) <=> k \in ks
  BY DEF ModelMarks, EngineMarks

LEMMA Ends ==
    ASSUME RunnerBase, RestIsExplained, runner' = Off, prefetch' = NoPrefetch,
           Stored' \subseteq Stored \cup ToSet(prefetch.todo), engineOn' \subseteq engineOn,
           excused' = excused \cup ModelMarks(Stored \cup ToSet(prefetch.todo))
                              \cup EngineMarks(engineOn)
    PROVE  RestIsExplained'
  BY Marks, OffIsSound DEF RestIsExplained, NoPrefetch

LEMMA AbortExplains == ASSUME RunnerBase, RestIsExplained, Abort PROVE RestIsExplained'
<1>1. /\ runner' = Off /\ prefetch' = NoPrefetch /\ UNCHANGED engineOn
      /\ excused' = excused \cup ModelMarks(Stored \cup ToSet(prefetch.todo)) \cup EngineMarks(engineOn)
  BY DEF Abort
<1>2. prefetch.at # "none" => \E k : prefetch.todo = <<k>>
  BY DEF RunnerBase, Ahead
<1>3. prefetch.at # "none" => Head(prefetch.todo) \in ToSet(prefetch.todo)
  BY <1>2 DEF ToSet
<1>4. onDisk \in Disks
  BY DEF RunnerBase, RunnerTypes
<1>5. Stored' \subseteq Stored \cup ToSet(prefetch.todo)
  BY <1>3, <1>4 DEF Abort, Stored, Disks
<1>6. QED
  BY <1>1, <1>5, Ends

LEMMA RunIsAKey == ASSUME RunnerBase, runner.pc \in WithARun PROVE Current \in Keys
  BY HeadTailProperties DEF RunnerBase, RunnerTypes, Ahead, Current

LEMMA PrefetchExplains == ASSUME RunnerBase, RestIsExplained, Prefetch PROVE RestIsExplained'
<1>1. /\ UNCHANGED <<runner, excused, engineOn, mode, cleanup>>
      /\ prefetch.at # "none" /\ prefetch' \in {[prefetch EXCEPT !.at = "done"],
                                                 [prefetch EXCEPT !.at = "loading"]}
  BY DEF Prefetch, configured
<1>2. prefetch'.at # "none" /\ prefetch'.todo = prefetch.todo
  BY <1>1 DEF RunnerBase, Ahead
<1>3. \A k \in Keys : k # Head(prefetch.todo) => onDisk'[k] = onDisk[k]
  BY DEF Prefetch, RunnerBase, RunnerTypes, Disks
<1>4. QED
  BY <1>1, <1>2, <1>3 DEF RestIsExplained, Stored, HoldsModel, HoldsEngine, Current

LEMMA NextExplains == ASSUME RunnerBase, RestIsExplained, NextRun PROVE RestIsExplained'
<1>1. /\ runner.pc = "await" /\ UNCHANGED <<onDisk, engineOn, excused, mode, cleanup>>
      /\ runner'.pc = IF runner.todo = <<>> THEN "finish" ELSE "check"
      /\ runner'.todo = runner.todo
      /\ prefetch'.at # "none" => mode = "parallel"
  BY DEF NextRun, configured, NoPrefetch, RunnerBase, RunnerTypes, IsRunner
<1>2. prefetch.at # "none" => runner.todo # <<>> /\ Head(prefetch.todo) = Head(runner.todo)
  BY <1>1 DEF RunnerBase, Ahead
<1>3. QED
  BY <1>1, <1>2 DEF RestIsExplained, Stored, HoldsModel, HoldsEngine, Current

LEMMA CheckExplains == ASSUME RunnerBase, RestIsExplained, CheckRun PROVE RestIsExplained'
<1>1. CASE Abort
  BY <1>1, AbortExplains
<1>2. CASE ~Abort
  <2>1. runner.pc = "check" /\ UNCHANGED <<prefetch, onDisk, engineOn, cleanup, mode>>
        /\ runner'.dry = runner.dry
    BY <1>2, CheckSteps, Updated
  <2>2. \/ /\ runner'.pc = "await"
           /\ excused' = excused \cup ModelMarks(IF mode = "parallel" THEN {Current} ELSE {})
        \/ /\ runner'.todo = runner.todo /\ excused' = excused \cup ModelMarks({})
           /\ runner'.pc = "success"
           /\ runner.dry
        \/ /\ runner'.todo = runner.todo /\ excused' = excused \cup ModelMarks({})
           /\ runner'.pc = "download"
    BY <1>2, CheckSteps, Updated
  <2>3. excused \subseteq excused'
    BY <2>2
  <2>4. runner'.pc = "await" /\ mode = "parallel" => <<"model", Current>> \in excused'
    BY <2>2, Marks
  <2>5. CASE runner'.pc = "await"
    BY <2>1, <2>3, <2>4, <2>5 DEF RestIsExplained, Stored, HoldsModel, HoldsEngine
  <2>6. CASE runner'.pc # "await"
    BY <2>1, <2>2, <2>3, <2>6 DEF RestIsExplained, Stored, HoldsModel, HoldsEngine, Current
  <2>7. QED
    BY <2>5, <2>6
<1>3. QED
  BY <1>1, <1>2

LEMMA MeasuringExplains ==
    ASSUME RunnerBase, RestIsExplained, Download \/ StartBench \/ EndBench \/ CleanupDocker
    PROVE  RestIsExplained'
<1>1. /\ UNCHANGED prefetch /\ runner'.dry = runner.dry /\ runner.pc \in WithARun
      /\ IsRunner(runner) /\ onDisk \in Disks
  BY MeasuringSteps DEF RunnerBase, RunnerTypes
<1>2. CASE Download
  <2>1. /\ runner.pc \in {"download", "loading"} /\ runner'.todo = runner.todo
        /\ runner'.pc \in {"bench", "loading", "failure"}
        /\ UNCHANGED <<engineOn, excused, mode, cleanup>>
    BY <1>1, <1>2 DEF Download, configured, IsRunner
  <2>2. \A k \in Keys : k # Current => onDisk'[k] = onDisk[k]
    BY <1>1, <1>2 DEF Download, Disks
  <2>3. QED
    BY <1>1, <2>1, <2>2 DEF RestIsExplained, Stored, HoldsModel, HoldsEngine, Current
<1>3. CASE StartBench
  <2>1. /\ runner.pc = "bench" /\ runner'.todo = runner.todo /\ runner'.pc = "measuring"
        /\ engineOn' = engineOn \cup {Current} /\ UNCHANGED <<onDisk, excused, mode, cleanup>>
    BY <1>1, <1>3 DEF StartBench, configured, IsRunner
  <2>2. QED
    BY <1>1, <2>1 DEF RestIsExplained, Stored, HoldsModel, HoldsEngine, Current
<1>4. CASE EndBench
  <2>1. /\ runner.pc = "measuring" /\ runner'.todo = runner.todo
        /\ UNCHANGED <<onDisk, mode, cleanup>>
        /\ engineOn' \subseteq engineOn /\ excused \subseteq excused'
        /\ \/ runner'.pc = (IF cleanup THEN "clean" ELSE "success")
           \/ runner'.pc = "failure"
    BY <1>1, <1>4 DEF EndBench, configured, IsRunner
  <2>2. \/ Current \notin engineOn' \/ <<"engine", Current>> \in excused'
        \/ runner'.pc = "failure"
    BY <1>1, <1>4, Marks DEF EndBench, IsRunner
  <2>3. QED
    BY <1>1, <2>1, <2>2 DEF RestIsExplained, Stored, HoldsModel, HoldsEngine, Current
<1>5. CASE CleanupDocker
  <2>1. /\ runner.pc = "docker" /\ runner'.todo = runner.todo /\ runner'.pc = "remove"
        /\ UNCHANGED <<onDisk, mode, cleanup>>
        /\ engineOn' \subseteq engineOn /\ excused' = excused \cup EngineMarks(engineOn')
    BY <1>1, <1>5 DEF CleanupDocker, configured, IsRunner
  <2>2. QED
    BY <1>1, <2>1, Marks DEF RestIsExplained, Stored, HoldsModel, HoldsEngine, Current
<1>6. QED
  BY <1>2, <1>3, <1>4, <1>5

LEMMA RemovingExplains ==
    ASSUME RunnerBase, RestIsExplained, RemoveModel \/ RemoveFailed
    PROVE  RestIsExplained'
<1>1. /\ UNCHANGED <<prefetch, engineOn, cleanup, mode>> /\ runner'.dry = runner.dry
      /\ runner.pc \in {"clean", "remove"} /\ Current \in Keys /\ IsRunner(runner)
  BY MeasuringSteps, RunIsAKey
     DEF RunnerBase, RunnerTypes, RemoveModel, RemoveFailed, configured, WithARun
<1>2. RemoveRepo(Current)
  BY DEF RemoveModel, RemoveFailed
<1>3. /\ \A k \in Keys : onDisk'[k] = onDisk[k] \/ onDisk'[k] = "absent"
      /\ excused \subseteq excused'
      /\ onDisk'[Current] = "absent" \/ <<"model", Current>> \in excused'
  BY <1>1, <1>2, Marks DEF RemoveRepo, RunnerBase, RunnerTypes, Disks
<1>4. Stored' \subseteq Stored /\ (Current \in Stored' => <<"model", Current>> \in excused')
  BY <1>3 DEF Stored
<1>5. ~HoldsEngine /\ (runner'.pc \in {"await", "success"})
  BY <1>1 DEF HoldsEngine, RemoveModel, RemoveFailed, IsRunner
<1>6. QED
  BY <1>1, <1>3, <1>4, <1>5 DEF RestIsExplained, HoldsEngine

(* A run whose child outlived the process had its engine, and that engine  *)
(* is excused, whenever it comes back.                                     *)
OrphansAreExcused ==
    /\ runner.pc = "measuring" => Current \in engineOn
    /\ \A k \in orphans : <<"engine", k>> \in excused

(* Nothing that was excused is forgotten, and only a process that dies     *)
(* leaves an orphan.                                                       *)
LEMMA ExcusesStay ==
    ASSUME RunnerBase, [RunnerNext]_runnerVars
    PROVE  excused \subseteq excused' /\ (RunnerDies \/ orphans' \subseteq orphans)
<1>1. CASE UNCHANGED runnerVars \/ StartRunner \/ NextRun \/ Prefetch \/ Download \/ StartBench
  BY <1>1 DEF runnerVars, StartRunner, NextRun, Prefetch, Download, StartBench
<1>2. CASE EndBench \/ RemoveModel \/ RemoveFailed \/ CleanupDocker \/ OrphanEnds
  BY <1>2 DEF EndBench, RemoveModel, RemoveFailed, RemoveRepo, CleanupDocker, OrphanEnds
<1>3. CASE RecordSuccess
  BY <1>3, RecordSteps DEF RecordSuccess
<1>4. CASE PlanRuns
  <2>1. PICK plan, mem, todo : PlansAs(plan, mem, todo)
    BY <1>4, PlanSteps
  <2>2. QED
    BY <2>1 DEF PlansAs, Abort
<1>5. CASE CheckRun
  <2>1. \E k, s, pc, todo, stays : Update(k, s, pc, todo, stays)
    BY <1>5, CheckSteps
  <2>2. QED
    BY <2>1 DEF Update, Abort
<1>6. CASE RecordFailure \/ Finish
  BY <1>6 DEF RecordFailure, Finish, Update, Abort
<1>7. CASE RunnerDies
  BY <1>7 DEF RunnerDies
<1>8. QED
  BY <1>1, <1>2, <1>3, <1>4, <1>5, <1>6, <1>7 DEF RunnerNext

LEMMA OrphansStepKeeps ==
    ASSUME RunnerBase, OrphansAreExcused, [RunnerNext]_runnerVars
    PROVE  OrphansAreExcused'
<1>1. IsRunner(runner)
  BY DEF RunnerBase, RunnerTypes
<1>2. ASSUME runner'.pc = "measuring" PROVE Head(runner'.todo) \in engineOn'
  <2>1. CASE Download
    BY <1>1, <1>2, <2>1 DEF Download, IsRunner
  <2>2. CASE StartBench
    BY <1>1, <1>2, <2>2 DEF StartBench, IsRunner, Current
  <2>3. CASE UNCHANGED runner /\ (Prefetch \/ OrphanEnds \/ UNCHANGED runnerVars)
    <3>1. runner.pc = "measuring" /\ UNCHANGED runner /\ engineOn \subseteq engineOn'
      BY <1>2, <2>3 DEF Prefetch, OrphanEnds, runnerVars
    <3>2. QED
      BY <3>1 DEF OrphansAreExcused, Current
  <2>4. QED
    BY <1>2, <2>1, <2>2, <2>3, ReadyOnlyByDownload
<1>3. \A k \in orphans' : <<"engine", k>> \in excused'
  <2>1. CASE RunnerDies
    BY <2>1, Marks DEF RunnerDies, OrphansAreExcused
  <2>2. CASE ~RunnerDies
    BY <2>2, ExcusesStay DEF OrphansAreExcused
  <2>3. QED
    BY <2>1, <2>2
<1>4. QED
  BY <1>2, <1>3 DEF OrphansAreExcused, Current

LEMMA ExplainedStepKeeps ==
    ASSUME RunnerBase, OrphansAreExcused, RestIsExplained, [RunnerNext]_runnerVars
    PROVE  RestIsExplained'
<1>1. IsRunner(runner) /\ Off.pc = "off"
  BY OffIsSound DEF RunnerBase, RunnerTypes
<1>2. CASE UNCHANGED runnerVars \/ OrphanEnds
  <2>1. /\ UNCHANGED <<runner, prefetch, onDisk, mode, cleanup, excused>>
        /\ \A k \in engineOn' : k \in engineOn \/ k \in orphans
    BY <1>2 DEF runnerVars, OrphanEnds, configured
  <2>2. QED
    BY <2>1 DEF OrphansAreExcused, RestIsExplained, Stored, HoldsModel, HoldsEngine, Current
<1>3. CASE StartRunner
  <2>1. /\ runner.pc = "off" /\ UNCHANGED <<prefetch, onDisk, engineOn, excused, mode>>
        /\ runner'.pc = "plan"
    BY <1>3, OffIsSound DEF StartRunner, configured, IsRunner
  <2>2. prefetch.at = "none"
    BY <2>1 DEF RunnerBase, Ahead, WithARun
  <2>3. QED
    BY <2>1, <2>2 DEF RestIsExplained, Stored, HoldsModel, HoldsEngine
<1>4. CASE PlanRuns
  <2>1. CASE Abort
    BY <2>1, AbortExplains
  <2>2. CASE ~Abort
    <3>1. /\ runner.pc = "plan" /\ UNCHANGED <<onDisk, engineOn, excused, mode, cleanup>>
          /\ prefetch'.at # "none" => mode = "parallel"
          /\ runner'.pc = "await"
      <4>1. PICK plan, mem, todo : PlansAs(plan, mem, todo)
        BY <1>4, PlanSteps
      <4>2. QED
        <5>1. /\ prefetch' = IF mode = "parallel" /\ todo # <<>>
                             THEN [todo |-> <<Head(todo)>>, at |-> "queued"]
                             ELSE NoPrefetch
              /\ UNCHANGED <<onDisk, engineOn, excused, mode, cleanup>>
          BY <2>2, <4>1 DEF PlansAs, configured
        <5>2. runner'.pc = "await"
          BY <1>1, <2>2, <4>1 DEF PlansAs, IsRunner
        <5>3. NoPrefetch.at = "none"
          BY DEF NoPrefetch
        <5>4. runner.pc = "plan"
          BY <1>4 DEF PlanRuns
        <5>5. QED
          BY <5>1, <5>2, <5>3, <5>4
    <3>2. prefetch.at = "none"
      BY <3>1 DEF RunnerBase, Ahead, WithARun
    <3>3. QED
      BY <3>1, <3>2 DEF RestIsExplained, Stored, HoldsModel, HoldsEngine
  <2>3. QED
    BY <2>1, <2>2
<1>5. CASE RecordSuccess
  <2>1. /\ runner.pc = "success" /\ UNCHANGED <<prefetch, onDisk, engineOn, cleanup, mode>>
        /\ runner'.dry = runner.dry
        /\ \/ /\ runner'.pc = "await"
              /\ excused' = IF cleanup /\ ~runner.dry THEN excused
                            ELSE excused \cup ModelMarks({Current})
           \/ runner'.pc = "failure" /\ runner'.todo = runner.todo /\ UNCHANGED excused
    BY <1>5, RecordSteps
  <2>2. cleanup \in BOOLEAN /\ runner.dry \in BOOLEAN
    BY DEF RunnerBase, RunnerTypes
  <2>3. /\ excused \subseteq excused'
        /\ runner'.pc = "await" /\ ~(cleanup /\ ~runner.dry) => <<"model", Current>> \in excused'
    BY <2>1, Marks
  <2>4. CASE runner'.pc = "await"
    BY <2>1, <2>2, <2>3, <2>4 DEF RestIsExplained, Stored, HoldsModel, HoldsEngine
  <2>5. CASE runner'.pc # "await"
    BY <2>1, <2>2, <2>5 DEF RestIsExplained, Stored, HoldsModel, HoldsEngine, Current
  <2>6. QED
    BY <2>4, <2>5
<1>6. CASE RecordFailure
  <2>1. CASE Abort
    BY <2>1, AbortExplains
  <2>2. CASE ~Abort
    <3>1. /\ runner.pc = "failure" /\ runner'.pc = "docker" /\ runner'.todo = runner.todo
          /\ runner'.dry = runner.dry /\ excused \subseteq excused'
          /\ UNCHANGED <<prefetch, onDisk, engineOn, cleanup, mode>>
      BY <1>6, <2>2, Updated DEF RecordFailure
    <3>2. QED
      BY <3>1 DEF RestIsExplained, Stored, HoldsModel, HoldsEngine, Current
  <2>3. QED
    BY <2>1, <2>2
<1>7. CASE Finish
  <2>1. CASE Abort
    BY <2>1, AbortExplains
  <2>2. CASE ~Abort
    <3>1. runner.pc = "finish" /\ runner' = Off
          /\ UNCHANGED <<prefetch, onDisk, engineOn, excused, mode>>
      BY <1>7, <2>2 DEF Finish, configured
    <3>2. prefetch.at = "none"
      BY <3>1 DEF RunnerBase, Ahead, WithARun
    <3>3. QED
      BY <1>1, <3>1, <3>2 DEF RestIsExplained, Stored, HoldsModel, HoldsEngine
  <2>3. QED
    BY <2>1, <2>2
<1>8. CASE RunnerDies
  <2>1. /\ runner' = Off /\ prefetch' = NoPrefetch /\ UNCHANGED onDisk
        /\ engineOn' \subseteq engineOn
        /\ excused' = excused \cup ModelMarks(Stored) \cup EngineMarks(engineOn)
    BY <1>8 DEF RunnerDies
  <2>2. QED
    BY <2>1, Marks, OffIsSound DEF RestIsExplained, NoPrefetch, Stored
<1>9. QED
  BY <1>2, <1>3, <1>4, <1>5, <1>6, <1>7, <1>8, PrefetchExplains, NextExplains, CheckExplains,
     MeasuringExplains, RemovingExplains DEF RunnerNext

(* However a process ends: what it leaves on the disk and in Docker was    *)
(* meant to stay, could not be removed, was fetched for a run that was     *)
(* skipped, or is what an end in the middle leaves.                        *)
THEOREM LeftoverIsExplainedAlways == RunnerSpec => []LeftoverIsExplained
<1>1. RunnerInit => RunnerBase /\ OrphansAreExcused /\ RestIsExplained
  <2>1. RunnerInit => OrphansAreExcused /\ RestIsExplained
    BY OffIsSound DEF RunnerInit, OrphansAreExcused, RestIsExplained, Stored, NoPrefetch
  <2>2. QED
    BY <2>1, BaseInit
<1>2. RunnerBase /\ OrphansAreExcused /\ RestIsExplained /\ [RunnerNext]_runnerVars
         => (RunnerBase /\ OrphansAreExcused /\ RestIsExplained)'
  BY BaseStepKeeps, OrphansStepKeeps, ExplainedStepKeeps
<1>3. RunnerBase /\ RestIsExplained => LeftoverIsExplained
  <2> SUFFICES ASSUME RunnerBase, RestIsExplained, runner.pc = "off"
               PROVE  ModelMarks(Stored) \cup EngineMarks(engineOn) \subseteq excused
    BY DEF LeftoverIsExplained
  <2>1. prefetch.at = "none"
    BY DEF RunnerBase, Ahead, WithARun
  <2>2. /\ \A k \in Stored : <<"model", k>> \in excused
        /\ \A k \in engineOn : <<"engine", k>> \in excused
    BY <2>1 DEF RestIsExplained, HoldsModel, HoldsEngine
  <2>3. QED
    BY <2>2 DEF ModelMarks, EngineMarks
<1>4. QED
  BY <1>1, <1>2, <1>3, PTL DEF RunnerSpec

-----------------------------------------------------------------------------

(* What a process has to do and measures is of its campaign.               *)
OfTheCampaign(x) ==
    /\ x.todo \in Seq(ToSet(Plan)) /\ x.all \subseteq Keys
    /\ x.path = <<>> \/ \E k \in Keys : x.path = <<k>>

OtherTypes ==
    /\ engineOn \subseteq Keys /\ orphans \subseteq Keys
    /\ excused \subseteq {"model", "engine"} \X Keys
    /\ mode \in {"sequential", "parallel"} /\ sizeLimit \in SizeLimits
    /\ starts \in 0..MaxStarts

LEMMA ElementsAre ==
    ASSUME NEW S, NEW s \in Seq(S)
    PROVE  ToSet(s) \subseteq S
<1>1. DOMAIN s = 1..Len(s) /\ \A i \in 1..Len(s) : s[i] \in S
  BY LenProperties, ElementOfSeq
<1>2. QED
  BY <1>1 DEF ToSet

LEMMA OffIsOfTheCampaign == OfTheCampaign(Off)
  BY EmptySeq DEF Off, OfTheCampaign

LEMMA NextIsOfTheCampaign ==
    ASSUME RunnerBase, OfTheCampaign(runner), runner.todo # <<>>
    PROVE  /\ Tail(runner.todo) \in Seq(ToSet(Plan))
           /\ Current \in ToSet(Plan) /\ Current \in Keys
  BY HeadTailProperties, WholePlan DEF OfTheCampaign, Current

LEMMA PlanIsOfTheCampaign ==
    ASSUME RunnerBase, OfTheCampaign(runner), PlanRuns
    PROVE  OfTheCampaign(runner')
<1>1. PICK plan, mem, todo : PlansAs(plan, mem, todo)
  BY PlanSteps
<1>2. CASE Abort
  BY <1>2, OffIsOfTheCampaign DEF Abort
<1>3. CASE ~Abort
  <2>1. plan \in Seq(ToSet(Plan)) /\ plan \in Seq(Keys)
    BY <1>1, Planned DEF PlansAs
  <2>2. todo \in Seq(ToSet(Plan)) /\ ToSet(plan) \subseteq Keys
    BY <1>1, <2>1, WithoutIsTyped, ElementsAre DEF PlansAs
  <2>3. runner' = [runner EXCEPT !.pc = "await", !.mem = mem, !.todo = todo, !.all = ToSet(plan)]
    BY <1>1, <1>3 DEF PlansAs
  <2>4. runner'.todo = todo /\ runner'.all = ToSet(plan) /\ runner'.path = runner.path
    BY <2>3 DEF RunnerBase, RunnerTypes, IsRunner
  <2>5. QED
    BY <2>2, <2>4 DEF OfTheCampaign
<1>4. QED
  BY <1>2, <1>3

(* find_model_path finds a file of the campaign: that of the run itself is *)
(* on the disk.                                                            *)
LEMMA FoundIsAKey ==
    ASSUME NEW k \in ToSet(Plan), NEW disk, disk[k] # "absent"
    PROVE  \E l \in Keys : FindPath(k, disk) = <<l>>
<1> DEFINE D == {l \in Keys : Repo[l] # Repo[k] \/ disk[l] = "absent"}
           found == Without(Plan, D)
<1>1. Plan \in Seq(Keys) /\ k \in Keys /\ k \in ToSet(Plan) \ D
  BY WholePlan
<1> HIDE DEF D
<1>2. found \in Seq(Keys) /\ found # <<>>
  BY <1>1, WithoutIsTyped, SomethingIsLeft
<1> HIDE DEF found
<1>3. Head(found) \in Keys
  BY <1>2, HeadTailProperties
<1>4. FindPath(k, disk) = IF k \in InDirectory THEN <<Head(found)>> ELSE <<k>>
  BY DEF FindPath, found, D
<1>5. QED
  BY <1>1, <1>3, <1>4

LEMMA DownloadIsOfTheCampaign ==
    ASSUME RunnerBase, OfTheCampaign(runner), Download
    PROVE  OfTheCampaign(runner')
<1>1. IsRunner(runner) /\ onDisk \in Disks /\ runner.pc \in {"download", "loading"}
      /\ Current \in ToSet(Plan) /\ Current \in Keys
  BY NextIsOfTheCampaign DEF Download, RunnerBase, RunnerTypes, Ahead, WithARun
<1>2. CASE \E goal : runner' = [runner EXCEPT !.pc = goal]
  BY <1>1, <1>2 DEF IsRunner, OfTheCampaign
<1>3. ASSUME NEW k \in Keys, runner' = [runner EXCEPT !.pc = "bench", !.path = <<k>>]
      PROVE  OfTheCampaign(runner')
  BY <1>1, <1>3 DEF IsRunner, OfTheCampaign
<1>4. CASE /\ onDisk' = [onDisk EXCEPT ![Current] = "whole"]
           /\ runner' = [runner EXCEPT !.pc = "bench", !.path = FindPath(Current, onDisk')]
  <2>1. onDisk'[Current] # "absent"
    BY <1>1, <1>4 DEF Disks
  <2>2. \E l \in Keys : FindPath(Current, onDisk') = <<l>>
    BY <1>1, <2>1, FoundIsAKey
  <2>3. QED
    BY <1>3, <1>4, <2>2
<1>5. QED
  BY <1>1, <1>2, <1>3, <1>4 DEF Download

LEMMA CampaignStepKeeps ==
    ASSUME RunnerBase, OfTheCampaign(runner), [RunnerNext]_runnerVars
    PROVE  OfTheCampaign(runner')
<1>1. IsRunner(runner)
  BY DEF RunnerBase, RunnerTypes
<1>2. CASE UNCHANGED runner \/ runner' = Off
  BY <1>2, OffIsOfTheCampaign
<1>3. CASE UNCHANGED runnerVars \/ Prefetch \/ RunnerDies \/ OrphanEnds
  BY <1>2, <1>3 DEF runnerVars, Prefetch, RunnerDies, OrphanEnds
<1>4. CASE StartRunner
  <2>1. runner'.todo = Off.todo /\ runner'.all = Off.all /\ runner'.path = Off.path
    BY <1>4 DEF StartRunner, Off
  <2>2. QED
    BY <2>1, OffIsOfTheCampaign DEF OfTheCampaign
<1>5. ASSUME NEW k, NEW s, NEW goal, NEW todo \in Seq(ToSet(Plan)), NEW stays,
             Update(k, s, goal, todo, stays)
      PROVE  OfTheCampaign(runner')
  <2>1. CASE Abort
    BY <1>2, <2>1 DEF Abort
  <2>2. CASE runner' = [runner EXCEPT !.mem = Marked(k, s), !.pc = goal, !.todo = todo]
    BY <1>1, <2>2 DEF IsRunner, OfTheCampaign
  <2>3. QED
    BY <1>5, <2>1, <2>2 DEF Update
<1>6. ASSUME runner.pc \in WithARun PROVE runner.todo # <<>> /\ Tail(runner.todo) \in Seq(ToSet(Plan))
  BY <1>6, NextIsOfTheCampaign DEF RunnerBase, Ahead
<1>7. CASE CheckRun \/ RecordFailure
  <2>1. runner.pc \in WithARun
    BY <1>7 DEF CheckRun, RecordFailure, WithARun
  <2>2. \E k, s, goal, todo, stays : /\ todo = runner.todo \/ todo = Tail(runner.todo)
                                    /\ Update(k, s, goal, todo, stays)
    BY <1>7, CheckSteps DEF RecordFailure
  <2>3. QED
    BY <1>5, <1>6, <2>1, <2>2 DEF OfTheCampaign
<1>8. CASE NextRun \/ StartBench \/ EndBench \/ RemoveModel \/ CleanupDocker
  <2>1. runner'.todo = runner.todo /\ runner'.all = runner.all
        /\ (runner'.path = runner.path \/ runner'.path = <<>>)
    BY <1>1, <1>8 DEF NextRun, StartBench, EndBench, RemoveModel, CleanupDocker, IsRunner
  <2>2. QED
    BY <2>1 DEF OfTheCampaign
<1>9. CASE RecordSuccess \/ RemoveFailed
  <2>1. runner.pc \in WithARun
    BY <1>9 DEF RecordSuccess, RemoveFailed, WithARun
  <2>2. runner'.todo \in {runner.todo, Tail(runner.todo)} /\ runner'.all = runner.all
        /\ runner'.path = runner.path
    BY <1>1, <1>9 DEF RecordSuccess, RemoveFailed, IsRunner
  <2>3. QED
    BY <1>6, <2>1, <2>2 DEF OfTheCampaign
<1>10. CASE Finish
  BY <1>2, <1>10 DEF Finish, Abort
<1>11. QED
  BY <1>3, <1>4, <1>7, <1>8, <1>9, <1>10, PlanIsOfTheCampaign, DownloadIsOfTheCampaign DEF RunnerNext

LEMMA MarksAreTyped ==
    ASSUME NEW ks, ks \subseteq Keys
    PROVE  /\ ModelMarks(ks) \subseteq {"model", "engine"} \X Keys
           /\ EngineMarks(ks) \subseteq {"model", "engine"} \X Keys
  BY DEF ModelMarks, EngineMarks

LEMMA AbortIsTyped == ASSUME RunnerBase, OtherTypes, Abort PROVE OtherTypes'
<1>1. ToSet(prefetch.todo) \subseteq Keys
  <2>1. CASE prefetch.at = "none"
    BY <2>1, ElementsAre, EmptySeq DEF RunnerBase, Ahead
  <2>2. CASE prefetch.at # "none"
    <3>1. runner.todo \in Seq(Keys) /\ Len(runner.todo) \in Nat
      BY LenProperties DEF RunnerBase, RunnerTypes
    <3>2. \E k \in Keys : prefetch.todo = <<k>>
      BY <2>2, <3>1, HeadTailProperties, ElementOfSeq DEF RunnerBase, Ahead
    <3>3. PICK k \in Keys : prefetch.todo = <<k>>
      BY <3>2
    <3>4. <<k>> \in Seq(Keys)
      OBVIOUS
    <3>5. QED
      BY <3>3, <3>4, ElementsAre
  <2>3. QED
    BY <2>1, <2>2
<1>2. Stored \cup ToSet(prefetch.todo) \subseteq Keys /\ engineOn \subseteq Keys
  BY <1>1 DEF Stored, OtherTypes
<1>3. /\ excused' = excused \cup ModelMarks(Stored \cup ToSet(prefetch.todo)) \cup EngineMarks(engineOn)
      /\ UNCHANGED <<engineOn, orphans, mode, sizeLimit, starts>>
  BY DEF Abort, configured
<1>4. excused' \subseteq {"model", "engine"} \X Keys
  BY <1>2, <1>3, MarksAreTyped DEF OtherTypes
<1>5. QED
  BY <1>3, <1>4 DEF OtherTypes

LEMMA OtherStepKeeps ==
    ASSUME RunnerBase, OtherTypes, [RunnerNext]_runnerVars
    PROVE  OtherTypes'
<1>1. ASSUME UNCHANGED <<engineOn, orphans, mode, sizeLimit, starts, excused>> PROVE OtherTypes'
  BY <1>1 DEF OtherTypes
<1>2. ASSUME runner.pc \in WithARun PROVE Current \in Keys
  BY <1>2, RunIsAKey
<1>3. CASE UNCHANGED runnerVars \/ NextRun \/ Prefetch \/ Download
  BY <1>1, <1>3 DEF runnerVars, configured, NextRun, Prefetch, Download
<1>4. CASE StartRunner
  <2>1. UNCHANGED <<engineOn, orphans, mode, sizeLimit, excused>> /\ starts' = starts + 1
        /\ starts < MaxStarts
    BY <1>4 DEF StartRunner, configured
  <2>2. MaxStarts \in Nat
    BY RunnerAssumption
  <2>3. QED
    BY <2>1, <2>2 DEF OtherTypes
<1>5. CASE PlanRuns
  <2>1. PICK plan, mem, todo : PlansAs(plan, mem, todo)
    BY <1>5, PlanSteps
  <2>2. QED
    BY <1>1, <2>1, AbortIsTyped DEF PlansAs, configured
<1>6. ASSUME NEW k, NEW s, NEW goal, NEW todo, NEW stays, Update(k, s, goal, todo, stays),
             stays \subseteq Keys
      PROVE  OtherTypes'
  BY <1>6, AbortIsTyped, MarksAreTyped DEF Update, configured, OtherTypes
<1>7. CASE CheckRun
  BY <1>2, <1>6, <1>7, CheckSteps DEF WithARun
<1>8. CASE RecordFailure
  BY <1>6, <1>8 DEF RecordFailure
<1>9. CASE StartBench \/ EndBench
  <2>1. Current \in Keys
    BY <1>2, <1>9 DEF StartBench, EndBench, WithARun
  <2>2. UNCHANGED <<orphans, mode, sizeLimit, starts>> /\ engineOn' \subseteq engineOn \cup {Current}
        /\ excused' \subseteq excused \cup EngineMarks({Current})
    BY <1>9 DEF StartBench, EndBench, configured
  <2>3. QED
    BY <2>1, <2>2, MarksAreTyped DEF OtherTypes
<1>10. CASE RemoveModel \/ RemoveFailed
  <2>1. /\ UNCHANGED <<engineOn, orphans, mode, sizeLimit, starts>>
        /\ \E ks \in SUBSET Keys : excused' \subseteq excused \cup ModelMarks(ks)
    BY <1>10 DEF RemoveModel, RemoveFailed, RemoveRepo, configured
  <2>2. QED
    BY <2>1, MarksAreTyped DEF OtherTypes
<1>11. CASE RecordSuccess
  <2>1. Current \in Keys
    BY <1>2, <1>11 DEF RecordSuccess, WithARun
  <2>2. /\ UNCHANGED <<engineOn, orphans, mode, sizeLimit, starts>>
        /\ excused' \subseteq excused \cup ModelMarks({Current})
    BY <1>11 DEF RecordSuccess, configured
  <2>3. QED
    BY <2>1, <2>2, MarksAreTyped DEF OtherTypes
<1>12. CASE CleanupDocker
  <2>1. /\ UNCHANGED <<orphans, mode, sizeLimit, starts>> /\ engineOn' \subseteq engineOn
        /\ excused' = excused \cup EngineMarks(engineOn')
    BY <1>12 DEF CleanupDocker, configured
  <2>2. engineOn' \subseteq Keys
    BY <2>1 DEF OtherTypes
  <2>3. QED
    BY <2>1, <2>2, MarksAreTyped DEF OtherTypes
<1>13. CASE Finish
  BY <1>1, <1>13, AbortIsTyped DEF Finish, configured
<1>14. CASE RunnerDies
  <2>1. runner.pc = "measuring" => Current \in Keys
    BY <1>2 DEF WithARun
  <2>2. /\ UNCHANGED <<mode, sizeLimit, starts>> /\ engineOn' \subseteq engineOn
        /\ orphans' \subseteq orphans \cup (IF runner.pc = "measuring" THEN {Current} ELSE {})
        /\ excused' = excused \cup ModelMarks(Stored) \cup EngineMarks(engineOn)
    BY <1>14 DEF RunnerDies, configured
  <2>3. Stored \subseteq Keys
    BY DEF Stored
  <2>4. QED
    BY <2>1, <2>2, <2>3, MarksAreTyped DEF OtherTypes
<1>15. CASE OrphanEnds
  BY <1>15 DEF OrphanEnds, configured, OtherTypes
<1>16. QED
  BY <1>3, <1>4, <1>5, <1>7, <1>8, <1>9, <1>10, <1>11, <1>12, <1>13, <1>14, <1>15 DEF RunnerNext

(* A state file is always of the form that a later process can read, and   *)
(* what a process plans, measures and leaves is of its campaign.           *)
THEOREM RunnerTypesAlways == RunnerSpec => []RunnerTypeOK
<1>1. RunnerInit => RunnerBase /\ OfTheCampaign(runner) /\ OtherTypes
  <2>1. RunnerInit => OfTheCampaign(runner)
    BY OffIsOfTheCampaign DEF RunnerInit
  <2>2. RunnerInit => OtherTypes
    BY RunnerAssumption DEF RunnerInit, OtherTypes
  <2>3. QED
    BY <2>1, <2>2, BaseInit
<1>2. RunnerBase /\ OfTheCampaign(runner) /\ OtherTypes /\ [RunnerNext]_runnerVars
         => (RunnerBase /\ OfTheCampaign(runner) /\ OtherTypes)'
  BY BaseStepKeeps, CampaignStepKeeps, OtherStepKeeps
<1>3. RunnerBase /\ OfTheCampaign(runner) /\ OtherTypes => RunnerTypeOK
  <2> SUFFICES ASSUME RunnerBase, OfTheCampaign(runner), OtherTypes PROVE RunnerTypeOK
    OBVIOUS
  <2>1. runner.path \in Seq(Keys) /\ Len(runner.path) <= 1
    <3>1. \A k \in Keys : <<k>> \in Seq(Keys) /\ Len(<<k>>) = 1
      OBVIOUS
    <3>2. <<>> \in Seq(Keys) /\ Len(<<>>) = 0
      OBVIOUS
    <3>3. CASE runner.path = <<>>
      BY <3>2, <3>3
    <3>4. ASSUME NEW k \in Keys, runner.path = <<k>>
          PROVE  runner.path \in Seq(Keys) /\ Len(runner.path) <= 1
      <4>1. <<k>> \in Seq(Keys) /\ Len(<<k>>) = 1
        BY <3>1
      <4> DEFINE one == <<k>>
      <4>2. one \in Seq(Keys) /\ Len(one) = 1 /\ runner.path = one
        BY <3>4, <4>1
      <4> HIDE DEF one
      <4>3. Len(one) <= 1
        BY <4>2
      <4>4. QED
        BY <4>2, <4>3, Zenon
    <3>5. QED
      BY <3>3, <3>4 DEF OfTheCampaign
  <2>2. /\ stateFile \in [Ids -> States] /\ runner.mem \in States /\ runner.id \in Ids
        /\ runner.pc \in RunnerPcs /\ runner.dry \in BOOLEAN /\ runner.todo \in Seq(Keys)
        /\ onDisk \in Disks /\ cleanup \in BOOLEAN
    BY DEF RunnerBase, RunnerTypes
  <2>3. runner.all \subseteq Keys /\ prefetch.at \in {"none", "queued", "loading", "done"}
    BY DEF RunnerBase, Ahead, OfTheCampaign
  <2>4. QED
    BY <2>1, <2>2, <2>3 DEF RunnerTypeOK, OtherTypes, States, Disks
<1>4. QED
  BY <1>1, <1>2, <1>3, PTL DEF RunnerSpec

-----------------------------------------------------------------------------
(* The campaign and the runs it starts.                                    *)

(* Who is whose child: the campaign measures through a run that it has     *)
(* started for its current key, and what it started and no longer waits    *)
(* for is over or an orphan.                                               *)
Family ==
    /\ child \in Runs \cup {NoRun} /\ askedFor \in [Runs -> Keys \cup {NoKey}]
    /\ child # NoRun <=> runner.pc = "measuring"
    /\ child # NoRun => askedFor[child] = Current
    /\ orphaned \subseteq Asked
    /\ \A r \in Asked : kitt[r].pc # "off"
    /\ \A r \in Asked : InProgress(r) => r = child \/ r \in orphaned
    /\ \A r, s \in Asked \ orphaned : s \in met[r] => s = r
    /\ \A r \in Runs : \A s \in met[r] : kitt[s].pc # "off"

(* The campaign's view of the machine is the machine's.                    *)
InView == engineOn = EngineOn /\ orphans = Orphans

(* What a campaign has earned it can show the report of.                   *)
Credits ==
    /\ credited \in [Ids -> SUBSET Asked]
    /\ \A i \in Ids : \A r \in credited[i] : report[r].there
    /\ \A i \in Ids : \A k \in earned[i] : \E r \in credited[i] : askedFor[r] = k

MeasuredInv == RunnerBase /\ BenchInv /\ Family /\ InView /\ Credits

-----------------------------------------------------------------------------

LEMMA ChildIsAsked ==
    ASSUME RunnerBase, Family, child # NoRun
    PROVE  /\ child \in Asked /\ child \in Runs /\ askedFor[child] = Current
           /\ Current \in Keys /\ Current # NoKey /\ runner.pc = "measuring"
<1>1. runner.pc = "measuring" /\ child \in Runs /\ askedFor[child] = Current
  BY DEF Family
<1>2. Current \in Keys
  BY <1>1, RunIsAKey DEF WithARun
<1>3. QED
  BY <1>1, <1>2, MeasuredAssumption DEF Asked

(* A run that is started was nobody's; it has met who is in progress.      *)
LEMMA Begun ==
    ASSUME BenchInv, NEW r \in Runs, Begin(r)
    PROVE  /\ kitt[r].pc = "off" /\ kitt'[r].pc = "prepare" /\ kitt'[r].s = kitt[r].s
           /\ \A s \in Runs : s # r => kitt'[s] = kitt[s]
           /\ UNCHANGED <<host, server, report>>
           /\ met'[r] = {t \in Runs : InProgress(t)}
           /\ \A s \in Runs : s # r => met'[s] \subseteq met[s] \cup {r}
           /\ \A s \in Runs : s # r /\ ~InProgress(s) => met'[s] = met[s]
<1>1. kitt[r].pc = "off" /\ To(r, "prepare") /\ UNCHANGED <<host, server, report>>
  BY DEF Begin
<1>2. kitt'[r].pc = "prepare" /\ \A s \in Runs : s # r => kitt'[s] = kitt[s]
  BY <1>1, ToMoves DEF BenchPcs
<1>3. kitt'[r].s = kitt[r].s
  BY <1>1, ToMoves DEF BenchPcs
<1>4. \A s \in Runs : met'[s] = IF s = r THEN {t \in Runs : InProgress(t)}
                                ELSE IF InProgress(s) THEN met[s] \cup {r} ELSE met[s]
  BY DEF Begin
<1>5. QED
  BY <1>1, <1>2, <1>3, <1>4

(* A run that goes on has begun; it moves only itself and its engine, and  *)
(* when it is over an engine that it has left can only fail or come up, or *)
(* finish an import.                                                       *)
LEMMA WentOn ==
    ASSUME BenchInv, NEW r \in Runs, RunGoesOn(r)
    PROVE  /\ kitt[r].pc # "off" /\ kitt'[r].pc # "off" /\ kitt'[r].s = kitt[r].s
           /\ \A s \in Runs : s # r => kitt'[s] = kitt[s] /\ server'[s] = server[s]
           /\ host'.spark = host.spark /\ UNCHANGED met
           /\ \A s \in Runs : report[s].there => report'[s].there
           /\ ~InProgress(r) => /\ kitt'[r].pc = kitt[r].pc
                                /\ server'[r] = server[r]
                                      \/ (server[r] # "none" /\ server'[r] # "none")
<1>1. /\ kitt \in [Runs -> RunStates] /\ server \in [Runs -> EngineStates]
      /\ host \in Machine /\ report \in [Runs -> Reports]
  BY DEF BenchInv, BenchTypes
<1> DEFINE Later == {"init", "verify", "health", "load", "suite", "items", "stop", "write", "over"}
           Rest == /\ \A s \in Runs : s # r => server'[s] = server[s]
                   /\ host'.spark = host.spark /\ UNCHANGED met
                   /\ \A s \in Runs : report[s].there => report'[s].there
           Moves == kitt[r].pc \notin {"off", "over"} /\ (\E q \in Later : To(r, q))
<1>2. ASSUME Moves, Rest
      PROVE  /\ kitt[r].pc # "off" /\ kitt'[r].pc # "off" /\ kitt'[r].s = kitt[r].s
             /\ \A s \in Runs : s # r => kitt'[s] = kitt[s] /\ server'[s] = server[s]
             /\ Rest /\ InProgress(r)
  <2>1. PICK q \in Later : To(r, q)
    BY <1>2
  <2>2. q \in BenchPcs /\ q # "off"
    BY DEF BenchPcs
  <2>3. kitt'[r].pc = q /\ kitt'[r].s = kitt[r].s /\ \A s \in Runs : s # r => kitt'[s] = kitt[s]
    BY <2>1, <2>2, ToMoves
  <2> HIDE DEF Later
  <2>4. QED
    BY <1>2, <2>2, <2>3 DEF InProgress
<1>3. CASE Prepare(r) \/ Verify(r) \/ AwaitHealthy(r)
  <2>1. Moves
    BY <1>3 DEF Prepare, Verify, AwaitHealthy, EndsUntidy
  <2>2. Rest
    BY <1>1, <1>3 DEF Prepare, SetupEngine, Verify, AwaitHealthy, Machine
  <2>3. QED
    BY <1>2, <2>1, <2>2
<1>4. CASE Initialize(r)
  <2>1. kitt[r].pc = "init" /\ UNCHANGED <<met, report>>
    BY <1>4 DEF Initialize
  <2>2. /\ \E q \in Later : To(r, q)
        /\ server' \in {server, [server EXCEPT ![r] = "starting"]}
        /\ host' \in {host, [host EXCEPT !.images = @ \cup {Kind(r)}]}
    <3>1. ASSUME RunContainer(r) \/ StartProcess(r)
          PROVE  /\ \E q \in Later : To(r, q)
                 /\ server' \in {server, [server EXCEPT ![r] = "starting"]}
                 /\ host' \in {host, [host EXCEPT !.images = @ \cup {Kind(r)}]}
      BY <3>1 DEF RunContainer, ContainerStarts, StartProcess
    <3>2. QED
      BY <1>4, <3>1 DEF Initialize, InitVllm, InitLlamaCpp, InitExllamaV2, InitOllama, InitMlx
  <2>3. Rest
    BY <1>1, <2>1, <2>2 DEF Machine
  <2>4. QED
    BY <1>2, <2>1, <2>2, <2>3
<1>5. CASE TakePort(r) \/ EngineFails(r)
  <2>1. /\ Alive(r) /\ UNCHANGED <<host, kitt, report, met>>
        /\ \E w \in {"up", "exited"} : server' = [server EXCEPT ![r] = w]
    BY <1>5 DEF TakePort, EngineFails, Alive
  <2>2. server[r] # "none" /\ server'[r] # "none" /\ \A s \in Runs : s # r => server'[s] = server[s]
    BY <1>1, <2>1 DEF Alive
  <2>3. kitt[r].pc # "off"
    BY <2>2 DEF BenchInv, EnginesHaveRuns
  <2>4. QED
    BY <2>1, <2>2, <2>3
<1>6. CASE FindBenchmarks(r) \/ StopEngine(r)
  <2>1. /\ kitt[r].pc \in {"suite", "stop"} /\ \E q \in Later : To(r, q)
        /\ server' \in {server, [server EXCEPT ![r] = "none"]}
        /\ UNCHANGED <<host, report, met>>
    BY <1>6 DEF FindBenchmarks, StopEngine, Cleanup
  <2>2. Rest
    BY <1>1, <2>1
  <2>3. QED
    BY <1>2, <2>1, <2>2
<1>7. CASE Item(r)
  <2>1. /\ kitt[r].pc = "items" /\ UNCHANGED <<host, server, report, met>>
        /\ \/ \E a : kitt' = [kitt EXCEPT ![r].item = @ + 1, ![r].by = Append(@, a)]
           \/ kitt' = [kitt EXCEPT ![r].item = @ + 1, ![r].errors = @ + 1]
    BY <1>7 DEF Item
  <2>2. kitt'[r].pc = "items" /\ kitt'[r].s = kitt[r].s /\ \A s \in Runs : s # r => kitt'[s] = kitt[s]
    BY <1>1, <2>1 DEF RunStates
  <2>3. QED
    BY <2>1, <2>2 DEF InProgress
<1>8. CASE Raise(r) \/ EndItems(r) \/ Killed(r)
  <2>1. Moves
    BY <1>8 DEF Raise, EndItems, Killed, EndsUntidy, InProgress
  <2>2. Rest
    BY <1>1, <1>8 DEF Raise, EndItems, Killed
  <2>3. QED
    BY <1>2, <2>1, <2>2
<1>9. CASE WriteReport(r)
  <2>1. kitt[r].pc = "write" /\ To(r, "over") /\ UNCHANGED <<host, server, met>>
    BY <1>9 DEF WriteReport
  <2>2. \A s \in Runs : report[s].there => report'[s].there
    BY <1>1, <1>9 DEF WriteReport
  <2>3. Moves /\ Rest
    BY <2>1, <2>2
  <2>4. QED
    BY <1>2, <2>3
<1>10. CASE LoadModel(r)
  <2>1. kitt[r].pc = "load" /\ Rest
    BY <1>1, <1>10 DEF LoadModel
  <2>2. CASE To(r, "suite") \/ EndsUntidy(r)
    <3>1. Moves
      BY <2>1, <2>2 DEF EndsUntidy
    <3>2. QED
      BY <1>2, <2>1, <3>1
  <2>3. CASE kitt' = [kitt EXCEPT ![r].pc = "suite", ![r].unread = TRUE, ![r].late = Loader(r)]
    <3>1. kitt' = [kitt EXCEPT ![r] = [kitt[r] EXCEPT !.pc = "suite", !.unread = TRUE,
                                                      !.late = Loader(r)]]
      BY <1>1, <2>3
    <3>2. kitt'[r].pc = "suite" /\ kitt'[r].s = kitt[r].s /\ \A s \in Runs : s # r => kitt'[s] = kitt[s]
      BY <1>1, <3>1 DEF RunStates
    <3>3. QED
      BY <2>1, <3>2 DEF InProgress
  <2>4. QED
    BY <1>10, <2>2, <2>3 DEF LoadModel
<1>11. CASE ImportEnds(r)
  <2>1. /\ kitt[r].late # NoRun /\ UNCHANGED <<host, server, report, met>>
        /\ kitt' = [kitt EXCEPT ![r].late = NoRun]
    BY <1>11 DEF ImportEnds
  <2>2. kitt'[r].pc = kitt[r].pc /\ kitt'[r].s = kitt[r].s /\ \A s \in Runs : s # r => kitt'[s] = kitt[s]
    BY <1>1, <2>1 DEF RunStates
  <2>3. kitt[r].pc # "off"
    BY <2>1 DEF BenchInv, LateIsUnread
  <2>4. QED
    BY <2>1, <2>2, <2>3
<1>12. QED
  BY <1>3, <1>4, <1>5, <1>6, <1>7, <1>8, <1>9, <1>10, <1>11 DEF RunGoesOn

-----------------------------------------------------------------------------

LEMMA InEngineOn ==
    ASSUME NEW k
    PROVE  /\ k \in EngineOn <=> \E s \in Asked : /\ askedFor[s] = k
                                                  /\ s = child \/ (HasContainer(s) /\ ~InProgress(s))
           /\ k \in Orphans <=> \E s \in Asked : askedFor[s] = k /\ s # child /\ InProgress(s)
  BY DEF EngineOn, Orphans

(* A run whose process and engine stay looks the same to the campaign.     *)
LEMMA SameToTheCampaign ==
    ASSUME NEW r \in Runs, kitt'[r].s = kitt[r].s, host'.spark = host.spark,
           kitt'[r].pc = kitt[r].pc, server'[r] = server[r] \/ (server[r] # "none" /\ server'[r] # "none")
    PROVE  HasContainer(r)' = HasContainer(r) /\ InProgress(r)' = InProgress(r)
<1>1. Mode(r)' = Mode(r)
  BY SameRun
<1>2. QED
  BY <1>1 DEF HasContainer, InProgress

(* The campaign lets its child go, dead or alive.                          *)
LEMMA LettingGo ==
    ASSUME RunnerBase, Family, NEW c \in Runs, child = c, child' = NoRun,
           UNCHANGED <<askedFor, server>>,
           \A s \in Runs : s # c => kitt'[s] = kitt[s],
           kitt'[c].s = kitt[c].s, host'.spark = host.spark
    PROVE  /\ EngineOn' \in {EngineOn, EngineOn \ {Current}} /\ Current \in EngineOn
           /\ Orphans' = IF InProgress(c)' THEN Orphans \cup {Current} ELSE Orphans
<1>1. /\ c \in Asked /\ askedFor[c] = Current /\ Asked' = Asked
      /\ Asked \subseteq Runs /\ child' \notin Asked
  BY ChildIsAsked, BenchAssumption DEF Asked
<1>2. \A s \in Asked : s # c => HasContainer(s)' = HasContainer(s) /\ InProgress(s)' = InProgress(s)
  BY <1>1, SameToTheCampaign
<1>3. Current \in EngineOn
  BY <1>1, InEngineOn
<1>4. ASSUME NEW k, k # Current PROVE k \in EngineOn' <=> k \in EngineOn
  <2>1. k \in EngineOn' <=> \E s \in Asked : /\ askedFor[s] = k
                                             /\ HasContainer(s)' /\ ~InProgress(s)'
    BY <1>1 DEF EngineOn
  <2>2. k \in EngineOn <=> \E s \in Asked : /\ askedFor[s] = k
                                            /\ s = child \/ (HasContainer(s) /\ ~InProgress(s))
    BY InEngineOn
  <2>3. \A s \in Asked : askedFor[s] = k => s # c
    BY <1>1, <1>4
  <2>4. QED
    BY <1>2, <2>1, <2>2, <2>3
<1>5. EngineOn' \in {EngineOn, EngineOn \ {Current}}
  BY <1>3, <1>4
<1>6. ASSUME NEW k
      PROVE  k \in Orphans' <=> k \in Orphans \/ (k = Current /\ InProgress(c)')
  <2>1. k \in Orphans' <=> \E s \in Asked : askedFor[s] = k /\ InProgress(s)'
    BY <1>1 DEF Orphans
  <2>2. k \in Orphans <=> \E s \in Asked : askedFor[s] = k /\ s # c /\ InProgress(s)
    BY InEngineOn
  <2>3. ASSUME NEW s \in Asked, askedFor[s] = k, InProgress(s)'
        PROVE  k \in Orphans \/ (k = Current /\ InProgress(c)')
    BY <1>1, <1>2, <2>2, <2>3
  <2>4. ASSUME k \in Orphans PROVE k \in Orphans'
    BY <1>2, <2>1, <2>2, <2>4
  <2>5. ASSUME k = Current, InProgress(c)' PROVE k \in Orphans'
    BY <1>1, <2>1, <2>5
  <2>6. QED
    BY <2>1, <2>3, <2>4, <2>5
<1>7. QED
  BY <1>3, <1>5, <1>6

LEMMA NothingNewInView ==
    ASSUME UNCHANGED <<child, askedFor, host, kitt, server>>
    PROVE  EngineOn' = EngineOn /\ Orphans' = Orphans
  BY DEF EngineOn, Orphans, Asked, HasContainer, InProgress, Mode, Kind, DefaultMode

LEMMA FamilyStays ==
    ASSUME Family, UNCHANGED <<kitt, met, child, askedFor, orphaned>>,
           runner'.pc = "measuring" <=> runner.pc = "measuring",
           runner.pc = "measuring" => Current' = Current
    PROVE  Family'
<1>1. Asked' = Asked /\ \A r \in Runs : InProgress(r)' = InProgress(r)
  BY DEF Asked, InProgress
<1>2. Asked \subseteq Runs
  BY DEF Asked
<1>3. QED
  BY <1>1, <1>2 DEF Family

LEMMA CreditsStay ==
    ASSUME Credits, UNCHANGED <<askedFor, earned, credited>>,
           \A s \in Runs : report[s].there => report'[s].there
    PROVE  Credits'
<1>1. Asked' = Asked /\ Asked \subseteq Runs
  BY DEF Asked
<1>2. \A i \in Ids : credited[i] \subseteq Runs
  BY <1>1 DEF Credits
<1>3. QED
  BY <1>1, <1>2 DEF Credits

-----------------------------------------------------------------------------

(* Each step is one of the campaign's model, one of the runs' model, or    *)
(* one of both.                                                            *)
BothStep == [RunnerNext]_runnerVars /\ [BenchNext]_benchVars

LEMMA BeginCampaignKeeps ==
    ASSUME MeasuredInv, BeginCampaign
    PROVE  BothStep /\ Family' /\ InView' /\ Credits'
<1>1. BothStep
  BY DEF BothStep, BeginCampaign, RunnerNext
<1>2. /\ UNCHANGED <<host, kitt, server, report, met, child, askedFor, orphaned, engineOn, orphans>>
      /\ runner.pc = "off" /\ credited' = [i \in Ids |-> IF earned'[i] = {} THEN {} ELSE credited[i]]
  BY DEF BeginCampaign, StartRunner, benchVars
<1>3. runner'.pc = "plan"
  BY DEF BeginCampaign, StartRunner, Off
<1>4. Family'
  BY <1>2, <1>3, FamilyStays DEF MeasuredInv
<1>5. InView'
  BY <1>2, NothingNewInView DEF MeasuredInv, InView
<1>6. earned \in [Ids -> SUBSET Keys] /\ \A i \in Ids : earned'[i] \in {earned[i], {}}
  BY DEF MeasuredInv, RunnerBase, RunnerTypes, BeginCampaign, StartRunner
<1>7. Credits'
  <2>1. Asked' = Asked
    BY <1>2 DEF Asked
  <2>2. \A i \in Ids : credited'[i] = IF earned'[i] = {} THEN {} ELSE credited[i]
    BY <1>2
  <2>3. credited' \in [Ids -> SUBSET Asked]
    BY <1>2, <2>1 DEF MeasuredInv, Credits
  <2>4. ASSUME NEW i \in Ids, NEW k \in earned'[i] PROVE \E r \in credited'[i] : askedFor[r] = k
    <3>1. k \in earned[i] /\ credited'[i] = credited[i]
      BY <1>6, <2>2, <2>4
    <3>2. QED
      BY <3>1 DEF MeasuredInv, Credits
  <2>5. \A i \in Ids : \A r \in credited'[i] : report[r].there
    BY <2>2 DEF MeasuredInv, Credits
  <2>6. QED
    BY <1>2, <2>1, <2>3, <2>4, <2>5 DEF Credits
<1>8. QED
  BY <1>1, <1>4, <1>5, <1>7

(* Without a child the process never comes to measuring or from it.        *)
LEMMA RunnerStepIs ==
    ASSUME RunnerBase, RunnerStep
    PROVE  /\ UNCHANGED <<engineOn, orphans, earned>>
           /\ UNCHANGED runner \/ (runner.pc # "measuring" /\ runner'.pc # "measuring")
<1>1. IsRunner(runner)
  BY DEF RunnerBase, RunnerTypes
<1> DEFINE Elsewhere == runner.pc # "measuring" /\ runner'.pc # "measuring"
           Stays == UNCHANGED <<engineOn, orphans, earned>>
<1>2. ASSUME Abort, runner.pc # "measuring" PROVE Elsewhere /\ Stays
  BY <1>2, OffIsSound DEF Abort, history
<1>3. ASSUME NEW k, NEW s, NEW goal, NEW todo, NEW stays, Update(k, s, goal, todo, stays),
             runner.pc # "measuring", goal # "measuring"
      PROVE  Elsewhere /\ Stays
  <2>1. CASE Abort
    BY <1>2, <1>3, <2>1
  <2>2. CASE ~Abort
    BY <1>1, <1>3, <2>2 DEF Update, IsRunner, history
  <2>3. QED
    BY <2>1, <2>2
<1>4. CASE PlanRuns
  <2>1. runner.pc # "measuring"
    BY <1>4 DEF PlanRuns
  <2>2. PICK plan, mem, todo : PlansAs(plan, mem, todo)
    BY <1>4, PlanSteps
  <2>3. CASE ~Abort
    BY <1>1, <2>1, <2>2, <2>3 DEF PlansAs, IsRunner, history
  <2>4. QED
    BY <1>2, <2>1, <2>3
<1>5. CASE NextRun
  BY <1>1, <1>5 DEF NextRun, IsRunner, history
<1>6. CASE Prefetch
  BY <1>6 DEF Prefetch, history
<1>7. CASE CheckRun
  BY <1>3, <1>7, CheckSteps
<1>8. CASE Download
  BY <1>1, <1>8 DEF Download, IsRunner, history
<1>9. CASE RemoveModel \/ RemoveFailed
  BY <1>1, <1>9 DEF RemoveModel, RemoveFailed, IsRunner, history
<1>10. CASE RecordSuccess
  <2>1. Stays
    BY <1>10 DEF RecordSuccess, history
  <2>2. QED
    BY <1>10, <2>1, RecordSteps
<1>11. CASE RecordFailure
  BY <1>3, <1>11 DEF RecordFailure
<1>12. CASE Finish
  <2>1. runner.pc # "measuring"
    BY <1>12 DEF Finish
  <2>2. CASE ~Abort
    BY <1>12, <2>1, <2>2, OffIsSound DEF Finish, history
  <2>3. QED
    BY <1>2, <2>1, <2>2
<1>13. QED
  BY <1>4, <1>5, <1>6, <1>7, <1>8, <1>9, <1>10, <1>11, <1>12 DEF RunnerStep

LEMMA RunnerStepKeeps ==
    ASSUME MeasuredInv, RunnerStep
    PROVE  BothStep /\ Family' /\ InView' /\ Credits'
<1>1. BothStep
  BY DEF BothStep, RunnerStep, RunnerNext
<1>2. UNCHANGED <<host, kitt, server, report, met, child, askedFor, credited, orphaned>>
  BY DEF RunnerStep, benchVars
<1>3. /\ UNCHANGED <<engineOn, orphans, earned>>
      /\ UNCHANGED runner \/ (runner.pc # "measuring" /\ runner'.pc # "measuring")
  BY RunnerStepIs DEF MeasuredInv
<1>4. Family'
  BY <1>2, <1>3, FamilyStays DEF MeasuredInv, Current
<1>5. InView'
  BY <1>2, <1>3, NothingNewInView DEF MeasuredInv, InView
<1>6. Credits'
  BY <1>2, <1>3, CreditsStay DEF MeasuredInv
<1>7. QED
  BY <1>1, <1>4, <1>5, <1>6

LEMMA StartChildKeeps ==
    ASSUME MeasuredInv, NEW r \in Runs, StartChild(r)
    PROVE  BothStep /\ Family' /\ InView' /\ Credits'
<1>1. /\ runner.pc = "bench" /\ Begin(r) /\ child' = r
      /\ askedFor' = [askedFor EXCEPT ![r] = Current]
      /\ runner' = [runner EXCEPT !.pc = "measuring"] /\ TakesStock
      /\ UNCHANGED <<stateFile, prefetch, onDisk, configured, starts, history, excused,
                     credited, orphaned>>
  BY DEF StartChild
<1>2. /\ kitt[r].pc = "off" /\ kitt'[r].pc = "prepare" /\ kitt'[r].s = kitt[r].s
      /\ \A s \in Runs : s # r => kitt'[s] = kitt[s]
      /\ UNCHANGED <<host, server, report>>
      /\ met'[r] = {t \in Runs : InProgress(t)}
      /\ \A s \in Runs : s # r => met'[s] \subseteq met[s] \cup {r}
      /\ \A s \in Runs : s # r /\ ~InProgress(s) => met'[s] = met[s]
  BY <1>1, Begun DEF MeasuredInv
<1>3. /\ child = NoRun /\ child \notin Asked /\ r \notin Asked /\ Current \in Keys /\ Current # NoKey
      /\ Asked \subseteq Runs /\ r # NoRun /\ IsRunner(runner)
      /\ askedFor \in [Runs -> Keys \cup {NoKey}]
  BY <1>1, <1>2, RunIsAKey, MeasuredAssumption, BenchAssumption
     DEF MeasuredInv, Family, WithARun, Asked, RunnerBase, RunnerTypes
<1>4. /\ askedFor'[r] = Current /\ \A s \in Runs : s # r => askedFor'[s] = askedFor[s]
      /\ askedFor' \in [Runs -> Keys \cup {NoKey}] /\ Asked' = Asked \cup {r}
  BY <1>1, <1>3 DEF Asked
<1>5. \A s \in Asked : /\ s # r /\ askedFor'[s] = askedFor[s]
                       /\ HasContainer(s)' = HasContainer(s) /\ InProgress(s)' = InProgress(s)
  BY <1>2, <1>3, <1>4, SameToTheCampaign
<1>6. ASSUME NEW k PROVE k \in EngineOn' <=> k \in EngineOn \/ k = Current
  <2>1. k \in EngineOn' <=> \E s \in Asked \cup {r} :
                               /\ askedFor'[s] = k
                               /\ s = r \/ (HasContainer(s)' /\ ~InProgress(s)')
    BY <1>1, <1>4 DEF EngineOn
  <2>2. k \in EngineOn <=> \E s \in Asked : askedFor[s] = k /\ HasContainer(s) /\ ~InProgress(s)
    BY <1>3, InEngineOn
  <2>3. QED
    BY <1>4, <1>5, <2>1, <2>2
<1>7. ASSUME NEW k PROVE k \in Orphans' <=> k \in Orphans
  <2>1. k \in Orphans' <=> \E s \in Asked \cup {r} : askedFor'[s] = k /\ s # r /\ InProgress(s)'
    BY <1>1, <1>4 DEF Orphans
  <2>2. k \in Orphans <=> \E s \in Asked : askedFor[s] = k /\ InProgress(s)
    BY <1>3, InEngineOn
  <2>3. QED
    BY <1>5, <2>1, <2>2
<1>8. engineOn' = engineOn \cup {Current} /\ orphans' = orphans
  BY <1>1, <1>6, <1>7 DEF TakesStock, MeasuredInv, InView
<1>9. BothStep
  <2>1. StartBench
    BY <1>1, <1>8 DEF StartBench
  <2>2. QED
    BY <1>1, <2>1 DEF BothStep, RunnerNext, BenchNext
<1>10. runner'.pc = "measuring" /\ Current' = Current
  BY <1>1, <1>3 DEF IsRunner, Current
<1>11. Family'
  <2>1. \A s \in Asked' : kitt'[s].pc # "off"
    BY <1>2, <1>3, <1>4, <1>5 DEF MeasuredInv, Family
  <2>2. \A s \in Asked' : InProgress(s)' => s = r \/ s \in orphaned
    BY <1>3, <1>4, <1>5 DEF MeasuredInv, Family
  <2>3. ASSUME NEW s \in Asked' \ orphaned, NEW t \in Asked' \ orphaned, t \in met'[s]
        PROVE  t = s
    <3>1. CASE s = r
      <4>1. t # r => InProgress(t) /\ t \in Asked
        BY <1>2, <1>4, <2>3, <3>1
      <4>2. QED
        BY <1>3, <3>1, <4>1 DEF MeasuredInv, Family
    <3>2. CASE s # r
      <4>1. s \in Asked \ orphaned /\ s \in Runs
        BY <1>3, <1>4, <3>2
      <4>2. ~InProgress(s)
        BY <1>3, <4>1 DEF MeasuredInv, Family
      <4>3. t \in met[s]
        BY <1>2, <2>3, <3>2, <4>1, <4>2
      <4>4. t # r
        <5>1. r \notin met[s]
          BY <1>2, <4>1 DEF MeasuredInv, Family
        <5>2. QED
          BY <4>3, <5>1
      <4>5. QED
        BY <1>4, <4>1, <4>3, <4>4 DEF MeasuredInv, Family
    <3>3. QED
      BY <3>1, <3>2
  <2>4. ASSUME NEW s \in Runs, NEW t \in met'[s] PROVE kitt'[t].pc # "off"
    <3>1. \/ t = r
          \/ t \in Runs /\ InProgress(t)
          \/ t \in met[s]
      BY <1>2
    <3>2. t \in Runs
      BY <3>1 DEF MeasuredInv, BenchInv, BenchTypes
    <3>3. t = r \/ kitt[t].pc # "off"
      BY <3>1 DEF InProgress, MeasuredInv, Family
    <3>4. QED
      BY <1>2, <3>2, <3>3
  <2>5. QED
    BY <1>1, <1>3, <1>4, <1>10, <2>1, <2>2, <2>3, <2>4 DEF MeasuredInv, Family
<1>12. InView'
  BY <1>1 DEF TakesStock, InView
<1>13. Credits'
  <2>1. UNCHANGED <<earned, credited, report>>
    BY <1>1, <1>2 DEF history
  <2>2. credited' \in [Ids -> SUBSET Asked']
    BY <1>4, <2>1 DEF MeasuredInv, Credits
  <2>3. ASSUME NEW i \in Ids, NEW k \in earned[i] PROVE \E s \in credited[i] : askedFor'[s] = k
    <3>1. PICK s \in credited[i] : askedFor[s] = k
      BY <2>3 DEF MeasuredInv, Credits
    <3>2. s \in Asked
      BY <3>1 DEF MeasuredInv, Credits
    <3>3. QED
      BY <1>5, <3>1, <3>2
  <2>4. QED
    BY <2>1, <2>2, <2>3 DEF MeasuredInv, Credits
<1>14. QED
  BY <1>9, <1>11, <1>12, <1>13

(* The campaign has no child any more and its process is not where it      *)
(* measures: what the child was is over, or an orphan.                     *)
LEMMA GoneIsGone ==
    ASSUME MeasuredInv, NEW c \in Runs, child = c, child' = NoRun, runner'.pc # "measuring",
           UNCHANGED <<askedFor, met>>, kitt'[c].pc # "off",
           \A s \in Runs : s # c => kitt'[s] = kitt[s],
           orphaned' = orphaned \/ orphaned' = orphaned \cup {c},
           InProgress(c)' => c \in orphaned'
    PROVE  Family'
<1>1. /\ c \in Asked /\ Asked' = Asked /\ Asked \subseteq Runs
  BY ChildIsAsked, BenchAssumption DEF Asked, MeasuredInv
<1>2. \A s \in Asked : s # c => InProgress(s)' = InProgress(s)
  BY <1>1 DEF InProgress
<1>3. \A s \in Runs : kitt[s].pc # "off" => kitt'[s].pc # "off"
  OBVIOUS
<1>4. \A s \in Runs : met[s] \subseteq Runs
  BY DEF MeasuredInv, BenchInv, BenchTypes
<1>5. \A s \in Runs : \A t \in met[s] : kitt'[t].pc # "off"
  BY <1>3, <1>4 DEF MeasuredInv, Family
<1>6. \A s \in Asked : InProgress(s)' => s = child' \/ s \in orphaned'
  BY <1>2 DEF MeasuredInv, Family
<1>7. QED
  BY <1>1, <1>3, <1>5, <1>6 DEF MeasuredInv, Family

LEMMA ChildEndsKeeps ==
    ASSUME MeasuredInv, ChildEnds
    PROVE  BothStep /\ Family' /\ InView' /\ Credits'
<1>1. /\ runner.pc = "measuring" /\ kitt[child].pc = "over" /\ child' = NoRun
      /\ UNCHANGED <<host, kitt, server, report, met, askedFor, orphaned>> /\ UNCHANGED benchVars
      /\ TakesStock
      /\ UNCHANGED <<stateFile, prefetch, onDisk, configured, starts, previewed>>
  BY DEF ChildEnds, benchVars
<1>2. PICK c \in Runs : c = child
  BY <1>1, ChildIsAsked DEF MeasuredInv, Family
<1>3. /\ c \in Asked /\ child # NoRun /\ Asked' = Asked /\ askedFor[c] = Current
  BY <1>1, <1>2, ChildIsAsked DEF MeasuredInv, Family, Asked
<1>4. ~InProgress(c)' /\ kitt'[c].pc # "off"
  BY <1>1, <1>2 DEF InProgress
<1>5. /\ EngineOn' \in {EngineOn, EngineOn \ {Current}} /\ Current \in EngineOn
      /\ Orphans' = Orphans
  BY <1>1, <1>2, <1>3, <1>4, LettingGo DEF MeasuredInv
<1>6. /\ engineOn' = EngineOn' /\ orphans' = orphans
      /\ engineOn' \in {engineOn, engineOn \ {Current}} /\ Current \in engineOn
  BY <1>1, <1>5 DEF TakesStock, MeasuredInv, InView
<1>7. IsRunner(runner) /\ runner.id \in Ids /\ earned \in [Ids -> SUBSET Keys]
  BY DEF MeasuredInv, RunnerBase, RunnerTypes
<1>8. CASE /\ report[child].there
           /\ runner' = [runner EXCEPT !.pc = IF cleanup THEN "clean" ELSE "success",
                                       !.path = <<>>]
           /\ earned' = [earned EXCEPT ![runner.id] = @ \cup {Current}]
           /\ credited' = [credited EXCEPT ![runner.id] = @ \cup {child}]
           /\ excused' = excused \cup EngineMarks({Current} \cap EngineOn')
  <2>1. \/ engineOn' = engineOn \ {Current} /\ UNCHANGED excused
        \/ /\ "stopFails" \in RunnerFaults /\ UNCHANGED engineOn
           /\ excused' = excused \cup EngineMarks({Current})
    <3>1. CASE engineOn' = engineOn
      <4>1. {Current} \cap EngineOn' = {Current}
        BY <1>6, <3>1
      <4>2. QED
        BY <1>8, <3>1, <4>1, MeasuredAssumption
    <3>2. CASE engineOn' = engineOn \ {Current}
      <4>1. EngineMarks({Current} \cap EngineOn') = {}
        BY <1>6, <3>2 DEF EngineMarks
      <4>2. QED
        BY <1>8, <3>2, <4>1
    <3>3. QED
      BY <1>6, <3>1, <3>2
  <2>2. EndBench
    BY <1>1, <1>6, <1>8, <2>1 DEF EndBench
  <2>3. runner'.pc # "measuring"
    BY <1>7, <1>8 DEF IsRunner
  <2>4. Family'
    BY <1>1, <1>2, <1>4, <2>3, GoneIsGone
  <2>5. Credits'
    <3>1. credited' \in [Ids -> SUBSET Asked]
      BY <1>2, <1>3, <1>7, <1>8 DEF MeasuredInv, Credits
    <3>2. \A i \in Ids : credited'[i] = IF i = runner.id THEN credited[i] \cup {c} ELSE credited[i]
      BY <1>2, <1>8 DEF MeasuredInv, Credits
    <3>3. \A i \in Ids : earned'[i] = IF i = runner.id THEN earned[i] \cup {Current} ELSE earned[i]
      BY <1>7, <1>8
    <3>4. \A i \in Ids : \A r \in credited'[i] : report[r].there
      BY <1>2, <1>8, <3>2 DEF MeasuredInv, Credits
    <3>5. ASSUME NEW i \in Ids, NEW k \in earned'[i]
          PROVE  \E r \in credited'[i] : askedFor[r] = k
      <4>1. k \in earned[i] \/ (i = runner.id /\ k = Current)
        BY <3>3
      <4>2. CASE k \in earned[i]
        <5>1. PICK r \in credited[i] : askedFor[r] = k
          BY <4>2 DEF MeasuredInv, Credits
        <5>2. r \in credited'[i]
          BY <3>2, <5>1
        <5>3. QED
          BY <5>1, <5>2
      <4>3. CASE i = runner.id /\ k = Current
        <5>1. c \in credited'[i]
          BY <3>2, <4>3
        <5>2. QED
          BY <1>3, <4>3, <5>1
      <4>4. QED
        BY <4>1, <4>2, <4>3
    <3>6. QED
      BY <1>1, <1>3, <3>1, <3>4, <3>5 DEF Credits
  <2>6. QED
    BY <1>1, <1>6, <2>2, <2>4, <2>5 DEF BothStep, RunnerNext, InView, TakesStock
<1>9. CASE /\ ~report[child].there
           /\ runner' = [runner EXCEPT !.pc = "failure", !.path = <<>>]
           /\ UNCHANGED <<earned, credited, excused>>
  <2>1. EndBench
    BY <1>1, <1>6, <1>9, MeasuredAssumption DEF EndBench
  <2>2. runner'.pc # "measuring"
    BY <1>7, <1>9 DEF IsRunner
  <2>3. Family'
    BY <1>1, <1>2, <1>4, <2>2, GoneIsGone
  <2>4. Credits'
    BY <1>1, <1>9, CreditsStay DEF MeasuredInv
  <2>5. QED
    BY <1>1, <2>1, <2>3, <2>4 DEF BothStep, RunnerNext, InView, TakesStock
<1>10. QED
  BY <1>8, <1>9 DEF ChildEnds

LEMMA SweepContainersKeeps ==
    ASSUME MeasuredInv, SweepContainers
    PROVE  BothStep /\ Family' /\ InView' /\ Credits'
<1> DEFINE containers == {r \in Runs : Mode(r) = "docker"}
<1>1. PICK swept \in SUBSET containers :
          /\ swept = containers \/ "dockerFails" \in RunnerFaults
          /\ RemoveContainers(swept)
  BY DEF SweepContainers
<1>2. /\ runner.pc = "docker" /\ runner' = [runner EXCEPT !.pc = "remove"] /\ TakesStock
      /\ UNCHANGED <<child, askedFor, credited, orphaned>>
      /\ excused' = excused \cup EngineMarks(EngineOn')
      /\ UNCHANGED <<stateFile, prefetch, onDisk, configured, starts, history>>
  BY DEF SweepContainers
<1>3. /\ server' = [r \in Runs |-> IF r \in swept THEN "none" ELSE server[r]]
      /\ UNCHANGED <<host, kitt, tags, report, met, untidy>>
  BY <1>1 DEF RemoveContainers
<1>4. child = NoRun /\ child \notin Asked /\ Asked' = Asked /\ Asked \subseteq Runs
      /\ IsRunner(runner)
  BY <1>2, BenchAssumption DEF MeasuredInv, Family, Asked, RunnerBase, RunnerTypes
<1>5. \A r \in Runs : /\ Mode(r)' = Mode(r) /\ InProgress(r)' = InProgress(r)
                      /\ server'[r] # "none" => server[r] # "none" /\ r \notin swept
  BY <1>3 DEF Mode, DefaultMode, Kind, InProgress
<1>6. ASSUME NEW k
      PROVE  /\ k \in EngineOn' <=> \E s \in Asked : /\ askedFor[s] = k
                                                     /\ HasContainer(s)' /\ ~InProgress(s)'
             /\ k \in EngineOn <=> \E s \in Asked : /\ askedFor[s] = k
                                                    /\ HasContainer(s) /\ ~InProgress(s)
  BY <1>2, <1>4 DEF EngineOn
<1>7. EngineOn' \subseteq EngineOn
  BY <1>4, <1>5, <1>6 DEF HasContainer
<1>8. swept = containers => EngineOn' = {}
  BY <1>4, <1>5, <1>6 DEF HasContainer
<1>9. Orphans' = Orphans
  BY <1>2, <1>4, <1>5 DEF Orphans
<1>10. engineOn' = EngineOn' /\ orphans' = orphans /\ engineOn' \subseteq engineOn
  BY <1>2, <1>7, <1>9 DEF TakesStock, MeasuredInv, InView
<1>11. CleanupDocker
  BY <1>1, <1>2, <1>8, <1>10 DEF CleanupDocker
<1>12. Sweep
  BY <1>1, MeasuredAssumption DEF Sweep
<1>13. runner'.pc = "remove"
  BY <1>2, <1>4 DEF IsRunner
<1>14. Family'
  BY <1>2, <1>3, <1>13, FamilyStays DEF MeasuredInv
<1>15. Credits'
  BY <1>2, <1>3, CreditsStay DEF MeasuredInv, history
<1>16. QED
  BY <1>2, <1>11, <1>12, <1>14, <1>15 DEF BothStep, RunnerNext, BenchNext, InView, TakesStock

LEMMA CampaignDiesKeeps ==
    ASSUME MeasuredInv, CampaignDies
    PROVE  BothStep /\ Family' /\ InView' /\ Credits'
<1>1. /\ "dies" \in RunnerFaults /\ runner.pc # "off" /\ child' = NoRun /\ TakesStock
      /\ UNCHANGED <<askedFor, credited>> /\ runner' = Off /\ prefetch' = NoPrefetch
      /\ excused' = excused \cup ModelMarks(Stored) \cup EngineMarks(engineOn)
      /\ UNCHANGED <<stateFile, onDisk, configured, starts, history>>
  BY DEF CampaignDies
<1>2. runner'.pc = "off"
  BY <1>1, OffIsSound
<1>3. InView'
  BY <1>1 DEF TakesStock, InView
<1>4. CASE child = NoRun
  <2>1. UNCHANGED benchVars /\ UNCHANGED orphaned
    BY <1>4 DEF CampaignDies
  <2>2. UNCHANGED <<host, kitt, server, report, met, child>>
    BY <1>1, <1>4, <2>1 DEF benchVars
  <2>3. UNCHANGED <<engineOn, orphans>> /\ runner.pc # "measuring"
    BY <1>1, <1>4, <2>2, NothingNewInView DEF TakesStock, MeasuredInv, InView, Family
  <2>4. RunnerDies
    BY <1>1, <2>3 DEF RunnerDies
  <2>5. Family'
    BY <1>1, <1>2, <2>1, <2>2, <2>3, FamilyStays DEF MeasuredInv
  <2>6. Credits'
    BY <1>1, <2>2, CreditsStay DEF MeasuredInv, history
  <2>7. QED
    BY <1>3, <2>1, <2>4, <2>5, <2>6 DEF BothStep, RunnerNext
<1>5. CASE child # NoRun
  <2>1. PICK c \in Runs : c = child
    BY <1>5 DEF MeasuredInv, Family
  <2>2. runner.pc = "measuring" /\ c \in Asked
    BY <1>5, <2>1, ChildIsAsked DEF MeasuredInv
  <2>3. /\ UNCHANGED <<host, server, report, met>> /\ kitt'[c].s = kitt[c].s
        /\ kitt'[c].pc # "off" /\ \A s \in Runs : s # c => kitt'[s] = kitt[s]
        /\ \/ ~InProgress(c)' /\ UNCHANGED orphaned
           \/ "orphan" \in RunnerFaults /\ orphaned' = orphaned \cup {c}
        /\ Killed(c) \/ UNCHANGED benchVars
    <3>1. CASE Killed(child) /\ UNCHANGED orphaned
      <4>1. To(c, "over") /\ UNCHANGED <<host, server, report, met>>
        BY <2>1, <3>1 DEF Killed, EndsUntidy
      <4>2. QED
        BY <2>1, <3>1, <4>1, ToMoves DEF MeasuredInv, BenchPcs, InProgress
    <3>2. CASE /\ UNCHANGED benchVars
               /\ IF child # NoRun /\ InProgress(child)
                  THEN "orphan" \in RunnerFaults /\ orphaned' = orphaned \cup {child}
                  ELSE UNCHANGED orphaned
      BY <1>5, <2>1, <2>2, <3>2 DEF benchVars, InProgress, MeasuredInv, Family
    <3>3. QED
      BY <3>1, <3>2 DEF CampaignDies
  <2>4. /\ EngineOn' \in {EngineOn, EngineOn \ {Current}}
        /\ Orphans' = IF InProgress(c)' THEN Orphans \cup {Current} ELSE Orphans
    BY <1>1, <1>5, <2>1, <2>3, LettingGo DEF MeasuredInv
  <2>5. /\ engineOn' \in {engineOn, engineOn \ {Current}}
        /\ UNCHANGED orphans \/ ("orphan" \in RunnerFaults /\ orphans' = orphans \cup {Current})
    BY <1>1, <2>3, <2>4 DEF TakesStock, MeasuredInv, InView
  <2>6. RunnerDies
    BY <1>1, <2>2, <2>5 DEF RunnerDies
  <2>7. [BenchNext]_benchVars
    BY <2>3 DEF BenchNext, RunGoesOn
  <2>8. Family'
    <3>1. orphaned' \in {orphaned, orphaned \cup {c}} /\ (InProgress(c)' => c \in orphaned')
      BY <2>3
    <3>2. QED
      BY <1>1, <1>2, <2>1, <2>3, <3>1, GoneIsGone
  <2>9. Credits'
    BY <1>1, <2>3, CreditsStay DEF MeasuredInv, history
  <2>10. QED
    BY <1>3, <2>6, <2>7, <2>8, <2>9 DEF BothStep, RunnerNext
<1>6. QED
  BY <1>4, <1>5

LEMMA BeginKeepsFamily ==
    ASSUME MeasuredInv, NEW r \in Runs, Begin(r),
           UNCHANGED <<child, askedFor, orphaned, runner>>
    PROVE  /\ EngineOn' = EngineOn /\ Orphans' = Orphans /\ Family'
<1>1. /\ kitt[r].pc = "off" /\ kitt'[r].pc = "prepare" /\ kitt'[r].s = kitt[r].s
      /\ \A s \in Runs : s # r => kitt'[s] = kitt[s]
      /\ UNCHANGED <<host, server, report>>
      /\ met'[r] = {t \in Runs : InProgress(t)}
      /\ \A s \in Runs : s # r => met'[s] \subseteq met[s] \cup {r}
  BY Begun DEF MeasuredInv
<1>2. r \notin Asked /\ Asked' = Asked /\ Asked \subseteq Runs
  BY <1>1 DEF MeasuredInv, Family, Asked
<1>3. \A s \in Asked : HasContainer(s)' = HasContainer(s) /\ InProgress(s)' = InProgress(s)
                       /\ s # r
  BY <1>1, <1>2, SameToTheCampaign
<1>4. EngineOn' = EngineOn /\ Orphans' = Orphans
  <2>1. ASSUME NEW k PROVE (k \in EngineOn' <=> k \in EngineOn) /\ (k \in Orphans' <=> k \in Orphans)
    <3>1. k \in EngineOn' <=> \E s \in Asked :
                                 /\ askedFor[s] = k
                                 /\ s = child \/ (HasContainer(s)' /\ ~InProgress(s)')
      BY <1>2 DEF EngineOn
    <3>2. k \in Orphans' <=> \E s \in Asked : askedFor[s] = k /\ s # child /\ InProgress(s)'
      BY <1>2 DEF Orphans
    <3>3. QED
      BY <1>3, <3>1, <3>2, InEngineOn
  <2>2. QED
    BY <2>1
<1>5. \A s, t \in Asked \ orphaned : t \in met'[s] => t = s
  BY <1>1, <1>2, <1>3 DEF MeasuredInv, Family
<1>6. ASSUME NEW s \in Runs, NEW t \in met'[s] PROVE kitt'[t].pc # "off"
  <2>1. t = r \/ (t \in Runs /\ InProgress(t)) \/ t \in met[s]
    BY <1>1
  <2>2. t \in Runs
    BY <2>1 DEF MeasuredInv, BenchInv, BenchTypes
  <2>3. t = r \/ kitt[t].pc # "off"
    BY <2>1 DEF InProgress, MeasuredInv, Family
  <2>4. QED
    BY <1>1, <2>2, <2>3
<1>7. /\ \A s \in Asked : kitt'[s].pc # "off"
      /\ \A s \in Asked : InProgress(s)' => s = child \/ s \in orphaned
  BY <1>1, <1>2, <1>3 DEF MeasuredInv, Family
<1>8. Current' = Current
  BY DEF Current
<1>9. QED
  BY <1>2, <1>4, <1>5, <1>6, <1>7, <1>8 DEF MeasuredInv, Family

(* What goes on without the campaign it sees, if at all, as the end of an  *)
(* orphan or of one of several.                                            *)
LEMMA GoingOnKeepsFamily ==
    ASSUME MeasuredInv, NEW r \in Runs, RunGoesOn(r),
           UNCHANGED <<child, askedFor, orphaned, runner>>
    PROVE  /\ Family'
           /\ \/ EngineOn' = EngineOn /\ Orphans' = Orphans
              \/ \E k \in Orphans : /\ Orphans' \in {Orphans, Orphans \ {k}}
                                    /\ EngineOn' \in {EngineOn, EngineOn \cup {k}}
<1>1. /\ kitt[r].pc # "off" /\ kitt'[r].pc # "off" /\ kitt'[r].s = kitt[r].s
      /\ \A s \in Runs : s # r => kitt'[s] = kitt[s] /\ server'[s] = server[s]
      /\ host'.spark = host.spark /\ UNCHANGED met
      /\ ~InProgress(r) => /\ kitt'[r].pc = kitt[r].pc
                           /\ server'[r] = server[r]
                                 \/ (server[r] # "none" /\ server'[r] # "none")
  BY WentOn DEF MeasuredInv
<1>2. Asked' = Asked /\ Asked \subseteq Runs
  BY DEF Asked
<1>3. \A s \in Asked : s # r \/ ~InProgress(r) =>
          HasContainer(s)' = HasContainer(s) /\ InProgress(s)' = InProgress(s)
  BY <1>1, <1>2, SameToTheCampaign
<1>4. Family'
  <2>1. \A s \in Runs : met[s] \subseteq Runs
    BY DEF MeasuredInv, BenchInv, BenchTypes
  <2>2. \A s \in Runs : kitt[s].pc # "off" => kitt'[s].pc # "off"
    BY <1>1
  <2>3. \A s \in Runs : \A t \in met[s] : kitt'[t].pc # "off"
    BY <2>1, <2>2 DEF MeasuredInv, Family
  <2>4. \A s \in Asked : InProgress(s)' => InProgress(s)
    <3>1. \A s \in Asked : s = r /\ InProgress(r) => InProgress(s)
      OBVIOUS
    <3>2. QED
      BY <1>3, <3>1
  <2>5. Current' = Current
    BY DEF Current
  <2>6. /\ \A s \in Asked : kitt'[s].pc # "off"
        /\ \A s \in Asked : InProgress(s)' => s = child \/ s \in orphaned
    BY <1>2, <2>2, <2>4 DEF MeasuredInv, Family
  <2>7. QED
    BY <1>1, <1>2, <2>3, <2>5, <2>6 DEF MeasuredInv, Family
<1>5. ASSUME NEW k
      PROVE  /\ k \in EngineOn' <=> \E s \in Asked :
                                       /\ askedFor[s] = k
                                       /\ s = child \/ (HasContainer(s)' /\ ~InProgress(s)')
             /\ k \in Orphans' <=> \E s \in Asked : askedFor[s] = k /\ s # child /\ InProgress(s)'
  BY <1>2 DEF EngineOn, Orphans
<1>6. CASE r \notin Asked \/ r = child \/ ~InProgress(r)
  <2>1. \A s \in Asked : s = child \/ (HasContainer(s)' = HasContainer(s)
                                       /\ InProgress(s)' = InProgress(s))
    BY <1>3, <1>6
  <2>2. ASSUME NEW k PROVE (k \in EngineOn' <=> k \in EngineOn) /\ (k \in Orphans' <=> k \in Orphans)
    BY <1>5, <2>1, InEngineOn
  <2>3. QED
    BY <1>4, <2>2
<1>7. CASE r \in Asked /\ r # child /\ InProgress(r)
  <2> DEFINE k == askedFor[r]
  <2>1. k \in Orphans
    BY <1>7, InEngineOn
  <2>2. \A s \in Asked : s # r => HasContainer(s)' = HasContainer(s) /\ InProgress(s)' = InProgress(s)
    BY <1>3
  <2>3. ASSUME NEW l PROVE l \in EngineOn => l \in EngineOn'
    BY <1>5, <1>7, <2>2, InEngineOn
  <2>4. ASSUME NEW l PROVE l \in EngineOn' => l \in EngineOn \/ l = k
    BY <1>5, <1>7, <2>2, InEngineOn
  <2>5. ASSUME NEW l PROVE l \in Orphans' => l \in Orphans
    <3> SUFFICES ASSUME l \in Orphans' PROVE l \in Orphans
      OBVIOUS
    <3>1. PICK s \in Asked : askedFor[s] = l /\ s # child /\ InProgress(s)'
      BY <1>5
    <3>2. InProgress(s)
      BY <1>7, <2>2, <3>1
    <3>3. QED
      BY <3>1, <3>2, InEngineOn
  <2>6. ASSUME NEW l PROVE l \in Orphans => l \in Orphans' \/ l = k
    BY <1>5, <1>7, <2>2, InEngineOn
  <2> HIDE DEF k
  <2>7. Orphans' \in {Orphans, Orphans \ {k}} /\ EngineOn' \in {EngineOn, EngineOn \cup {k}}
    BY <2>1, <2>3, <2>4, <2>5, <2>6
  <2>8. QED
    BY <1>4, <2>1, <2>7
<1>8. QED
  BY <1>6, <1>7

LEMMA MachineStepKeeps ==
    ASSUME MeasuredInv, MachineStep
    PROVE  BothStep /\ Family' /\ InView' /\ Credits'
<1>1. /\ UNCHANGED <<child, askedFor, credited, orphaned>> /\ TakesStock
      /\ UNCHANGED <<stateFile, runner, prefetch, onDisk, configured, starts, history, excused>>
  BY DEF MachineStep
<1>2. InView' /\ engineOn' = EngineOn' /\ orphans' = Orphans' /\ engineOn = EngineOn /\ orphans = Orphans
  BY <1>1 DEF TakesStock, InView, MeasuredInv
<1>3. ASSUME EngineOn' = EngineOn, Orphans' = Orphans PROVE UNCHANGED runnerVars
  BY <1>1, <1>2, <1>3 DEF runnerVars, configured, history
<1>4. CASE \E r \in Runs : Begin(r)
  <2>1. PICK r \in Runs : Begin(r)
    BY <1>4
  <2>2. EngineOn' = EngineOn /\ Orphans' = Orphans /\ Family'
    BY <1>1, <2>1, BeginKeepsFamily
  <2>3. UNCHANGED report
    BY <2>1 DEF Begin
  <2>4. Credits'
    BY <1>1, <2>3, CreditsStay DEF MeasuredInv, history
  <2>5. QED
    BY <1>2, <1>3, <2>1, <2>2, <2>4 DEF BothStep, BenchNext
<1>5. CASE \E r \in Runs : RunGoesOn(r)
  <2>1. PICK r \in Runs : RunGoesOn(r)
    BY <1>5
  <2>2. /\ Family'
        /\ \/ EngineOn' = EngineOn /\ Orphans' = Orphans
           \/ \E k \in Orphans : /\ Orphans' \in {Orphans, Orphans \ {k}}
                                 /\ EngineOn' \in {EngineOn, EngineOn \cup {k}}
    BY <1>1, <2>1, GoingOnKeepsFamily
  <2>3. [RunnerNext]_runnerVars
    <3>1. CASE EngineOn' = EngineOn /\ Orphans' = Orphans
      BY <1>3, <3>1
    <3>2. CASE \E k \in Orphans : /\ Orphans' \in {Orphans, Orphans \ {k}}
                                  /\ EngineOn' \in {EngineOn, EngineOn \cup {k}}
      <4>1. OrphanEnds
        BY <1>1, <1>2, <3>2 DEF OrphanEnds
      <4>2. QED
        BY <4>1 DEF RunnerNext
    <3>3. QED
      BY <2>2, <3>1, <3>2
  <2>4. \A s \in Runs : report[s].there => report'[s].there
    BY <2>1, WentOn DEF MeasuredInv
  <2>5. Credits'
    BY <1>1, <2>4, CreditsStay DEF MeasuredInv, history
  <2>6. QED
    BY <1>2, <2>1, <2>2, <2>3, <2>5 DEF BothStep, BenchNext
<1>6. CASE \E kind \in EngineKinds : EnginesSetup(kind)
  <2>1. PICK kind \in EngineKinds : EnginesSetup(kind)
    BY <1>6
  <2>2. /\ UNCHANGED <<kitt, server, met, report>>
        /\ host' = [host EXCEPT !.images = @ \cup {kind}] /\ host \in Machine
    BY <2>1 DEF EnginesSetup, SetupEngine, MeasuredInv, BenchInv, BenchTypes
  <2>3. host'.spark = host.spark
    BY <2>2 DEF Machine
  <2>4. EngineOn' = EngineOn /\ Orphans' = Orphans
    <3>1. \A r \in Runs : HasContainer(r)' = HasContainer(r) /\ InProgress(r)' = InProgress(r)
      BY <2>2, <2>3, SameToTheCampaign
    <3>2. Asked' = Asked /\ Asked \subseteq Runs
      BY <1>1 DEF Asked
    <3>3. ASSUME NEW k PROVE (k \in EngineOn' <=> k \in EngineOn) /\ (k \in Orphans' <=> k \in Orphans)
      <4>1. k \in EngineOn' <=> \E s \in Asked :
                                   /\ askedFor[s] = k
                                   /\ s = child \/ (HasContainer(s)' /\ ~InProgress(s)')
        BY <1>1, <3>2 DEF EngineOn
      <4>2. k \in Orphans' <=> \E s \in Asked : askedFor[s] = k /\ s # child /\ InProgress(s)'
        BY <1>1, <3>2 DEF Orphans
      <4>3. QED
        BY <3>1, <3>2, <4>1, <4>2, InEngineOn
    <3>4. QED
      BY <3>3
  <2>5. Family'
    BY <1>1, <2>2, FamilyStays DEF MeasuredInv, Current
  <2>6. Credits'
    BY <1>1, <2>2, CreditsStay DEF MeasuredInv, history
  <2>7. QED
    BY <1>2, <1>3, <2>1, <2>4, <2>5, <2>6 DEF BothStep, BenchNext
<1>7. QED
  BY <1>4, <1>5, <1>6 DEF MachineStep

-----------------------------------------------------------------------------

LEMMA MeasuredStep ==
    ASSUME MeasuredInv, [MeasuredNext]_measuredVars
    PROVE  BothStep /\ MeasuredInv'
<1>1. BothStep /\ Family' /\ InView' /\ Credits'
  <2>1. CASE UNCHANGED measuredVars
    <3>1. /\ UNCHANGED <<runnerVars, benchVars>> /\ UNCHANGED <<child, askedFor, credited, orphaned>>
          /\ UNCHANGED <<host, kitt, server, report, met, runner, engineOn, orphans, earned>>
      BY <2>1 DEF measuredVars, runnerVars, benchVars, history
    <3>2. Family'
      BY <3>1, FamilyStays DEF MeasuredInv, Current
    <3>3. InView'
      BY <3>1, NothingNewInView DEF MeasuredInv, InView
    <3>4. Credits'
      BY <3>1, CreditsStay DEF MeasuredInv
    <3>5. QED
      BY <3>1, <3>2, <3>3, <3>4 DEF BothStep
  <2>2. CASE MeasuredNext
    BY <2>2, BeginCampaignKeeps, RunnerStepKeeps, StartChildKeeps, ChildEndsKeeps,
       SweepContainersKeeps, CampaignDiesKeeps, MachineStepKeeps DEF MeasuredNext
  <2>3. QED
    BY <2>1, <2>2
<1>2. RunnerBase' /\ BenchInv'
  BY <1>1, BaseStepKeeps, BenchStepKeeps DEF MeasuredInv, BothStep
<1>3. QED
  BY <1>1, <1>2 DEF MeasuredInv

LEMMA MeasuredStart == MeasuredInit => MeasuredInv
<1> SUFFICES ASSUME MeasuredInit PROVE MeasuredInv
  OBVIOUS
<1>1. RunnerInit /\ BenchInit /\ RunnerBase /\ BenchInv
  BY BaseInit, BenchInitIsSound DEF MeasuredInit
<1>2. /\ child = NoRun /\ askedFor = [r \in Runs |-> NoKey] /\ credited = [i \in Ids |-> {}]
      /\ orphaned = {} /\ Asked = {}
  BY DEF MeasuredInit, Asked
<1>3. runner.pc # "measuring" /\ engineOn = {} /\ orphans = {} /\ earned = [i \in Ids |-> {}]
      /\ met = [r \in Runs |-> {}]
  BY <1>1, OffIsSound DEF RunnerInit, BenchInit
<1>4. Family
  BY <1>2, <1>3 DEF Family
<1>5. InView
  BY <1>2, <1>3 DEF InView, EngineOn, Orphans
<1>6. Credits
  BY <1>2, <1>3 DEF Credits
<1>7. QED
  BY <1>1, <1>4, <1>5, <1>6 DEF MeasuredInv

LEMMA MeasuredInvariant == MeasuredSpec => []MeasuredInv
  BY MeasuredStart, MeasuredStep, PTL DEF MeasuredSpec

(* Whatever the machine does, the campaign sees a child that its own model *)
(* allows: every theorem about RunnerSpec holds of it.                     *)
THEOREM CampaignRefinementOfRunner == MeasuredSpec => ImplementsCampaign
<1>1. MeasuredInit => RunnerInit
  BY DEF MeasuredInit
<1>2. MeasuredInv /\ [MeasuredNext]_measuredVars => [RunnerNext]_runnerVars
  BY MeasuredStep DEF BothStep
<1>3. QED
  BY <1>1, <1>2, MeasuredInvariant, PTL DEF MeasuredSpec, RunnerSpec, ImplementsCampaign

(* Whatever the campaign does to runs and containers, a user could have    *)
(* done: every theorem about BenchSpec holds of them.                      *)
THEOREM MachineRefinement == MeasuredSpec => ImplementsRuns
<1>1. MeasuredInit => BenchInit
  BY DEF MeasuredInit
<1>2. MeasuredInv /\ [MeasuredNext]_measuredVars => [BenchNext]_benchVars
  BY MeasuredStep DEF BothStep
<1>3. QED
  BY <1>1, <1>2, MeasuredInvariant, PTL DEF MeasuredSpec, BenchSpec, ImplementsRuns

(* So both hold at once: neither asks of the other what it does not do.    *)
THEOREM PartsAreImplemented == MeasuredSpec => ImplementsParts
  BY CampaignRefinementOfRunner, MachineRefinement DEF ImplementsParts

(* The campaign's view of its child, of the engines that are up and of the *)
(* orphans is what the machine has.                                        *)
THEOREM MeasuredTypesAlways == MeasuredSpec => []MeasuredTypeOK
<1>1. MeasuredInv => MeasuredTypeOK
  BY DEF MeasuredInv, Family, InView, Credits, MeasuredTypeOK
<1>2. QED
  BY <1>1, MeasuredInvariant, PTL

(* However often a campaign's processes die, fail to save or are resumed,  *)
(* a success in its file has a report that a child of its own wrote.       *)
THEOREM SuccessIsReportedAlways == MeasuredSpec => []SuccessIsReported
<1>1. MeasuredInv /\ RecordedIsEarned => SuccessIsReported
  <2> SUFFICES ASSUME MeasuredInv, RecordedIsEarned, NEW i \in Ids \ previewed, NEW k \in Keys,
                      stateFile[i].run[k] = "success"
               PROVE  \E r \in credited[i] : askedFor[r] = k /\ report[r].there
    BY DEF SuccessIsReported
  <2>1. k \in earned[i]
    BY DEF RecordedIsEarned
  <2>2. PICK r \in credited[i] : askedFor[r] = k
    BY <2>1 DEF MeasuredInv, Credits
  <2>3. QED
    BY <2>2 DEF MeasuredInv, Credits
<1>2. QED
  BY <1>1, MeasuredInvariant, CampaignRefinementOfRunner, RecordedIsEarnedAlways, PTL
     DEF ImplementsCampaign

(* With no stranger on the machine a campaign's run is answered by its own *)
(* engine, with its own model or, from a native Ollama, with that of an    *)
(* import that was not read to its end: campaigns do not disturb           *)
(* themselves otherwise.                                                   *)
THEOREM CampaignMeasuresItsModelAlways == MeasuredSpec => []CampaignMeasuresItsModel
<1>1. MeasuredInv => CampaignMeasuresItsModel
  <2> SUFFICES ASSUME MeasuredInv, NEW r \in Asked \ orphaned, Strangers(r) = {},
                      NEW a \in ToSet(report[r].by)
               PROVE  /\ a.engine = r \/ (a.engine = Service /\ Kind(r) = "ollama")
                      /\ a.model = kitt[r].s.model
                            \/ (Kind(r) = "ollama" /\ a.model \in Unread(r))
    BY DEF CampaignMeasuresItsModel
  <2>1. r \in Runs /\ IsOwn(r, a)
    BY DEF Asked, MeasuredInv, BenchInv, AnswersAreOwn
  <2>2. met[r] \subseteq {r} /\ untidy \subseteq {r}
    BY DEF Strangers, MeasuredInv, Family
  <2>3. Company(r) = {r}
    BY <2>2 DEF Company
  <2>4. {kitt[s].s.model : s \in Company(r)} = {kitt[r].s.model}
    BY <2>3
  <2>5. QED
    BY <2>1, <2>3, <2>4 DEF IsOwn
<1>2. QED
  BY <1>1, MeasuredInvariant, PTL

=============================================================================
