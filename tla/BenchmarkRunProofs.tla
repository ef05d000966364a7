------------------------- MODULE BenchmarkRunProofs -------------------------
(***************************************************************************)
(* Theorems about kitt run processes and the engines they share ports,     *)
(* containers and tags with, for every set of runs and of settings, every  *)
(* number of prompts, and whatever fails.                                  *)
(***************************************************************************)
EXTENDS BenchmarkRun, SequenceTheorems, TLAPS

Models == {s.model : s \in Settings}
AnswerSet == [engine : Runs \cup {Service}, model : Models]

Machine == [docker : BOOLEAN, spark : BOOLEAN, service : BOOLEAN,
            images : SUBSET EngineKinds, binaries : SUBSET EngineKinds]
EngineStates == {"none", "starting", "up", "exited"}
RunStates == [pc : BenchPcs, s : Settings, item : Nat, errors : Nat, by : Seq(AnswerSet),
              unread : BOOLEAN, late : Runs \cup {Service, NoRun}]
Reports == [passed : BOOLEAN, by : Seq(AnswerSet), there : BOOLEAN]

BenchTypes ==
    /\ host \in Machine
    /\ kitt \in [Runs -> RunStates]
    /\ server \in [Runs -> EngineStates]
    /\ listener \in [Ports -> Runs \cup {Service, NoRun}]
    /\ tags \in [Runs \cup {Service, Home} -> SUBSET (({"kitt-local-model"} \cup Models) \X Models)]
    /\ report \in [Runs -> Reports]
    /\ met \in [Runs -> SUBSET Runs] /\ untidy \subseteq Runs

(* A run has an engine only between its start and its end, unless it left  *)
(* the engine behind.                                                      *)
EnginesHaveRuns ==
    \A r \in Runs :
       /\ kitt[r].pc \in {"off", "prepare", "init"} \/ Kind(r) = "mlx" => server[r] = "none"
       /\ Alive(r) => \/ kitt[r].pc \in {"verify", "health", "load", "suite", "items", "stop"}
                      \/ r \in untidy

(* Who listens on a port: an engine that is up, on its own; the service,   *)
(* on Ollama's, for ever.                                                  *)
PortsAreKept ==
    /\ \A p \in Ports : listener[p] = Service <=> (host.service /\ p = 11434)
    /\ \A p \in Ports, r \in Runs : listener[p] = r => server[r] = "up" /\ Bound(r) = p
    /\ \A r \in Runs : server[r] = "up" => listener[Bound(r)] = r

(* Two runs in progress have met, and one that has not begun has no answer.*)
RunsHaveMet ==
    \A r \in Runs :
       /\ \A s \in Runs : InProgress(r) /\ InProgress(s) /\ r # s => s \in met[r]
       /\ kitt[r].pc = "off" => kitt[r].by = <<>> /\ report[r].by = <<>>

(* The models of an Ollama container are loaded after its start; what an   *)
(* Ollama has, it has of native runs or of its own.                        *)
TagsAreLoaded ==
    /\ \A e \in Runs : tags[e] # {} =>
           server[e] # "starting" /\ kitt[e].pc \notin {"off", "prepare", "init"}
    /\ \A e \in Runs \cup {Service, Home} : \A t \in tags[e] : \E s \in Runs :
           /\ Kind(s) = "ollama" /\ (Mode(s) = "native" \/ s = e)
           /\ t = <<Tag(s), kitt[s].s.model>>

(* Only a native Ollama's import may come late, and then it was not read.  *)
LateIsUnread ==
    \A r \in Runs : kitt[r].late # NoRun =>
        kitt[r].unread /\ kitt[r].pc # "off" /\ Kind(r) = "ollama" /\ Mode(r) = "native"

ModelsOf(S) == {kitt[s].s.model : s \in S}
Loaded(r) == Kind(r) = "ollama" /\ kitt[r].pc \in {"suite", "items"}
UnderItsTag(r, S) == {t[2] : t \in {t \in S : t[1] = Tag(r)}}

(* What stands under the tag of a run that has loaded its model, in the    *)
(* store of whoever listens where it asks.                                 *)
ThereFor(r, e) ==
    /\ e # NoRun /\ OllamaSpeaks(e) /\ StoreOf(e) # Home =>
          UnderItsTag(r, tags[StoreOf(e)]) \subseteq ModelsOf(Company(r)) \cup Unread(r)
    /\ Company(r) = {r} /\ Mode(r) = "native" /\ e # Service =>
          UnderItsTag(r, tags[Home]) \subseteq {kitt[r].s.model} \cup Unread(r)

LoadedIsThere ==
    \A r \in Runs, e \in Runs \cup {Service, NoRun} :
       Loaded(r) /\ listener[Polled(r)] = e => ThereFor(r, e)

(* The property itself, of the answers so far too.                         *)
AnswersAreOwn ==
    \A r \in Runs : \A a \in ToSet(kitt[r].by) \cup ToSet(report[r].by) : IsOwn(r, a)

BenchInv ==
    /\ BenchTypes /\ EnginesHaveRuns /\ PortsAreKept /\ RunsHaveMet /\ TagsAreLoaded
    /\ LateIsUnread /\ LoadedIsThere /\ AnswersAreOwn

-----------------------------------------------------------------------------

LEMMA BenchIsTyped ==
    ASSUME BenchInv, NEW r \in Runs
    PROVE  /\ kitt[r] \in RunStates /\ server[r] \in EngineStates /\ report[r] \in Reports
           /\ met[r] \subseteq Runs /\ Kind(r) \in EngineKinds /\ kitt[r].s \in Settings
           /\ kitt[r].s.model \in Models /\ Tag(r) \in {"kitt-local-model"} \cup Models
           /\ Kind(r) # "mlx" => Polled(r) \in Ports /\ Bound(r) \in Ports
           /\ tags[r] \subseteq ({"kitt-local-model"} \cup Models) \X Models
<1>1. /\ kitt[r] \in RunStates /\ server[r] \in EngineStates /\ report[r] \in Reports
      /\ met[r] \subseteq Runs /\ tags[r] \subseteq ({"kitt-local-model"} \cup Models) \X Models
  BY DEF BenchInv, BenchTypes
<1>2. kitt[r].s \in Settings
  BY <1>1 DEF RunStates
<1>3. kitt[r].s.model \in Models /\ Kind(r) \in EngineKinds /\ kitt[r].s.port \in Ports \cup {0}
  BY <1>2, BenchAssumption DEF Models, Kind, Ports
<1>4. Kind(r) # "mlx" => DefaultPort[Kind(r)] \in Ports
  BY <1>3 DEF EngineKinds, DefaultPort, Ports
<1>5. Kind(r) # "mlx" => Polled(r) \in Ports
  BY <1>3, <1>4 DEF Polled
<1>6. Kind(r) # "mlx" => Bound(r) \in Ports
  BY <1>4, <1>5 DEF Bound, Ports
<1>7. QED
  BY <1>1, <1>2, <1>3, <1>5, <1>6 DEF Tag

(* What a run was asked, and the machine, stay: so does what follows.      *)
LEMMA SameRun ==
    ASSUME NEW r, kitt'[r].s = kitt[r].s, host'.spark = host.spark
    PROVE  /\ Kind(r)' = Kind(r) /\ Mode(r)' = Mode(r) /\ Polled(r)' = Polled(r)
           /\ Bound(r)' = Bound(r) /\ Tag(r)' = Tag(r)
<1>1. Kind(r)' = Kind(r) /\ Tag(r)' = Tag(r)
  BY DEF Kind, Tag
<1>2. Mode(r)' = Mode(r) /\ Polled(r)' = Polled(r)
  BY <1>1 DEF Mode, DefaultMode, Polled
<1>3. QED
  BY <1>1, <1>2 DEF Bound

LEMMA ToMoves ==
    ASSUME BenchInv, NEW r \in Runs, NEW q \in BenchPcs, To(r, q)
    PROVE  /\ kitt' \in [Runs -> RunStates] /\ kitt'[r].pc = q
           /\ \A s \in Runs : kitt'[s].s = kitt[s].s /\ kitt'[s].by = kitt[s].by
           /\ \A s \in Runs : kitt'[s].unread = kitt[s].unread /\ kitt'[s].late = kitt[s].late
           /\ \A s \in Runs : s # r => kitt'[s] = kitt[s]
<1>1. kitt \in [Runs -> RunStates]
  BY DEF BenchInv, BenchTypes
<1>2. kitt' = [kitt EXCEPT ![r] = [kitt[r] EXCEPT !.pc = q]]
  BY <1>1 DEF To
<1>3. /\ [kitt[r] EXCEPT !.pc = q] \in RunStates /\ [kitt[r] EXCEPT !.pc = q].pc = q
      /\ [kitt[r] EXCEPT !.pc = q].s = kitt[r].s /\ [kitt[r] EXCEPT !.pc = q].by = kitt[r].by
      /\ [kitt[r] EXCEPT !.pc = q].unread = kitt[r].unread
      /\ [kitt[r] EXCEPT !.pc = q].late = kitt[r].late
  BY <1>1 DEF RunStates
<1>4. QED
  BY <1>1, <1>2, <1>3

LEMMA AnswersAreTyped ==
    ASSUME BenchInv, NEW r \in Runs, NEW a \in ToSet(kitt[r].by) \cup ToSet(report[r].by)
    PROVE  a \in AnswerSet /\ a.engine \in Runs \cup {Service}
<1>1. kitt[r].by \in Seq(AnswerSet) /\ report[r].by \in Seq(AnswerSet)
  BY BenchIsTyped DEF RunStates, Reports
<1>2. a \in AnswerSet
  BY <1>1, ElementOfSeq, LenProperties DEF ToSet
<1>3. QED
  BY <1>2 DEF AnswerSet

LEMMA LastOfAppend ==
    ASSUME NEW S, NEW seq \in Seq(S), NEW x \in S
    PROVE  ToSet(Append(seq, x)) = ToSet(seq) \cup {x}
<1>1. /\ Append(seq, x) \in Seq(S) /\ Len(Append(seq, x)) = Len(seq) + 1
      /\ \A i \in 1..Len(seq) : Append(seq, x)[i] = seq[i]
      /\ Append(seq, x)[Len(seq) + 1] = x
      /\ Len(seq) \in Nat /\ DOMAIN seq = 1..Len(seq)
      /\ DOMAIN Append(seq, x) = 1..(Len(seq) + 1)
  BY AppendProperties, LenProperties
<1>2. \A i \in 1..(Len(seq) + 1) : Append(seq, x)[i] \in ToSet(seq) \cup {x}
  BY <1>1 DEF ToSet
<1>3. \A f \in ToSet(seq) \cup {x} : \E i \in 1..(Len(seq) + 1) : Append(seq, x)[i] = f
  BY <1>1 DEF ToSet
<1>4. QED
  BY <1>1, <1>2, <1>3 DEF ToSet

(* What a run may find under its name because of imports not read to their *)
(* end only grows.                                                         *)
LEMMA UnreadStays ==
    ASSUME NEW r \in Runs, host'.spark = host.spark,
           \A s \in Runs : kitt'[s].s = kitt[s].s /\ (kitt[s].unread => kitt'[s].unread)
    PROVE  Unread(r) \subseteq Unread(r)' /\ LeftAtHome(r)' = LeftAtHome(r)
<1>1. \A s \in Runs : /\ Kind(s)' = Kind(s) /\ Mode(s)' = Mode(s) /\ Tag(s)' = Tag(s)
  BY SameRun
<1>2. Namesakes(r)' = Namesakes(r) /\ Namesakes(r) \subseteq Runs
  BY <1>1 DEF Namesakes
<1>3. LeftAtHome(r)' = LeftAtHome(r)
  BY <1>2 DEF LeftAtHome
<1>4. Unread(r) \subseteq Unread(r)'
  BY <1>2 DEF Unread
<1>5. QED
  BY <1>3, <1>4

(* An answer stays what it was when a run meets more others.               *)
LEMMA OwnStaysOwn ==
    ASSUME BenchInv, NEW r \in Runs, NEW a, IsOwn(r, a), a.engine \in Runs \cup {Service},
           host'.spark = host.spark,
           \A s \in Runs : kitt'[s].s = kitt[s].s /\ (kitt[s].unread => kitt'[s].unread),
           met[r] \subseteq met'[r], untidy \subseteq untidy'
    PROVE  IsOwn(r, a)'
<1>1. \A s \in Runs : /\ Kind(s)' = Kind(s) /\ Mode(s)' = Mode(s) /\ Tag(s)' = Tag(s)
  BY SameRun
<1>2. Company(r) \subseteq Company(r)' /\ Company(r) \subseteq Runs /\ r \in Company(r)
  BY DEF Company, BenchInv, BenchTypes
<1>3. {kitt[s].s.model : s \in Company(r)} \subseteq {kitt[s].s.model : s \in Company(r)}'
  BY <1>2
<1>4. LeftAtHome(r)' = LeftAtHome(r) /\ Unread(r) \subseteq Unread(r)'
  BY UnreadStays
<1>5. Company(r) # {r} => Company(r)' # {r}
  BY <1>2
<1>6. QED
  BY <1>1, <1>2, <1>3, <1>4, <1>5 DEF IsOwn

-----------------------------------------------------------------------------

(* Runs proceed, nobody meets, loads or answers: the rest depends on the   *)
(* engines and the ports.                                                  *)
LEMMA Quiet ==
    ASSUME BenchInv,
           host' \in Machine, host'.service = host.service, host'.spark = host.spark,
           kitt' \in [Runs -> RunStates],
           \A r \in Runs :
              /\ kitt'[r].s = kitt[r].s /\ kitt'[r].by = kitt[r].by
              /\ kitt'[r].unread = kitt[r].unread /\ kitt'[r].late = kitt[r].late
              /\ kitt'[r].pc = "off" => kitt[r].pc = "off"
              /\ kitt'[r].pc \in {"off", "prepare", "init"} =>
                    kitt[r].pc \in {"off", "prepare", "init"}
              /\ kitt'[r].pc \notin {"off", "over"} => kitt[r].pc \notin {"off", "over"}
              /\ kitt'[r].pc \in {"suite", "items"} /\ Kind(r) = "ollama" =>
                    kitt[r].pc \in {"suite", "items"}
              /\ server'[r] = "starting" => server[r] = "starting" \/ tags[r] = {}
              /\ report'[r].by \in {report[r].by, kitt[r].by},
           server' \in [Runs -> EngineStates],
           listener' \in [Ports -> Runs \cup {Service, NoRun}],
           \A p \in Ports : \/ listener'[p] = listener[p]
                            \/ listener[p] \in Runs /\ listener'[p] = NoRun,
           tags' = tags, met' = met, untidy \subseteq untidy', untidy' \subseteq Runs,
           report' \in [Runs -> Reports],
           EnginesHaveRuns', PortsAreKept'
    PROVE  BenchInv'
<1>1. \A s \in Runs : /\ Kind(s)' = Kind(s) /\ Mode(s)' = Mode(s) /\ Tag(s)' = Tag(s)
                      /\ Polled(s)' = Polled(s)
  BY SameRun
<1>2. BenchTypes'
  BY DEF BenchInv, BenchTypes
<1>3. RunsHaveMet'
  BY DEF BenchInv, RunsHaveMet, InProgress
<1>4. TagsAreLoaded'
  <2>1. ASSUME NEW e \in Runs, tags[e] # {}
        PROVE  server'[e] # "starting" /\ kitt'[e].pc \notin {"off", "prepare", "init"}
    BY <2>1 DEF BenchInv, TagsAreLoaded
  <2>2. ASSUME NEW e \in Runs \cup {Service, Home}, NEW t \in tags[e]
        PROVE  \E s \in Runs : /\ Kind(s)' = "ollama" /\ (Mode(s)' = "native" \/ s = e)
                               /\ t = <<Tag(s)', kitt'[s].s.model>>
    <3>1. PICK s \in Runs : Kind(s) = "ollama" /\ (Mode(s) = "native" \/ s = e)
                            /\ t = <<Tag(s), kitt[s].s.model>>
      BY DEF BenchInv, TagsAreLoaded
    <3>2. QED
      BY <1>1, <3>1
  <2>3. QED
    BY <2>1, <2>2 DEF TagsAreLoaded
<1>5. LateIsUnread'
  BY <1>1 DEF BenchInv, LateIsUnread
<1>6. \A r \in Runs : Unread(r) \subseteq Unread(r)'
  BY UnreadStays
<1>7. \A r \in Runs : Company(r) \subseteq Company(r)' /\ r \in Company(r) /\ Company(r)' \subseteq Runs
  BY <1>2 DEF Company, BenchTypes
<1>8. LoadedIsThere'
  <2> SUFFICES ASSUME NEW r \in Runs, NEW e \in Runs \cup {Service, NoRun}, Loaded(r)',
                      listener'[Polled(r)] = e
               PROVE  ThereFor(r, e)'
    BY <1>1 DEF LoadedIsThere
  <2> DEFINE f == listener[Polled(r)]
  <2>1. Loaded(r) /\ Kind(r) = "ollama" /\ Polled(r) \in Ports
    BY <1>1, BenchIsTyped DEF Loaded
  <2>2. e = f \/ (f \in Runs /\ e = NoRun)
    BY <2>1
  <2>3. f \in Runs \cup {Service, NoRun}
    BY <2>1 DEF BenchInv, BenchTypes
  <2>4. ThereFor(r, f)
    BY <2>1, <2>3 DEF BenchInv, LoadedIsThere
  <2>5. f = Service => e = Service
    BY <2>2, BenchAssumption
  <2>6. UnderItsTag(r, tags[Home])' = UnderItsTag(r, tags[Home])
    BY <1>1 DEF UnderItsTag
  <2>7. ModelsOf(Company(r)) \subseteq ModelsOf(Company(r))'
    BY <1>7 DEF ModelsOf
  <2>8. Company(r)' = {r} => Company(r) = {r}
    BY <1>7
  <2>9. e # NoRun => StoreOf(e)' = StoreOf(e) /\ OllamaSpeaks(e)' = OllamaSpeaks(e)
    <3>1. CASE e = Service
      BY <3>1, BenchAssumption DEF StoreOf, OllamaSpeaks
    <3>2. CASE e \in Runs
      BY <1>1, <3>2 DEF StoreOf, OllamaSpeaks
    <3>3. QED
      BY <3>1, <3>2
  <2> HIDE DEF f
  <2>10. e # NoRun => UnderItsTag(r, tags[StoreOf(e)])' = UnderItsTag(r, tags[StoreOf(e)])
    BY <1>1, <2>9 DEF UnderItsTag
  <2>11. QED
    BY <1>1, <1>6, <2>2, <2>4, <2>5, <2>6, <2>7, <2>8, <2>9, <2>10 DEF ThereFor
<1>9. AnswersAreOwn'
  <2> SUFFICES ASSUME NEW r \in Runs, NEW a \in ToSet(kitt'[r].by) \cup ToSet(report'[r].by)
               PROVE  IsOwn(r, a)'
    BY DEF AnswersAreOwn
  <2>1. a \in ToSet(kitt[r].by) \cup ToSet(report[r].by) /\ IsOwn(r, a)
    BY DEF BenchInv, AnswersAreOwn
  <2>2. a.engine \in Runs \cup {Service}
    BY <2>1, AnswersAreTyped
  <2>3. QED
    BY <2>1, <2>2, OwnStaysOwn
<1>10. QED
  BY <1>2, <1>3, <1>4, <1>8, <1>9, <1>5 DEF BenchInv

(* One run proceeds and no engine changes.                                 *)
LEMMA Advances ==
    ASSUME BenchInv, NEW r \in Runs, NEW q \in BenchPcs \ {"off"}, To(r, q), InProgress(r),
           q \in {"prepare", "init"} => kitt[r].pc \in {"prepare", "init"},
           q \in {"suite", "items"} /\ Kind(r) = "ollama" => kitt[r].pc \in {"suite", "items"},
           Alive(r) => \/ q \in {"verify", "health", "load", "suite", "items", "stop"}
                       \/ r \in untidy',
           host' \in Machine, host'.service = host.service, host'.spark = host.spark,
           UNCHANGED <<server, listener, tags, met>>,
           untidy \subseteq untidy', untidy' \subseteq Runs,
           report' \in [Runs -> Reports],
           \A s \in Runs : report'[s].by \in {report[s].by, kitt[s].by}
    PROVE  BenchInv'
<1>1. /\ kitt' \in [Runs -> RunStates] /\ kitt'[r].pc = q
      /\ \A s \in Runs : kitt'[s].s = kitt[s].s /\ kitt'[s].by = kitt[s].by
      /\ \A s \in Runs : kitt'[s].unread = kitt[s].unread /\ kitt'[s].late = kitt[s].late
      /\ \A s \in Runs : s # r => kitt'[s] = kitt[s]
  BY ToMoves
<1>2. \A s \in Runs : Kind(s)' = Kind(s) /\ Bound(s)' = Bound(s)
  BY <1>1, SameRun
<1>3. EnginesHaveRuns'
  <2> SUFFICES ASSUME NEW s \in Runs
               PROVE  /\ kitt'[s].pc \in {"off", "prepare", "init"} \/ Kind(s) = "mlx" =>
                            server[s] = "none"
                      /\ Alive(s) =>
                           \/ kitt'[s].pc \in {"verify", "health", "load", "suite", "items", "stop"}
                           \/ s \in untidy'
    BY <1>2 DEF EnginesHaveRuns, Alive
  <2>1. CASE s = r
    BY <1>1, <2>1 DEF BenchInv, EnginesHaveRuns
  <2>2. CASE s # r
    BY <1>1, <2>2 DEF BenchInv, EnginesHaveRuns
  <2>3. QED
    BY <2>1, <2>2
<1>4. PortsAreKept'
  BY <1>2 DEF BenchInv, PortsAreKept
<1>5. \A s \in Runs :
              /\ kitt'[s].pc = "off" => kitt[s].pc = "off"
              /\ kitt'[s].pc \in {"off", "prepare", "init"} =>
                    kitt[s].pc \in {"off", "prepare", "init"}
              /\ kitt'[s].pc \notin {"off", "over"} => kitt[s].pc \notin {"off", "over"}
              /\ kitt'[s].pc \in {"suite", "items"} /\ Kind(s) = "ollama" =>
                    kitt[s].pc \in {"suite", "items"}
              /\ server'[s] = "starting" => server[s] = "starting" \/ tags[s] = {}
  <2>1. kitt[r].pc \notin {"off", "over"}
    BY DEF InProgress
  <2>2. QED
    BY <1>1, <2>1
<1>6. server' \in [Runs -> EngineStates] /\ listener' \in [Ports -> Runs \cup {Service, NoRun}]
  BY DEF BenchInv, BenchTypes
<1>7. QED
  BY <1>1, <1>3, <1>4, <1>5, <1>6, Quiet

(* The engines of some runs go, and leave their ports.                     *)
LEMMA EnginesGo ==
    ASSUME BenchInv, NEW S \in SUBSET Runs, NEW w \in {"none", "exited"},
           w = "exited" => \A s \in S : server[s] # "none",
           server' = [s \in Runs |-> IF s \in S THEN w ELSE server[s]],
           listener' = [p \in Ports |-> IF listener[p] \in S THEN NoRun ELSE listener[p]],
           kitt' \in [Runs -> RunStates],
           \A s \in Runs :
              /\ kitt'[s].s = kitt[s].s /\ kitt'[s].by = kitt[s].by
              /\ kitt'[s].unread = kitt[s].unread /\ kitt'[s].late = kitt[s].late
              /\ \/ kitt'[s].pc = kitt[s].pc
                 \/ s \in S /\ InProgress(s) /\ kitt'[s].pc \in {"write", "over"},
           UNCHANGED <<host, tags, met, report>>,
           untidy' = untidy
    PROVE  BenchInv'
<1>1. \A s \in Runs : Kind(s)' = Kind(s) /\ Bound(s)' = Bound(s)
  BY SameRun
<1>2. /\ server \in [Runs -> EngineStates] /\ listener \in [Ports -> Runs \cup {Service, NoRun}]
      /\ host' \in Machine /\ report' \in [Runs -> Reports] /\ untidy' \subseteq Runs
  BY DEF BenchInv, BenchTypes
<1>3. server' \in [Runs -> EngineStates] /\ listener' \in [Ports -> Runs \cup {Service, NoRun}]
  BY <1>2 DEF EngineStates
<1>4. EnginesHaveRuns'
  <2> SUFFICES ASSUME NEW s \in Runs
               PROVE  /\ kitt'[s].pc \in {"off", "prepare", "init"} \/ Kind(s) = "mlx" =>
                            server'[s] = "none"
                      /\ server'[s] \in {"starting", "up"} =>
                           \/ kitt'[s].pc \in {"verify", "health", "load", "suite", "items", "stop"}
                           \/ s \in untidy'
    BY <1>1 DEF EnginesHaveRuns, Alive
  <2>1. /\ kitt[s].pc \in {"off", "prepare", "init"} \/ Kind(s) = "mlx" => server[s] = "none"
        /\ server[s] \in {"starting", "up"} =>
                           \/ kitt[s].pc \in {"verify", "health", "load", "suite", "items", "stop"}
                           \/ s \in untidy
    BY DEF BenchInv, EnginesHaveRuns, Alive
  <2>2. CASE s \in S
    BY <1>2, <2>1, <2>2
  <2>3. CASE s \notin S
    BY <1>2, <2>1, <2>3
  <2>4. QED
    BY <2>2, <2>3
<1>5. PortsAreKept'
  <2>1. ASSUME NEW p \in Ports
        PROVE  /\ listener'[p] = Service <=> (host.service /\ p = 11434)
               /\ \A s \in Runs : listener'[p] = s => server'[s] = "up" /\ Bound(s) = p
    <3>1. /\ listener[p] = Service <=> (host.service /\ p = 11434)
          /\ \A s \in Runs : listener[p] = s => server[s] = "up" /\ Bound(s) = p
      BY DEF BenchInv, PortsAreKept
    <3>2. CASE listener[p] \in S
      <4>1. listener'[p] = NoRun
        BY <3>2
      <4>2. QED
        BY <3>1, <3>2, <4>1, BenchAssumption
    <3>3. CASE listener[p] \notin S
      BY <1>1, <3>1, <3>3
    <3>4. QED
      BY <3>2, <3>3
  <2>2. ASSUME NEW s \in Runs, server'[s] = "up" PROVE listener'[Bound(s)] = s
    <3>1. s \notin S /\ server[s] = "up"
      BY <2>2
    <3>2. listener[Bound(s)] = s /\ Bound(s) \in Ports
      BY <3>1, BenchIsTyped DEF BenchInv, PortsAreKept, EnginesHaveRuns
    <3>3. QED
      BY <3>1, <3>2
  <2>3. host' = host
    OBVIOUS
  <2>4. ASSUME NEW s \in Runs, server'[s] = "up" PROVE listener'[Bound(s)'] = s
    <3>1. Bound(s)' = Bound(s) /\ listener'[Bound(s)] = s
      BY <1>1, <2>2, <2>4
    <3>2. QED
      BY <3>1
  <2>5. \A p \in Ports, s \in Runs : listener'[p] = s => server'[s] = "up" /\ Bound(s)' = p
    BY <1>1, <2>1
  <2>6. \A p \in Ports : listener'[p] = Service <=> (host'.service /\ p = 11434)
    BY <2>1, <2>3
  <2>7. QED
    BY <2>4, <2>5, <2>6 DEF PortsAreKept
<1>6. \A s \in Runs :
              /\ kitt'[s].pc = "off" => kitt[s].pc = "off"
              /\ kitt'[s].pc \in {"off", "prepare", "init"} =>
                    kitt[s].pc \in {"off", "prepare", "init"}
              /\ kitt'[s].pc \notin {"off", "over"} => kitt[s].pc \notin {"off", "over"}
              /\ kitt'[s].pc \in {"suite", "items"} /\ Kind(s) = "ollama" =>
                    kitt[s].pc \in {"suite", "items"}
              /\ server'[s] = "starting" => server[s] = "starting" \/ tags[s] = {}
  BY <1>2 DEF InProgress
<1>7. \A p \in Ports : \/ listener'[p] = listener[p]
                       \/ listener[p] \in Runs /\ listener'[p] = NoRun
  BY <1>2
<1>8. QED
  BY <1>2, <1>3, <1>4, <1>5, <1>6, <1>7, Quiet

(* A run's engine is started, or comes up when the run is over.            *)
LEMMA EngineStarts ==
    ASSUME BenchInv, NEW r \in Runs, NEW q \in {"verify", "health", "over"}, kitt[r].pc = "init",
           Kind(r) # "mlx", To(r, q), server' = [server EXCEPT ![r] = "starting"],
           host' \in Machine, host'.service = host.service, host'.spark = host.spark,
           UNCHANGED <<listener, tags, met, report>>,
           untidy \subseteq untidy', untidy' \subseteq Runs, q = "over" => r \in untidy'
    PROVE  BenchInv'
<1>1. /\ kitt' \in [Runs -> RunStates] /\ kitt'[r].pc = q
      /\ \A s \in Runs : kitt'[s].s = kitt[s].s /\ kitt'[s].by = kitt[s].by
      /\ \A s \in Runs : kitt'[s].unread = kitt[s].unread /\ kitt'[s].late = kitt[s].late
      /\ \A s \in Runs : s # r => kitt'[s] = kitt[s]
  BY ToMoves DEF BenchPcs
<1>2. \A s \in Runs : Kind(s)' = Kind(s) /\ Bound(s)' = Bound(s)
  BY <1>1, SameRun
<1>3. /\ server' \in [Runs -> EngineStates] /\ listener' \in [Ports -> Runs \cup {Service, NoRun}]
      /\ server'[r] = "starting" /\ \A s \in Runs : s # r => server'[s] = server[s]
      /\ report' \in [Runs -> Reports]
  BY DEF BenchInv, BenchTypes, EngineStates
<1>4. EnginesHaveRuns'
  BY <1>1, <1>2, <1>3 DEF BenchInv, EnginesHaveRuns, Alive
<1>5. server[r] = "none" /\ tags[r] = {}
  BY DEF BenchInv, EnginesHaveRuns, TagsAreLoaded
<1>6. PortsAreKept'
  BY <1>2, <1>3, <1>5 DEF BenchInv, PortsAreKept
<1>7. QED
  BY <1>1, <1>3, <1>4, <1>5, <1>6, Quiet

(* The steps of runs, but for those that meet, load or answer.             *)
LEMMA EndsUntidyKeeps ==
    ASSUME BenchInv, NEW r \in Runs, InProgress(r), EndsUntidy(r),
           UNCHANGED <<host, server, listener, tags, report, met>>
    PROVE  BenchInv'
<1>1. /\ To(r, "over") /\ untidy' = IF Alive(r) THEN untidy \cup {r} ELSE untidy
      /\ "over" \in BenchPcs \ {"off"}
  BY DEF EndsUntidy, BenchPcs
<1>2. /\ untidy \subseteq untidy' /\ untidy' \subseteq Runs /\ (Alive(r) => r \in untidy')
      /\ host' \in Machine /\ report' \in [Runs -> Reports]
  BY <1>1 DEF BenchInv, BenchTypes
<1>3. QED
  BY <1>1, <1>2, Advances

LEMMA PrepareKeeps == ASSUME BenchInv, NEW r \in Runs, Prepare(r) PROVE BenchInv'
<1>1. kitt[r].pc = "prepare" /\ InProgress(r) /\ ~Alive(r)
  BY DEF Prepare, InProgress, BenchInv, EnginesHaveRuns, Alive
<1>2. PICK q \in {"init", "over"} : To(r, q)
  BY DEF Prepare
<1>3. /\ host' \in Machine /\ host'.service = host.service /\ host'.spark = host.spark
      /\ report' \in [Runs -> Reports] /\ untidy \subseteq Runs
  <2>1. host \in Machine /\ report \in [Runs -> Reports] /\ untidy \subseteq Runs
    BY DEF BenchInv, BenchTypes
  <2>2. UNCHANGED host \/ host' = [host EXCEPT !.images = @ \cup {Kind(r)}]
    BY DEF Prepare, SetupEngine
  <2>3. Kind(r) \in EngineKinds
    BY BenchIsTyped
  <2>4. QED
    BY <2>1, <2>2, <2>3 DEF Machine, Prepare
<1>4. UNCHANGED <<server, listener, tags, report, met, untidy>>
  BY DEF Prepare
<1>5. QED
  BY <1>1, <1>2, <1>3, <1>4, Advances DEF BenchPcs

LEMMA VerifyKeeps == ASSUME BenchInv, NEW r \in Runs, Verify(r) PROVE BenchInv'
<1>1. /\ kitt[r].pc = "verify" /\ InProgress(r)
      /\ To(r, IF Alive(r) THEN "health" ELSE "over")
      /\ UNCHANGED <<host, server, listener, tags, report, met, untidy>>
  BY DEF Verify, InProgress
<1>2. host' \in Machine /\ report' \in [Runs -> Reports] /\ untidy' \subseteq Runs
  BY <1>1 DEF BenchInv, BenchTypes
<1>3. CASE Alive(r)
  BY <1>1, <1>2, <1>3, Advances DEF BenchPcs
<1>4. CASE ~Alive(r)
  BY <1>1, <1>2, <1>4, Advances DEF BenchPcs
<1>5. QED
  BY <1>3, <1>4

LEMMA AwaitHealthyKeeps == ASSUME BenchInv, NEW r \in Runs, AwaitHealthy(r) PROVE BenchInv'
<1>1. /\ kitt[r].pc = "health" /\ InProgress(r)
      /\ UNCHANGED <<host, server, listener, tags, report, met>>
  BY DEF AwaitHealthy, InProgress
<1>2. CASE To(r, "load") /\ UNCHANGED untidy
  <2>1. host' \in Machine /\ report' \in [Runs -> Reports] /\ untidy' \subseteq Runs
    BY <1>1, <1>2 DEF BenchInv, BenchTypes
  <2>2. QED
    BY <1>1, <1>2, <2>1, Advances DEF BenchPcs
<1>3. CASE EndsUntidy(r)
  BY <1>1, <1>3, EndsUntidyKeeps
<1>4. QED
  BY <1>2, <1>3 DEF AwaitHealthy

LEMMA EndItemsKeeps == ASSUME BenchInv, NEW r \in Runs, EndItems(r) PROVE BenchInv'
<1>1. /\ kitt[r].pc = "items" /\ InProgress(r) /\ To(r, "stop")
      /\ UNCHANGED <<host, server, listener, tags, report, met, untidy>>
  BY DEF EndItems, InProgress
<1>2. host' \in Machine /\ report' \in [Runs -> Reports] /\ untidy' \subseteq Runs
  BY <1>1 DEF BenchInv, BenchTypes
<1>3. QED
  BY <1>1, <1>2, Advances DEF BenchPcs

LEMMA WriteReportKeeps == ASSUME BenchInv, NEW r \in Runs, WriteReport(r) PROVE BenchInv'
<1> DEFINE x == [passed |-> kitt[r].errors = 0, by |-> kitt[r].by, there |-> TRUE]
<1>1. /\ kitt[r].pc = "write" /\ InProgress(r) /\ To(r, "over")
      /\ report' = [report EXCEPT ![r] = x]
      /\ UNCHANGED <<host, server, listener, tags, met, untidy>>
  BY DEF WriteReport, InProgress
<1>2. x \in Reports /\ x.by = kitt[r].by
  BY BenchIsTyped DEF Reports, RunStates
<1> HIDE DEF x
<1>3. host' \in Machine /\ report \in [Runs -> Reports] /\ untidy' \subseteq Runs
  BY <1>1 DEF BenchInv, BenchTypes
<1>4. /\ report' \in [Runs -> Reports]
      /\ \A s \in Runs : report'[s].by \in {report[s].by, kitt[s].by}
  BY <1>1, <1>2, <1>3
<1>5. Alive(r) => r \in untidy'
  BY <1>1 DEF BenchInv, EnginesHaveRuns
<1>6. QED
  BY <1>1, <1>3, <1>4, <1>5, Advances DEF BenchPcs

LEMMA KilledKeeps ==
    ASSUME BenchInv, NEW r \in Runs, Raise(r) \/ Killed(r) PROVE BenchInv'
  BY EndsUntidyKeeps DEF Raise, Killed, InProgress

LEMMA CleanupKeeps ==
    ASSUME BenchInv, NEW r \in Runs, NEW next \in {"write", "over"}, Cleanup(r, next),
           InProgress(r), UNCHANGED <<host, tags, report, met>>
    PROVE  BenchInv'
<1>1. CASE server' = [server EXCEPT ![r] = "none"] /\ listener' = Hang(listener, r)
           /\ To(r, next) /\ UNCHANGED untidy
  <2>1. /\ kitt' \in [Runs -> RunStates] /\ kitt'[r].pc = next
        /\ \A s \in Runs : kitt'[s].s = kitt[s].s /\ kitt'[s].by = kitt[s].by
        /\ \A s \in Runs : kitt'[s].unread = kitt[s].unread /\ kitt'[s].late = kitt[s].late
        /\ \A s \in Runs : s # r => kitt'[s] = kitt[s]
    BY <1>1, ToMoves DEF BenchPcs
  <2>2. server' = [s \in Runs |-> IF s \in {r} THEN "none" ELSE server[s]]
    BY <1>1 DEF BenchInv, BenchTypes
  <2>3. listener' = [p \in Ports |-> IF listener[p] \in {r} THEN NoRun ELSE listener[p]]
    BY <1>1 DEF Hang
  <2>4. PICK S \in SUBSET Runs : S = {r}
    OBVIOUS
  <2>5. \A s \in Runs : \/ kitt'[s].pc = kitt[s].pc
                        \/ s \in S /\ InProgress(s) /\ kitt'[s].pc \in {"write", "over"}
    BY <2>1, <2>4
  <2>6. /\ server' = [s \in Runs |-> IF s \in S THEN "none" ELSE server[s]]
        /\ listener' = [p \in Ports |-> IF listener[p] \in S THEN NoRun ELSE listener[p]]
    BY <2>2, <2>3, <2>4
  <2>7. QED
    BY <1>1, <2>1, <2>5, <2>6, EnginesGo
<1>2. CASE /\ To(r, next) \/ To(r, "over")
           /\ untidy' = untidy \cup {r} /\ UNCHANGED <<server, listener>>
  <2>1. PICK q \in {"write", "over"} : To(r, q)
    BY <1>2
  <2>2. /\ host' \in Machine /\ report' \in [Runs -> Reports] /\ untidy \subseteq untidy'
        /\ untidy' \subseteq Runs /\ r \in untidy'
    BY <1>2 DEF BenchInv, BenchTypes
  <2>3. QED
    BY <1>2, <2>1, <2>2, Advances DEF BenchPcs
<1>3. QED
  BY <1>1, <1>2 DEF Cleanup

LEMMA FindBenchmarksKeeps == ASSUME BenchInv, NEW r \in Runs, FindBenchmarks(r) PROVE BenchInv'
<1>1. kitt[r].pc = "suite" /\ InProgress(r) /\ UNCHANGED <<host, tags, report, met>>
  BY DEF FindBenchmarks, InProgress
<1>2. CASE To(r, "items") /\ UNCHANGED <<server, listener, untidy>>
  <2>1. host' \in Machine /\ report' \in [Runs -> Reports] /\ untidy' \subseteq Runs
    BY <1>1, <1>2 DEF BenchInv, BenchTypes
  <2>2. QED
    BY <1>1, <1>2, <2>1, Advances DEF BenchPcs
<1>3. CASE Cleanup(r, "over")
  BY <1>1, <1>3, CleanupKeeps
<1>4. QED
  BY <1>2, <1>3 DEF FindBenchmarks

LEMMA StopEngineKeeps == ASSUME BenchInv, NEW r \in Runs, StopEngine(r) PROVE BenchInv'
  BY CleanupKeeps DEF StopEngine, InProgress

(* The machine and the engines by themselves.                              *)
LEMMA EnginesSetupKeeps ==
    ASSUME BenchInv, NEW kind \in EngineKinds, EnginesSetup(kind) PROVE BenchInv'
<1>1. /\ host' = [host EXCEPT !.images = @ \cup {kind}] /\ host \in Machine
      /\ UNCHANGED <<kitt, server, listener, tags, report, met, untidy>>
  BY DEF EnginesSetup, SetupEngine, BenchInv, BenchTypes
<1>2. host' \in Machine /\ host'.service = host.service /\ host'.spark = host.spark
  BY <1>1 DEF Machine
<1>3. \A s \in Runs : Kind(s)' = Kind(s) /\ Bound(s)' = Bound(s)
  BY <1>1, <1>2, SameRun
<1>4. EnginesHaveRuns' /\ PortsAreKept'
  BY <1>1, <1>2, <1>3 DEF BenchInv, EnginesHaveRuns, PortsAreKept, Alive
<1>5. /\ kitt' \in [Runs -> RunStates] /\ server' \in [Runs -> EngineStates]
      /\ listener' \in [Ports -> Runs \cup {Service, NoRun}] /\ untidy' \subseteq Runs
      /\ report' \in [Runs -> Reports]
  BY <1>1 DEF BenchInv, BenchTypes
<1>6. QED
  BY <1>1, <1>2, <1>4, <1>5, Quiet

LEMMA EngineFailsKeeps == ASSUME BenchInv, NEW r \in Runs, EngineFails(r) PROVE BenchInv'
<1>1. /\ Alive(r) /\ server' = [server EXCEPT ![r] = "exited"] /\ listener' = Hang(listener, r)
      /\ UNCHANGED <<host, kitt, tags, report, met, untidy>>
  BY DEF EngineFails
<1>2. server' = [s \in Runs |-> IF s \in {r} THEN "exited" ELSE server[s]]
  BY <1>1 DEF BenchInv, BenchTypes
<1>3. listener' = [p \in Ports |-> IF listener[p] \in {r} THEN NoRun ELSE listener[p]]
  BY <1>1 DEF Hang
<1>4. PICK S \in SUBSET Runs : S = {r}
  OBVIOUS
<1>5. /\ server' = [s \in Runs |-> IF s \in S THEN "exited" ELSE server[s]]
      /\ listener' = [p \in Ports |-> IF listener[p] \in S THEN NoRun ELSE listener[p]]
      /\ \A s \in S : server[s] # "none"
  BY <1>1, <1>2, <1>3, <1>4 DEF Alive
<1>6. kitt' \in [Runs -> RunStates]
  BY <1>1 DEF BenchInv, BenchTypes
<1>7. QED
  BY <1>1, <1>5, <1>6, EnginesGo

LEMMA RemovalKeeps ==
    ASSUME BenchInv, NEW swept \in SUBSET Runs, RemoveContainers(swept)
    PROVE  BenchInv'
<1>1. /\ server' = [r \in Runs |-> IF r \in swept THEN "none" ELSE server[r]]
      /\ listener' = [p \in Ports |-> IF listener[p] \in swept THEN NoRun ELSE listener[p]]
      /\ UNCHANGED <<host, kitt, tags, report, met, untidy>>
  BY DEF RemoveContainers
<1>2. kitt' \in [Runs -> RunStates]
  BY <1>1 DEF BenchInv, BenchTypes
<1>3. QED
  BY <1>1, <1>2, EnginesGo

LEMMA SweepKeeps == ASSUME BenchInv, Sweep PROVE BenchInv'
<1>1. PICK swept \in SUBSET {r \in Runs : Mode(r) = "docker"} : RemoveContainers(swept)
  BY DEF Sweep
<1>2. QED
  BY <1>1, RemovalKeeps

LEMMA InitializeKeeps == ASSUME BenchInv, NEW r \in Runs, Initialize(r) PROVE BenchInv'
<1>1. /\ kitt[r].pc = "init" /\ InProgress(r) /\ ~Alive(r)
      /\ UNCHANGED <<listener, tags, report, met>>
      /\ server[r] = "none"
  BY DEF Initialize, InProgress, BenchInv, EnginesHaveRuns, Alive
<1>2. /\ host \in Machine /\ report' \in [Runs -> Reports] /\ untidy \subseteq Runs
      /\ Kind(r) \in EngineKinds
  BY <1>1, BenchIsTyped DEF BenchInv, BenchTypes
<1>3. ASSUME NEW q \in {"over", "health", "suite"}, To(r, q), UNCHANGED <<server, host, untidy>>,
             q = "suite" => Kind(r) # "ollama"
      PROVE  BenchInv'
  BY <1>1, <1>2, <1>3, Advances DEF BenchPcs
<1>4. ASSUME RunContainer(r), Kind(r) # "mlx" PROVE BenchInv'
  <2>1. ASSUME ContainerStarts(r), NEW q \in {"health", "over"}, To(r, q),
               untidy' = IF q = "over" THEN untidy \cup {r} ELSE untidy
        PROVE  BenchInv'
    <3>1. /\ server' = [server EXCEPT ![r] = "starting"]
          /\ host' = [host EXCEPT !.images = @ \cup {Kind(r)}]
      BY <2>1 DEF ContainerStarts
    <3>2. host' \in Machine /\ host'.service = host.service /\ host'.spark = host.spark
      BY <1>2, <3>1 DEF Machine
    <3>3. /\ untidy \subseteq untidy' /\ untidy' \subseteq Runs
          /\ q = "over" => r \in untidy'
      BY <1>2, <2>1
    <3>4. QED
      BY <1>1, <1>4, <2>1, <3>1, <3>2, <3>3, EngineStarts
  <2>2. CASE ContainerStarts(r) /\ To(r, "health") /\ UNCHANGED untidy
    BY <2>1, <2>2
  <2>3. CASE ContainerStarts(r) /\ To(r, "over") /\ untidy' = untidy \cup {r}
    BY <2>1, <2>3
  <2>4. CASE To(r, "over") /\ UNCHANGED <<server, host, untidy>>
    BY <1>3, <2>4
  <2>5. QED
    BY <1>4, <2>2, <2>3, <2>4 DEF RunContainer
<1>5. ASSUME StartProcess(r), Kind(r) # "mlx" PROVE BenchInv'
  <2>1. CASE /\ server' = [server EXCEPT ![r] = "starting"] /\ To(r, "verify")
             /\ UNCHANGED <<host, untidy>>
    BY <1>1, <1>2, <1>5, <2>1, EngineStarts
  <2>2. CASE To(r, "over") /\ UNCHANGED <<server, host, untidy>>
    BY <1>3, <1>5, <2>2
  <2>3. QED
    BY <1>5, <2>1, <2>2 DEF StartProcess
<1>6. CASE InitVllm(r)
  BY <1>4, <1>5, <1>6 DEF InitVllm
<1>7. CASE InitLlamaCpp(r)
  BY <1>3, <1>4, <1>5, <1>7 DEF InitLlamaCpp
<1>8. CASE InitExllamaV2(r)
  BY <1>4, <1>8 DEF InitExllamaV2
<1>9. CASE InitOllama(r)
  BY <1>3, <1>4, <1>5, <1>9 DEF InitOllama
<1>10. CASE InitMlx(r)
  BY <1>3, <1>10 DEF InitMlx
<1>11. QED
  BY <1>6, <1>7, <1>8, <1>9, <1>10 DEF Initialize

-----------------------------------------------------------------------------

(* A run begins: it meets those that are in progress, and they meet it.    *)
LEMMA BeginKeeps == ASSUME BenchInv, NEW r \in Runs, Begin(r) PROVE BenchInv'
<1>1. /\ kitt[r].pc = "off" /\ To(r, "prepare")
      /\ met' = [s \in Runs |-> IF s = r THEN {t \in Runs : InProgress(t)}
                                ELSE IF InProgress(s) THEN met[s] \cup {r} ELSE met[s]]
      /\ UNCHANGED <<host, server, listener, tags, report, untidy>>
  BY DEF Begin
<1>2. /\ kitt' \in [Runs -> RunStates] /\ kitt'[r].pc = "prepare"
      /\ \A s \in Runs : kitt'[s].s = kitt[s].s /\ kitt'[s].by = kitt[s].by
      /\ \A s \in Runs : kitt'[s].unread = kitt[s].unread /\ kitt'[s].late = kitt[s].late
      /\ \A s \in Runs : s # r => kitt'[s] = kitt[s]
  BY <1>1, ToMoves DEF BenchPcs
<1>3. \A s \in Runs : /\ Kind(s)' = Kind(s) /\ Mode(s)' = Mode(s) /\ Tag(s)' = Tag(s)
                      /\ Polled(s)' = Polled(s) /\ Bound(s)' = Bound(s)
  BY <1>1, <1>2, SameRun
<1>4. /\ met' \in [Runs -> SUBSET Runs]
      /\ \A s \in Runs : s # r => met[s] \subseteq met'[s]
      /\ \A s \in Runs : s # r /\ InProgress(s) => r \in met'[s] /\ s \in met'[r]
  BY <1>1 DEF BenchInv, BenchTypes
<1>5. BenchTypes'
  BY <1>1, <1>2, <1>4 DEF BenchInv, BenchTypes
<1>6. EnginesHaveRuns' /\ PortsAreKept'
  BY <1>1, <1>2, <1>3 DEF BenchInv, EnginesHaveRuns, PortsAreKept, Alive
<1>7. RunsHaveMet'
  <2> SUFFICES ASSUME NEW s \in Runs
               PROVE  /\ \A t \in Runs : /\ kitt'[s].pc \notin {"off", "over"}
                                         /\ kitt'[t].pc \notin {"off", "over"} /\ s # t
                                         => t \in met'[s]
                      /\ kitt'[s].pc = "off" => kitt'[s].by = <<>> /\ report'[s].by = <<>>
    BY DEF RunsHaveMet, InProgress
  <2>1. kitt'[s].pc = "off" => kitt'[s].by = <<>> /\ report'[s].by = <<>>
    BY <1>1, <1>2 DEF BenchInv, RunsHaveMet
  <2>2. ASSUME NEW t \in Runs, kitt'[s].pc \notin {"off", "over"},
               kitt'[t].pc \notin {"off", "over"}, s # t
        PROVE  t \in met'[s]
    <3>1. CASE s = r
      BY <1>2, <1>4, <2>2, <3>1 DEF InProgress
    <3>2. CASE t = r
      BY <1>2, <1>4, <2>2, <3>2 DEF InProgress
    <3>3. CASE s # r /\ t # r
      BY <1>2, <1>4, <2>2, <3>3 DEF BenchInv, RunsHaveMet, InProgress
    <3>4. QED
      BY <3>1, <3>2, <3>3
  <2>3. QED
    BY <2>1, <2>2
<1>8. TagsAreLoaded'
  <2>1. ASSUME NEW e \in Runs, tags[e] # {}
        PROVE  server[e] # "starting" /\ kitt'[e].pc \notin {"off", "prepare", "init"}
    BY <1>1, <1>2, <2>1 DEF BenchInv, TagsAreLoaded
  <2>2. \A s \in Runs : <<Tag(s), kitt[s].s.model>>' = <<Tag(s), kitt[s].s.model>>
    BY <1>2, <1>3
  <2>3. QED
    BY <1>1, <1>3, <2>1, <2>2 DEF BenchInv, TagsAreLoaded
<1>9. LateIsUnread'
  BY <1>2, <1>3 DEF BenchInv, LateIsUnread
<1>10. \A s \in Runs : Unread(s) \subseteq Unread(s)'
  BY <1>1, <1>2, UnreadStays
<1>11. \A s \in Runs : s # r => Company(s) \subseteq Company(s)' /\ s \in Company(s)
                               /\ Company(s)' \subseteq Runs
  BY <1>1, <1>4, <1>5 DEF Company, BenchTypes
<1>12. LoadedIsThere'
  <2> SUFFICES ASSUME NEW s \in Runs, NEW e \in Runs \cup {Service, NoRun}, Loaded(s)',
                      listener[Polled(s)] = e
               PROVE  ThereFor(s, e)'
    BY <1>1, <1>3 DEF LoadedIsThere
  <2>1. s # r /\ Loaded(s)
    BY <1>1, <1>2, <1>3 DEF Loaded
  <2>2. ThereFor(s, e)
    BY <2>1 DEF BenchInv, LoadedIsThere
  <2>3. UnderItsTag(s, tags[Home])' = UnderItsTag(s, tags[Home])
    BY <1>1, <1>3 DEF UnderItsTag
  <2>4. ModelsOf(Company(s)) \subseteq ModelsOf(Company(s))'
    BY <1>2, <1>11, <2>1 DEF ModelsOf
  <2>5. Company(s)' = {s} => Company(s) = {s}
    BY <1>11, <2>1
  <2>6. e # NoRun => StoreOf(e)' = StoreOf(e) /\ OllamaSpeaks(e)' = OllamaSpeaks(e)
    <3>1. CASE e = Service
      BY <3>1, BenchAssumption DEF StoreOf, OllamaSpeaks
    <3>2. CASE e \in Runs
      BY <1>3, <3>2 DEF StoreOf, OllamaSpeaks
    <3>3. QED
      BY <3>1, <3>2
  <2>7. e # NoRun => UnderItsTag(s, tags[StoreOf(e)])' = UnderItsTag(s, tags[StoreOf(e)])
    BY <1>1, <1>3, <2>6 DEF UnderItsTag
  <2>8. QED
    BY <1>2, <1>3, <1>10, <2>2, <2>3, <2>4, <2>5, <2>6, <2>7 DEF ThereFor
<1>13. AnswersAreOwn'
  <2> SUFFICES ASSUME NEW s \in Runs, NEW a \in ToSet(kitt'[s].by) \cup ToSet(report'[s].by)
               PROVE  IsOwn(s, a)'
    BY DEF AnswersAreOwn
  <2>1. a \in ToSet(kitt[s].by) \cup ToSet(report[s].by) /\ IsOwn(s, a)
    BY <1>1, <1>2 DEF BenchInv, AnswersAreOwn
  <2>2. s # r
    BY <1>1, <2>1 DEF BenchInv, RunsHaveMet, ToSet
  <2>3. a.engine \in Runs \cup {Service} /\ met[s] \subseteq met'[s] /\ untidy \subseteq untidy'
        /\ host'.spark = host.spark
    BY <1>1, <1>4, <2>1, <2>2, AnswersAreTyped
  <2>4. QED
    BY <1>2, <2>1, <2>3, OwnStaysOwn
<1>14. QED
  BY <1>5, <1>6, <1>7, <1>8, <1>12, <1>13, <1>9 DEF BenchInv

(* An engine binds its port: nothing has been loaded into it yet.          *)
LEMMA TakePortKeeps == ASSUME BenchInv, NEW r \in Runs, TakePort(r) PROVE BenchInv'
<1>1. /\ server[r] = "starting" /\ UNCHANGED <<host, kitt, tags, report, met, untidy>>
      /\ Kind(r) # "mlx" /\ Bound(r) \in Ports /\ tags[r] = {}
  BY BenchIsTyped DEF TakePort, BenchInv, EnginesHaveRuns, TagsAreLoaded
<1>2. CASE listener[Bound(r)] # NoRun
  <2>1. server' = [server EXCEPT ![r] = "exited"] /\ UNCHANGED listener
    BY <1>2 DEF TakePort
  <2>2. PICK S \in SUBSET Runs : S = {r}
    OBVIOUS
  <2>3. server' = [s \in Runs |-> IF s \in S THEN "exited" ELSE server[s]]
    BY <2>1, <2>2 DEF BenchInv, BenchTypes
  <2>4. /\ \A p \in Ports : listener[p] \notin S
        /\ listener \in [Ports -> Runs \cup {Service, NoRun}]
    BY <1>1, <2>2 DEF BenchInv, BenchTypes, PortsAreKept
  <2>5. listener' = [p \in Ports |-> IF listener[p] \in S THEN NoRun ELSE listener[p]]
    BY <2>1, <2>4
  <2>6. kitt' \in [Runs -> RunStates] /\ \A s \in S : server[s] # "none"
    BY <1>1, <2>2 DEF BenchInv, BenchTypes
  <2>7. QED
    BY <1>1, <2>3, <2>5, <2>6, EnginesGo
<1>3. CASE listener[Bound(r)] = NoRun
  <2>1. /\ listener' = [listener EXCEPT ![Bound(r)] = r]
        /\ server' = [server EXCEPT ![r] = "up"]
    BY <1>3 DEF TakePort
  <2>2. /\ server \in [Runs -> EngineStates] /\ listener \in [Ports -> Runs \cup {Service, NoRun}]
        /\ server' \in [Runs -> EngineStates] /\ listener' \in [Ports -> Runs \cup {Service, NoRun}]
    BY <1>1, <2>1 DEF BenchInv, BenchTypes, EngineStates
  <2>3. \A s \in Runs : /\ Kind(s)' = Kind(s) /\ Mode(s)' = Mode(s) /\ Tag(s)' = Tag(s)
                        /\ Polled(s)' = Polled(s) /\ Bound(s)' = Bound(s)
    BY <1>1, SameRun
  <2>4. BenchTypes'
    BY <1>1, <2>2 DEF BenchInv, BenchTypes
  <2>5. EnginesHaveRuns'
    <3>1. \A s \in Runs : (server'[s] \in {"starting", "up"}) = (server[s] \in {"starting", "up"})
                          /\ (server'[s] = "none") = (server[s] = "none")
      BY <1>1, <2>1, <2>2
    <3>2. QED
      BY <1>1, <2>3, <3>1 DEF BenchInv, EnginesHaveRuns, Alive
  <2>6. PortsAreKept'
    <3>1. listener'[Bound(r)] = r /\ \A p \in Ports : p # Bound(r) => listener'[p] = listener[p]
      BY <1>1, <2>1, <2>2
    <3>2. server'[r] = "up" /\ \A s \in Runs : s # r => server'[s] = server[s]
      BY <2>1, <2>2
    <3>3. ASSUME NEW p \in Ports
          PROVE  /\ listener'[p] = Service <=> (host.service /\ p = 11434)
                 /\ \A s \in Runs : listener'[p] = s => server'[s] = "up" /\ Bound(s) = p
      <4>1. /\ listener[p] = Service <=> (host.service /\ p = 11434)
            /\ \A s \in Runs : listener[p] = s => server[s] = "up" /\ Bound(s) = p
        BY DEF BenchInv, PortsAreKept
      <4>2. CASE p = Bound(r)
        BY <1>3, <3>1, <3>2, <4>1, <4>2, BenchAssumption
      <4>3. CASE p # Bound(r)
        BY <1>1, <3>1, <3>2, <4>1, <4>3
      <4>4. QED
        BY <4>2, <4>3
    <3>4. ASSUME NEW s \in Runs, server'[s] = "up" PROVE listener'[Bound(s)] = s
      <4>1. CASE s = r
        BY <3>1, <4>1
      <4>2. CASE s # r
        <5>1. listener[Bound(s)] = s /\ Bound(s) \in Ports
          BY <3>2, <3>4, <4>2, BenchIsTyped DEF BenchInv, PortsAreKept, EnginesHaveRuns
        <5>2. Bound(s) # Bound(r)
          BY <1>3, <5>1, BenchAssumption
        <5>3. QED
          BY <3>1, <5>1, <5>2
      <4>3. QED
        BY <4>1, <4>2
    <3>5. \A s \in Runs : server'[s] = "up" => listener'[Bound(s)'] = s
      BY <2>3, <3>4
    <3>6. \A p \in Ports, s \in Runs : listener'[p] = s => server'[s] = "up" /\ Bound(s)' = p
      BY <2>3, <3>3
    <3>7. \A p \in Ports : listener'[p] = Service <=> (host'.service /\ p = 11434)
      BY <1>1, <3>3
    <3>8. QED
      BY <3>5, <3>6, <3>7 DEF PortsAreKept
  <2>7. RunsHaveMet'
    BY <1>1 DEF BenchInv, RunsHaveMet, InProgress
  <2>8. TagsAreLoaded'
    <3>1. \A s \in Runs : <<Tag(s), kitt[s].s.model>>' = <<Tag(s), kitt[s].s.model>>
      BY <1>1, <2>3
    <3>2. \A s \in Runs : server'[s] = "starting" => server[s] = "starting"
      BY <2>1, <2>2
    <3>3. QED
      BY <1>1, <2>3, <3>1, <3>2 DEF BenchInv, TagsAreLoaded
  <2>9. LateIsUnread'
    BY <1>1, <2>3 DEF BenchInv, LateIsUnread
  <2>10. \A s \in Runs : Unread(s) \subseteq Unread(s)'
    BY <1>1, UnreadStays
  <2>11. \A s \in Runs : Company(s)' = Company(s)
    BY <1>1 DEF Company
  <2>12. LoadedIsThere'
    <3> SUFFICES ASSUME NEW s \in Runs, NEW e \in Runs \cup {Service, NoRun}, Loaded(s)',
                        listener'[Polled(s)] = e
                 PROVE  ThereFor(s, e)'
      BY <2>3 DEF LoadedIsThere
    <3> DEFINE f == listener[Polled(s)]
    <3>1. Loaded(s) /\ Polled(s) \in Ports
      BY <1>1, <2>3, BenchIsTyped DEF Loaded
    <3>2. f \in Runs \cup {Service, NoRun} /\ (e = f \/ (f = NoRun /\ e = r))
      BY <1>3, <2>1, <2>2, <3>1
    <3>3. ThereFor(s, f)
      BY <3>1, <3>2 DEF BenchInv, LoadedIsThere
    <3>4. e # NoRun => StoreOf(e)' = StoreOf(e) /\ OllamaSpeaks(e)' = OllamaSpeaks(e)
      <4>1. CASE e = Service
        BY <4>1, BenchAssumption DEF StoreOf, OllamaSpeaks
      <4>2. CASE e \in Runs
        BY <2>3, <4>2 DEF StoreOf, OllamaSpeaks
      <4>3. QED
        BY <4>1, <4>2
    <3>5. /\ UnderItsTag(s, tags[Home])' = UnderItsTag(s, tags[Home])
          /\ e # NoRun => UnderItsTag(s, tags[StoreOf(e)])' = UnderItsTag(s, tags[StoreOf(e)])
      BY <1>1, <2>3, <3>4 DEF UnderItsTag
    <3>6. ModelsOf(Company(s))' = ModelsOf(Company(s))
      BY <1>1, <2>11 DEF ModelsOf
    <3>7. CASE e = f
      <4> HIDE DEF f
      <4>1. ThereFor(s, e)
        BY <3>3, <3>7
      <4>2. QED
        BY <1>1, <2>3, <2>11, <2>10, <3>4, <3>5, <3>6, <4>1 DEF ThereFor
    <3>8. CASE f = NoRun /\ e = r
      <4>1. StoreOf(e) # Home => StoreOf(e) = r
        BY <3>8, BenchAssumption DEF StoreOf
      <4>2. StoreOf(e) # Home => UnderItsTag(s, tags[StoreOf(e)]) = {}
        BY <1>1, <4>1 DEF UnderItsTag
      <4>3. f # Service /\ e # NoRun
        BY <3>8, BenchAssumption
      <4> HIDE DEF f
      <4>4. QED
        BY <1>1, <2>3, <2>11, <2>10, <3>3, <3>4, <3>5, <3>6, <4>2, <4>3 DEF ThereFor
    <3>9. QED
      BY <3>2, <3>7, <3>8
  <2>13. AnswersAreOwn'
    <3> SUFFICES ASSUME NEW s \in Runs, NEW a \in ToSet(kitt[s].by) \cup ToSet(report[s].by)
                 PROVE  IsOwn(s, a)'
      BY <1>1 DEF AnswersAreOwn
    <3>1. IsOwn(s, a) /\ a.engine \in Runs \cup {Service}
      BY AnswersAreTyped DEF BenchInv, AnswersAreOwn
    <3>2. QED
      BY <1>1, <3>1, OwnStaysOwn
  <2>14. QED
    BY <2>4, <2>5, <2>6, <2>7, <2>8, <2>12, <2>13, <2>9 DEF BenchInv
<1>4. QED
  BY <1>2, <1>3

(* Who answers a run is up, and in progress with it or left behind.        *)
LEMMA PeerIsCompany ==
    ASSUME BenchInv, NEW r \in Runs, Kind(r) # "mlx", InProgress(r), Peer(r) # NoRun
    PROVE  /\ Peer(r) = listener[Polled(r)] /\ Peer(r) \in Company(r) \cup {Service}
           /\ OllamaSpeaks(Peer(r)) <=> Kind(r) = "ollama"
           /\ Peer(r) \in Runs => server[Peer(r)] = "up"
<1> DEFINE e == listener[Polled(r)]
<1>1. Peer(r) = e /\ (OllamaSpeaks(e) <=> Kind(r) = "ollama") /\ e # NoRun
  BY DEF Peer
<1>2. e \in Runs \cup {Service}
  BY <1>1, BenchIsTyped DEF BenchInv, BenchTypes
<1>3. ASSUME e \in Runs PROVE server[e] = "up" /\ e \in Company(r)
  <2>1. server[e] = "up"
    BY <1>3, BenchIsTyped DEF BenchInv, PortsAreKept
  <2>2. InProgress(e) \/ e \in untidy
    BY <1>3, <2>1 DEF BenchInv, EnginesHaveRuns, Alive, InProgress
  <2>3. e \in untidy \/ e = r \/ e \in met[r]
    BY <1>3, <2>2 DEF BenchInv, RunsHaveMet
  <2>4. QED
    BY <2>1, <2>3 DEF Company
<1> HIDE DEF e
<1>4. QED
  BY <1>1, <1>2, <1>3 DEF e

(* What an import makes of the stores: the model under its tag in the one  *)
(* of an Ollama that is up, the others as they were.                       *)
LEMMA ImportStores ==
    ASSUME BenchInv, NEW r \in Runs, NEW e \in Runs \cup {Service}, Import(r, e),
           Kind(r) = "ollama", Mode(r) = "native" \/ (e = r /\ Mode(r) = "docker"),
           e \in Runs => server[e] = "up",
           UNCHANGED <<host, server>>, kitt' \in [Runs -> RunStates],
           \A s \in Runs : /\ kitt'[s].s = kitt[s].s
                           /\ kitt'[s].pc \in {"off", "prepare", "init"} => kitt'[s].pc = kitt[s].pc
    PROVE  /\ tags' \in [Runs \cup {Service, Home} ->
                            SUBSET (({"kitt-local-model"} \cup Models) \X Models)]
           /\ TagsAreLoaded'
           /\ StoreOf(e) \in Runs \cup {Service, Home}
           /\ tags'[StoreOf(e)] = {t \in tags[StoreOf(e)] : t[1] # Tag(r)}
                                      \cup {<<Tag(r), kitt[r].s.model>>}
           /\ \A x \in Runs \cup {Service, Home} : x # StoreOf(e) => tags'[x] = tags[x]
<1>1. \A s \in Runs : /\ Kind(s)' = Kind(s) /\ Mode(s)' = Mode(s) /\ Tag(s)' = Tag(s)
  BY SameRun
<1>2. /\ StoreOf(e) \in Runs \cup {Service, Home} /\ (StoreOf(e) \in Runs => StoreOf(e) = e)
      /\ Mode(r) = "docker" => StoreOf(e) = e
  BY BenchAssumption DEF StoreOf
<1> DEFINE new == <<Tag(r), kitt[r].s.model>>
           N == {t \in tags[StoreOf(e)] : t[1] # Tag(r)} \cup {new}
           T == ({"kitt-local-model"} \cup Models) \X Models
<1>3. tags \in [Runs \cup {Service, Home} -> SUBSET T]
  BY DEF BenchInv, BenchTypes
<1>4. new \in T
  BY BenchIsTyped
<1>5. N \in SUBSET T
  BY <1>2, <1>3, <1>4
<1>6. tags' = [tags EXCEPT ![StoreOf(e)] = N]
  BY <1>2, <1>3 DEF Import
<1> HIDE DEF T
<1>7. /\ tags' \in [Runs \cup {Service, Home} -> SUBSET T] /\ tags'[StoreOf(e)] = N
      /\ \A x \in Runs \cup {Service, Home} : x # StoreOf(e) => tags'[x] = tags[x]
  BY <1>2, <1>3, <1>5, <1>6
<1>8. TagsAreLoaded'
  <2>1. ASSUME NEW x \in Runs, tags'[x] # {}
        PROVE  server[x] # "starting" /\ kitt'[x].pc \notin {"off", "prepare", "init"}
    <3>1. CASE x = StoreOf(e)
      BY <1>2, <3>1 DEF BenchInv, EnginesHaveRuns
    <3>2. CASE x # StoreOf(e)
      BY <1>7, <2>1, <3>2 DEF BenchInv, TagsAreLoaded
    <3>3. QED
      BY <3>1, <3>2
  <2>2. \A s \in Runs : <<Tag(s), kitt[s].s.model>>' = <<Tag(s), kitt[s].s.model>>
    BY <1>1
  <2>3. ASSUME NEW x \in Runs \cup {Service, Home}, NEW t \in tags'[x]
        PROVE  \E s \in Runs : /\ Kind(s) = "ollama" /\ (Mode(s) = "native" \/ s = x)
                               /\ t = <<Tag(s), kitt[s].s.model>>
    <3>1. CASE t \in tags[x]
      BY <3>1 DEF BenchInv, TagsAreLoaded
    <3>2. CASE t \notin tags[x]
      <4>1. x = StoreOf(e) /\ t = new
        BY <1>7, <2>3, <3>2
      <4>2. QED
        BY <1>2, <4>1
    <3>3. QED
      BY <3>1, <3>2
  <2>4. \A x \in Runs \cup {Service, Home} : \A t \in tags'[x] : \E s \in Runs :
           /\ Kind(s)' = "ollama" /\ (Mode(s)' = "native" \/ s = x)
           /\ t = <<Tag(s), kitt[s].s.model>>'
    BY <1>1, <2>2, <2>3
  <2>5. QED
    BY <2>1, <2>4 DEF TagsAreLoaded
<1>9. QED
  BY <1>2, <1>7, <1>8 DEF T

(* A run proceeds past its import, or its import ends: the rest depends on *)
(* what the stores hold.                                                   *)
LEMMA ImportKeeps ==
    ASSUME BenchInv, NEW r \in Runs, kitt' \in [Runs -> RunStates],
           \A s \in Runs : /\ kitt'[s].s = kitt[s].s /\ kitt'[s].by = kitt[s].by
                           /\ kitt[s].unread => kitt'[s].unread,
           \A s \in Runs : kitt'[s].pc = kitt[s].pc
                              \/ (s = r /\ kitt[s].pc = "load" /\ kitt'[s].pc = "suite"),
           tags' \in [Runs \cup {Service, Home} ->
                         SUBSET (({"kitt-local-model"} \cup Models) \X Models)],
           UNCHANGED <<host, server, listener, report, met, untidy>>,
           TagsAreLoaded', LateIsUnread',
           \A s \in Runs, f \in Runs \cup {Service, NoRun} :
              Kind(s) = "ollama" /\ kitt'[s].pc \in {"suite", "items"} /\ listener[Polled(s)] = f
                 => ThereFor(s, f)'
    PROVE  BenchInv'
<1>1. \A s \in Runs : /\ Kind(s)' = Kind(s) /\ Polled(s)' = Polled(s) /\ Bound(s)' = Bound(s)
  BY SameRun
<1>2. BenchTypes'
  BY DEF BenchInv, BenchTypes
<1>3. EnginesHaveRuns'
  BY <1>1 DEF BenchInv, EnginesHaveRuns, Alive
<1>4. PortsAreKept'
  BY <1>1 DEF BenchInv, PortsAreKept
<1>5. RunsHaveMet'
  BY DEF BenchInv, RunsHaveMet, InProgress
<1>6. LoadedIsThere'
  BY <1>1 DEF LoadedIsThere, Loaded
<1>7. AnswersAreOwn'
  <2> SUFFICES ASSUME NEW s \in Runs, NEW a \in ToSet(kitt[s].by) \cup ToSet(report[s].by)
               PROVE  IsOwn(s, a)'
    BY DEF AnswersAreOwn
  <2>1. IsOwn(s, a) /\ a.engine \in Runs \cup {Service}
    BY AnswersAreTyped DEF BenchInv, AnswersAreOwn
  <2>2. QED
    BY <2>1, OwnStaysOwn
<1>8. QED
  BY <1>2, <1>3, <1>4, <1>5, <1>6, <1>7 DEF BenchInv

(* Nobody meets or leaves: what follows from company and runs stays.       *)
LEMMA ThereForStays ==
    ASSUME BenchInv, NEW s \in Runs, NEW f \in Runs \cup {Service, NoRun},
           UNCHANGED <<host, met, untidy>>,
           \A t \in Runs : kitt'[t].s = kitt[t].s /\ (kitt[t].unread => kitt'[t].unread),
           f # NoRun /\ OllamaSpeaks(f) /\ StoreOf(f) # Home =>
              UnderItsTag(s, tags'[StoreOf(f)]) \subseteq ModelsOf(Company(s)) \cup Unread(s)',
           Company(s) = {s} /\ Mode(s) = "native" /\ f # Service =>
              UnderItsTag(s, tags'[Home]) \subseteq {kitt[s].s.model} \cup Unread(s)'
    PROVE  ThereFor(s, f)'
<1>1. \A t \in Runs : /\ Kind(t)' = Kind(t) /\ Mode(t)' = Mode(t) /\ Tag(t)' = Tag(t)
  BY SameRun
<1>2. Company(s)' = Company(s) /\ Company(s) \subseteq Runs
  BY DEF Company, BenchInv, BenchTypes
<1>3. ModelsOf(Company(s))' = ModelsOf(Company(s))
  BY <1>2 DEF ModelsOf
<1>4. f # NoRun => StoreOf(f)' = StoreOf(f) /\ OllamaSpeaks(f)' = OllamaSpeaks(f)
  <2>1. CASE f = Service
    BY <2>1, BenchAssumption DEF StoreOf, OllamaSpeaks
  <2>2. CASE f \in Runs
    BY <1>1, <2>2 DEF StoreOf, OllamaSpeaks
  <2>3. QED
    BY <2>1, <2>2
<1>5. /\ f # NoRun => UnderItsTag(s, tags[StoreOf(f)])' = UnderItsTag(s, tags'[StoreOf(f)])
      /\ UnderItsTag(s, tags[Home])' = UnderItsTag(s, tags'[Home])
  BY <1>1, <1>4 DEF UnderItsTag
<1>6. QED
  BY <1>1, <1>2, <1>3, <1>4, <1>5 DEF ThereFor

(* What an Ollama has of models under a run's tag, it has of itself or of  *)
(* native runs.                                                            *)
LEMMA TagsHaveRuns ==
    ASSUME BenchInv, NEW s \in Runs, NEW x \in Runs \cup {Service, Home}
    PROVE  UnderItsTag(s, tags[x]) \subseteq LeftAtHome(s) \cup (IF x \in Runs THEN {kitt[x].s.model} ELSE {})
<1> SUFFICES ASSUME NEW t \in tags[x], t[1] = Tag(s)
             PROVE  t[2] \in LeftAtHome(s) \cup (IF x \in Runs THEN {kitt[x].s.model} ELSE {})
  BY DEF UnderItsTag
<1>1. PICK q \in Runs : /\ Kind(q) = "ollama" /\ (Mode(q) = "native" \/ q = x)
                        /\ t = <<Tag(q), kitt[q].s.model>>
  BY DEF BenchInv, TagsAreLoaded
<1>2. Tag(q) = Tag(s) /\ t[2] = kitt[q].s.model
  BY <1>1
<1>3. QED
  BY <1>1, <1>2 DEF LeftAtHome, Namesakes

(* The import is read to its end.                                          *)
LEMMA StoredKeeps ==
    ASSUME BenchInv, NEW r \in Runs, NEW e, kitt[r].pc = "load", Kind(r) = "ollama",
           e = Loader(r), e # NoRun, To(r, "suite"), Import(r, e),
           UNCHANGED <<host, server, listener, report, met, untidy>>
    PROVE  BenchInv'
<1>1. /\ kitt' \in [Runs -> RunStates] /\ kitt'[r].pc = "suite"
      /\ \A s \in Runs : kitt'[s].s = kitt[s].s /\ kitt'[s].by = kitt[s].by
      /\ \A s \in Runs : kitt'[s].unread = kitt[s].unread /\ kitt'[s].late = kitt[s].late
      /\ \A s \in Runs : s # r => kitt'[s] = kitt[s]
  BY ToMoves DEF BenchPcs
<1>2. InProgress(r) /\ Kind(r) # "mlx" /\ kitt[r].s \in Settings
  BY BenchIsTyped DEF InProgress
<1>3. /\ e \in Company(r) \cup {Service} /\ OllamaSpeaks(e)
      /\ e \in Runs => server[e] = "up"
      /\ Mode(r) # "native" => e = r
      /\ Mode(r) = "native" => e = listener[Polled(r)]
  BY <1>2, PeerIsCompany DEF OllamaSpeaks, Company, Loader
<1>4. Mode(r) # "native" => Mode(r) = "docker"
  BY <1>2, BenchAssumption DEF Mode, DefaultMode
<1>5. e \in Runs \cup {Service}
  BY <1>3 DEF Company, BenchInv, BenchTypes
<1>6. /\ tags' \in [Runs \cup {Service, Home} ->
                        SUBSET (({"kitt-local-model"} \cup Models) \X Models)]
      /\ TagsAreLoaded' /\ StoreOf(e) \in Runs \cup {Service, Home}
      /\ tags'[StoreOf(e)] = {t \in tags[StoreOf(e)] : t[1] # Tag(r)}
                                 \cup {<<Tag(r), kitt[r].s.model>>}
      /\ \A x \in Runs \cup {Service, Home} : x # StoreOf(e) => tags'[x] = tags[x]
  <2>1. \A s \in Runs : kitt'[s].pc \in {"off", "prepare", "init"} => kitt'[s].pc = kitt[s].pc
    BY <1>1
  <2>2. QED
    BY <1>1, <1>3, <1>4, <1>5, <2>1, ImportStores
<1>7. LateIsUnread'
  <2>1. \A s \in Runs : Kind(s)' = Kind(s) /\ Mode(s)' = Mode(s)
    BY <1>1, SameRun
  <2>2. QED
    BY <1>1, <2>1 DEF BenchInv, LateIsUnread
<1>8. \A s \in Runs : Unread(s) \subseteq Unread(s)' /\ s \in Company(s)
  BY <1>1, UnreadStays DEF Company
<1>9. ASSUME NEW s \in Runs, NEW f \in Runs \cup {Service, NoRun}, Kind(s) = "ollama",
             kitt'[s].pc \in {"suite", "items"}, listener[Polled(s)] = f
      PROVE  ThereFor(s, f)'
  <2>1. f # NoRun => StoreOf(f) \in Runs \cup {Service, Home}
    BY BenchAssumption DEF StoreOf
  <2> SUFFICES /\ f # NoRun /\ OllamaSpeaks(f) /\ StoreOf(f) # Home =>
                     UnderItsTag(s, tags'[StoreOf(f)]) \subseteq ModelsOf(Company(s)) \cup Unread(s)'
               /\ Company(s) = {s} /\ Mode(s) = "native" /\ f # Service =>
                     UnderItsTag(s, tags'[Home]) \subseteq {kitt[s].s.model} \cup Unread(s)'
    BY <1>1, ThereForStays
  <2>2. CASE s # r
    <3>1. Loaded(s)
      BY <1>9, <1>1, <2>2 DEF Loaded
    <3>2. ThereFor(s, f)
      BY <1>9, <3>1 DEF BenchInv, LoadedIsThere
    <3>3. r \in met[s]
      BY <1>2, <2>2, <3>1 DEF Loaded, InProgress, BenchInv, RunsHaveMet
    <3>4. r \in Company(s) /\ kitt[r].s.model \in ModelsOf(Company(s))
      BY <3>3 DEF Company, ModelsOf
    <3>5. \A x \in Runs \cup {Service, Home} :
             UnderItsTag(s, tags'[x]) \subseteq UnderItsTag(s, tags[x]) \cup {kitt[r].s.model}
      BY <1>6 DEF UnderItsTag
    <3>6. QED
      BY <1>8, <2>1, <2>2, <3>2, <3>4, <3>5 DEF ThereFor
  <2>3. CASE s = r
    <3>1. UnderItsTag(r, tags'[StoreOf(e)]) \subseteq {kitt[r].s.model}
      BY <1>6 DEF UnderItsTag
    <3>2. kitt[r].s.model \in ModelsOf(Company(r))
      BY <1>8 DEF ModelsOf
    <3>3. ASSUME f # NoRun, OllamaSpeaks(f), StoreOf(f) # Home PROVE StoreOf(f) = StoreOf(e)
      <4>1. CASE Mode(r) = "native"
        BY <1>9, <1>3, <2>3, <4>1
      <4>2. CASE Mode(r) # "native"
        <5>1. Mode(r) = "docker" /\ e = r /\ server[r] = "up"
          BY <1>3, <1>4, <1>5, <4>2
        <5>2. Bound(r) = 11434
          BY <5>1 DEF Bound, DefaultPort
        <5>3. listener[11434] = r
          BY <5>1, <5>2 DEF BenchInv, PortsAreKept
        <5>4. CASE f = Service
          <6>1. Polled(r) = 11434
            BY <1>9, <1>2, <2>3, <5>4, BenchIsTyped DEF BenchInv, PortsAreKept
          <6>2. QED
            BY <1>9, <2>3, <5>1, <5>3, <5>4, <6>1
        <5>5. CASE f \in Runs
          <6>1. Mode(f) # "native" /\ Kind(f) = "ollama" /\ kitt[f].s \in Settings
            BY <3>3, <5>5, BenchAssumption, BenchIsTyped DEF StoreOf, OllamaSpeaks
          <6>2. Mode(f) = "docker"
            BY <6>1, BenchAssumption DEF Mode, DefaultMode
          <6>3. Bound(f) = 11434
            BY <6>1, <6>2 DEF Bound, DefaultPort
          <6>4. Bound(f) = Polled(r)
            BY <1>9, <1>2, <2>3, <5>5, BenchIsTyped DEF BenchInv, PortsAreKept
          <6>5. QED
            BY <1>9, <2>3, <5>1, <5>3, <6>3, <6>4
        <5>6. QED
          BY <3>3, <5>4, <5>5
      <4>3. QED
        BY <4>1, <4>2
    <3>4. ASSUME Company(r) = {r}, Mode(r) = "native", f # Service PROVE StoreOf(e) = Home
      <4>1. e = r
        BY <1>9, <1>3, <2>3, <3>4
      <4>2. QED
        BY <3>4, <4>1, BenchAssumption DEF StoreOf
    <3>5. QED
      BY <2>3, <3>1, <3>2, <3>3, <3>4
  <2>4. QED
    BY <2>2, <2>3
<1>10. \A s \in Runs : kitt'[s].pc = kitt[s].pc
                          \/ (s = r /\ kitt[s].pc = "load" /\ kitt'[s].pc = "suite")
  BY <1>1
<1>11. QED
  BY <1>1, <1>6, <1>7, <1>9, <1>10, ImportKeeps

(* The import is not read: under the run's tag stands what stood there.    *)
LEMMA UnreadKeeps ==
    ASSUME BenchInv, NEW r \in Runs, kitt[r].pc = "load", Kind(r) = "ollama",
           Mode(r) = "native", Loader(r) # NoRun,
           kitt' = [kitt EXCEPT ![r].pc = "suite", ![r].unread = TRUE, ![r].late = Loader(r)],
           UNCHANGED <<host, server, listener, tags, report, met, untidy>>
    PROVE  BenchInv'
<1>1. InProgress(r) /\ Kind(r) # "mlx" /\ kitt \in [Runs -> RunStates]
  BY DEF InProgress, BenchInv, BenchTypes
<1>2. Loader(r) \in Company(r) \cup {Service} /\ Company(r) \subseteq Runs
  BY <1>1, PeerIsCompany DEF Loader, Company, BenchInv, BenchTypes
<1>3. PICK e \in Runs \cup {Service} : e = Loader(r)
  BY <1>2
<1> DEFINE new == [kitt[r] EXCEPT !.pc = "suite", !.unread = TRUE, !.late = e]
<1>4. /\ new \in RunStates /\ new.pc = "suite" /\ new.unread /\ new.s = kitt[r].s
      /\ new.by = kitt[r].by
  BY <1>1 DEF RunStates, BenchPcs
<1>5. kitt' = [kitt EXCEPT ![r] = new]
  BY <1>1, <1>3
<1> HIDE DEF new
<1>6. /\ kitt' \in [Runs -> RunStates] /\ kitt'[r].pc = "suite" /\ kitt'[r].unread
      /\ \A s \in Runs : s # r => kitt'[s] = kitt[s]
      /\ \A s \in Runs : /\ kitt'[s].s = kitt[s].s /\ kitt'[s].by = kitt[s].by
                         /\ kitt[s].unread => kitt'[s].unread
  BY <1>1, <1>4, <1>5
<1>7. \A s \in Runs : /\ Kind(s)' = Kind(s) /\ Mode(s)' = Mode(s) /\ Tag(s)' = Tag(s)
  BY <1>6, SameRun
<1>8. LateIsUnread'
  BY <1>6, <1>7 DEF BenchInv, LateIsUnread
<1>9. TagsAreLoaded'
  <2>1. \A s \in Runs : <<Tag(s), kitt[s].s.model>>' = <<Tag(s), kitt[s].s.model>>
    BY <1>6, <1>7
  <2>2. \A s \in Runs : kitt'[s].pc \in {"off", "prepare", "init"} => kitt'[s].pc = kitt[s].pc
    BY <1>6
  <2>3. ASSUME NEW x \in Runs, tags[x] # {}
        PROVE  server[x] # "starting" /\ kitt'[x].pc \notin {"off", "prepare", "init"}
    BY <2>2, <2>3 DEF BenchInv, TagsAreLoaded
  <2>4. ASSUME NEW x \in Runs \cup {Service, Home}, NEW t \in tags[x]
        PROVE  \E s \in Runs : /\ Kind(s)' = "ollama" /\ (Mode(s)' = "native" \/ s = x)
                               /\ t = <<Tag(s), kitt[s].s.model>>'
    <3>1. PICK s \in Runs : Kind(s) = "ollama" /\ (Mode(s) = "native" \/ s = x)
                            /\ t = <<Tag(s), kitt[s].s.model>>
      BY DEF BenchInv, TagsAreLoaded
    <3>2. QED
      BY <1>7, <2>1, <3>1
  <2>5. QED
    BY <2>3, <2>4 DEF TagsAreLoaded
<1>10. \A s \in Runs : Unread(s) \subseteq Unread(s)'
  BY <1>6, UnreadStays
<1>11. LeftAtHome(r) \subseteq Unread(r)'
  <2>1. Namesakes(r)' = Namesakes(r) /\ Namesakes(r) \subseteq Runs
    BY <1>7 DEF Namesakes
  <2>2. QED
    BY <1>6, <2>1 DEF LeftAtHome, Unread
<1>12. ASSUME NEW s \in Runs, NEW f \in Runs \cup {Service, NoRun}, Kind(s) = "ollama",
              kitt'[s].pc \in {"suite", "items"}, listener[Polled(s)] = f
       PROVE  ThereFor(s, f)'
  <2>1. f # NoRun => StoreOf(f) \in Runs \cup {Service, Home}
                     /\ (StoreOf(f) \in Runs => StoreOf(f) = f)
    BY BenchAssumption DEF StoreOf
  <2> SUFFICES /\ f # NoRun /\ OllamaSpeaks(f) /\ StoreOf(f) # Home =>
                     UnderItsTag(s, tags[StoreOf(f)]) \subseteq ModelsOf(Company(s)) \cup Unread(s)'
               /\ Company(s) = {s} /\ Mode(s) = "native" /\ f # Service =>
                     UnderItsTag(s, tags[Home]) \subseteq {kitt[s].s.model} \cup Unread(s)'
    BY <1>6, ThereForStays
  <2>2. CASE s # r
    <3>1. Loaded(s)
      BY <1>12, <1>6, <2>2 DEF Loaded
    <3>2. ThereFor(s, f)
      BY <1>12, <3>1 DEF BenchInv, LoadedIsThere
    <3>3. QED
      BY <1>10, <3>2 DEF ThereFor
  <2>3. CASE s = r
    <3>1. UnderItsTag(r, tags[Home]) \subseteq LeftAtHome(r)
      BY TagsHaveRuns, BenchAssumption
    <3>2. ASSUME f # NoRun, OllamaSpeaks(f), StoreOf(f) # Home
          PROVE  UnderItsTag(r, tags[StoreOf(f)]) \subseteq ModelsOf(Company(r)) \cup Unread(r)'
      <4>1. Loader(r) = f
        BY <1>1, <1>12, <2>3, PeerIsCompany DEF Loader
      <4>2. f \in Runs => kitt[f].s.model \in ModelsOf(Company(r))
        BY <1>2, <4>1, BenchAssumption DEF ModelsOf
      <4>3. UnderItsTag(r, tags[StoreOf(f)])
               \subseteq LeftAtHome(r) \cup (IF StoreOf(f) \in Runs THEN {kitt[StoreOf(f)].s.model} ELSE {})
        BY <2>1, <3>2, TagsHaveRuns
      <4>4. QED
        BY <1>11, <2>1, <3>2, <4>2, <4>3, BenchAssumption
    <3>3. QED
      BY <1>11, <2>3, <3>1, <3>2
  <2>4. QED
    BY <2>2, <2>3
<1>13. \A s \in Runs : kitt'[s].pc = kitt[s].pc
                          \/ (s = r /\ kitt[s].pc = "load" /\ kitt'[s].pc = "suite")
  BY <1>6
<1>14. tags' \in [Runs \cup {Service, Home} -> SUBSET (({"kitt-local-model"} \cup Models) \X Models)]
  BY DEF BenchInv, BenchTypes
<1>15. QED
  BY <1>6, <1>8, <1>9, <1>12, <1>13, <1>14, ImportKeeps

LEMMA LoadModelKeeps == ASSUME BenchInv, NEW r \in Runs, LoadModel(r) PROVE BenchInv'
<1>1. kitt[r].pc = "load" /\ InProgress(r) /\ UNCHANGED <<host, server, listener, report, met>>
  BY DEF LoadModel, InProgress
<1>2. CASE Kind(r) # "ollama" /\ To(r, "suite") /\ UNCHANGED <<tags, untidy>>
  <2>1. host' \in Machine /\ report' \in [Runs -> Reports] /\ untidy' \subseteq Runs
    BY <1>1, <1>2 DEF BenchInv, BenchTypes
  <2>2. QED
    BY <1>1, <1>2, <2>1, Advances DEF BenchPcs
<1>3. CASE /\ Kind(r) = "ollama" /\ Loader(r) # NoRun /\ Import(r, Loader(r))
           /\ To(r, "suite") /\ UNCHANGED untidy
  BY <1>1, <1>3, StoredKeeps
<1>4. CASE /\ Kind(r) = "ollama" /\ Mode(r) = "native" /\ Loader(r) # NoRun
           /\ kitt' = [kitt EXCEPT ![r].pc = "suite", ![r].unread = TRUE, ![r].late = Loader(r)]
           /\ UNCHANGED <<tags, untidy>>
  BY <1>1, <1>4, UnreadKeeps
<1>5. CASE EndsUntidy(r) /\ UNCHANGED tags
  BY <1>1, <1>5, EndsUntidyKeeps
<1>6. QED
  BY <1>2, <1>3, <1>4, <1>5 DEF LoadModel

(* What comes late is an unread import's: any run of the same tag may find *)
(* it.                                                                     *)
LEMMA ImportEndsKeeps == ASSUME BenchInv, NEW r \in Runs, ImportEnds(r) PROVE BenchInv'
<1>1. PICK e : e = kitt[r].late
  OBVIOUS
<1>2. /\ kitt \in [Runs -> RunStates] /\ e # NoRun /\ Import(r, e)
      /\ e \in Runs => server[e] = "up"
      /\ kitt' = [kitt EXCEPT ![r].late = NoRun]
      /\ UNCHANGED <<host, server, listener, report, met, untidy>>
  BY <1>1 DEF ImportEnds, BenchInv, BenchTypes
<1>3. /\ e \in Runs \cup {Service} /\ kitt[r].unread /\ Kind(r) = "ollama"
      /\ Mode(r) = "native"
  BY <1>1, <1>2 DEF RunStates, BenchInv, LateIsUnread
<1>4. /\ kitt' \in [Runs -> RunStates]
      /\ \A s \in Runs : /\ kitt'[s].s = kitt[s].s /\ kitt'[s].by = kitt[s].by
                         /\ kitt'[s].pc = kitt[s].pc /\ kitt'[s].unread = kitt[s].unread
                         /\ kitt'[s].late \in {kitt[s].late, NoRun}
  BY <1>2 DEF RunStates
<1>5. /\ tags' \in [Runs \cup {Service, Home} ->
                        SUBSET (({"kitt-local-model"} \cup Models) \X Models)]
      /\ TagsAreLoaded' /\ StoreOf(e) \in Runs \cup {Service, Home}
      /\ tags'[StoreOf(e)] = {t \in tags[StoreOf(e)] : t[1] # Tag(r)}
                                 \cup {<<Tag(r), kitt[r].s.model>>}
      /\ \A x \in Runs \cup {Service, Home} : x # StoreOf(e) => tags'[x] = tags[x]
  BY <1>2, <1>3, <1>4, ImportStores
<1>6. \A s \in Runs : Kind(s)' = Kind(s) /\ Mode(s)' = Mode(s)
  BY <1>2, <1>4, SameRun
<1>7. LateIsUnread'
  BY <1>4, <1>6 DEF BenchInv, LateIsUnread
<1>8. ASSUME NEW s \in Runs, NEW f \in Runs \cup {Service, NoRun}, Kind(s) = "ollama",
             kitt'[s].pc \in {"suite", "items"}, listener[Polled(s)] = f
      PROVE  ThereFor(s, f)'
  <2>1. f # NoRun => StoreOf(f) \in Runs \cup {Service, Home}
    BY BenchAssumption DEF StoreOf
  <2>2. Loaded(s)
    BY <1>4, <1>8 DEF Loaded
  <2>3. ThereFor(s, f)
    BY <1>8, <2>2 DEF BenchInv, LoadedIsThere
  <2>4. Unread(s) \subseteq Unread(s)'
    BY <1>2, <1>4, UnreadStays
  <2>5. \A x \in Runs \cup {Service, Home} :
           UnderItsTag(s, tags'[x]) \subseteq UnderItsTag(s, tags[x]) \cup Unread(s)
    <3>1. Tag(s) = Tag(r) => kitt[r].s.model \in Unread(s)
      BY <1>3 DEF Unread, Namesakes
    <3>2. \A x \in Runs \cup {Service, Home} : \A t \in tags'[x] :
             t \in tags[x] \/ (t[1] = Tag(r) /\ t[2] = kitt[r].s.model)
      BY <1>5
    <3>3. QED
      BY <3>1, <3>2 DEF UnderItsTag
  <2>6. \A t \in Runs : kitt'[t].s = kitt[t].s /\ (kitt[t].unread => kitt'[t].unread)
    BY <1>4
  <2>7. f # NoRun /\ OllamaSpeaks(f) /\ StoreOf(f) # Home =>
           UnderItsTag(s, tags'[StoreOf(f)]) \subseteq ModelsOf(Company(s)) \cup Unread(s)'
    BY <2>1, <2>3, <2>4, <2>5 DEF ThereFor
  <2>8. Company(s) = {s} /\ Mode(s) = "native" /\ f # Service =>
           UnderItsTag(s, tags'[Home]) \subseteq {kitt[s].s.model} \cup Unread(s)'
    BY <2>3, <2>4, <2>5 DEF ThereFor
  <2>9. QED
    BY <1>2, <2>6, <2>7, <2>8, ThereForStays
<1>9. QED
  BY <1>2, <1>4, <1>5, <1>7, <1>8, ImportKeeps

(* Whoever answers, and with what.                                         *)
LEMMA AnswerIsOwn ==
    ASSUME BenchInv, NEW r \in Runs, kitt[r].pc = "items", NEW a \in Answers(r)
    PROVE  IsOwn(r, a) /\ a \in AnswerSet
<1>1. InProgress(r) /\ r \in Company(r) /\ Company(r) \subseteq Runs
  BY DEF InProgress, Company, BenchInv, BenchTypes
<1>2. CASE a \in MlxAnswers(r)
  <2>1. a = Answer(r, kitt[r].s.model)
    BY <1>2 DEF MlxAnswers
  <2>2. a.engine = r /\ a.model = kitt[r].s.model /\ a \in AnswerSet
    BY <2>1, BenchIsTyped DEF Answer, AnswerSet
  <2>3. QED
    BY <1>1, <2>2 DEF IsOwn
<1>3. CASE a \in OpenAiAnswers(r)
  <2> DEFINE e == Peer(r)
  <2>1. /\ Kind(r) \notin {"ollama", "mlx"} /\ e # NoRun /\ a = Answer(e, kitt[e].s.model)
    BY <1>3 DEF OpenAiAnswers
  <2>2. e \in Company(r) \cup {Service} /\ ~OllamaSpeaks(e)
    BY <1>1, <2>1, PeerIsCompany
  <2>3. e \in Company(r)
    BY <2>2 DEF OllamaSpeaks
  <2> HIDE DEF e
  <2>4. a.engine = e /\ a.model = kitt[e].s.model
    BY <2>1 DEF Answer
  <2>5. a \in AnswerSet
    BY <1>1, <2>1, <2>3, BenchIsTyped DEF Answer, AnswerSet
  <2>6. QED
    BY <2>3, <2>4, <2>5 DEF IsOwn
<1>4. CASE a \in OllamaAnswers(r)
  <2> DEFINE e == Peer(r)
  <2>1. Kind(r) = "ollama" /\ e # NoRun
    BY <1>4 DEF OllamaAnswers
  <2>2. PICK t \in tags[StoreOf(e)] : t[1] = Tag(r) /\ a = Answer(e, t[2])
    BY <1>4 DEF OllamaAnswers
  <2>3. /\ e = listener[Polled(r)] /\ e \in Company(r) \cup {Service} /\ OllamaSpeaks(e)
        /\ e \in Runs \cup {Service, NoRun}
    BY <1>1, <2>1, PeerIsCompany
  <2>4. ThereFor(r, e)
    BY <2>1, <2>3 DEF BenchInv, LoadedIsThere, Loaded
  <2>5. a.engine = e /\ a.model = t[2] /\ a = Answer(e, t[2])
    BY <2>2 DEF Answer
  <2>6. StoreOf(e) \in Runs \cup {Service, Home}
    BY <2>1, <2>3, BenchAssumption DEF StoreOf
  <2> HIDE DEF e
  <2>7. t \in ({"kitt-local-model"} \cup Models) \X Models
    BY <2>2, <2>6 DEF BenchInv, BenchTypes
  <2>8. a \in AnswerSet
    BY <1>1, <2>3, <2>5, <2>7 DEF Answer, AnswerSet
  <2>9. a.engine \in Company(r) \/ (a.engine = Service /\ Kind(r) = "ollama")
    BY <2>1, <2>3, <2>5
  <2>10. CASE StoreOf(e) # Home
    <3>1. a.model \in ModelsOf(Company(r)) \cup Unread(r)
      BY <2>1, <2>2, <2>3, <2>4, <2>5, <2>10 DEF ThereFor, UnderItsTag
    <3>2. QED
      BY <2>1, <2>8, <2>9, <3>1 DEF IsOwn, ModelsOf
  <2>11. CASE StoreOf(e) = Home
    <3>1. e \in Company(r) /\ e # Service /\ Mode(e) = "native" /\ Kind(e) = "ollama"
      BY <1>1, <2>3, <2>11, BenchAssumption DEF StoreOf, OllamaSpeaks
    <3>2. CASE Company(r) = {r}
      <4>1. e = r /\ Mode(r) = "native"
        BY <3>1, <3>2
      <4>2. UnderItsTag(r, tags[Home]) \subseteq {kitt[r].s.model} \cup Unread(r)
        BY <2>4, <3>1, <3>2, <4>1 DEF ThereFor
      <4>3. a.model \in {kitt[r].s.model} \cup Unread(r)
        BY <2>2, <2>5, <2>11, <4>2 DEF UnderItsTag
      <4>4. QED
        BY <1>1, <2>1, <2>8, <2>9, <4>3 DEF IsOwn
    <3>3. CASE Company(r) # {r}
      <4>1. UnderItsTag(r, tags[Home]) \subseteq LeftAtHome(r)
        BY TagsHaveRuns, BenchAssumption
      <4>2. a.model \in LeftAtHome(r)
        BY <2>2, <2>5, <2>11, <4>1 DEF UnderItsTag
      <4>3. QED
        BY <1>1, <2>5, <2>8, <2>9, <3>1, <3>3, <4>2 DEF IsOwn
    <3>4. QED
      BY <3>2, <3>3
  <2>12. QED
    BY <2>10, <2>11
<1>5. QED
  BY <1>2, <1>3, <1>4 DEF Answers

LEMMA ItemKeeps == ASSUME BenchInv, NEW r \in Runs, Item(r) PROVE BenchInv'
<1>1. /\ kitt[r].pc = "items" /\ kitt[r] \in RunStates
      /\ UNCHANGED <<host, server, listener, tags, report, met, untidy>>
  BY BenchIsTyped DEF Item
<1>2. PICK new \in RunStates :
         /\ kitt' = [kitt EXCEPT ![r] = new] /\ new.pc = kitt[r].pc /\ new.s = kitt[r].s
         /\ new.unread = kitt[r].unread /\ new.late = kitt[r].late
         /\ \/ new.by = kitt[r].by
            \/ \E a \in Answers(r) : new.by = Append(kitt[r].by, a)
  <2>1. ASSUME NEW a \in Answers(r),
               kitt' = [kitt EXCEPT ![r].item = @ + 1, ![r].by = Append(@, a)]
        PROVE  \E new \in RunStates :
                  /\ kitt' = [kitt EXCEPT ![r] = new] /\ new.pc = kitt[r].pc /\ new.s = kitt[r].s
                  /\ new.unread = kitt[r].unread /\ new.late = kitt[r].late
                  /\ new.by = Append(kitt[r].by, a)
    <3> DEFINE new == [kitt[r] EXCEPT !.item = @ + 1, !.by = Append(@, a)]
    <3>1. a \in AnswerSet
      BY <1>1, AnswerIsOwn
    <3>2. Append(kitt[r].by, a) \in Seq(AnswerSet)
      BY <1>1, <3>1, AppendProperties DEF RunStates
    <3>3. /\ new \in RunStates /\ new.pc = kitt[r].pc /\ new.s = kitt[r].s
          /\ new.unread = kitt[r].unread /\ new.late = kitt[r].late
          /\ new.by = Append(kitt[r].by, a)
      <4>1. PICK i \in Nat, q \in Seq(AnswerSet) :
                i = kitt[r].item + 1 /\ q = Append(kitt[r].by, a)
        <5>1. kitt[r].item + 1 \in Nat
          BY <1>1 DEF RunStates
        <5>2. QED
          BY <3>2, <5>1
      <4>2. new = [kitt[r] EXCEPT !.item = i, !.by = q]
        BY <4>1
      <4>3. QED
        BY <1>1, <4>1, <4>2 DEF RunStates
    <3>4. kitt' = [kitt EXCEPT ![r] = new]
      BY <2>1 DEF BenchInv, BenchTypes
    <3>5. QED
      BY <3>3, <3>4
  <2>2. ASSUME kitt' = [kitt EXCEPT ![r].item = @ + 1, ![r].errors = @ + 1]
        PROVE  \E new \in RunStates :
                  /\ kitt' = [kitt EXCEPT ![r] = new] /\ new.pc = kitt[r].pc /\ new.s = kitt[r].s
                  /\ new.unread = kitt[r].unread /\ new.late = kitt[r].late
                  /\ new.by = kitt[r].by
    <3> DEFINE new == [kitt[r] EXCEPT !.item = @ + 1, !.errors = @ + 1]
    <3>1. /\ new \in RunStates /\ new.pc = kitt[r].pc /\ new.s = kitt[r].s
          /\ new.by = kitt[r].by /\ new.unread = kitt[r].unread /\ new.late = kitt[r].late
      <4>1. PICK i \in Nat, j \in Nat : i = kitt[r].item + 1 /\ j = kitt[r].errors + 1
        BY <1>1 DEF RunStates
      <4>2. new = [kitt[r] EXCEPT !.item = i, !.errors = j]
        BY <4>1
      <4>3. QED
        BY <1>1, <4>2 DEF RunStates
    <3>2. kitt' = [kitt EXCEPT ![r] = new]
      BY <2>2 DEF BenchInv, BenchTypes
    <3>3. QED
      BY <3>1, <3>2
  <2>3. QED
    BY <2>1, <2>2 DEF Item
<1>3. /\ kitt' \in [Runs -> RunStates] /\ kitt'[r] = new
      /\ \A s \in Runs : s # r => kitt'[s] = kitt[s]
      /\ \A s \in Runs : kitt'[s].s = kitt[s].s /\ kitt'[s].pc = kitt[s].pc
      /\ \A s \in Runs : kitt'[s].unread = kitt[s].unread /\ kitt'[s].late = kitt[s].late
  BY <1>2 DEF BenchInv, BenchTypes
<1>4. \A s \in Runs : /\ Kind(s)' = Kind(s) /\ Mode(s)' = Mode(s) /\ Tag(s)' = Tag(s)
                      /\ Polled(s)' = Polled(s) /\ Bound(s)' = Bound(s)
  BY <1>1, <1>3, SameRun
<1>5. BenchTypes'
  BY <1>1, <1>3 DEF BenchInv, BenchTypes
<1>6. EnginesHaveRuns' /\ PortsAreKept'
  BY <1>1, <1>3, <1>4 DEF BenchInv, EnginesHaveRuns, PortsAreKept, Alive
<1>7. RunsHaveMet'
  BY <1>1, <1>3 DEF BenchInv, RunsHaveMet, InProgress
<1>8. TagsAreLoaded'
  <2>1. \A s \in Runs : <<Tag(s), kitt[s].s.model>>' = <<Tag(s), kitt[s].s.model>>
    BY <1>3, <1>4
  <2>2. QED
    BY <1>1, <1>3, <1>4, <2>1 DEF BenchInv, TagsAreLoaded
<1>9. LateIsUnread'
  BY <1>3, <1>4 DEF BenchInv, LateIsUnread
<1>10. \A s \in Runs : Unread(s) \subseteq Unread(s)'
  BY <1>1, <1>3, UnreadStays
<1>11. \A s \in Runs : Company(s)' = Company(s) /\ Company(s) \subseteq Runs
  BY <1>1 DEF Company, BenchInv, BenchTypes
<1>12. LoadedIsThere'
  <2> SUFFICES ASSUME NEW s \in Runs, NEW e \in Runs \cup {Service, NoRun}, Loaded(s)',
                      listener[Polled(s)] = e
               PROVE  ThereFor(s, e)'
    BY <1>1, <1>4 DEF LoadedIsThere
  <2>1. Loaded(s)
    BY <1>3, <1>4 DEF Loaded
  <2>2. ThereFor(s, e)
    BY <2>1 DEF BenchInv, LoadedIsThere
  <2>3. ModelsOf(Company(s))' = ModelsOf(Company(s))
    BY <1>3, <1>11 DEF ModelsOf
  <2>4. e # NoRun => StoreOf(e)' = StoreOf(e) /\ OllamaSpeaks(e)' = OllamaSpeaks(e)
    <3>1. CASE e = Service
      BY <3>1, BenchAssumption DEF StoreOf, OllamaSpeaks
    <3>2. CASE e \in Runs
      BY <1>4, <3>2 DEF StoreOf, OllamaSpeaks
    <3>3. QED
      BY <3>1, <3>2
  <2>5. /\ UnderItsTag(s, tags[Home])' = UnderItsTag(s, tags[Home])
        /\ e # NoRun => UnderItsTag(s, tags[StoreOf(e)])' = UnderItsTag(s, tags[StoreOf(e)])
    BY <1>1, <1>4, <2>4 DEF UnderItsTag
  <2>6. QED
    BY <1>3, <1>4, <1>11, <1>10, <2>2, <2>3, <2>4, <2>5 DEF ThereFor
<1>13. AnswersAreOwn'
  <2> SUFFICES ASSUME NEW s \in Runs, NEW a \in ToSet(kitt'[s].by) \cup ToSet(report[s].by)
               PROVE  IsOwn(s, a)'
    BY <1>1 DEF AnswersAreOwn
  <2>1. CASE a \in ToSet(kitt[s].by) \cup ToSet(report[s].by)
    <3>1. IsOwn(s, a) /\ a.engine \in Runs \cup {Service}
      BY <2>1, AnswersAreTyped DEF BenchInv, AnswersAreOwn
    <3>2. QED
      BY <1>1, <1>3, <3>1, OwnStaysOwn
  <2>2. CASE a \notin ToSet(kitt[s].by) \cup ToSet(report[s].by)
    <3>1. s = r /\ a \in ToSet(new.by) /\ new.by # kitt[r].by
      BY <1>3, <2>2
    <3>2. PICK b \in Answers(r) : new.by = Append(kitt[r].by, b)
      BY <1>2, <3>1
    <3>3. b \in AnswerSet /\ IsOwn(r, b) /\ kitt[r].by \in Seq(AnswerSet)
      BY <1>1, AnswerIsOwn DEF RunStates
    <3>4. ToSet(new.by) = ToSet(kitt[r].by) \cup {b}
      BY <3>2, <3>3, LastOfAppend
    <3>5. a = b /\ a.engine \in Runs \cup {Service}
      BY <2>2, <3>1, <3>3, <3>4 DEF AnswerSet
    <3>6. QED
      BY <1>1, <1>3, <3>1, <3>3, <3>5, OwnStaysOwn
  <2>3. QED
    BY <2>1, <2>2
<1>14. QED
  BY <1>5, <1>6, <1>7, <1>8, <1>12, <1>13, <1>9 DEF BenchInv

-----------------------------------------------------------------------------

LEMMA BenchInitIsSound == BenchInit => BenchInv
<1> SUFFICES ASSUME BenchInit PROVE BenchInv
  OBVIOUS
<1>1. PICK s \in [Runs -> Settings] :
         kitt = [r \in Runs |-> [pc |-> "off", s |-> s[r], item |-> 0, errors |-> 0, by |-> <<>>,
                           unread |-> FALSE, late |-> NoRun]]
  BY ZenonT(60) DEF BenchInit
<1>2. <<>> \in Seq(AnswerSet) /\ ToSet(<<>>) = {}
  BY EmptySeq DEF ToSet
<1>3. kitt \in [Runs -> RunStates] /\ \A r \in Runs : kitt[r].pc = "off" /\ kitt[r].by = <<>>
                                                      /\ kitt[r].late = NoRun
  BY <1>1, <1>2 DEF RunStates, BenchPcs
<1>4. NoReport \in Reports /\ NoReport.by = <<>>
  BY <1>2 DEF NoReport, Reports
<1>5. /\ report \in [Runs -> Reports] /\ \A r \in Runs : report[r].by = <<>>
  BY <1>4 DEF BenchInit
<1>6. BenchTypes
  BY <1>3, <1>5 DEF BenchInit, BenchTypes, Machine, EngineStates
<1>7. EnginesHaveRuns
  BY DEF BenchInit, EnginesHaveRuns, Alive
<1>8. PortsAreKept
  BY BenchAssumption DEF BenchInit, PortsAreKept
<1>9. RunsHaveMet
  BY <1>3, <1>5 DEF RunsHaveMet, InProgress
<1>10. TagsAreLoaded
  BY DEF BenchInit, TagsAreLoaded
<1>11. LateIsUnread
  BY <1>3 DEF LateIsUnread
<1>12. LoadedIsThere
  BY <1>3 DEF LoadedIsThere, Loaded
<1>13. AnswersAreOwn
  BY <1>2, <1>3, <1>5 DEF AnswersAreOwn
<1>14. QED
  BY <1>6, <1>7, <1>8, <1>9, <1>10, <1>12, <1>13, <1>11 DEF BenchInv

LEMMA BenchRests == BenchInv /\ UNCHANGED benchVars => BenchInv'
<1> SUFFICES ASSUME BenchInv, UNCHANGED benchVars PROVE BenchInv'
  OBVIOUS
<1>1. UNCHANGED <<host, kitt, server, listener, tags, report, met, untidy>>
  BY DEF benchVars
<1>2. \A s \in Runs : Kind(s)' = Kind(s) /\ Bound(s)' = Bound(s)
  BY <1>1, SameRun
<1>3. EnginesHaveRuns' /\ PortsAreKept'
  BY <1>1, <1>2 DEF BenchInv, EnginesHaveRuns, PortsAreKept, Alive
<1>4. /\ host' \in Machine /\ kitt' \in [Runs -> RunStates] /\ server' \in [Runs -> EngineStates]
      /\ listener' \in [Ports -> Runs \cup {Service, NoRun}] /\ untidy' \subseteq Runs
      /\ report' \in [Runs -> Reports]
  BY <1>1 DEF BenchInv, BenchTypes
<1>5. QED
  BY <1>1, <1>3, <1>4, Quiet

LEMMA BenchStepKeeps == BenchInv /\ [BenchNext]_benchVars => BenchInv'
<1> SUFFICES ASSUME BenchInv, [BenchNext]_benchVars PROVE BenchInv'
  OBVIOUS
<1>1. CASE UNCHANGED benchVars
  BY <1>1, BenchRests
<1>2. ASSUME NEW r \in Runs,
             \/ Begin(r) \/ Prepare(r) \/ Initialize(r) \/ TakePort(r) \/ EngineFails(r)
             \/ Verify(r) \/ AwaitHealthy(r)
      PROVE  BenchInv'
  BY <1>2, BeginKeeps, PrepareKeeps, InitializeKeeps, TakePortKeeps, EngineFailsKeeps, VerifyKeeps,
     AwaitHealthyKeeps
<1>3. ASSUME NEW r \in Runs,
             \/ LoadModel(r) \/ ImportEnds(r) \/ FindBenchmarks(r) \/ Item(r) \/ Raise(r) \/ EndItems(r)
             \/ StopEngine(r) \/ WriteReport(r) \/ Killed(r)
      PROVE  BenchInv'
  BY <1>3, LoadModelKeeps, ImportEndsKeeps, FindBenchmarksKeeps, ItemKeeps, KilledKeeps, EndItemsKeeps,
     StopEngineKeeps, WriteReportKeeps
<1>4. ASSUME NEW kind \in EngineKinds, EnginesSetup(kind) PROVE BenchInv'
  BY <1>4, EnginesSetupKeeps
<1>5. CASE Sweep
  BY <1>5, SweepKeeps
<1>6. QED
  BY <1>1, <1>2, <1>3, <1>4, <1>5 DEF BenchNext, RunGoesOn

(* With any number of runs: what a run reports was answered by an engine   *)
(* and with a model that it can have met, its own if it had no company.    *)
THEOREM MeasuresItsOwnEngineAlways == BenchSpec => []MeasuresItsOwnEngine
<1>1. BenchInv => MeasuresItsOwnEngine
  BY DEF BenchInv, AnswersAreOwn, MeasuresItsOwnEngine
<1>2. QED
  BY <1>1, BenchInitIsSound, BenchStepKeeps, PTL DEF BenchSpec

-----------------------------------------------------------------------------

(* Every prompt that a run has sent is answered or an error, and its       *)
(* report is written when all were sent.                                   *)
Counted ==
    \A r \in Runs :
       /\ kitt[r].item \in 0..Items /\ kitt[r].errors \in 0..kitt[r].item
       /\ Len(kitt[r].by) + kitt[r].errors = kitt[r].item
       /\ kitt[r].pc \in {"stop", "write"} => kitt[r].item = Items
       /\ report[r].there => Len(report[r].by) = Items \/ ~report[r].passed

LEMMA GoingOnCounts ==
    ASSUME BenchInv, Counted, NEW r \in Runs, NEW q \in BenchPcs, To(r, q),
           q \in {"stop", "write"} => kitt[r].item = Items, UNCHANGED report
    PROVE  Counted'
<1>1. kitt \in [Runs -> RunStates]
  BY DEF BenchInv, BenchTypes
<1>2. ASSUME NEW s \in Runs
      PROVE  /\ kitt'[s].item = kitt[s].item /\ kitt'[s].errors = kitt[s].errors
             /\ kitt'[s].by = kitt[s].by /\ kitt'[s].pc = IF s = r THEN q ELSE kitt[s].pc
  BY <1>1, <1>2 DEF To, RunStates
<1>3. QED
  BY <1>2 DEF Counted

LEMMA ItemCounts == ASSUME BenchInv, Counted, NEW r \in Runs, Item(r) PROVE Counted'
<1>1. /\ kitt \in [Runs -> RunStates] /\ kitt[r].item < Items /\ kitt[r].pc = "items"
      /\ UNCHANGED report /\ kitt[r].by \in Seq(AnswerSet)
  BY DEF Item, BenchInv, BenchTypes, RunStates
<1>2. /\ kitt[r].item \in 0..Items /\ kitt[r].errors \in 0..kitt[r].item /\ Items \in Nat
      /\ Len(kitt[r].by) + kitt[r].errors = kitt[r].item /\ Len(kitt[r].by) \in Nat
  BY <1>1, LenProperties, BenchAssumption DEF Counted
<1>3. \A s \in Runs : s # r => kitt'[s] = kitt[s]
  BY <1>1 DEF Item
<1>4. /\ kitt'[r].item \in 0..Items /\ kitt'[r].errors \in 0..kitt'[r].item
      /\ Len(kitt'[r].by) + kitt'[r].errors = kitt'[r].item /\ kitt'[r].pc = "items"
  <2>1. CASE \E a \in Answers(r) :
                kitt' = [kitt EXCEPT ![r].item = @ + 1, ![r].by = Append(@, a)]
    <3>1. PICK a : kitt' = [kitt EXCEPT ![r].item = @ + 1, ![r].by = Append(@, a)]
      BY <2>1
    <3>2. /\ kitt'[r].item = kitt[r].item + 1 /\ kitt'[r].by = Append(kitt[r].by, a)
          /\ kitt'[r].errors = kitt[r].errors /\ kitt'[r].pc = "items"
      BY <1>1, <3>1 DEF RunStates
    <3>3. Len(Append(kitt[r].by, a)) = Len(kitt[r].by) + 1
      BY <1>1
    <3>4. QED
      BY <1>1, <1>2, <3>2, <3>3
  <2>2. CASE kitt' = [kitt EXCEPT ![r].item = @ + 1, ![r].errors = @ + 1]
    <3>1. /\ kitt'[r].item = kitt[r].item + 1 /\ kitt'[r].by = kitt[r].by
          /\ kitt'[r].errors = kitt[r].errors + 1 /\ kitt'[r].pc = "items"
      BY <1>1, <2>2 DEF RunStates
    <3>2. kitt[r].item + 1 \in 0..Items /\ kitt[r].errors + 1 \in 0..(kitt[r].item + 1)
      BY <1>1, <1>2
    <3>3. Len(kitt[r].by) + (kitt[r].errors + 1) = kitt[r].item + 1
      BY <1>2
    <3>4. QED
      BY <3>1, <3>2, <3>3
  <2>3. QED
    BY <2>1, <2>2 DEF Item
<1>5. QED
  BY <1>1, <1>3, <1>4 DEF Counted

LEMMA ReportCounts == ASSUME BenchInv, Counted, NEW r \in Runs, WriteReport(r) PROVE Counted'
<1>1. /\ kitt \in [Runs -> RunStates] /\ report \in [Runs -> Reports] /\ Items \in Nat
      /\ kitt[r].pc = "write" /\ To(r, "over")
      /\ report' = [report EXCEPT ![r] = [passed |-> kitt[r].errors = 0, by |-> kitt[r].by,
                                          there |-> TRUE]]
  BY BenchAssumption DEF WriteReport, BenchInv, BenchTypes
<1>2. kitt[r].item = Items /\ Len(kitt[r].by) + kitt[r].errors = kitt[r].item
      /\ Len(kitt[r].by) \in Nat
  BY <1>1, LenProperties DEF Counted, RunStates
<1>3. report'[r].passed <=> kitt[r].errors = 0
  BY <1>1
<1>4. Len(report'[r].by) = Items \/ ~report'[r].passed
  BY <1>1, <1>2, <1>3
<1>5. ASSUME NEW s \in Runs
      PROVE  /\ kitt'[s].item = kitt[s].item /\ kitt'[s].errors = kitt[s].errors
             /\ kitt'[s].by = kitt[s].by /\ kitt'[s].pc = IF s = r THEN "over" ELSE kitt[s].pc
             /\ s # r => report'[s] = report[s]
  BY <1>1, <1>5 DEF To, RunStates
<1>6. QED
  BY <1>4, <1>5 DEF Counted

LEMMA CountStepKeeps ==
    ASSUME BenchInv, Counted, [BenchNext]_benchVars
    PROVE  Counted'
<1>1. CASE UNCHANGED <<kitt, report>>
  BY <1>1 DEF Counted
<1>2. CASE UNCHANGED benchVars \/ Sweep \/ \E kind \in EngineKinds : EnginesSetup(kind)
  BY <1>1, <1>2 DEF benchVars, Sweep, RemoveContainers, EnginesSetup
<1>3. ASSUME NEW r \in Runs, TakePort(r) \/ EngineFails(r) PROVE Counted'
  BY <1>1, <1>3 DEF TakePort, EngineFails
<1> DEFINE Early == {"prepare", "init", "verify", "health", "load", "suite", "items", "over"}
<1>4. Early \cup {"stop", "write"} \subseteq BenchPcs /\ Early \cap {"stop", "write"} = {}
  BY DEF BenchPcs
<1>5. ASSUME NEW r \in Runs,
             Begin(r) \/ Prepare(r) \/ Verify(r) \/ AwaitHealthy(r)
      PROVE  UNCHANGED report /\ \E q \in Early : To(r, q)
  BY <1>5 DEF Begin, Prepare, Verify, AwaitHealthy, EndsUntidy
<1>6. ASSUME NEW r \in Runs, Initialize(r) PROVE UNCHANGED report /\ \E q \in Early : To(r, q)
  BY <1>6 DEF Initialize, InitVllm, InitLlamaCpp, InitExllamaV2, InitOllama, InitMlx, RunContainer,
     StartProcess
<1>7. ASSUME NEW r \in Runs, FindBenchmarks(r) \/ Raise(r) \/ Killed(r)
      PROVE  UNCHANGED report /\ \E q \in Early : To(r, q)
  BY <1>7 DEF FindBenchmarks, Cleanup, Raise, Killed, EndsUntidy
<1>8. ASSUME NEW r \in Runs, EndItems(r) PROVE Counted'
  <2>1. To(r, "stop") /\ kitt[r].item = Items /\ UNCHANGED report
    BY <1>8 DEF EndItems
  <2>2. QED
    BY <1>4, <2>1, GoingOnCounts
<1>9. ASSUME NEW r \in Runs, StopEngine(r) PROVE Counted'
  <2>1. kitt[r].pc = "stop" /\ UNCHANGED report /\ \E q \in {"write", "over"} : To(r, q)
    BY <1>9 DEF StopEngine, Cleanup
  <2>2. kitt[r].item = Items
    BY <2>1 DEF Counted
  <2>3. QED
    BY <1>4, <2>1, <2>2, GoingOnCounts
<1>10. ASSUME NEW r \in Runs, UNCHANGED report, NEW q \in Early, To(r, q) PROVE Counted'
  BY <1>4, <1>10, GoingOnCounts
<1>11. ASSUME NEW r \in Runs, LoadModel(r) \/ ImportEnds(r) PROVE Counted'
  <2>1. kitt \in [Runs -> RunStates] /\ UNCHANGED report
    BY <1>11 DEF LoadModel, ImportEnds, BenchInv, BenchTypes
  <2>2. CASE \E q \in Early : To(r, q)
    BY <1>10, <2>1, <2>2
  <2>3. CASE \/ kitt' = [kitt EXCEPT ![r].pc = "suite", ![r].unread = TRUE, ![r].late = Loader(r)]
             \/ kitt' = [kitt EXCEPT ![r].late = NoRun]
    <3>1. \A s \in Runs :
             /\ kitt'[s].item = kitt[s].item /\ kitt'[s].errors = kitt[s].errors
             /\ kitt'[s].by = kitt[s].by
             /\ kitt'[s].pc = kitt[s].pc \/ kitt'[s].pc = "suite"
      <4>1. ASSUME NEW s \in Runs, s # r PROVE kitt'[s] = kitt[s]
        BY <2>1, <2>3, <4>1
      <4>2. CASE kitt' = [kitt EXCEPT ![r].pc = "suite", ![r].unread = TRUE, ![r].late = Loader(r)]
        <5>1. kitt'[r] = [kitt[r] EXCEPT !.pc = "suite", !.unread = TRUE, !.late = Loader(r)]
          BY <2>1, <4>2
        <5>2. /\ kitt'[r].item = kitt[r].item /\ kitt'[r].errors = kitt[r].errors
              /\ kitt'[r].by = kitt[r].by /\ kitt'[r].pc = "suite"
          BY <2>1, <5>1 DEF RunStates
        <5>3. QED
          BY <4>1, <5>2
      <4>3. CASE kitt' = [kitt EXCEPT ![r].late = NoRun]
        BY <2>1, <4>1, <4>3 DEF RunStates
      <4>4. QED
        BY <2>3, <4>2, <4>3
    <3>2. QED
      BY <2>1, <3>1 DEF Counted
  <2>4. QED
    BY <1>11, <2>2, <2>3 DEF LoadModel, ImportEnds, EndsUntidy
<1> HIDE DEF Early
<1>12. QED
  BY <1>2, <1>3, <1>5, <1>6, <1>7, <1>8, <1>9, <1>10, <1>11, ItemCounts, ReportCounts
     DEF BenchNext, RunGoesOn

LEMMA CountInit == BenchInit => Counted
<1> SUFFICES ASSUME BenchInit PROVE Counted
  OBVIOUS
<1>1. \A r \in Runs : /\ kitt[r].pc = "off" /\ kitt[r].item = 0 /\ kitt[r].errors = 0
                       /\ kitt[r].by = <<>> /\ report[r].there = FALSE
  BY DEF BenchInit, NoReport
<1>2. Items \in Nat /\ 0 \in 0..Items /\ 0 \in 0..0 /\ Len(<<>>) + 0 = 0
  BY BenchAssumption
<1>3. QED
  BY <1>1, <1>2 DEF Counted

LEMMA BenchIsWhole == BenchInv /\ Counted => BenchTypeOK
<1> SUFFICES ASSUME BenchInv, Counted PROVE BenchTypeOK
  OBVIOUS
<1>1. \A p \in Ports : listener[p] \in Runs => server[listener[p]] = "up"
  BY DEF BenchInv, PortsAreKept
<1>2. \A r \in Runs : kitt[r].pc \in BenchPcs /\ kitt[r].s \in Settings
  BY DEF BenchInv, BenchTypes, RunStates
<1>3. \A r \in Runs :
          kitt[r].late # NoRun => kitt[r].unread /\ kitt[r].late \in Runs \cup {Service}
  BY DEF BenchInv, BenchTypes, RunStates, LateIsUnread
<1>4. QED
  BY <1>1, <1>2, <1>3 DEF BenchTypeOK, Counted, BenchInv, BenchTypes, Machine, EngineStates

(* A run counts every prompt once, its report says that it passed only if  *)
(* every prompt was answered, and who listens is up.                       *)
THEOREM BenchTypesAlways == BenchSpec => []BenchTypeOK
  BY CountInit, BenchIsWhole, BenchInitIsSound, BenchStepKeeps, CountStepKeeps, PTL DEF BenchSpec

=============================================================================
