----------------------------- MODULE EventStream -----------------------------
(***************************************************************************)
(* Live streams.  The server's EventBus and an agent's LogStreamer are one *)
(* scheme: publishers append to a bounded history and put every event into *)
(* the bounded queue of each subscriber, under one lock; an event that     *)
(* finds a queue full is dropped for that subscriber.  The LogStreamer     *)
(* also replays its history to a new subscriber, and has a single source;  *)
(* the bus filters by source only when an event leaves the queue.          *)
(*                                                                         *)
(* A browser page is a subscriber that read its row before: what it does   *)
(* not know from the row it must hear from the stream.                     *)
(***************************************************************************)
EXTENDS Naturals, Sequences, FiniteSets, SequencesExt

CONSTANTS
    Sources,      \* campaigns, tests and agents that publish
    Subscribers,
    Mine,         \* the source every subscriber filters for
    HistoryMax,   \* max_history, max_buffer
    QueueMax,     \* the size of a subscriber's queue
    MaxEvents     \* bound: events published

ASSUME MineAssumption == Mine \in Sources
ASSUME SizesAssumption == {HistoryMax, QueueMax} \subseteq Nat \ {0} /\ MaxEvents \in Nat

VARIABLES
    replays,   \* FALSE: the EventBus; TRUE: a LogStreamer
    source,    \* the source of each event published so far
    history,   \* the last events, by number
    queue,     \* of each subscriber
    sub        \* the subscribers

streamVars == <<replays, source, history, queue, sub>>

Events == 1..MaxEvents
Upto(k, s) == UNION {[1..n -> s] : n \in 0..k}

Subs == [pc : {"away", "loaded", "on"},
         seen    : 0..MaxEvents,       \* events the row it loaded accounts for
         since   : 0..MaxEvents,       \* events before its subscription
         got     : Upto(MaxEvents, Events),  \* events yielded to it
         dropped : SUBSET Events]      \* events a full queue refused

StreamTypeOK ==
    /\ replays \in BOOLEAN
    /\ source \in Upto(MaxEvents, Sources)
    /\ history \in Upto(HistoryMax, Events)
    /\ queue \in [Subscribers -> Upto(QueueMax, Events)]
    /\ sub \in [Subscribers -> Subs]

Away == [pc |-> "away", seen |-> 0, since |-> 0, got |-> <<>>, dropped |-> {}]

StreamInit ==
    /\ replays \in BOOLEAN
    /\ source = <<>>
    /\ history = <<>>
    /\ queue = [s \in Subscribers |-> <<>>]
    /\ sub = [s \in Subscribers |-> Away]

-----------------------------------------------------------------------------

(* Mutant: a history without a bound.                                      *)
AllOf(seq, k) == seq

LastOf(seq, k) == SubSeq(seq, IF Len(seq) > k THEN Len(seq) - k + 1 ELSE 1, Len(seq))

HasRoom(s) == Len(queue[s]) < QueueMax

(* publish, emit: history and every queue in one critical section.         *)
Publish(src) ==
    LET e == Len(source) + 1
    IN /\ Len(source) < MaxEvents
       /\ replays => src = Mine
       /\ source' = Append(source, src)
       /\ history' = LastOf(Append(history, e), HistoryMax)
       /\ queue' = [s \in Subscribers |->
                       IF sub[s].pc = "on" /\ HasRoom(s) THEN Append(queue[s], e) ELSE queue[s]]
       /\ sub' = [s \in Subscribers |->
                     IF sub[s].pc = "on" /\ ~HasRoom(s)
                     THEN [sub[s] EXCEPT !.dropped = @ \cup {e}] ELSE sub[s]]
       /\ UNCHANGED replays

(* The page: its row tells of everything published so far.                 *)
LoadPage(s) ==
    /\ sub[s].pc = "away"
    /\ sub' = [sub EXCEPT ![s] = [Away EXCEPT !.pc = "loaded", !.seen = Len(source)]]
    /\ UNCHANGED <<replays, source, history, queue>>

(* Mutant: nothing is replayed to a new subscriber.                        *)
SubscribeToNew(s) ==
    /\ sub[s].pc = "loaded"
    /\ sub' = [sub EXCEPT ![s].pc = "on", ![s].since = Len(source)]
    /\ UNCHANGED <<replays, source, history, queue>>

(* subscribe, at the first read of the stream.  The replay stops at the    *)
(* first line for which the queue has no room.                             *)
Subscribe(s) ==
    LET old == IF replays THEN history ELSE <<>>
        fit == SubSeq(old, 1, IF Len(old) < QueueMax THEN Len(old) ELSE QueueMax)
    IN /\ sub[s].pc = "loaded"
       /\ queue' = [queue EXCEPT ![s] = fit]
       /\ sub' = [sub EXCEPT ![s].pc = "on",
                             ![s].since = IF old = <<>> THEN Len(source) ELSE Head(old) - 1,
                             ![s].dropped = ToSet(old) \ ToSet(fit)]
       /\ UNCHANGED <<replays, source, history>>

(* Mutant: every event is yielded, of whatever source.                     *)
DeliverAll(s) ==
    /\ sub[s].pc = "on"
    /\ queue[s] # <<>>
    /\ sub' = [sub EXCEPT ![s].got = Append(@, Head(queue[s]))]
    /\ queue' = [queue EXCEPT ![s] = Tail(@)]
    /\ UNCHANGED <<replays, source, history>>

(* The generator takes one event and yields it, or skips it.               *)
Deliver(s) ==
    /\ sub[s].pc = "on"
    /\ queue[s] # <<>>
    /\ LET e == Head(queue[s])
       IN sub' = IF source[e] = Mine THEN [sub EXCEPT ![s].got = Append(@, e)] ELSE sub
    /\ queue' = [queue EXCEPT ![s] = Tail(@)]
    /\ UNCHANGED <<replays, source, history>>

(* The client goes, or unsubscribe is called.                              *)
Leave(s) ==
    /\ sub[s].pc = "on"
    /\ sub' = [sub EXCEPT ![s] = Away]
    /\ queue' = [queue EXCEPT ![s] = <<>>]
    /\ UNCHANGED <<replays, source, history>>

StreamNext ==
    \/ \E src \in Sources : Publish(src)
    \/ \E s \in Subscribers : LoadPage(s) \/ Subscribe(s) \/ Deliver(s) \/ Leave(s)

StreamSpec == StreamInit /\ [][StreamNext]_streamVars

-----------------------------------------------------------------------------

Of(from) == {e \in Events : e <= Len(source) /\ e > from /\ source[e] = Mine}

InOrder(seq) == \A i, j \in 1..Len(seq) : i < j => seq[i] < seq[j]

(* A subscriber that has drained its queue has received, in order and      *)
(* once, exactly the events of its source since it subscribed, except      *)
(* those a full queue refused: none falls between history and queue.       *)
NothingElseIsLost ==
    \A s \in Subscribers :
        sub[s].pc = "on" /\ queue[s] = <<>> =>
            /\ ToSet(sub[s].got) = Of(sub[s].since) \ sub[s].dropped
            /\ InOrder(sub[s].got)

(* What such a page shows, its row and the stream together, lacks only     *)
(* events published between its load and its subscription; a log stream    *)
(* that its history covers does not even lack those.                       *)
PageLacksOnlyTheGap ==
    \A s \in Subscribers :
        /\ sub[s].pc = "on" /\ queue[s] = <<>> /\ sub[s].dropped = {}
        => \A e \in Of(sub[s].seen) \ ToSet(sub[s].got) :
              e <= sub[s].since /\ (replays => Len(source) > HistoryMax)

=============================================================================
