----------------------------- MODULE JetStream -----------------------------
(* The durable JetStream consumer between crawler and indexer, modelled     *)
(* from how nats.py configures and uses it: explicit acknowledgement,       *)
(* ack_wait, at most max_deliver deliveries.  A slot is one stored event;   *)
(* the number of slots bounds the events in the stream at a time.           *)
(* Delivery order is left open: NAK delays and ack_wait reorder events.     *)
EXTENDS Environment, Catalog

CONSTANTS
    Workers,     \* indexer processes that fetch from the durable consumer
    Slots,       \* room for undelivered or unacknowledged events (a bound)
    MaxDeliver   \* nats_max_deliver

ASSUME JetStreamAssumption == MaxDeliver \in Nat \ {0}

VARIABLE queue

\* state: waiting for a delivery, out for acknowledgement, or gone for the
\* broker.  readers: the indexers that still hold a delivery of the event.
Message == [tender : Tenders, hash : Versions, delivered : 0..MaxDeliver,
            state : {"waiting", "out", "gone"}, readers : SUBSET Workers]

ASSUME MessageAssumption == None \notin Message

Free(s) == queue[s] = None

\* An event that waits may still be delivered.
QueueTypeOK ==
    /\ queue \in [Slots -> Message \cup {None}]
    /\ \A s \in Slots : ~Free(s) /\ queue[s].state = "waiting"
                        => queue[s].delivered < MaxDeliver

QueueInit == queue = [s \in Slots |-> None]

\* publish_tender_changed: the event is stored in a free slot.  Every event
\* has a fresh Nats-Msg-Id, so the broker never takes one for a duplicate.
Publish(t, h) ==
    \E s \in Slots :
        /\ Free(s)
        /\ queue' = [queue EXCEPT ![s] =
                        [tender |-> t, hash |-> h, delivered |-> 0,
                         state |-> "waiting", readers |-> {}]]

Deliver(s, w) ==
    /\ ~Free(s)
    /\ queue[s].state = "waiting"
    /\ queue' = [queue EXCEPT ![s].state = "out",
                              ![s].delivered = @ + 1,
                              ![s].readers = @ \cup {w}]

\* Wrong variant of Requeued, for checking the properties: no max_deliver.
RequeuedForever(m) == IF m.state # "out" THEN m ELSE [m EXCEPT !.state = "waiting"]

\* Once max_deliver is used up the event is not delivered again.
Requeued(m) ==
    IF m.state # "out" THEN m
    ELSE [m EXCEPT !.state = IF m.delivered < MaxDeliver THEN "waiting" ELSE "gone"]

Removed(m) == [m EXCEPT !.state = "gone"]

\* The slot's next content once reader w has let go of its delivery.
Dropped(m, w) ==
    IF m.state = "gone" /\ m.readers \subseteq {w} THEN None
    ELSE [m EXCEPT !.readers = @ \ {w}]

\* ack() and term() remove the event for good, nak() hands it back.
Settle(s, w) == queue' = [queue EXCEPT ![s] = Dropped(Removed(@), w)]
GiveBack(s, w) == queue' = [queue EXCEPT ![s] = Dropped(Requeued(@), w)]
LetGo(s, w) == queue' = [queue EXCEPT ![s] = Dropped(@, w)]

\* ack_wait runs out.  With the reader gone it always does; under a reader
\* that is still at work it is a failure of kind "slow".
AckWaitExpires(s) ==
    /\ ~Free(s)
    /\ queue[s].state = "out"
    /\ IF queue[s].readers = {} THEN NoFault ELSE Fault("slow")
    /\ queue' = [queue EXCEPT ![s] =
                    IF Requeued(@).state = "gone" /\ @.readers = {} THEN None
                    ELSE Requeued(@)]
=============================================================================
