------------------------------ MODULE Pipeline ------------------------------
(* The crawler, the event stream and the indexers over one database: the    *)
(* whole path from a source record to searchable chunks.                    *)
EXTENDS Crawler, Indexer

vars == <<faultsLeft, catalogVars, queue, crawlerVars, indexerVars>>

Init ==
    /\ EnvironmentInit
    /\ CatalogInit
    /\ QueueInit
    /\ CrawlerInit
    /\ IndexerInit

Next ==
    \/ CrawlerStep /\ UNCHANGED indexerVars
    \/ IndexerStep /\ UNCHANGED crawlerVars
    \/ /\ \E s \in Slots : AckWaitExpires(s)
       /\ UNCHANGED <<catalogVars, crawlerVars, indexerVars>>

Spec == Init /\ [][Next]_vars

\* The crawler's loop and each indexer keep running (restart:
\* unless-stopped), and JetStream serves every waiting event some time.
Fairness ==
    /\ WF_vars(CrawlerStep /\ UNCHANGED indexerVars)
    /\ \A w \in Workers : WF_vars(Work(w) /\ UNCHANGED crawlerVars)
    /\ \A s \in Slots :
        /\ SF_vars((\E w \in Workers : Fetch(w, s)) /\ UNCHANGED crawlerVars)
        /\ WF_vars(AckWaitExpires(s) /\ UNCHANGED <<catalogVars, crawlerVars, indexerVars>>)

FairSpec == Spec /\ Fairness
----------------------------------------------------------------------------
(* Safety *)

\* Type correctness of the database, the stream, the crawler and the indexers.
TypeOK ==
    /\ EnvironmentTypeOK
    /\ CatalogTypeOK
    /\ QueueTypeOK
    /\ CrawlerTypeOK
    /\ IndexerTypeOK

\* The chunks of a tender are made from the very version indexed_hash names,
\* although the text was loaded two transactions before indexed_hash is
\* written and the row may have changed and changed back in between.
ChunksMatchIndexed == \A t \in Tenders : chunks[t].version = row[t].indexed

\* A failure while indexing an old version never marks a newer one failed:
\* a row becomes failed only by a worker whose event names its content.
FailedOnlyByOwnVersion ==
    [][\A t \in Tenders :
         row[t].status # "failed" /\ row'[t].status = "failed"
           => \E w \in Workers : /\ pc[w] = "mark_failed"
                                 /\ task[w].tender = t
                                 /\ task[w].hash = row[t].hash]_vars

\* The attachments that are not skipped are exactly those the tender's
\* current version lists, also when a URL disappears and comes back.
ListedAttachmentsAreLive ==
    \A t \in Tenders : row[t].status # "absent" =>
        Listed[row[t].hash] =
            {a \in Attachments : attachment[t][a] \notin {"absent", "skipped"}}

\* With one indexer, an index that is ready for the current content leaves
\* that state only by a step of the crawler: redelivered, duplicate and
\* stale events change nothing.
OnlyCrawlerReopens ==
    [][\A t \in Tenders :
         /\ row[t].status = "ready" /\ row[t].indexed = row[t].hash
         /\ row'[t].status # "ready"
         => crawlerVars' # crawlerVars]_vars

\* The lifecycle a search client relies on.
Lifecycle == INSTANCE IndexLifecycle WITH
    content <- [t \in Tenders |-> row[t].hash],
    index <- [t \in Tenders |-> chunks[t].version],
    searchable <- [t \in Tenders |-> row[t].status = "ready"]

\* Every step of the pipeline is a step of the promised lifecycle or leaves
\* content, index and searchability alone.
ImplementsLifecycle == Lifecycle!LifecycleSpec
----------------------------------------------------------------------------
(* What makes the safety properties inductive *)

\* A delivery an indexer holds is one the stream still knows about.
DeliveriesAreKnown ==
    \A w \in Workers : pc[w] # "idle" =>
        ~Free(task[w].slot) /\ w \in queue[task[w].slot].readers

\* A tender that was never stored has no content, no index and no chunks.
AbsentIsEmpty ==
    \A t \in Tenders : row[t].status = "absent" => row[t] = AbsentRow

\* Nobody but the crawler inserts a row or changes its content: at
\* persist_record's commit the loaded hash is still the row's.
LoadedHashIsCurrent ==
    stage = "persist" =>
        /\ job.loaded.hash = row[job.tender].hash
        /\ job.loaded.status = "absent" <=> row[job.tender].status = "absent"

\* Past the early returns a worker holds the text of its event's version.
SeenIsOwnVersion ==
    \A w \in Workers :
        pc[w] \in {"attachments", "claim", "embed", "commit"} => task[w].seen = task[w].hash

\* The attachments still to be handled belong to the content just stored.
DownloadsAreListed ==
    stage = "download" =>
        /\ row[job.tender].hash = job.version
        /\ job.todo \subseteq Listed[job.version]

CatalogInv ==
    CatalogTypeOK /\ AbsentIsEmpty /\ ChunksMatchIndexed /\ ListedAttachmentsAreLive
CrawlerInv == CrawlerTypeOK /\ LoadedHashIsCurrent /\ DownloadsAreListed
IndexerInv == IndexerTypeOK /\ DeliveriesAreKnown /\ SeenIsOwnVersion

IndInv == EnvironmentTypeOK /\ QueueTypeOK /\ CatalogInv /\ CrawlerInv /\ IndexerInv
----------------------------------------------------------------------------
(* Who still works on a tender *)

EventInStream(t) ==
    \E s \in Slots : /\ ~Free(s)
                     /\ queue[s].state # "gone"
                     /\ queue[s].tender = t
                     /\ queue[s].hash = row[t].hash

WorkerOnIt(t) ==
    \E w \in Workers : /\ pc[w] \in {"claim", "embed", "commit", "mark_failed"}
                       /\ task[w].tender = t
                       /\ task[w].hash = row[t].hash

CrawlerWillPublish(t) ==
    \/ /\ stage = "download" /\ job.tender = t
       /\ RequiresIndex
    \/ stage = "republish" /\ <<t, row[t].hash>> \in batch

Owned(t) == EventInStream(t) \/ WorkerOnIt(t) \/ CrawlerWillPublish(t)

\* The index is not ready for the content, and indexing has not failed.
Unindexed(t) ==
    /\ row[t].status \in {"pending", "processing"} \/ row[t].indexed # row[t].hash
    /\ row[t].status \notin {"absent", "failed"}

\* As long as no event is lost, a tender whose index is not ready for its
\* content always has somebody who will index it: an event of its current
\* version, a worker on that version, or the crawler about to publish it.
UnindexedIsOwned == \A t \in Tenders : Unindexed(t) => Owned(t)
----------------------------------------------------------------------------
(* What makes the properties of a single indexer inductive *)

OneIndexer == \A w, v \in Workers : w = v

\* Past its early returns an indexer works for an index that is not ready.
WorkIsNeeded ==
    \A w \in Workers :
        /\ pc[w] \in {"attachments", "claim", "embed", "commit", "mark_failed"}
        /\ task[w].hash = MyRow(w).hash
        => ~Unchanged(MyRow(w), task[w].hash)

\* A row that became ready since persist_record read it is ready for the
\* content persist_record read: the status it does not write is right.
ReadySinceLoad ==
    stage = "persist" /\ job.loaded.status # "ready" /\ row[job.tender].status = "ready"
        => row[job.tender].indexed = row[job.tender].hash

\* No failure of the kinds that lose an event, an indexer that is always
\* told to retry, and deliveries that outnumber the failures.
EventsSurvive ==
    /\ Faults \cap {"publish", "persist", "crawler_crash", "unexpected"} = {}
    /\ MaxFaults < MaxDeliver

Spent == MaxFaults - faultsLeft

\* Every delivery but the one under way was paid for with a failure, and
\* whoever reads an event is the worker that holds it.
DeliveriesArePaid ==
    \A s \in Slots : ~Free(s) =>
        /\ queue[s].state # "gone"
        /\ \A w \in queue[s].readers : pc[w] # "idle" /\ task[w].slot = s
        /\ \/ queue[s].delivered <= Spent
           \/ /\ queue[s].state = "out" /\ queue[s].readers # {}
              /\ queue[s].delivered <= Spent + 1
              /\ \A w \in queue[s].readers : pc[w] \notin {"mark_failed", "nak"}

\* An indexer works on the event in its slot, and its failures are retried.
TaskIsEvent ==
    \A w \in Workers : pc[w] # "idle" =>
        /\ queue[task[w].slot].tender = task[w].tender
        /\ queue[task[w].slot].hash = task[w].hash
        /\ task[w].verdict = "nak" /\ pc[w] # "term"

\* An event of the current version that nobody is about to acknowledge.
EventWillBeHandled(t) ==
    \E s \in Slots : /\ ~Free(s)
                     /\ queue[s].tender = t
                     /\ queue[s].hash = row[t].hash
                     /\ \A w \in Workers : ~(pc[w] = "ack" /\ task[w].slot = s)

UnindexedWillBeHandled ==
    \A t \in Tenders : Unindexed(t) => EventWillBeHandled(t) \/ CrawlerWillPublish(t)

ReopenInv == WorkIsNeeded /\ ReadySinceLoad
RecoveryInv == DeliveriesArePaid /\ TaskIsEvent /\ UnindexedWillBeHandled
----------------------------------------------------------------------------
(* Liveness *)

Keeps(t, v) == <>[](row[t].hash = v)

\* Once a tender's content stays as it is, it does not stay pending: lost
\* events are published again by a later cycle.
PendingIsPicked ==
    \A t \in Tenders, v \in Versions :
        Keeps(t, v) => []<>(row[t].status # "pending")

\* Once a tender's content stays as it is, its index is ready for it in the
\* end, provided only retryable failures occur and deliveries outnumber them.
Converges ==
    \A t \in Tenders, v \in Versions :
        Keeps(t, v) => <>[](row[t].status = "ready" /\ row[t].indexed = v)
----------------------------------------------------------------------------
(* What the documentation says and the code does not do *)

\* Equal hashes and a ready status mean a consistent index
\* (docs/architecture/data-and-contracts.md): with nobody working on the tender, its
\* chunks were made with all attachments that are ready.
ReadyCoversAttachments ==
    \A t \in Tenders :
        /\ row[t].status = "ready" /\ row[t].indexed = row[t].hash
        /\ ~Owned(t) /\ stage # "download"
        => ReadyFiles(t) \subseteq chunks[t].files

\* A row whose event got lost stays pending for the next republish_pending
\* (docs/architecture/runtime-flows.md, and the message publish() logs).
UnpublishedStaysPending ==
    \A t \in Tenders :
        \/ row[t].status = "processing"
        \/ row[t].status = "ready" /\ row[t].indexed # row[t].hash
        => Owned(t)
=============================================================================
