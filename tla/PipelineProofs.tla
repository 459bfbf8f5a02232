--------------------------- MODULE PipelineProofs ---------------------------
(* Proofs about the pipeline for any number of tenders, versions,           *)
(* attachments, indexers, stream slots and failures.  The argument is one   *)
(* inductive invariant, IndInv of Pipeline.                                 *)
EXTENDS Pipeline, TLAPS

USE FaultsAssumption, CatalogAssumption, JetStreamAssumption,
    MessageAssumption, CrawlerAssumption

----------------------------------------------------------------------------
(* The environment and the stream *)

\* A step consumes at most one failure of the budget.
LEMMA FaultType ==
    ASSUME EnvironmentTypeOK, NoFault \/ \E kind \in FaultKinds : Fault(kind)
    PROVE  EnvironmentTypeOK'
BY DEF EnvironmentTypeOK, NoFault, Fault

\* What a message becomes when a reader lets go of it.
LEMMA MessageOps ==
    ASSUME NEW m \in Message, NEW w
    PROVE  /\ Removed(m) \in Message
           /\ Removed(m).state = "gone"
           /\ Removed(m).readers = m.readers
           /\ Requeued(m) \in Message
           /\ Requeued(m).readers = m.readers
           /\ Requeued(m).delivered = m.delivered
           /\ Requeued(m).state = "waiting" =>
                m.delivered < MaxDeliver \/ m.state = "waiting"
           /\ Dropped(m, w) \in Message \cup {None}
           /\ Dropped(m, w) = None => m.readers \subseteq {w}
           /\ Dropped(m, w) # None =>
                /\ Dropped(m, w).readers = m.readers \ {w}
                /\ Dropped(m, w).state = m.state
                /\ Dropped(m, w).delivered = m.delivered
BY DEF Message, Removed, Requeued, Dropped

\* Storing an event disturbs no other one.
LEMMA PublishType ==
    ASSUME NEW t \in Tenders, NEW h \in Versions, QueueTypeOK, Publish(t, h)
    PROVE  /\ QueueTypeOK'
           /\ \A s \in Slots : ~Free(s) => queue'[s] = queue[s]
<1>1. PICK s \in Slots :
        /\ Free(s)
        /\ queue' = [queue EXCEPT ![s] = [tender |-> t, hash |-> h, delivered |-> 0,
                                          state |-> "waiting", readers |-> {}]]
  BY DEF Publish
<1> DEFINE m == [tender |-> t, hash |-> h, delivered |-> 0,
                 state |-> "waiting", readers |-> {}]
<1>2. m \in Message /\ m.delivered < MaxDeliver
  BY DEF Message
<1>3. QED
  BY <1>1, <1>2 DEF QueueTypeOK, Free

\* A reader that lets go takes nothing from the others.
LEMMA ReleaseType ==
    ASSUME NEW s \in Slots, NEW w \in Workers, QueueTypeOK, ~Free(s),
           Settle(s, w) \/ GiveBack(s, w) \/ LetGo(s, w)
    PROVE  /\ QueueTypeOK'
           /\ \A q \in Slots, v \in Workers \ {w} :
                ~Free(q) /\ v \in queue[q].readers =>
                    ~Free(q)' /\ v \in queue'[q].readers
<1> DEFINE m == queue[s]
<1>1. m \in Message /\ (m.state = "waiting" => m.delivered < MaxDeliver)
  BY DEF QueueTypeOK, Free
<1> HIDE DEF m
<1>2. \E n \in Message :
        /\ queue' = [queue EXCEPT ![s] = Dropped(n, w)]
        /\ n.readers = m.readers
        /\ n.state = "waiting" => n.delivered < MaxDeliver
  <2>1. CASE Settle(s, w)
    <3>1. Removed(m) \in Message /\ Removed(m).readers = m.readers
          /\ Removed(m).state # "waiting"
      BY <1>1, MessageOps
    <3>2. queue' = [queue EXCEPT ![s] = Dropped(Removed(m), w)]
      BY <2>1 DEF Settle, m
    <3>3. QED
      BY <3>1, <3>2
  <2>2. CASE GiveBack(s, w)
    <3>1. /\ Requeued(m) \in Message /\ Requeued(m).readers = m.readers
          /\ Requeued(m).state = "waiting" => Requeued(m).delivered < MaxDeliver
      BY <1>1, MessageOps
    <3>2. queue' = [queue EXCEPT ![s] = Dropped(Requeued(m), w)]
      BY <2>2 DEF GiveBack, m
    <3>3. QED
      BY <3>1, <3>2
  <2>3. CASE LetGo(s, w)
    <3>1. queue' = [queue EXCEPT ![s] = Dropped(m, w)]
      BY <2>3 DEF LetGo, m
    <3>2. QED
      BY <1>1, <3>1
  <2>4. QED
    BY <2>1, <2>2, <2>3
<1>3. PICK n \in Message :
        /\ queue' = [queue EXCEPT ![s] = Dropped(n, w)]
        /\ n.readers = m.readers
        /\ n.state = "waiting" => n.delivered < MaxDeliver
  BY <1>2
<1>4. QueueTypeOK'
  BY <1>3, MessageOps DEF QueueTypeOK, Free
<1>5. ASSUME NEW q \in Slots, NEW v \in Workers \ {w}, ~Free(q), v \in queue[q].readers
      PROVE  ~Free(q)' /\ v \in queue'[q].readers
  <2>1. CASE q # s
    BY <1>3, <1>5, <2>1 DEF QueueTypeOK, Free
  <2>2. CASE q = s
    <3>1. queue'[q] = Dropped(n, w)
      BY <1>3, <2>2 DEF QueueTypeOK
    <3>2. v \in n.readers
      BY <1>3, <1>5, <2>2 DEF m
    <3>3. Dropped(n, w) # None /\ Dropped(n, w).readers = n.readers \ {w}
      BY <3>2, MessageOps
    <3>4. QED
      BY <3>1, <3>2, <3>3 DEF Free
  <2>3. QED
    BY <2>1, <2>2
<1>6. QED
  BY <1>4, <1>5

\* No reader of V loses a delivery in this step.
KeepsReaders(V) ==
    \A q \in Slots, v \in V :
        ~Free(q) /\ v \in queue[q].readers => ~Free(q)' /\ v \in queue'[q].readers

\* What a message becomes when it is delivered.
LEMMA Delivered ==
    ASSUME NEW m \in Message, m.delivered < MaxDeliver, NEW w \in Workers,
           NEW n, n = [m EXCEPT !.state = "out", !.delivered = @ + 1,
                                !.readers = @ \cup {w}]
    PROVE  n \in Message /\ n.state = "out" /\ n.readers = m.readers \cup {w}
<1>1. m.delivered + 1 \in 0..MaxDeliver /\ m.readers \cup {w} \in SUBSET Workers
  BY DEF Message
<1>2. QED
  BY <1>1 DEF Message

\* A delivery adds a reader and stays within max_deliver.
LEMMA DeliverType ==
    ASSUME NEW s \in Slots, NEW w \in Workers, QueueTypeOK, Deliver(s, w)
    PROVE  /\ QueueTypeOK'
           /\ queue[s] \in Message
           /\ ~Free(s)' /\ w \in queue'[s].readers
           /\ KeepsReaders(Workers)
<1>1. queue[s] \in Message /\ queue[s].delivered < MaxDeliver
  BY DEF QueueTypeOK, Free, Deliver
<1> DEFINE m == [queue[s] EXCEPT !.state = "out", !.delivered = @ + 1,
                                 !.readers = @ \cup {w}]
<1>2. queue' = [queue EXCEPT ![s] = m]
  BY DEF Deliver
<1>3. m \in Message /\ m.state = "out" /\ m.readers = queue[s].readers \cup {w}
  <2>1. m = [queue[s] EXCEPT !.state = "out", !.delivered = @ + 1,
                             !.readers = @ \cup {w}]
    OBVIOUS
  <2> HIDE DEF m
  <2>2. QED
    BY <1>1, <2>1, Delivered
<1> HIDE DEF m
<1>4. QueueTypeOK'
  BY <1>2, <1>3 DEF QueueTypeOK, Free
<1>5. ~Free(s)' /\ w \in queue'[s].readers
  BY <1>2, <1>3 DEF QueueTypeOK, Free
<1>6. KeepsReaders(Workers)
  BY <1>2, <1>3 DEF QueueTypeOK, Free, KeepsReaders
<1>7. QED
  BY <1>1, <1>4, <1>5, <1>6

\* When ack_wait runs out no reader loses its delivery.
LEMMA ExpireType ==
    ASSUME NEW s \in Slots, QueueTypeOK, AckWaitExpires(s)
    PROVE  QueueTypeOK' /\ KeepsReaders(Workers)
<1> DEFINE m == queue[s]
<1>1. m \in Message
  BY DEF QueueTypeOK, AckWaitExpires, Free
<1>2. /\ Requeued(m) \in Message /\ Requeued(m).readers = m.readers
      /\ Requeued(m).state = "waiting" => Requeued(m).delivered < MaxDeliver
  BY <1>1, MessageOps DEF AckWaitExpires
<1>3. \/ queue' = [queue EXCEPT ![s] = None] /\ m.readers = {}
      \/ queue' = [queue EXCEPT ![s] = Requeued(m)]
  BY DEF AckWaitExpires
<1> HIDE DEF m
<1>4. m = queue[s]
  BY DEF m
<1>5. QED
  BY <1>1, <1>2, <1>3, <1>4 DEF QueueTypeOK, Free, KeepsReaders

----------------------------------------------------------------------------
(* What a component keeps while another one moves *)

\* The database stays consistent while nobody writes to it.
LEMMA CatalogFrame ==
    ASSUME CatalogInv, UNCHANGED catalogVars
    PROVE  CatalogInv'
BY DEF CatalogInv, catalogVars, CatalogTypeOK, AbsentIsEmpty, ChunksMatchIndexed,
       ListedAttachmentsAreLive

\* The crawler's record is not disturbed as long as nobody else inserts a
\* tender or changes its content.
LEMMA CrawlerFrame ==
    ASSUME CrawlerInv, UNCHANGED crawlerVars,
           \A t \in Tenders : /\ row'[t].hash = row[t].hash
                              /\ row'[t].status = "absent" <=> row[t].status = "absent"
    PROVE  CrawlerInv'
<1>1. CrawlerTypeOK'
  BY DEF CrawlerInv, CrawlerTypeOK, crawlerVars
<1>2. stage \in {"persist", "download"} => job.tender \in Tenders
  BY DEF CrawlerInv, CrawlerTypeOK, Job
<1>3. QED
  BY <1>1, <1>2 DEF CrawlerInv, crawlerVars, LoadedHashIsCurrent, DownloadsAreListed

\* An indexer keeps its delivery while others use the stream.
LEMMA IndexerFrame ==
    ASSUME IndexerInv, UNCHANGED indexerVars, KeepsReaders(Workers)
    PROVE  IndexerInv'
<1>1. IndexerTypeOK' /\ SeenIsOwnVersion'
  BY DEF IndexerInv, IndexerTypeOK, SeenIsOwnVersion, indexerVars
<1>2. \A w \in Workers : pc[w] # "idle" => task[w].slot \in Slots
  BY DEF IndexerInv, IndexerTypeOK, Task
<1>3. QED
  BY <1>1, <1>2 DEF IndexerInv, DeliveriesAreKnown, KeepsReaders, indexerVars

\* A stream nobody touches.
LEMMA QueueFrame ==
    ASSUME QueueTypeOK, UNCHANGED queue
    PROVE  QueueTypeOK' /\ KeepsReaders(Workers)
BY DEF QueueTypeOK, KeepsReaders, Free

----------------------------------------------------------------------------
(* The initial states *)

\* The empty database, stream and processes satisfy the invariant.
LEMMA InitIndInv == Init => IndInv
<1> SUFFICES ASSUME Init PROVE IndInv
  OBVIOUS
<1>1. EnvironmentTypeOK /\ QueueTypeOK
  BY DEF Init, EnvironmentInit, EnvironmentTypeOK, QueueInit, QueueTypeOK, Free
<1>2. CatalogInv
  BY DEF Init, CatalogInit, CatalogInv, CatalogTypeOK, AbsentIsEmpty, ChunksMatchIndexed,
         ListedAttachmentsAreLive, Row, Hash, AbsentRow
<1>3. CrawlerInv
  BY DEF Init, CrawlerInit, CrawlerInv, CrawlerTypeOK, LoadedHashIsCurrent,
         DownloadsAreListed, Stage
<1>4. IndexerInv
  BY DEF Init, IndexerInit, IndexerInv, IndexerTypeOK, DeliveriesAreKnown,
         SeenIsOwnVersion, PC
<1>5. QED
  BY <1>1, <1>2, <1>3, <1>4 DEF IndInv

----------------------------------------------------------------------------
(* The crawler's steps *)

\* A cycle that ends leaves nothing to keep.
LEMMA FinishType ==
    ASSUME Finish
    PROVE  CrawlerInv'
BY DEF Finish, CrawlerInv, CrawlerTypeOK, LoadedHashIsCurrent, DownloadsAreListed, Stage

\* An event that is published, or lost, leaves the stream intact.
LEMMA PublishOrLoseType ==
    ASSUME NEW t \in Tenders, NEW h \in Versions, QueueTypeOK, EnvironmentTypeOK,
           PublishOrLose(t, h)
    PROVE  EnvironmentTypeOK' /\ QueueTypeOK' /\ KeepsReaders(Workers)
<1>1. CASE Publish(t, h) /\ NoFault
  BY <1>1, PublishType, FaultType DEF KeepsReaders, Free
<1>2. CASE Fault("publish") /\ UNCHANGED queue
  BY <1>2, QueueFrame, FaultType DEF FaultKinds
<1>3. QED
  BY <1>1, <1>2 DEF PublishOrLose

\* The steps that neither write to the database nor use the stream.
LEMMA CrawlerReads ==
    ASSUME IndInv,
           \/ BeginCycle \/ EndRepublish \/ EndCycle \/ CrawlerRestarts
           \/ PersistFails \/ DownloadAborts
           \/ \E t \in Tenders, v \in Versions : ReadTender(t, v)
           \/ \E a \in Attachments : SkipReady(a)
    PROVE  /\ EnvironmentTypeOK' /\ UNCHANGED <<queue, catalogVars>>
           /\ CrawlerInv'
<1>1. EnvironmentTypeOK' /\ UNCHANGED <<queue, catalogVars>>
  <2>1. NoFault \/ \E kind \in FaultKinds : Fault(kind)
    BY DEF BeginCycle, EndRepublish, EndCycle, CrawlerRestarts, PersistFails,
           DownloadAborts, ReadTender, SkipReady, FaultKinds
  <2>2. UNCHANGED <<queue, catalogVars>>
    BY DEF BeginCycle, EndRepublish, EndCycle, CrawlerRestarts, PersistFails,
           DownloadAborts, ReadTender, SkipReady
  <2>3. QED
    BY <2>1, <2>2, FaultType DEF IndInv
<1>2. UNCHANGED row
  BY <1>1 DEF catalogVars
<1>3. /\ CatalogTypeOK /\ CrawlerTypeOK
      /\ LoadedHashIsCurrent /\ DownloadsAreListed
  BY DEF IndInv, CatalogInv, CrawlerInv
<1>4. ASSUME BeginCycle PROVE CrawlerInv'
  <2>1. PendingRows \subseteq Tenders \X Versions
    BY <1>3 DEF PendingRows, CatalogTypeOK
  <2>2. QED
    BY <1>3, <1>4, <2>1 DEF BeginCycle, CrawlerInv, CrawlerTypeOK, LoadedHashIsCurrent,
           DownloadsAreListed, Stage
<1>5. ASSUME EndRepublish PROVE CrawlerInv'
  BY <1>3, <1>5 DEF EndRepublish, NextStage, CrawlerInv, CrawlerTypeOK,
         LoadedHashIsCurrent, DownloadsAreListed, Stage
<1>6. ASSUME EndCycle \/ CrawlerRestarts \/ PersistFails \/ DownloadAborts
      PROVE  CrawlerInv'
  BY <1>6, FinishType DEF EndCycle, CrawlerRestarts, PersistFails, DownloadAborts
<1>7. ASSUME NEW t \in Tenders, NEW v \in Versions, ReadTender(t, v)
      PROVE  CrawlerInv'
  <2>1. row[t] \in Row
    BY <1>3 DEF CatalogTypeOK
  <2>2. job' \in Job /\ left' \in 0..MaxItems
    BY <1>3, <1>7, <2>1 DEF ReadTender, Job, CrawlerTypeOK
  <2>3. job'.loaded = row[t] /\ job'.tender = t /\ stage' = "persist"
    BY <1>7 DEF ReadTender
  <2>4. QED
    BY <1>2, <1>3, <1>7, <2>2, <2>3 DEF ReadTender, CrawlerInv, CrawlerTypeOK,
           LoadedHashIsCurrent, DownloadsAreListed, Stage
<1>8. ASSUME NEW a \in Attachments, SkipReady(a)
      PROVE  CrawlerInv'
  <2>1. job \in Job
    BY <1>3, <1>8 DEF SkipReady, CrawlerTypeOK
  <2>2. /\ job' \in Job /\ job'.tender = job.tender /\ job'.version = job.version
        /\ job'.todo \subseteq job.todo
    BY <1>8, <2>1 DEF SkipReady, Job
  <2>3. QED
    BY <1>2, <1>3, <1>8, <2>2 DEF SkipReady, CrawlerInv, CrawlerTypeOK,
           LoadedHashIsCurrent, DownloadsAreListed, Stage
<1>9. QED
  BY <1>1, <1>4, <1>5, <1>6, <1>7, <1>8

\* The steps that publish an event, or lose it.
LEMMA CrawlerPublishes ==
    ASSUME IndInv, RepublishOne \/ FinishRecord
    PROVE  /\ EnvironmentTypeOK' /\ QueueTypeOK' /\ KeepsReaders(Workers)
           /\ UNCHANGED catalogVars
           /\ CrawlerInv'
<1>1. EnvironmentTypeOK /\ QueueTypeOK /\ CrawlerTypeOK
  BY DEF IndInv, CrawlerInv
<1>2. CASE RepublishOne
  <2>1. PICK event \in batch : PublishOrLose(event[1], event[2]) /\ batch' = batch \ {event}
    BY <1>2 DEF RepublishOne
  <2>2. event[1] \in Tenders /\ event[2] \in Versions
    BY <1>1, <2>1 DEF CrawlerTypeOK
  <2>3. EnvironmentTypeOK' /\ QueueTypeOK' /\ KeepsReaders(Workers)
    BY <1>1, <2>1, <2>2, PublishOrLoseType
  <2>4. CrawlerInv' /\ UNCHANGED catalogVars
    BY <1>1, <1>2, <2>1 DEF RepublishOne, CrawlerInv, CrawlerTypeOK,
           LoadedHashIsCurrent, DownloadsAreListed
  <2>5. QED
    BY <2>3, <2>4
<1>3. CASE FinishRecord
  <2>1. job.tender \in Tenders /\ job.version \in Versions
    BY <1>1, <1>3 DEF FinishRecord, CrawlerTypeOK, Job
  <2>2. EnvironmentTypeOK' /\ QueueTypeOK' /\ KeepsReaders(Workers)
    <3>1. CASE PublishOrLose(job.tender, job.version)
      BY <1>1, <2>1, <3>1, PublishOrLoseType
    <3>2. CASE NoFault /\ UNCHANGED queue
      BY <1>1, <3>2, FaultType, QueueFrame
    <3>3. QED
      BY <1>3, <3>1, <3>2 DEF FinishRecord
  <2>3. CrawlerInv' /\ UNCHANGED catalogVars
    BY <1>1, <1>3 DEF FinishRecord, CrawlerInv, CrawlerTypeOK, LoadedHashIsCurrent,
           DownloadsAreListed, Stage
  <2>4. QED
    BY <2>2, <2>3
<1>4. QED
  BY <1>2, <1>3

\* What persist_record's transaction makes of a stored row.
LEMMA PersistedRowType ==
    ASSUME NEW r \in Row, NEW l \in Row, NEW v \in Versions,
           r.hash = l.hash, r.status = "absent" <=> l.status = "absent",
           r.status = "absent" => r = AbsentRow
    PROVE  LET n == PersistedRow(r, l, v)
           IN  /\ n \in Row
               /\ n.hash = v
               /\ n.indexed = r.indexed
               /\ n.status # "absent"
<1>1. None \in Hash /\ v \in Hash /\ AbsentRow.indexed = None
  BY DEF Hash, AbsentRow
<1>2. CASE l.status = "absent"
  BY <1>1, <1>2 DEF PersistedRow, InsertedRow, Row, IndexStatus
<1>3. CASE l.status # "absent" /\ l.hash = v
  BY <1>3 DEF PersistedRow
<1>4. CASE l.status # "absent" /\ l.hash # v
  <2>1. PersistedRow(r, l, v) =
          [r EXCEPT !.hash = v, !.status = Emitted(l.status, r.status, "pending")]
    BY <1>4 DEF PersistedRow, Emitted
  <2>2. /\ Emitted(l.status, r.status, "pending") \in IndexStatus \cup {"absent"}
        /\ Emitted(l.status, r.status, "pending") # "absent"
    BY <1>4 DEF Emitted, Row, IndexStatus
  <2>3. QED
    BY <1>1, <2>1, <2>2 DEF Row
<1>5. QED
  BY <1>2, <1>3, <1>4

\* persist_record's commit.
LEMMA PersistRecordKeeps ==
    ASSUME IndInv, PersistRecord
    PROVE  CatalogInv' /\ CrawlerInv'
<1> DEFINE t == job.tender
           v == job.version
           n == PersistedRow(row[t], job.loaded, v)
           m == [a \in Attachments |-> IF a \in Listed[v]
                                       THEN ListedStatus(attachment[t][a])
                                       ELSE UnlistedStatus(attachment[t][a])]
<1>1. /\ CatalogTypeOK /\ AbsentIsEmpty /\ ChunksMatchIndexed /\ ListedAttachmentsAreLive
      /\ CrawlerTypeOK /\ LoadedHashIsCurrent /\ stage = "persist"
  BY DEF IndInv, CatalogInv, CrawlerInv, PersistRecord
<1>2. job \in Job /\ t \in Tenders /\ v \in Versions /\ job.loaded \in Row
  BY <1>1 DEF CrawlerTypeOK, Job
<1>3. /\ row' = [row EXCEPT ![t] = n]
      /\ attachment' = [attachment EXCEPT ![t] = m]
      /\ job' = [job EXCEPT !.todo = Listed[v], !.changed = (job.loaded.hash # v),
                            !.loaded = AbsentRow]
      /\ stage' = "download"
      /\ UNCHANGED <<batch, left, chunks>>
  BY DEF PersistRecord
<1>4. /\ n \in Row /\ n.hash = v /\ n.indexed = row[t].indexed
      /\ n.status # "absent"
  <2>1. row[t] \in Row /\ (row[t].status = "absent" => row[t] = AbsentRow)
    BY <1>1, <1>2 DEF CatalogTypeOK, AbsentIsEmpty
  <2>2. /\ row[t].hash = job.loaded.hash
        /\ row[t].status = "absent" <=> job.loaded.status = "absent"
    BY <1>1 DEF LoadedHashIsCurrent
  <2>3. QED
    BY <1>2, <2>1, <2>2, PersistedRowType
<1>5. /\ m \in [Attachments -> DownloadStatus \cup {"absent"}]
      /\ Listed[v] = {a \in Attachments : m[a] \notin {"absent", "skipped"}}
  <2>1. attachment[t] \in [Attachments -> DownloadStatus \cup {"absent"}]
    BY <1>1, <1>2 DEF CatalogTypeOK
  <2>2. Listed[v] \subseteq Attachments
    BY <1>2
  <2>3. QED
    BY <2>1, <2>2 DEF ListedStatus, UnlistedStatus, DownloadStatus
<1>6. job' \in Job /\ job'.tender = t /\ job'.version = v /\ job'.todo = Listed[v]
  <2>1. AbsentRow \in Row
    BY DEF AbsentRow, Row, Hash
  <2>2. QED
    BY <1>2, <1>3, <2>1 DEF Job
<1> HIDE DEF t, v, n, m
<1>7. CatalogTypeOK'
  BY <1>1, <1>2, <1>3, <1>4, <1>5 DEF CatalogTypeOK
<1>8. AbsentIsEmpty' /\ ChunksMatchIndexed'
  BY <1>1, <1>2, <1>3, <1>4 DEF CatalogTypeOK, AbsentIsEmpty, ChunksMatchIndexed
<1>9. ListedAttachmentsAreLive'
  <2> SUFFICES ASSUME NEW u \in Tenders, row'[u].status # "absent"
               PROVE  Listed[row'[u].hash] =
                        {a \in Attachments : attachment'[u][a] \notin {"absent", "skipped"}}
    BY DEF ListedAttachmentsAreLive
  <2>1. CASE u = t
    BY <1>1, <1>2, <1>3, <1>4, <1>5, <2>1 DEF CatalogTypeOK
  <2>2. CASE u # t
    BY <1>1, <1>2, <1>3, <2>2 DEF CatalogTypeOK, ListedAttachmentsAreLive
  <2>3. QED
    BY <2>1, <2>2
<1>10. CrawlerInv'
  BY <1>1, <1>2, <1>3, <1>4, <1>6 DEF CatalogTypeOK, CrawlerInv, CrawlerTypeOK,
         LoadedHashIsCurrent, DownloadsAreListed, Stage
<1>11. QED
  BY <1>7, <1>8, <1>9, <1>10 DEF CatalogInv

\* The two transactions that end a download.
LEMMA DownloadKeeps ==
    ASSUME IndInv, NEW a \in Attachments, DownloadOne(a) \/ DownloadFails(a)
    PROVE  CatalogInv' /\ CrawlerInv'
<1> DEFINE t == job.tender
<1>1. /\ CatalogTypeOK /\ AbsentIsEmpty /\ ChunksMatchIndexed /\ ListedAttachmentsAreLive
      /\ CrawlerTypeOK /\ DownloadsAreListed /\ stage = "download" /\ a \in job.todo
  BY DEF IndInv, CatalogInv, CrawlerInv, DownloadOne, DownloadFails
<1>2. job \in Job /\ t \in Tenders /\ job.version \in Versions
  BY <1>1 DEF CrawlerTypeOK, Job
<1>3. row[t] \in Row /\ row[t].hash = job.version /\ row[t].status # "absent"
  BY <1>1, <1>2 DEF CatalogTypeOK, DownloadsAreListed, AbsentIsEmpty, AbsentRow
<1>4. PICK s \in {"ready", "failed"} : attachment' = [attachment EXCEPT ![t][a] = s]
  BY DEF DownloadOne, DownloadFails
<1>5. PICK n : /\ row' = [row EXCEPT ![t] = n]
               /\ n \in Row /\ n.hash = row[t].hash /\ n.indexed = row[t].indexed
               /\ n.status # "absent"
  <2>1. CASE DownloadOne(a)
    <3>1. row' = [row EXCEPT ![t] = DownloadedRow(row[t])]
      BY <2>1 DEF DownloadOne
    <3>2. /\ DownloadedRow(row[t]) \in Row
          /\ DownloadedRow(row[t]).hash = row[t].hash
          /\ DownloadedRow(row[t]).indexed = row[t].indexed
          /\ DownloadedRow(row[t]).status # "absent"
      BY <1>3 DEF DownloadedRow, Row, IndexStatus
    <3>3. QED
      BY <3>1, <3>2
  <2>2. CASE DownloadFails(a)
    <3>1. row' = [row EXCEPT ![t] = row[t]]
      BY <1>1, <1>2, <2>2 DEF DownloadFails, CatalogTypeOK
    <3>2. QED
      BY <1>3, <3>1
  <2>3. QED
    BY <2>1, <2>2
<1>6. UNCHANGED <<stage, batch, left, chunks>>
  BY DEF DownloadOne, DownloadFails
<1>7. /\ job' \in Job /\ job'.tender = t /\ job'.version = job.version
      /\ job'.todo \subseteq job.todo
  <2> DEFINE i == [job EXCEPT !.todo = @ \ {a}, !.downloaded = TRUE]
             j == [job EXCEPT !.todo = @ \ {a}]
  <2>1. job' = i \/ job' = j
    BY DEF DownloadOne, DownloadFails
  <2>2. /\ i \in Job /\ i.tender = job.tender
        /\ i.version = job.version /\ i.todo \subseteq job.todo
    BY <1>2 DEF Job
  <2>3. /\ j \in Job /\ j.tender = job.tender
        /\ j.version = job.version /\ j.todo \subseteq job.todo
    BY <1>2 DEF Job
  <2> HIDE DEF i, j
  <2>4. QED
    BY <2>1, <2>2, <2>3
<1>8. a \in Listed[row[t].hash]
  BY <1>1, <1>3 DEF DownloadsAreListed
<1> HIDE DEF t
<1>9. CatalogTypeOK'
  <2>1. row' \in [Tenders -> Row]
    BY <1>1, <1>2, <1>5 DEF CatalogTypeOK
  <2>2. \A u \in Tenders : row'[u].status # "absent" => row'[u].hash \in Versions
    BY <1>1, <1>2, <1>3, <1>5 DEF CatalogTypeOK
  <2>3. attachment' \in [Tenders -> [Attachments -> DownloadStatus \cup {"absent"}]]
    BY <1>1, <1>2, <1>4 DEF CatalogTypeOK, DownloadStatus
  <2>4. QED
    BY <1>1, <1>6, <2>1, <2>2, <2>3 DEF CatalogTypeOK
<1>10. AbsentIsEmpty' /\ ChunksMatchIndexed'
  BY <1>1, <1>2, <1>5, <1>6 DEF CatalogTypeOK, AbsentIsEmpty, ChunksMatchIndexed
<1>11. ListedAttachmentsAreLive'
  <2> SUFFICES ASSUME NEW u \in Tenders, row'[u].status # "absent"
               PROVE  Listed[row'[u].hash] =
                        {b \in Attachments : attachment'[u][b] \notin {"absent", "skipped"}}
    BY DEF ListedAttachmentsAreLive
  <2>1. /\ row'[u].hash = row[u].hash /\ row[u].status # "absent"
    BY <1>1, <1>2, <1>3, <1>5 DEF CatalogTypeOK
  <2>2. Listed[row[u].hash] =
          {b \in Attachments : attachment[u][b] \notin {"absent", "skipped"}}
    BY <1>1, <2>1 DEF ListedAttachmentsAreLive
  <2>3. ASSUME NEW b \in Attachments
        PROVE  attachment'[u][b] \notin {"absent", "skipped"} <=> b \in Listed[row[u].hash]
    <3>1. CASE u = t /\ b = a
      BY <1>1, <1>2, <1>4, <1>8, <3>1 DEF CatalogTypeOK
    <3>2. CASE ~(u = t /\ b = a)
      <4>1. attachment'[u][b] = attachment[u][b]
        BY <1>1, <1>2, <1>4, <3>2 DEF CatalogTypeOK
      <4>2. QED
        BY <2>2, <4>1
    <3>3. QED
      BY <3>1, <3>2
  <2>4. Listed[row[u].hash] \subseteq Attachments
    BY <2>2
  <2>5. QED
    BY <2>1, <2>3, <2>4
<1>12. CrawlerInv'
  BY <1>1, <1>2, <1>3, <1>5, <1>6, <1>7 DEF CatalogTypeOK, CrawlerInv, CrawlerTypeOK,
         LoadedHashIsCurrent, DownloadsAreListed
<1>13. QED
  BY <1>9, <1>10, <1>11, <1>12 DEF CatalogInv

\* Every step of the crawler keeps the whole invariant.
LEMMA CrawlerKeepsInv ==
    ASSUME IndInv, CrawlerStep, UNCHANGED indexerVars
    PROVE  IndInv'
<1>1. EnvironmentTypeOK /\ QueueTypeOK /\ CatalogInv /\ IndexerInv
  BY DEF IndInv
<1>2. CASE \/ BeginCycle \/ EndRepublish \/ EndCycle \/ CrawlerRestarts
           \/ PersistFails \/ DownloadAborts
           \/ \E t \in Tenders, v \in Versions : ReadTender(t, v)
           \/ \E a \in Attachments : SkipReady(a)
  <2>1. EnvironmentTypeOK' /\ UNCHANGED <<queue, catalogVars>> /\ CrawlerInv'
    BY <1>2, CrawlerReads
  <2>2. QED
    BY <1>1, <2>1, QueueFrame, CatalogFrame, IndexerFrame DEF IndInv
<1>3. CASE RepublishOne \/ FinishRecord
  BY <1>1, <1>3, CrawlerPublishes, CatalogFrame, IndexerFrame DEF IndInv
<1>4. CASE PersistRecord
  <2>1. EnvironmentTypeOK' /\ UNCHANGED queue
    BY <1>1, <1>4, FaultType DEF PersistRecord
  <2>2. QED
    BY <1>1, <1>4, <2>1, PersistRecordKeeps, QueueFrame, IndexerFrame DEF IndInv
<1>5. ASSUME NEW a \in Attachments, DownloadOne(a) \/ DownloadFails(a)
      PROVE  IndInv'
  <2>1. NoFault \/ Fault("download")
    BY <1>5 DEF DownloadOne, DownloadFails
  <2>2. EnvironmentTypeOK'
    BY <1>1, <2>1, FaultType DEF FaultKinds
  <2>3. UNCHANGED queue
    BY <1>5 DEF DownloadOne, DownloadFails
  <2>4. CatalogInv' /\ CrawlerInv'
    BY <1>5, DownloadKeeps
  <2>5. QED
    BY <1>1, <2>2, <2>3, <2>4, QueueFrame, IndexerFrame DEF IndInv
<1>6. QED
  BY <1>2, <1>3, <1>4, <1>5 DEF CrawlerStep

----------------------------------------------------------------------------
(* The indexer's steps *)

\* A worker goes on with the delivery it holds.
LEMMA WorkerGoesOn ==
    ASSUME IndexerInv, NEW w \in Workers, NEW label \in PC, pc[w] # "idle",
           UNCHANGED queue,
           Goto(w, label),
           NEW n \in Task, task' = [task EXCEPT ![w] = n], n.slot = task[w].slot,
           label \in {"attachments", "claim", "embed", "commit"} => n.seen = n.hash
    PROVE  IndexerInv'
<1>1. pc' = [pc EXCEPT ![w] = label] /\ pc \in [Workers -> PC]
  BY DEF Goto, IndexerInv, IndexerTypeOK
<1>2. IndexerTypeOK'
  BY <1>1 DEF IndexerInv, IndexerTypeOK
<1>3. DeliveriesAreKnown'
  BY <1>1 DEF IndexerInv, IndexerTypeOK, DeliveriesAreKnown, Free
<1>4. SeenIsOwnVersion'
  BY <1>1 DEF IndexerInv, IndexerTypeOK, SeenIsOwnVersion
<1>5. QED
  BY <1>2, <1>3, <1>4 DEF IndexerInv

\* A new delivery belongs to the worker that fetched it.
LEMMA FetchKeeps ==
    ASSUME IndInv, NEW w \in Workers, NEW s \in Slots, Fetch(w, s)
    PROVE  QueueTypeOK' /\ IndexerInv'
<1>1. /\ QueueTypeOK /\ IndexerTypeOK /\ DeliveriesAreKnown /\ SeenIsOwnVersion
      /\ Deliver(s, w)
  BY DEF IndInv, IndexerInv, Fetch
<1>2. /\ QueueTypeOK' /\ queue[s] \in Message
      /\ ~Free(s)' /\ w \in queue'[s].readers /\ KeepsReaders(Workers)
  BY <1>1, DeliverType
<1> DEFINE n == [slot |-> s, tender |-> queue[s].tender, hash |-> queue[s].hash,
                 seen |-> None, files |-> {}, verdict |-> "nak"]
<1>3. n \in Task /\ n.slot = s
  BY <1>2 DEF Message, Task, Hash
<1>4. task' = [task EXCEPT ![w] = n] /\ pc' = [pc EXCEPT ![w] = "load"]
  BY DEF Fetch, Goto
<1> HIDE DEF n
<1>5. IndexerTypeOK' /\ SeenIsOwnVersion'
  BY <1>1, <1>3, <1>4 DEF IndexerTypeOK, SeenIsOwnVersion, PC
<1>6. DeliveriesAreKnown'
  <2> SUFFICES ASSUME NEW v \in Workers, pc'[v] # "idle"
               PROVE  queue'[task'[v].slot] # None /\ v \in queue'[task'[v].slot].readers
    BY DEF DeliveriesAreKnown, Free
  <2>1. CASE v = w
    BY <1>1, <1>2, <1>3, <1>4, <2>1 DEF IndexerTypeOK, Free
  <2>2. CASE v # w
    <3>1. pc[v] # "idle" /\ task'[v] = task[v] /\ task[v].slot \in Slots
      BY <1>1, <1>4, <2>2 DEF IndexerTypeOK, Task
    <3>2. ~Free(task[v].slot) /\ v \in queue[task[v].slot].readers
      BY <1>1, <3>1 DEF DeliveriesAreKnown
    <3>3. QED
      BY <1>2, <3>1, <3>2 DEF KeepsReaders, Free
  <2>3. QED
    BY <2>1, <2>2
<1>7. QED
  BY <1>2, <1>5, <1>6 DEF IndexerInv

\* A worker that settles its event, or loses it, leaves the others theirs.
LEMMA SettleKeeps ==
    ASSUME IndInv, NEW w \in Workers, Acknowledge(w) \/ Nak(w) \/ IndexerRestarts(w)
    PROVE  QueueTypeOK' /\ IndexerInv'
<1>1. /\ QueueTypeOK /\ IndexerTypeOK /\ DeliveriesAreKnown /\ SeenIsOwnVersion
      /\ pc[w] # "idle"
  BY DEF IndInv, IndexerInv, Acknowledge, Nak, IndexerRestarts
<1> DEFINE s == task[w].slot
<1>2. s \in Slots /\ ~Free(s)
  BY <1>1 DEF IndexerTypeOK, DeliveriesAreKnown, Task
<1>3. Settle(s, w) \/ GiveBack(s, w) \/ LetGo(s, w)
  BY DEF Acknowledge, Nak, IndexerRestarts, Retry
<1>4. /\ QueueTypeOK'
      /\ \A q \in Slots, v \in Workers \ {w} :
           ~Free(q) /\ v \in queue[q].readers => ~Free(q)' /\ v \in queue'[q].readers
  BY <1>1, <1>2, <1>3, ReleaseType
<1>5. task' = [task EXCEPT ![w] = None] /\ pc' = [pc EXCEPT ![w] = "idle"]
  BY DEF Acknowledge, Nak, IndexerRestarts, Idle, Goto
<1> HIDE DEF s
<1>6. IndexerTypeOK' /\ SeenIsOwnVersion'
  BY <1>1, <1>5 DEF IndexerTypeOK, SeenIsOwnVersion, PC
<1>7. DeliveriesAreKnown'
  <2> SUFFICES ASSUME NEW v \in Workers, pc'[v] # "idle"
               PROVE  queue'[task'[v].slot] # None /\ v \in queue'[task'[v].slot].readers
    BY DEF DeliveriesAreKnown, Free
  <2>1. v # w /\ pc[v] # "idle" /\ task'[v] = task[v] /\ task[v].slot \in Slots
    BY <1>1, <1>5 DEF IndexerTypeOK, Task
  <2>2. ~Free(task[v].slot) /\ v \in queue[task[v].slot].readers
    BY <1>1, <2>1 DEF DeliveriesAreKnown
  <2>3. QED
    BY <1>4, <2>1, <2>2 DEF Free
<1>8. QED
  BY <1>4, <1>6, <1>7 DEF IndexerInv

\* The steps that only read the database, or fail before they write to it.
LEMMA IndexerReads ==
    ASSUME IndInv, NEW w \in Workers,
           \/ LoadTender(w) \/ LoadAttachments(w) \/ Embed(w) \/ EmbedFails(w)
           \/ CommitFails(w) \/ DatabaseError(w)
    PROVE  /\ EnvironmentTypeOK' /\ UNCHANGED <<queue, catalogVars>>
           /\ IndexerInv'
<1>1. IndexerInv /\ IndexerTypeOK /\ SeenIsOwnVersion /\ CatalogTypeOK /\ EnvironmentTypeOK
  BY DEF IndInv, IndexerInv, CatalogInv
<1>2. UNCHANGED <<queue, catalogVars>>
  BY DEF LoadTender, LoadAttachments, Embed, EmbedFails, CommitFails, DatabaseError
<1>3. EnvironmentTypeOK'
  <2>1. NoFault \/ \E kind \in FaultKinds : Fault(kind)
    BY DEF LoadTender, LoadAttachments, Embed, EmbedFails, CommitFails, DatabaseError,
           FaultKinds
  <2>2. QED
    BY <1>1, <2>1, FaultType
<1>4. pc[w] # "idle" /\ task[w] \in Task
  BY <1>1 DEF LoadTender, LoadAttachments, Embed, EmbedFails, CommitFails, DatabaseError,
              IndexerTypeOK
<1>5. task[w].tender \in Tenders /\ task[w].hash \in Versions /\ MyRow(w) \in Row
  BY <1>1, <1>4 DEF Task, CatalogTypeOK, MyRow
<1>6. task \in [Workers -> Task \cup {None}]
  BY <1>1 DEF IndexerTypeOK
<1>7. ASSUME LoadTender(w) PROVE IndexerInv'
  <2> DEFINE n == [task[w] EXCEPT !.seen = MyRow(w).hash]
  <2>1. n \in Task /\ n.slot = task[w].slot /\ n.seen = MyRow(w).hash /\ n.hash = task[w].hash
    BY <1>4, <1>5 DEF Task, Row
  <2>2. task' = [task EXCEPT ![w] = n]
    BY <1>7 DEF LoadTender
  <2> HIDE DEF n
  <2>3. PICK label \in {"ack", "attachments"} :
          /\ Goto(w, label)
          /\ label = "attachments" => MyRow(w).hash = task[w].hash
    BY <1>7 DEF LoadTender, StaleAtLoad, Unchanged
  <2>4. label \in PC
    BY DEF PC
  <2>5. QED
    BY <1>1, <1>2, <1>4, <2>1, <2>2, <2>3, <2>4, WorkerGoesOn
<1>8. ASSUME LoadAttachments(w) PROVE IndexerInv'
  <2> DEFINE n == [task[w] EXCEPT !.files = ReadyFiles(task[w].tender)]
  <2>1. n \in Task /\ n.slot = task[w].slot /\ n.seen = task[w].seen /\ n.hash = task[w].hash
    BY <1>4 DEF Task, ReadyFiles
  <2>2. task' = [task EXCEPT ![w] = n] /\ Goto(w, "claim") /\ pc[w] = "attachments"
    BY <1>8 DEF LoadAttachments
  <2> HIDE DEF n
  <2>3. task[w].seen = task[w].hash
    BY <1>1, <2>2 DEF SeenIsOwnVersion
  <2>4. "claim" \in PC
    BY DEF PC
  <2>5. QED
    BY <1>1, <1>2, <1>4, <2>1, <2>2, <2>3, <2>4, WorkerGoesOn
<1>9. ASSUME Embed(w) PROVE IndexerInv'
  <2>1. task' = [task EXCEPT ![w] = task[w]] /\ Goto(w, "commit") /\ pc[w] = "embed"
    BY <1>6, <1>9 DEF Embed
  <2>2. task[w].seen = task[w].hash /\ "commit" \in PC
    BY <1>1, <2>1 DEF SeenIsOwnVersion, PC
  <2>3. QED
    BY <1>1, <1>2, <1>4, <2>1, <2>2, WorkerGoesOn
<1>10. ASSUME EmbedFails(w) \/ CommitFails(w) PROVE IndexerInv'
  <2>1. PICK verdict \in {"nak", "term"} :
          task' = [task EXCEPT ![w] = [task[w] EXCEPT !.verdict = verdict]]
    BY <1>10 DEF EmbedFails, CommitFails
  <2> DEFINE n == [task[w] EXCEPT !.verdict = verdict]
  <2>2. n \in Task /\ n.slot = task[w].slot
    BY <1>4 DEF Task
  <2>3. Goto(w, "mark_failed") /\ "mark_failed" \in PC
    BY <1>10 DEF EmbedFails, CommitFails, PC
  <2>4. task' = [task EXCEPT ![w] = n]
    BY <2>1
  <2> HIDE DEF n
  <2>5. QED
    BY <1>1, <1>2, <1>4, <2>2, <2>3, <2>4, WorkerGoesOn
<1>11. ASSUME DatabaseError(w) PROVE IndexerInv'
  <2>1. task' = [task EXCEPT ![w] = task[w]] /\ Goto(w, "nak") /\ "nak" \in PC
    BY <1>6, <1>11 DEF DatabaseError, PC
  <2>2. QED
    BY <1>1, <1>2, <1>4, <2>1, WorkerGoesOn
<1>12. QED
  BY <1>2, <1>3, <1>7, <1>8, <1>9, <1>10, <1>11

\* The three transactions of process that write.
LEMMA IndexerWrites ==
    ASSUME IndInv, NEW w \in Workers, Claim(w) \/ Commit(w) \/ MarkFailed(w)
    PROVE  /\ CatalogInv' /\ IndexerInv'
           /\ \A t \in Tenders : /\ row'[t].hash = row[t].hash
                                 /\ row'[t].status = "absent" <=> row[t].status = "absent"
<1> DEFINE t == task[w].tender
<1>1. /\ IndexerInv /\ IndexerTypeOK /\ SeenIsOwnVersion
      /\ CatalogTypeOK /\ AbsentIsEmpty /\ ChunksMatchIndexed /\ ListedAttachmentsAreLive
  BY DEF IndInv, IndexerInv, CatalogInv
<1>2. pc[w] # "idle" /\ task[w] \in Task /\ UNCHANGED <<task, queue, attachment>>
  BY <1>1 DEF Claim, Commit, MarkFailed, IndexerTypeOK
<1>3. t \in Tenders /\ task[w].hash \in Versions /\ row[t] \in Row
  BY <1>1, <1>2 DEF Task, CatalogTypeOK
<1>4. row[t].hash = task[w].hash => row[t].status # "absent"
  BY <1>1, <1>3 DEF AbsentIsEmpty, AbsentRow
<1>5. PICK n, c :
        /\ row' = [row EXCEPT ![t] = n] /\ n \in Row
        /\ n.hash = row[t].hash /\ (n.status = "absent" => n = row[t])
        /\ row[t].status = "absent" => n = row[t]
        /\ chunks' = [chunks EXCEPT ![t] = c]
        /\ c \in [version : Hash, files : SUBSET Attachments]
        /\ c.version = n.indexed
  <2>1. /\ row = [row EXCEPT ![t] = row[t]]
        /\ chunks = [chunks EXCEPT ![t] = chunks[t]]
        /\ chunks[t] \in [version : Hash, files : SUBSET Attachments]
        /\ chunks[t].version = row[t].indexed
    BY <1>1, <1>3 DEF CatalogTypeOK, ChunksMatchIndexed
  <2>2. CASE UNCHANGED <<row, chunks>>
    BY <1>3, <2>1, <2>2
  <2>3. CASE (Claim(w) \/ MarkFailed(w)) /\ ~UNCHANGED <<row, chunks>>
    <3>1. PICK status \in {"processing", "failed"} :
            row' = [row EXCEPT ![t].status = status]
      BY <2>3 DEF Claim, MarkFailed
    <3>2. UNCHANGED chunks /\ row[t].status # "absent"
      BY <1>4, <2>3 DEF Claim, MarkFailed, StaleUnderLock, StillOwn, MyRow
    <3> DEFINE m == [row[t] EXCEPT !.status = status]
    <3>3. /\ m \in Row /\ m.hash = row[t].hash /\ m.status # "absent"
          /\ m.indexed = row[t].indexed
      BY <1>3 DEF Row, IndexStatus
    <3>4. row' = [row EXCEPT ![t] = m]
      BY <3>1
    <3> HIDE DEF m
    <3>5. chunks' = [chunks EXCEPT ![t] = chunks[t]] /\ chunks[t].version = m.indexed
      BY <2>1, <3>2, <3>3
    <3>6. WITNESS m, chunks[t]
    <3>7. QED
      BY <2>1, <3>2, <3>3, <3>4, <3>5
  <2>4. CASE Commit(w) /\ ~UNCHANGED <<row, chunks>>
    <3> DEFINE m == [row[t] EXCEPT !.indexed = task[w].hash, !.status = "ready"]
               c == [version |-> task[w].seen, files |-> task[w].files]
    <3>1. /\ row' = [row EXCEPT ![t].indexed = task[w].hash, ![t].status = "ready"]
          /\ chunks' = [chunks EXCEPT ![t] = c]
          /\ row[t].hash = task[w].hash /\ pc[w] = "commit"
      BY <2>4 DEF Commit, StaleUnderLock
    <3>2. row' = [row EXCEPT ![t] = m]
      BY <3>1
    <3>3. /\ m \in Row /\ m.hash = row[t].hash /\ m.status # "absent"
          /\ m.indexed = task[w].hash
      BY <1>3 DEF Row, IndexStatus, Hash
    <3>4. c \in [version : Hash, files : SUBSET Attachments] /\ c.version = task[w].seen
      BY <1>2 DEF Task
    <3>5. task[w].seen = task[w].hash
      BY <1>1, <3>1 DEF SeenIsOwnVersion
    <3>6. row[t].status # "absent"
      BY <1>4, <3>1
    <3>7. chunks' = [chunks EXCEPT ![t] = c]
      BY <3>1
    <3> HIDE DEF m, c
    <3>8. QED
      BY <3>2, <3>3, <3>4, <3>5, <3>6, <3>7
  <2>5. QED
    BY <2>2, <2>3, <2>4
<1>6. IndexerInv'
  <2>1. task' = [task EXCEPT ![w] = task[w]]
    BY <1>1, <1>2 DEF IndexerTypeOK
  <2>2. \E label \in {"ack", "embed", "nak", "term"} :
          Goto(w, label) /\ (label = "embed" => pc[w] = "claim")
    BY <1>2 DEF Claim, Commit, MarkFailed, Task
  <2>3. PICK label \in {"ack", "embed", "nak", "term"} :
          Goto(w, label) /\ (label = "embed" => pc[w] = "claim")
    BY <2>2
  <2>4. label \in PC /\ (label = "embed" => task[w].seen = task[w].hash)
    BY <1>1, <2>3 DEF PC, SeenIsOwnVersion
  <2>5. QED
    BY <1>1, <1>2, <2>1, <2>3, <2>4, WorkerGoesOn
<1> HIDE DEF t
<1>7. \A u \in Tenders : /\ row'[u].hash = row[u].hash
                         /\ row'[u].status = "absent" <=> row[u].status = "absent"
                         /\ u # t => row'[u] = row[u] /\ chunks'[u] = chunks[u]
  BY <1>1, <1>3, <1>5 DEF CatalogTypeOK
<1>8. row' \in [Tenders -> Row] /\ row'[t] = n /\ chunks'[t] = c
  BY <1>1, <1>3, <1>5 DEF CatalogTypeOK
<1>9. CatalogTypeOK'
  BY <1>1, <1>2, <1>5, <1>7, <1>8 DEF CatalogTypeOK
<1>10. ChunksMatchIndexed' /\ ListedAttachmentsAreLive'
  BY <1>1, <1>2, <1>5, <1>7, <1>8 DEF ChunksMatchIndexed, ListedAttachmentsAreLive
<1>11. AbsentIsEmpty'
  BY <1>1, <1>3, <1>5, <1>7, <1>8 DEF AbsentIsEmpty
<1>12. QED
  BY <1>6, <1>7, <1>9, <1>10, <1>11 DEF CatalogInv

\* Every step of an indexer keeps the whole invariant.
LEMMA IndexerKeepsInv ==
    ASSUME IndInv, IndexerStep, UNCHANGED crawlerVars
    PROVE  IndInv'
<1>1. EnvironmentTypeOK /\ QueueTypeOK /\ CatalogInv /\ CrawlerInv
  BY DEF IndInv
<1>2. PICK w \in Workers : Work(w) \/ \E s \in Slots : Fetch(w, s)
  BY DEF IndexerStep
<1>3. CASE \E s \in Slots : Fetch(w, s)
  <2>1. UNCHANGED catalogVars /\ NoFault /\ QueueTypeOK' /\ IndexerInv'
    BY <1>3, FetchKeeps DEF Fetch
  <2>2. EnvironmentTypeOK'
    BY <1>1, <2>1, FaultType
  <2>3. CatalogInv' /\ CrawlerInv'
    BY <1>1, <2>1, CatalogFrame, CrawlerFrame DEF catalogVars
  <2>4. QED
    BY <2>1, <2>2, <2>3 DEF IndInv
<1>4. CASE Acknowledge(w) \/ Nak(w) \/ IndexerRestarts(w)
  <2>1. UNCHANGED catalogVars /\ QueueTypeOK' /\ IndexerInv'
    BY <1>4, SettleKeeps DEF Acknowledge, Nak, IndexerRestarts
  <2>2. NoFault \/ Fault("indexer_crash")
    BY <1>4 DEF Acknowledge, Nak, IndexerRestarts
  <2>3. EnvironmentTypeOK'
    BY <1>1, <2>2, FaultType DEF FaultKinds
  <2>4. CatalogInv' /\ CrawlerInv'
    BY <1>1, <2>1, CatalogFrame, CrawlerFrame DEF catalogVars
  <2>5. QED
    BY <2>1, <2>3, <2>4 DEF IndInv
<1>5. CASE \/ LoadTender(w) \/ LoadAttachments(w) \/ Embed(w) \/ EmbedFails(w)
           \/ CommitFails(w) \/ DatabaseError(w)
  <2>1. EnvironmentTypeOK' /\ UNCHANGED <<queue, catalogVars>> /\ IndexerInv'
    BY <1>5, IndexerReads
  <2>2. CatalogInv' /\ CrawlerInv'
    BY <1>1, <2>1, CatalogFrame, CrawlerFrame DEF catalogVars
  <2>3. QED
    BY <1>1, <2>1, <2>2, QueueFrame DEF IndInv
<1>6. CASE Claim(w) \/ Commit(w) \/ MarkFailed(w)
  <2>1. /\ CatalogInv' /\ IndexerInv'
        /\ \A t \in Tenders : /\ row'[t].hash = row[t].hash
                              /\ row'[t].status = "absent" <=> row[t].status = "absent"
    BY <1>6, IndexerWrites
  <2>2. NoFault /\ UNCHANGED queue
    BY <1>6 DEF Claim, Commit, MarkFailed
  <2>3. CrawlerInv'
    BY <1>1, <2>1, CrawlerFrame
  <2>4. EnvironmentTypeOK' /\ QueueTypeOK'
    BY <1>1, <2>2, FaultType, QueueFrame
  <2>5. QED
    BY <2>1, <2>3, <2>4 DEF IndInv
<1>7. QED
  BY <1>2, <1>3, <1>4, <1>5, <1>6 DEF Work

----------------------------------------------------------------------------
(* The theorems *)

\* The invariant is inductive.
LEMMA NextKeepsInv == IndInv /\ [Next]_vars => IndInv'
<1> SUFFICES ASSUME IndInv, [Next]_vars PROVE IndInv'
  OBVIOUS
<1>1. EnvironmentTypeOK /\ QueueTypeOK /\ CatalogInv /\ CrawlerInv /\ IndexerInv
  BY DEF IndInv
<1>2. CASE CrawlerStep /\ UNCHANGED indexerVars
  BY <1>2, CrawlerKeepsInv
<1>3. CASE IndexerStep /\ UNCHANGED crawlerVars
  BY <1>3, IndexerKeepsInv
<1>4. ASSUME NEW s \in Slots, AckWaitExpires(s),
             UNCHANGED <<catalogVars, crawlerVars, indexerVars>>
      PROVE  IndInv'
  <2>1. NoFault \/ Fault("slow")
    BY <1>4 DEF AckWaitExpires
  <2>2. EnvironmentTypeOK'
    BY <1>1, <2>1, FaultType DEF FaultKinds
  <2>3. QueueTypeOK' /\ IndexerInv'
    BY <1>1, <1>4, ExpireType, IndexerFrame
  <2>4. CatalogInv' /\ CrawlerInv'
    BY <1>1, <1>4, CatalogFrame, CrawlerFrame DEF catalogVars
  <2>5. QED
    BY <2>2, <2>3, <2>4 DEF IndInv
<1>5. CASE UNCHANGED vars
  <2>1. UNCHANGED <<faultsLeft, catalogVars, queue, crawlerVars, indexerVars>>
    BY <1>5 DEF vars
  <2>2. EnvironmentTypeOK'
    BY <1>1, <2>1 DEF EnvironmentTypeOK
  <2>3. QueueTypeOK' /\ IndexerInv' /\ CatalogInv' /\ CrawlerInv'
    BY <1>1, <2>1, QueueFrame, IndexerFrame, CatalogFrame, CrawlerFrame DEF catalogVars
  <2>4. QED
    BY <2>2, <2>3 DEF IndInv
<1>6. QED
  BY <1>2, <1>3, <1>4, <1>5 DEF Next

\* The whole inductive invariant holds in every reachable state.
THEOREM Invariance == Spec => []IndInv
BY InitIndInv, NextKeepsInv, PTL DEF Spec

\* Types, for any number of tenders, indexers, events and failures: the row
\* a SELECT returns, the events and the indexers' deliveries are well formed,
\* and an event that waits has deliveries left (models.py, nats.py).
THEOREM TypeCorrectness == Spec => []TypeOK
<1>1. IndInv => TypeOK
  BY DEF IndInv, CatalogInv, CrawlerInv, IndexerInv, TypeOK
<1>2. QED
  BY <1>1, Invariance, PTL

\* indexed_hash always names the text the chunks were made from, although
\* process loads the text two transactions before it writes the hash.
THEOREM IndexConsistency == Spec => []ChunksMatchIndexed
<1>1. IndInv => ChunksMatchIndexed
  BY DEF IndInv, CatalogInv
<1>2. QED
  BY <1>1, Invariance, PTL

\* The attachments that are not skipped are those the stored version lists,
\* whatever persist_record and the downloads did before.
THEOREM AttachmentConsistency == Spec => []ListedAttachmentsAreLive
<1>1. IndInv => ListedAttachmentsAreLive
  BY DEF IndInv, CatalogInv
<1>2. QED
  BY <1>1, Invariance, PTL
=============================================================================
