-------------------------- MODULE LifecycleProofs --------------------------
(* The pipeline implements the index lifecycle promised to search, and a    *)
(* tender fails only by its own version.  Both are properties of steps; the *)
(* inductive invariant of PipelineProofs says from where those steps start. *)
EXTENDS PipelineProofs

\* What one step does to a tender's row and chunks, whoever takes it.
LEMMA CatalogStep ==
    ASSUME IndInv, [Next]_vars, ~UNCHANGED <<row, chunks>>
    PROVE  \/ PersistRecord /\ UNCHANGED chunks
           \/ \E a \in Attachments : DownloadOne(a) /\ UNCHANGED chunks
           \/ \E w \in Workers : Claim(w) \/ Commit(w) \/ MarkFailed(w)
<1>1. ASSUME CrawlerStep
      PROVE  \/ PersistRecord /\ UNCHANGED chunks
             \/ \E a \in Attachments : DownloadOne(a) /\ UNCHANGED chunks
  BY <1>1 DEF CrawlerStep, BeginCycle, RepublishOne, EndRepublish, ReadTender, PersistRecord,
     PersistFails, DownloadOne, SkipReady, DownloadFails, DownloadAborts, FinishRecord,
     EndCycle, CrawlerRestarts, catalogVars
<1>2. ASSUME IndexerStep
      PROVE  \E w \in Workers : Claim(w) \/ Commit(w) \/ MarkFailed(w)
  BY <1>2 DEF IndexerStep, Work, Fetch, LoadTender, LoadAttachments, Embed, EmbedFails,
     CommitFails, DatabaseError, Acknowledge, Nak, IndexerRestarts, catalogVars
<1>3. QED
  BY <1>1, <1>2 DEF Next, vars, catalogVars

\* Persisting a record never makes a row failed or ready.
LEMMA PersistedStatus ==
    ASSUME NEW r \in Row, NEW l \in Row, NEW v \in Versions
    PROVE  PersistedRow(r, l, v).status \in {"pending", r.status}
<1>1. CASE l.status # "absent" /\ l.hash # v
  <2>1. PersistedRow(r, l, v) =
          [r EXCEPT !.hash = Emitted(l.hash, r.hash, v),
                    !.status = Emitted(l.status, r.status, "pending")]
    BY <1>1 DEF PersistedRow
  <2>2. Emitted(l.status, r.status, "pending") \in {"pending", r.status}
    BY DEF Emitted
  <2>3. QED
    BY <2>1, <2>2 DEF Row
<1>2. CASE ~(l.status # "absent" /\ l.hash # v)
  BY <1>2 DEF PersistedRow, InsertedRow
<1>3. QED
  BY <1>1, <1>2

\* A step of persist_record, by what the lifecycle sees of it.
LEMMA PersistStep ==
    ASSUME IndInv, PersistRecord
    PROVE  LET t == job.tender IN
           /\ t \in Tenders /\ job.version \in Versions
           /\ \E n \in Row : /\ row' = [row EXCEPT ![t] = n]
                             /\ n.hash = job.version
                             /\ n.status \in {"pending", row[t].status}
<1> DEFINE t == job.tender
           n == PersistedRow(row[t], job.loaded, job.version)
<1>1. /\ CatalogTypeOK /\ AbsentIsEmpty /\ CrawlerTypeOK /\ LoadedHashIsCurrent
      /\ stage = "persist"
  BY DEF IndInv, CatalogInv, CrawlerInv, PersistRecord
<1>2. t \in Tenders /\ job.version \in Versions /\ job.loaded \in Row
  BY <1>1 DEF CrawlerTypeOK, Job
<1>3. row[t] \in Row /\ (row[t].status = "absent" => row[t] = AbsentRow)
  BY <1>1, <1>2 DEF CatalogTypeOK, AbsentIsEmpty
<1>4. /\ row[t].hash = job.loaded.hash
      /\ row[t].status = "absent" <=> job.loaded.status = "absent"
  BY <1>1 DEF LoadedHashIsCurrent
<1>5. row' = [row EXCEPT ![t] = n]
  BY DEF PersistRecord
<1>6. n \in Row /\ n.hash = job.version
  BY <1>2, <1>3, <1>4, PersistedRowType
<1>7. n.status \in {"pending", row[t].status}
  BY <1>2, <1>3, PersistedStatus
<1> HIDE DEF n
<1>8. QED
  BY <1>2, <1>5, <1>6, <1>7

----------------------------------------------------------------------------
(* Failures *)

\* One step of FailedOnlyByOwnVersion.
LEMMA FailedStep ==
    ASSUME IndInv, [Next]_vars, NEW t \in Tenders,
           row[t].status # "failed", row'[t].status = "failed"
    PROVE  \E w \in Workers : /\ pc[w] = "mark_failed"
                              /\ task[w].tender = t
                              /\ task[w].hash = row[t].hash
<1>1. row \in [Tenders -> Row] /\ IndexerTypeOK
  BY DEF IndInv, CatalogInv, IndexerInv, CatalogTypeOK
<1>2. ~UNCHANGED <<row, chunks>>
  OBVIOUS
<1>3. ~PersistRecord
  BY <1>1, PersistStep
<1>4. ASSUME NEW a \in Attachments PROVE ~DownloadOne(a)
  BY <1>1 DEF DownloadOne, DownloadedRow, Row
<1>5. PICK w \in Workers : Claim(w) \/ Commit(w) \/ MarkFailed(w)
  BY <1>2, <1>3, <1>4, CatalogStep
<1>6. ~Claim(w) /\ ~Commit(w)
  BY <1>1 DEF Claim, Commit, Row
<1>7. MarkFailed(w)
  BY <1>5, <1>6
<1>8. pc[w] = "mark_failed" /\ task[w].tender = t /\ StillOwn(row[t], task[w].hash)
  BY <1>1, <1>7 DEF MarkFailed, MyRow, Row
<1>9. QED
  BY <1>8 DEF StillOwn

\* A row becomes failed only by _mark_failed of a worker whose event names
\* the content of that row, for any number of indexers and duplicates.
THEOREM FailuresAreOwn == Spec => FailedOnlyByOwnVersion
<1>1. IndInv /\ [Next]_vars =>
        [\A t \in Tenders :
           row[t].status # "failed" /\ row'[t].status = "failed"
             => \E w \in Workers : /\ pc[w] = "mark_failed"
                                   /\ task[w].tender = t
                                   /\ task[w].hash = row[t].hash]_vars
  BY FailedStep
<1>2. QED
  BY <1>1, Invariance, PTL DEF Spec, FailedOnlyByOwnVersion

----------------------------------------------------------------------------
(* Refinement *)

\* What search sees of the pipeline: the refinement mapping by name.
Content == [t \in Tenders |-> row[t].hash]
Index == [t \in Tenders |-> chunks[t].version]
Searchable == [t \in Tenders |-> row[t].status = "ready"]

\* The three abstract actions in terms of the database.
LEMMA AbstractSteps ==
    ASSUME NEW t \in Tenders, row \in [Tenders -> Row], NEW n \in Row,
           row' = [row EXCEPT ![t] = n]
    PROVE  /\ Content' = [Content EXCEPT ![t] = n.hash]
           /\ Searchable' = [Searchable EXCEPT ![t] = (n.status = "ready")]
BY DEF Content, Searchable

\* A step of the database is a step of the lifecycle, or none for it.
LEMMA LifecycleStep ==
    ASSUME IndInv, [Next]_vars
    PROVE  [Lifecycle!LifecycleNext]_(Lifecycle!lifecycleVars)
<1>1. /\ row \in [Tenders -> Row] /\ IndexerTypeOK /\ SeenIsOwnVersion
      /\ chunks \in [Tenders -> [version : Hash, files : SUBSET Attachments]]
      /\ \A t \in Tenders : row[t].status # "absent" => row[t].hash \in Versions
  BY DEF IndInv, CatalogInv, IndexerInv, CatalogTypeOK
<1> SUFFICES ASSUME ~(Content' = Content /\ Index' = Index /\ Searchable' = Searchable)
             PROVE  Lifecycle!LifecycleNext
  BY DEF Lifecycle!lifecycleVars, Content, Index, Searchable
<1>2. ~UNCHANGED <<row, chunks>>
  BY DEF Content, Index, Searchable
<1>3. CASE PersistRecord /\ UNCHANGED chunks
  <2>1. PICK t \in Tenders, v \in Versions : t = job.tender /\ v = job.version
    BY <1>3, PersistStep
  <2>2. PICK n \in Row : /\ row' = [row EXCEPT ![t] = n] /\ n.hash = v
                         /\ n.status \in {"pending", row[t].status}
    BY <1>3, <2>1, PersistStep
  <2>3. /\ Content' = [Content EXCEPT ![t] = v]
        /\ Searchable' = [Searchable EXCEPT ![t] = (n.status = "ready")]
    BY <1>1, <2>2, AbstractSteps
  <2>4. Index' = Index
    BY <1>3 DEF Index
  <2>5. (n.status = "ready") \in {FALSE, Searchable[t]}
    BY <2>2 DEF Searchable
  <2>6. Lifecycle!Change(t, v)
    BY <2>3, <2>4, <2>5 DEF Lifecycle!Change, Content, Index, Searchable
  <2>7. QED
    BY <2>6 DEF Lifecycle!LifecycleNext
<1>4. ASSUME NEW t \in Tenders, NEW n \in Row, row' = [row EXCEPT ![t] = n],
             n.hash = row[t].hash, n.status # "ready", UNCHANGED chunks
      PROVE  Lifecycle!LifecycleNext
  <2>1. /\ Content' = Content /\ Index' = Index
        /\ Searchable' = [Searchable EXCEPT ![t] = FALSE]
    BY <1>1, <1>4, AbstractSteps DEF Content, Index, Searchable
  <2>2. Lifecycle!Withdraw(t)
    BY <2>1 DEF Lifecycle!Withdraw, Content, Index, Searchable
  <2>3. QED
    BY <2>2 DEF Lifecycle!LifecycleNext
<1>5. ASSUME NEW a \in Attachments, DownloadOne(a), UNCHANGED chunks
      PROVE  Lifecycle!LifecycleNext
  <2>1. PICK t \in Tenders : t = job.tender
    BY <1>5 DEF IndInv, CrawlerInv, CrawlerTypeOK, DownloadOne, Job
  <2> DEFINE n == DownloadedRow(row[t])
  <2>2. row' = [row EXCEPT ![t] = n]
    BY <1>5, <2>1 DEF DownloadOne
  <2>3. n \in Row /\ n.hash = row[t].hash /\ n.status # "ready"
    BY <1>1, <2>1 DEF DownloadedRow, Row, IndexStatus
  <2> HIDE DEF n
  <2>4. QED
    BY <1>4, <1>5, <2>1, <2>2, <2>3
<1>6. ASSUME NEW w \in Workers, Claim(w) \/ MarkFailed(w)
      PROVE  Lifecycle!LifecycleNext
  <2>1. PICK t \in Tenders : t = task[w].tender /\ row[t] \in Row
    BY <1>1, <1>6 DEF Claim, MarkFailed, IndexerTypeOK, Task
  <2>2. PICK status \in {"processing", "failed"} :
          row' = [row EXCEPT ![t].status = status] /\ UNCHANGED chunks
    BY <1>2, <1>6, <2>1 DEF Claim, MarkFailed
  <2> DEFINE n == [row[t] EXCEPT !.status = status]
  <2>3. n \in Row /\ n.hash = row[t].hash /\ n.status # "ready"
    BY <2>1 DEF Row, IndexStatus
  <2>4. row' = [row EXCEPT ![t] = n]
    BY <2>2
  <2> HIDE DEF n
  <2>5. QED
    BY <1>4, <2>1, <2>2, <2>3, <2>4
<1>7. ASSUME NEW w \in Workers, Commit(w)
      PROVE  Lifecycle!LifecycleNext
  <2>1. PICK t \in Tenders :
          t = task[w].tender /\ row[t] \in Row /\ task[w].hash \in Versions
    BY <1>1, <1>7 DEF Commit, IndexerTypeOK, Task
  <2> DEFINE n == [row[t] EXCEPT !.indexed = task[w].hash, !.status = "ready"]
             c == [version |-> task[w].seen, files |-> task[w].files]
  <2>2. /\ row' = [row EXCEPT ![t].indexed = task[w].hash, ![t].status = "ready"]
        /\ chunks' = [chunks EXCEPT ![t] = c]
        /\ row[t].hash = task[w].hash /\ pc[w] = "commit"
    BY <1>2, <1>7, <2>1 DEF Commit, StaleUnderLock
  <2>3. row' = [row EXCEPT ![t] = n]
    BY <2>2
  <2>4. n \in Row /\ n.hash = row[t].hash /\ n.status = "ready"
    BY <2>1 DEF Row, IndexStatus, Hash
  <2>5. c.version = row[t].hash
    BY <1>1, <2>2 DEF SeenIsOwnVersion
  <2>6. chunks' = [chunks EXCEPT ![t] = c]
    BY <2>2
  <2> HIDE DEF n, c
  <2>7. /\ Content' = Content
        /\ Searchable' = [Searchable EXCEPT ![t] = TRUE]
    <3>1. /\ Content' = [Content EXCEPT ![t] = n.hash]
          /\ Searchable' = [Searchable EXCEPT ![t] = (n.status = "ready")]
      BY <1>1, <2>1, <2>3, <2>4, AbstractSteps
    <3>2. Content = [Content EXCEPT ![t] = row[t].hash]
      BY <2>1 DEF Content
    <3>3. QED
      BY <2>4, <3>1, <3>2
  <2>8. Index' = [Index EXCEPT ![t] = Content[t]]
    BY <1>1, <2>1, <2>5, <2>6 DEF Index, Content
  <2>9. Content[t] # None
    BY <2>1, <2>2, CatalogAssumption DEF Content
  <2>10. Lifecycle!Reindex(t)
    BY <2>7, <2>8, <2>9 DEF Lifecycle!Reindex, Content, Index, Searchable
  <2>11. QED
    BY <2>1, <2>10 DEF Lifecycle!LifecycleNext
<1>8. QED
  BY <1>2, <1>3, <1>5, <1>6, <1>7, CatalogStep

\* The pipeline implements the lifecycle: whatever fails, an index is only
\* ever replaced as a whole, from the content stored at that moment, and only
\* such a replacement makes a tender searchable (process's last transaction).
THEOREM Refinement == Spec => ImplementsLifecycle
<1>1. Init => Lifecycle!LifecycleInit
  <2> SUFFICES ASSUME Init PROVE Lifecycle!LifecycleInit
    OBVIOUS
  <2>1. \A t \in Tenders : /\ row[t].hash = None
                           /\ chunks[t].version = None
                           /\ (row[t].status = "ready") = FALSE
    BY DEF Init, CatalogInit, AbsentRow
  <2>2. [t \in Tenders |-> row[t].status = "ready"] = [t \in Tenders |-> FALSE]
    BY <2>1, Zenon
  <2>3. QED
    BY <2>1, <2>2 DEF Lifecycle!LifecycleInit
<1>2. IndInv /\ [Next]_vars => [Lifecycle!LifecycleNext]_(Lifecycle!lifecycleVars)
  BY LifecycleStep
<1>3. QED
  BY <1>1, <1>2, Invariance, PTL DEF Spec, ImplementsLifecycle, Lifecycle!LifecycleSpec

----------------------------------------------------------------------------
(* A single indexer: only the crawler reopens an index *)

\* Persisting a record either keeps the row or leaves no index that is ready
\* for the new content, also where the ORM writes no status.
LEMMA PersistedNotReady ==
    ASSUME NEW r \in Row, NEW l \in Row, NEW v \in Versions, r.hash = l.hash,
           r.status = "absent" <=> l.status = "absent",
           l.status # "ready" /\ r.status = "ready" => r.indexed = r.hash
    PROVE  \/ PersistedRow(r, l, v) = r
           \/ PersistedRow(r, l, v).status # "ready"
           \/ PersistedRow(r, l, v).indexed # PersistedRow(r, l, v).hash
<1> DEFINE n == [r EXCEPT !.hash = Emitted(l.hash, r.hash, v),
                          !.status = Emitted(l.status, r.status, "pending")]
<1>1. CASE l.status # "absent" /\ l.hash # v
  <2>1. PersistedRow(r, l, v) = n
    BY <1>1 DEF PersistedRow
  <2>2. /\ n.hash = v /\ n.indexed = r.indexed
        /\ n.status = IF l.status = "pending" THEN r.status ELSE "pending"
    BY <1>1 DEF Emitted, Row
  <2> HIDE DEF n
  <2>3. QED
    BY <1>1, <2>1, <2>2
<1>2. CASE l.status = "absent"
  BY <1>2 DEF PersistedRow, InsertedRow
<1>3. CASE l.status # "absent" /\ l.hash = v
  BY <1>3 DEF PersistedRow
<1>4. QED
  BY <1>1, <1>2, <1>3

\* No index is ready for a row's content, or the row is as before.
ReadyAsBefore ==
    \A t \in Tenders : \/ row'[t] = row[t]
                       \/ row'[t].status # "ready"
                       \/ row'[t].indexed # row'[t].hash

\* The crawler makes nothing ready that was not.
LEMMA CrawlerMakesNothingReady ==
    ASSUME IndInv, ReadySinceLoad, CrawlerStep
    PROVE  ReadyAsBefore
<1>1. row \in [Tenders -> Row] /\ CrawlerTypeOK /\ LoadedHashIsCurrent
  BY DEF IndInv, CatalogInv, CrawlerInv, CatalogTypeOK
<1>2. CASE PersistRecord
  <2>1. /\ stage = "persist" /\ job.tender \in Tenders /\ job.version \in Versions
        /\ job.loaded \in Row
    BY <1>1, <1>2 DEF PersistRecord, CrawlerTypeOK, Job
  <2>2. row' = [row EXCEPT ![job.tender] =
                   PersistedRow(row[job.tender], job.loaded, job.version)]
    BY <1>2 DEF PersistRecord
  <2>3. \/ row'[job.tender] = row[job.tender]
        \/ row'[job.tender].status # "ready"
        \/ row'[job.tender].indexed # row'[job.tender].hash
    BY <1>1, <2>1, <2>2, PersistedNotReady DEF LoadedHashIsCurrent, ReadySinceLoad
  <2>4. QED
    BY <1>1, <2>2, <2>3 DEF ReadyAsBefore
<1>3. ASSUME NEW a \in Attachments, DownloadOne(a) PROVE ReadyAsBefore
  BY <1>1, <1>3 DEF DownloadOne, DownloadedRow, Row, ReadyAsBefore
<1>4. CASE UNCHANGED row
  BY <1>4 DEF ReadyAsBefore
<1>5. QED
  BY <1>2, <1>3, <1>4 DEF CrawlerStep, BeginCycle, RepublishOne, EndRepublish, ReadTender,
     PersistFails, SkipReady, DownloadFails, DownloadAborts, FinishRecord,
     EndCycle, CrawlerRestarts, catalogVars

LEMMA ReopenCrawler ==
    ASSUME IndInv, ReopenInv, CrawlerStep, UNCHANGED indexerVars
    PROVE  ReopenInv'
<1>1. ReadyAsBefore /\ IndexerTypeOK
  BY CrawlerMakesNothingReady DEF ReopenInv, IndInv, IndexerInv
<1>2. \A w \in Workers : pc[w] # "idle" => task[w].tender \in Tenders
  BY <1>1 DEF IndexerTypeOK, Task
<1>3. WorkIsNeeded'
  BY <1>1, <1>2 DEF ReopenInv, WorkIsNeeded, MyRow, Unchanged, ReadyAsBefore, indexerVars
<1>4. ReadySinceLoad'
  <2>1. CASE stage' # "persist"
    BY <2>1 DEF ReadySinceLoad
  <2>2. CASE stage' = "persist"
    <3>1. PICK t \in Tenders, v \in Versions : ReadTender(t, v)
      BY <2>2 DEF CrawlerStep, BeginCycle, RepublishOne, EndRepublish, NextStage, PersistRecord,
         PersistFails, DownloadOne, SkipReady, DownloadFails, DownloadAborts, FinishRecord,
         EndCycle, CrawlerRestarts, Finish
    <3>2. job'.loaded = row[t] /\ job'.tender = t /\ row' = row
      BY <3>1 DEF ReadTender, catalogVars
    <3>3. QED
      BY <3>2 DEF ReadySinceLoad
  <2>3. QED
    BY <2>1, <2>2
<1>5. QED
  BY <1>3, <1>4 DEF ReopenInv

LEMMA ReopenIndexer ==
    ASSUME OneIndexer, IndInv, ReopenInv, NEW w \in Workers,
           Work(w) \/ \E s \in Slots : Fetch(w, s), UNCHANGED crawlerVars
    PROVE  ReopenInv'
<1>1. /\ row \in [Tenders -> Row] /\ IndexerTypeOK /\ CrawlerTypeOK
      /\ pc \in [Workers -> PC] /\ task \in [Workers -> Task \cup {None}]
  BY DEF IndInv, CatalogInv, IndexerInv, CrawlerInv, CatalogTypeOK, IndexerTypeOK
<1>2. \A v \in Workers : v = w
  BY DEF OneIndexer
<1>3. pc[w] # "idle" => task[w] \in Task /\ task[w].tender \in Tenders
  BY <1>1 DEF IndexerTypeOK, Task
<1>4. ReadySinceLoad'
  <2>1. CASE row' = row
    BY <2>1 DEF ReopenInv, ReadySinceLoad, crawlerVars
  <2>2. CASE \E status \in {"processing", "failed"}, t \in Tenders :
               row' = [row EXCEPT ![t].status = status]
    BY <1>1, <2>2 DEF ReopenInv, ReadySinceLoad, crawlerVars, Row, CrawlerTypeOK, Job
  <2>3. CASE Commit(w) /\ row' # row
    <3>1. \E t \in Tenders : /\ row' = [row EXCEPT ![t].indexed = row[t].hash,
                                                   ![t].status = "ready"]
      BY <1>3, <2>3 DEF Commit, StaleUnderLock
    <3>2. QED
      BY <1>1, <3>1 DEF ReopenInv, ReadySinceLoad, crawlerVars, Row, CrawlerTypeOK, Job
  <2>4. QED
    BY <1>3, <2>1, <2>2, <2>3 DEF Work, Fetch, LoadTender, LoadAttachments, Claim, Embed,
       EmbedFails, CommitFails, MarkFailed, DatabaseError, Acknowledge, Nak,
       IndexerRestarts, catalogVars
<1>5. WorkIsNeeded'
  <2> DEFINE Working == {"attachments", "claim", "embed", "commit", "mark_failed"}
  <2>1. SUFFICES ASSUME pc'[w] \in Working, task'[w].hash = row'[task'[w].tender].hash
                 PROVE  ~Unchanged(row'[task'[w].tender], task'[w].hash)
    BY <1>2 DEF WorkIsNeeded, MyRow
  <2>2. CASE LoadTender(w)
    BY <1>1, <2>1, <2>2 DEF LoadTender, Goto, MyRow, StaleAtLoad, Unchanged, Task, catalogVars
  <2>3. CASE Claim(w)
    <3>1. pc'[w] = "embed" /\ task' = task
          /\ row' = [row EXCEPT ![task[w].tender].status = "processing"]
      BY <1>1, <2>1, <2>3 DEF Claim, Goto
    <3>2. QED
      BY <1>1, <1>3, <2>3, <3>1 DEF Claim, Unchanged, Row
  <2>4. CASE /\ UNCHANGED row /\ pc[w] \in Working
             /\ task'[w].tender = task[w].tender /\ task'[w].hash = task[w].hash
    BY <2>1, <2>4 DEF ReopenInv, WorkIsNeeded, MyRow
  <2>5. CASE LoadAttachments(w) \/ Embed(w) \/ EmbedFails(w) \/ CommitFails(w)
    <3>1. /\ UNCHANGED row /\ pc[w] \in Working
          /\ task'[w].tender = task[w].tender /\ task'[w].hash = task[w].hash
      BY <1>1, <1>3, <2>5 DEF LoadAttachments, Embed, EmbedFails, CommitFails, Task, catalogVars
    <3>2. QED
      BY <2>4, <3>1
  <2>6. ~(\/ Commit(w) \/ MarkFailed(w) \/ DatabaseError(w) \/ Acknowledge(w) \/ Nak(w)
          \/ IndexerRestarts(w) \/ \E s \in Slots : Fetch(w, s))
    BY <1>1, <1>3, <2>1 DEF Commit, MarkFailed, DatabaseError, Acknowledge, Nak,
       IndexerRestarts, Fetch, Goto, Idle, Task
  <2>7. QED
    BY <2>2, <2>3, <2>5, <2>6 DEF Work
<1>6. QED
  BY <1>4, <1>5 DEF ReopenInv

LEMMA ReopenSteps ==
    ASSUME OneIndexer, IndInv, ReopenInv, [Next]_vars
    PROVE  ReopenInv'
<1>1. CASE UNCHANGED <<catalogVars, crawlerVars, indexerVars>>
  BY <1>1 DEF ReopenInv, WorkIsNeeded, ReadySinceLoad, MyRow, Unchanged,
     catalogVars, crawlerVars, indexerVars
<1>2. QED
  BY <1>1, ReopenCrawler, ReopenIndexer DEF Next, vars, IndexerStep

\* One step of OnlyCrawlerReopens.
LEMMA ReopenStep ==
    ASSUME IndInv, ReopenInv, [Next]_vars, NEW t \in Tenders,
           row[t].status = "ready", row[t].indexed = row[t].hash, row'[t].status # "ready"
    PROVE  crawlerVars' # crawlerVars
<1>1. row \in [Tenders -> Row] /\ IndexerTypeOK /\ CrawlerTypeOK
  BY DEF IndInv, CatalogInv, IndexerInv, CrawlerInv, CatalogTypeOK
<1>2. CASE PersistRecord
  BY <1>2 DEF PersistRecord, crawlerVars
<1>3. ASSUME NEW a \in Attachments, DownloadOne(a) PROVE crawlerVars' # crawlerVars
  <2>1. job \in Job
    BY <1>1, <1>3 DEF DownloadOne, CrawlerTypeOK
  <2>2. job'.todo # job.todo
    BY <1>3, <2>1 DEF DownloadOne, Job
  <2>3. QED
    BY <2>2 DEF crawlerVars
<1>4. ASSUME NEW w \in Workers PROVE ~(Claim(w) \/ Commit(w) \/ MarkFailed(w))
  <2>1. SUFFICES ASSUME Claim(w) \/ Commit(w) \/ MarkFailed(w) PROVE FALSE
    OBVIOUS
  <2>2. ~Commit(w)
    BY <1>1 DEF Commit, Row
  <2>3. /\ pc[w] \in {"claim", "mark_failed"} /\ task[w].tender = t
        /\ task[w].hash = row[t].hash
    BY <1>1, <2>1, <2>2 DEF Claim, MarkFailed, StaleUnderLock, StillOwn, MyRow, Row
  <2>4. QED
    BY <2>3 DEF ReopenInv, WorkIsNeeded, MyRow, Unchanged
<1>5. QED
  BY <1>2, <1>3, <1>4, CatalogStep

\* With one indexer, an index that is ready for the current content stays so
\* until the crawler stores other content or another attachment: events that
\* are redelivered, duplicated or late never take it away (process).
THEOREM ReopenSafety ==
    ASSUME OneIndexer
    PROVE  Spec => OnlyCrawlerReopens
<1>1. Init => ReopenInv
  BY DEF Init, CrawlerInit, IndexerInit, ReopenInv, WorkIsNeeded, ReadySinceLoad
<1>2. IndInv /\ ReopenInv /\ [Next]_vars => ReopenInv'
  BY ReopenSteps
<1>3. IndInv /\ ReopenInv /\ [Next]_vars =>
        [\A t \in Tenders :
           /\ row[t].status = "ready" /\ row[t].indexed = row[t].hash
           /\ row'[t].status # "ready"
           => crawlerVars' # crawlerVars]_vars
  BY ReopenStep
<1>4. QED
  BY <1>1, <1>2, <1>3, Invariance, PTL DEF Spec, OnlyCrawlerReopens

----------------------------------------------------------------------------
(* A single indexer and failures that lose no event: nothing is forgotten *)

USE FaultsAssumption, JetStreamAssumption, MessageAssumption

\* The budget of failures as a number of failures so far.
LEMMA SpentType ==
    ASSUME EnvironmentTypeOK
    PROVE  /\ Spent \in 0..MaxFaults
           /\ NoFault => Spent' = Spent
           /\ \A kind : Fault(kind) => Spent' = Spent + 1 /\ Spent < MaxFaults
<1>1. MaxFaults \in Nat /\ faultsLeft \in Nat /\ faultsLeft <= MaxFaults
  BY DEF EnvironmentTypeOK
<1>2. Spent \in 0..MaxFaults
  BY <1>1 DEF Spent
<1>3. NoFault => Spent' = Spent
  BY DEF NoFault, Spent
<1>4. ASSUME NEW kind, Fault(kind) PROVE Spent' = Spent + 1 /\ Spent < MaxFaults
  BY <1>1, <1>4 DEF Fault, Spent
<1>5. QED
  BY <1>2, <1>3, <1>4

\* An event that was delivered no more often than failures happened goes
\* back into the stream.
LEMMA RequeuedSurvives ==
    ASSUME EventsSurvive, NEW m \in Message, m.state # "gone",
           NEW n \in 0..MaxFaults, m.delivered <= n
    PROVE  /\ Requeued(m) \in Message /\ Requeued(m).state = "waiting"
           /\ Requeued(m).tender = m.tender /\ Requeued(m).hash = m.hash
           /\ Requeued(m).readers = m.readers /\ Requeued(m).delivered = m.delivered
<1>1. MaxFaults \in Nat /\ MaxDeliver \in Nat /\ MaxFaults < MaxDeliver
  BY DEF EventsSurvive
<1>2. m.delivered \in Nat /\ m.state \in {"waiting", "out"}
  BY DEF Message
<1>3. m.delivered < MaxDeliver
  BY <1>1, <1>2
<1>4. QED
  BY <1>2, <1>3 DEF Requeued, Message

\* What a reader leaves behind of an event that is not gone.
LEMMA DroppedSurvives ==
    ASSUME NEW m \in Message, m.state # "gone", NEW w, m.readers \subseteq {w}
    PROVE  /\ Dropped(m, w) \in Message /\ Dropped(m, w).state = m.state
           /\ Dropped(m, w).tender = m.tender /\ Dropped(m, w).hash = m.hash
           /\ Dropped(m, w).readers = {} /\ Dropped(m, w).delivered = m.delivered
BY DEF Dropped, Message

\* What DeliveriesArePaid says of one slot.
Paid(s) ==
    /\ queue[s].state # "gone"
    /\ \A w \in queue[s].readers : pc[w] # "idle" /\ task[w].slot = s
    /\ \/ queue[s].delivered <= Spent
       \/ /\ queue[s].state = "out" /\ queue[s].readers # {}
          /\ queue[s].delivered <= Spent + 1
          /\ \A w \in queue[s].readers : pc[w] \notin {"mark_failed", "nak"}

LEMMA PaidSlots == DeliveriesArePaid <=> \A s \in Slots : ~Free(s) => Paid(s)
BY DEF DeliveriesArePaid, Paid

\* An event that nobody reads and that waits, or waits for ack_wait, with
\* its deliveries paid for.
LEMMA UnreadIsPaid ==
    ASSUME NEW s \in Slots, queue'[s] \in Message, queue'[s].state # "gone",
           queue'[s].readers = {}, queue'[s].delivered <= Spent'
    PROVE  Paid(s)'
BY DEF Paid

\* The events that nobody is about to acknowledge stay what they are.
EventsKept ==
    \A s \in Slots :
        /\ ~Free(s)
        /\ \A w \in Workers : ~(pc[w] = "ack" /\ task[w].slot = s)
        => /\ ~Free(s)'
           /\ queue'[s].tender = queue[s].tender
           /\ queue'[s].hash = queue[s].hash

----------------------------------------------------------------------------
(* The crawler *)

\* The crawler adds events and takes none away.
LEMMA CrawlerQueue ==
    ASSUME QueueTypeOK, CrawlerTypeOK, CatalogTypeOK, CrawlerStep
    PROVE  /\ queue' = queue \/ \E t \in Tenders, v \in Versions : Publish(t, v)
           /\ NoFault \/ \E kind : Fault(kind)
<1>1. CASE RepublishOne
  BY <1>1 DEF RepublishOne, PublishOrLose, CrawlerTypeOK
<1>2. CASE FinishRecord
  BY <1>2 DEF FinishRecord, PublishOrLose, CrawlerTypeOK, Job
<1>3. QED
  BY <1>1, <1>2 DEF CrawlerStep, BeginCycle, EndRepublish, ReadTender, PersistRecord,
     PersistFails, DownloadOne, SkipReady, DownloadFails, DownloadAborts, EndCycle,
     CrawlerRestarts

LEMMA CrawlerKeepsEvents ==
    ASSUME IndInv, RecoveryInv, CrawlerStep, UNCHANGED indexerVars
    PROVE  /\ DeliveriesArePaid' /\ TaskIsEvent'
           /\ \A s \in Slots : ~Free(s) => ~Free(s)' /\ queue'[s] = queue[s]
<1>1. /\ QueueTypeOK /\ IndexerTypeOK /\ DeliveriesAreKnown /\ EnvironmentTypeOK
      /\ DeliveriesArePaid /\ TaskIsEvent
      /\ UNCHANGED <<pc, task>>
  BY DEF IndInv, IndexerInv, RecoveryInv, indexerVars
<1>2. /\ queue' = queue \/ \E t \in Tenders, v \in Versions : Publish(t, v)
      /\ NoFault \/ \E kind : Fault(kind)
  BY <1>1, CrawlerQueue DEF IndInv, CrawlerInv, CatalogInv
<1>3. Spent' \in {Spent, Spent + 1} /\ Spent \in Nat
  BY <1>1, <1>2, SpentType
<1>4. \A s \in Slots : /\ ~Free(s) => queue'[s] = queue[s]
                       /\ Free(s) => \/ queue'[s] = None
                                     \/ /\ queue'[s].state = "waiting"
                                        /\ queue'[s].delivered = 0
                                        /\ queue'[s].readers = {}
  <2>1. CASE queue' = queue
    BY <2>1 DEF Free
  <2>2. ASSUME NEW t \in Tenders, NEW v \in Versions, NEW q \in Slots, Free(q),
               queue' = [queue EXCEPT ![q] = [tender |-> t, hash |-> v, delivered |-> 0,
                                              state |-> "waiting", readers |-> {}]]
        PROVE  \A s \in Slots : /\ ~Free(s) => queue'[s] = queue[s]
                                /\ Free(s) => \/ queue'[s] = None
                                              \/ /\ queue'[s].state = "waiting"
                                                 /\ queue'[s].delivered = 0
                                                 /\ queue'[s].readers = {}
    BY <1>1, <2>2 DEF QueueTypeOK, Free
  <2>3. QED
    BY <1>2, <2>1, <2>2 DEF Publish
<1>5. ASSUME NEW s \in Slots, ~Free(s)' PROVE Paid(s)'
  <2>1. CASE Free(s)
    BY <1>3, <1>4, <1>5, <2>1 DEF Paid, Free
  <2>2. CASE ~Free(s)
    <3>1. Paid(s) /\ queue'[s] = queue[s] /\ queue[s].delivered \in Nat
      BY <1>1, <1>4, <2>2, PaidSlots DEF QueueTypeOK, Free, Message
    <3>2. QED
      BY <1>1, <1>3, <3>1 DEF Paid
  <2>3. QED
    BY <2>1, <2>2
<1>6. DeliveriesArePaid'
  BY <1>5 DEF DeliveriesArePaid, Paid
<1>7. TaskIsEvent'
  BY <1>1, <1>4 DEF TaskIsEvent, DeliveriesAreKnown, IndexerTypeOK, Task
<1>8. QED
  BY <1>4, <1>6, <1>7 DEF Free

\* An event that is to be handled stays so while the crawler works, as long
\* as the content of its tender stays.
LEMMA EventStays ==
    ASSUME NEW t \in Tenders, UNCHANGED indexerVars, row'[t].hash = row[t].hash,
           \A s \in Slots : ~Free(s) => ~Free(s)' /\ queue'[s] = queue[s],
           EventWillBeHandled(t)
    PROVE  EventWillBeHandled(t)'
BY DEF EventWillBeHandled, indexerVars

\* A published event of the current content is to be handled.
LEMMA PublishedWillBeHandled ==
    ASSUME NEW t \in Tenders, UNCHANGED indexerVars, row'[t].hash = row[t].hash,
           row[t].hash \in Versions, QueueTypeOK, IndexerTypeOK, DeliveriesAreKnown, Publish(t, row[t].hash)
    PROVE  EventWillBeHandled(t)'
<1>1. PICK s \in Slots :
        /\ Free(s)
        /\ queue' = [queue EXCEPT ![s] = [tender |-> t, hash |-> row[t].hash, delivered |-> 0,
                                          state |-> "waiting", readers |-> {}]]
  BY DEF Publish
<1>2. queue'[s].tender = t /\ queue'[s].hash = row[t].hash /\ queue'[s].delivered = 0
  BY <1>1 DEF QueueTypeOK
<1>3. ~Free(s)'
  <2>1. queue'[s] \in Message
    BY <1>1 DEF QueueTypeOK, Message
  <2>2. QED
    BY <2>1 DEF Free
<1>4. \A w \in Workers : ~(pc[w] = "ack" /\ task[w].slot = s)
  BY <1>1 DEF DeliveriesAreKnown
<1>5. QED
  BY <1>2, <1>3, <1>4 DEF EventWillBeHandled, indexerVars

\* The crawler leaves behind nothing it will not publish, and forgets
\* nothing it was to publish.
LEMMA CrawlerForgetsNothing ==
    ASSUME EventsSurvive, IndInv, RecoveryInv, CrawlerStep, UNCHANGED indexerVars
    PROVE  UnindexedWillBeHandled'
<1>1. /\ QueueTypeOK /\ IndexerTypeOK /\ DeliveriesAreKnown /\ CrawlerTypeOK
      /\ LoadedHashIsCurrent /\ AbsentIsEmpty /\ DownloadsAreListed
      /\ row \in [Tenders -> Row]
      /\ \A t \in Tenders : Unindexed(t) => EventWillBeHandled(t) \/ CrawlerWillPublish(t)
      /\ \A s \in Slots : ~Free(s) => ~Free(s)' /\ queue'[s] = queue[s]
  BY CrawlerKeepsEvents DEF IndInv, IndexerInv, CrawlerInv, CatalogInv, CatalogTypeOK,
     RecoveryInv, UnindexedWillBeHandled
<1>2. ~Fault("publish") /\ ~Fault("persist") /\ ~Fault("crawler_crash")
  BY DEF EventsSurvive, Fault
<1>3. SUFFICES ASSUME NEW t \in Tenders, Unindexed(t)'
               PROVE  EventWillBeHandled(t)' \/ CrawlerWillPublish(t)'
  BY DEF UnindexedWillBeHandled
<1>4. ASSUME row' = row, CrawlerWillPublish(t) => EventWillBeHandled(t)' \/ CrawlerWillPublish(t)'
      PROVE  EventWillBeHandled(t)' \/ CrawlerWillPublish(t)'
  BY <1>1, <1>3, <1>4, EventStays DEF Unindexed
<1>5. CASE \/ BeginCycle \/ EndRepublish \/ EndCycle
           \/ \E u \in Tenders, v \in Versions : ReadTender(u, v)
  <2>1. ~CrawlerWillPublish(t) /\ row' = row
    BY <1>5 DEF BeginCycle, EndRepublish, EndCycle, ReadTender, CrawlerWillPublish, catalogVars
  <2>2. QED
    BY <1>4, <2>1
<1>6. CASE RepublishOne
  <2>1. PICK event \in batch : /\ Publish(event[1], event[2])
                               /\ batch' = batch \ {event}
    BY <1>2, <1>6 DEF RepublishOne, PublishOrLose
  <2>2. stage = "republish" /\ stage' = stage /\ row' = row
    BY <1>6 DEF RepublishOne, catalogVars
  <2>3. CASE event = <<t, row[t].hash>>
    <3>1. row[t].hash \in Versions /\ Publish(t, row[t].hash)
      BY <1>1, <2>1, <2>3 DEF CrawlerTypeOK
    <3>2. QED
      BY <1>1, <2>2, <3>1, PublishedWillBeHandled
  <2>4. CASE event # <<t, row[t].hash>>
    <3>1. CrawlerWillPublish(t) => CrawlerWillPublish(t)'
      BY <2>1, <2>2, <2>4 DEF CrawlerWillPublish
    <3>2. QED
      BY <1>4, <2>2, <3>1
  <2>5. QED
    BY <2>3, <2>4
<1>7. CASE PersistRecord
  <2>1. /\ stage = "persist" /\ stage' = "download" /\ job \in Job
        /\ job' = [job EXCEPT !.todo = Listed[job.version],
                              !.changed = (job.loaded.hash # job.version),
                              !.loaded = AbsentRow]
        /\ row' = [row EXCEPT ![job.tender] =
                      PersistedRow(row[job.tender], job.loaded, job.version)]
    BY <1>1, <1>7 DEF PersistRecord, CrawlerTypeOK
  <2>2. ~CrawlerWillPublish(t)
    BY <2>1 DEF CrawlerWillPublish
  <2>3. CASE t = job.tender /\ job.loaded.hash # job.version
    <3>1. job'.changed /\ job'.tender = t
      BY <2>1, <2>3 DEF Job
    <3>2. QED
      BY <2>1, <3>1 DEF CrawlerWillPublish, RequiresIndex
  <2>4. CASE t = job.tender /\ job.loaded.hash = job.version
    <3>1. job.loaded.status # "absent"
      BY <1>1, <2>1, <2>4, CatalogAssumption DEF LoadedHashIsCurrent, AbsentIsEmpty, AbsentRow, Job
    <3>2. row' = row
      BY <1>1, <2>1, <2>4, <3>1 DEF PersistedRow, Job
    <3>3. QED
      BY <1>4, <2>2, <3>2
  <2>5. CASE t # job.tender
    <3>1. row'[t] = row[t]
      BY <1>1, <2>1, <2>5
    <3>2. QED
      BY <1>1, <1>3, <2>2, <3>1, EventStays DEF Unindexed
  <2>6. QED
    BY <2>3, <2>4, <2>5
<1>8. ASSUME NEW a \in Attachments, DownloadOne(a)
      PROVE  EventWillBeHandled(t)' \/ CrawlerWillPublish(t)'
  <2>1. /\ stage = "download" /\ stage' = "download" /\ job \in Job
        /\ job'.tender = job.tender /\ job'.downloaded
        /\ row' = [row EXCEPT ![job.tender] = DownloadedRow(row[job.tender])]
    BY <1>1, <1>8 DEF DownloadOne, CrawlerTypeOK, Job
  <2>2. CASE t = job.tender
    BY <2>1, <2>2 DEF CrawlerWillPublish, RequiresIndex
  <2>3. CASE t # job.tender
    <3>1. row'[t] = row[t] /\ ~CrawlerWillPublish(t)
      BY <1>1, <2>1, <2>3 DEF CrawlerWillPublish
    <3>2. QED
      BY <1>1, <1>3, <3>1, EventStays DEF Unindexed
  <2>4. QED
    BY <2>2, <2>3
<1>9. ASSUME NEW a \in Attachments, SkipReady(a) \/ DownloadFails(a)
      PROVE  EventWillBeHandled(t)' \/ CrawlerWillPublish(t)'
  <2>1. /\ row' = row /\ stage = "download" /\ stage' = stage /\ job \in Job
        /\ job' = [job EXCEPT !.todo = @ \ {a}]
    BY <1>1, <1>9 DEF SkipReady, DownloadFails, CrawlerTypeOK, catalogVars
  <2>2. CrawlerWillPublish(t) => CrawlerWillPublish(t)'
    BY <2>1 DEF CrawlerWillPublish, RequiresIndex, Job
  <2>3. QED
    BY <1>4, <2>1, <2>2
<1>10. CASE FinishRecord
  <2>1. stage = "download" /\ row' = row /\ row[job.tender].hash = job.version
    BY <1>1, <1>10 DEF FinishRecord, DownloadsAreListed, catalogVars
  <2>2. CASE CrawlerWillPublish(t)
    <3>1. t = job.tender /\ Publish(t, row[t].hash) /\ row[t].hash \in Versions
      BY <1>1, <1>2, <1>10, <2>1, <2>2 DEF FinishRecord, PublishOrLose, CrawlerWillPublish,
         CrawlerTypeOK, Job
    <3>2. QED
      BY <1>1, <2>1, <3>1, PublishedWillBeHandled
  <2>3. QED
    BY <1>4, <2>1, <2>2
<1>11. QED
  BY <1>2, <1>5, <1>6, <1>7, <1>8, <1>9, <1>10 DEF CrawlerStep, PersistFails, DownloadAborts,
     CrawlerRestarts

----------------------------------------------------------------------------
(* The indexer's deliveries *)

\* The steps of a worker between its delivery and its settlement.
Quiet(w) ==
    \/ LoadTender(w) \/ LoadAttachments(w) \/ Claim(w) \/ Embed(w) \/ EmbedFails(w)
    \/ Commit(w) \/ CommitFails(w) \/ MarkFailed(w) \/ DatabaseError(w)

\* They keep the event and the order to retry it; only a failure leads to a
\* negative acknowledgement.
LEMMA QuietTask ==
    ASSUME EventsSurvive, IndexerTypeOK, TaskIsEvent, EnvironmentTypeOK,
           NEW w \in Workers, Quiet(w)
    PROVE  /\ queue' = queue
           /\ pc[w] # "idle" /\ pc'[w] # "idle" /\ pc'[w] # "term"
           /\ task[w] \in Task /\ task'[w].slot = task[w].slot
           /\ task'[w].tender = task[w].tender /\ task'[w].hash = task[w].hash
           /\ task'[w].verdict = "nak"
           /\ Spent' \in {Spent, Spent + 1}
           /\ pc'[w] \in {"mark_failed", "nak"} =>
                pc[w] \in {"mark_failed", "nak"} \/ Spent' = Spent + 1
<1>1. ~Fault("unexpected") /\ pc \in [Workers -> PC]
      /\ task \in [Workers -> Task \cup {None}]
  BY DEF EventsSurvive, Fault, IndexerTypeOK
<1>2. pc[w] # "idle"
  BY DEF Quiet, LoadTender, LoadAttachments, Claim, Embed, EmbedFails, Commit, CommitFails,
         MarkFailed, DatabaseError
<1>3. task[w] \in Task /\ task[w].verdict = "nak"
  BY <1>2 DEF IndexerTypeOK, TaskIsEvent
<1>4. /\ NoFault => Spent' = Spent
      /\ \A kind : Fault(kind) => Spent' = Spent + 1
  BY SpentType
<1>5. CASE LoadTender(w)
  BY <1>1, <1>2, <1>3, <1>4, <1>5 DEF LoadTender, Goto, Task
<1>6. CASE LoadAttachments(w)
  BY <1>1, <1>2, <1>3, <1>4, <1>6 DEF LoadAttachments, Goto, Task
<1>7. CASE Claim(w) \/ Embed(w) \/ Commit(w)
  BY <1>1, <1>2, <1>3, <1>4, <1>7 DEF Claim, Embed, Commit, Goto
<1>8. CASE EmbedFails(w) \/ CommitFails(w)
  BY <1>1, <1>2, <1>3, <1>4, <1>8 DEF EmbedFails, CommitFails, Goto, Task
<1>9. CASE MarkFailed(w) \/ DatabaseError(w)
  BY <1>1, <1>2, <1>3, <1>4, <1>9 DEF MarkFailed, DatabaseError, Goto
<1>10. QED
  BY <1>5, <1>6, <1>7, <1>8, <1>9 DEF Quiet

\* What a quiet step, a delivery, a settlement or a timeout must leave.
KeptEvents == DeliveriesArePaid' /\ TaskIsEvent' /\ EventsKept

LEMMA QuietKeepsEvents ==
    ASSUME OneIndexer, EventsSurvive, IndInv, RecoveryInv, NEW w \in Workers, Quiet(w)
    PROVE  KeptEvents
<1>1. /\ QueueTypeOK /\ IndexerTypeOK /\ EnvironmentTypeOK /\ DeliveriesAreKnown
      /\ DeliveriesArePaid /\ TaskIsEvent /\ \A v \in Workers : v = w
  BY DEF IndInv, IndexerInv, RecoveryInv, OneIndexer
<1>2. /\ queue' = queue
      /\ pc[w] # "idle" /\ pc'[w] # "idle" /\ pc'[w] # "term"
      /\ task'[w].slot = task[w].slot
      /\ task'[w].tender = task[w].tender /\ task'[w].hash = task[w].hash
      /\ task'[w].verdict = "nak"
      /\ Spent' \in {Spent, Spent + 1} /\ Spent \in Nat
      /\ pc'[w] \in {"mark_failed", "nak"} =>
           pc[w] \in {"mark_failed", "nak"} \/ Spent' = Spent + 1
  BY <1>1, QuietTask, SpentType
<1>3. ASSUME NEW s \in Slots, ~Free(s) PROVE Paid(s)'
  <2>1. Paid(s) /\ queue[s].delivered \in Nat
    BY <1>1, <1>3, PaidSlots DEF QueueTypeOK, Free, Message
  <2>2. \A v \in queue[s].readers : v = w
    BY <1>1, <1>3 DEF QueueTypeOK, Free, Message
  <2>3. QED
    BY <1>1, <1>2, <2>1, <2>2 DEF Paid
<1>4. DeliveriesArePaid'
  BY <1>2, <1>3 DEF DeliveriesArePaid, Paid, Free
<1>5. TaskIsEvent'
  BY <1>1, <1>2 DEF TaskIsEvent
<1>6. EventsKept
  BY <1>2 DEF EventsKept, Free
<1>7. QED
  BY <1>4, <1>5, <1>6 DEF KeptEvents

\* With the only indexer idle nobody reads any event.
LEMMA NobodyReads ==
    ASSUME OneIndexer, IndInv, DeliveriesArePaid, NEW w \in Workers, NEW s \in Slots,
           ~Free(s), pc[w] = "idle" \/ task[w].slot # s
    PROVE  /\ queue[s] \in Message /\ queue[s].readers = {}
           /\ queue[s].delivered \in Nat /\ queue[s].delivered <= Spent
BY DEF OneIndexer, IndInv, DeliveriesArePaid, QueueTypeOK, Free, Message

LEMMA FetchKeepsEvents ==
    ASSUME OneIndexer, IndInv, RecoveryInv, NEW w \in Workers, NEW s \in Slots, Fetch(w, s)
    PROVE  KeptEvents
<1>1. /\ QueueTypeOK /\ IndexerTypeOK /\ EnvironmentTypeOK
      /\ DeliveriesArePaid /\ TaskIsEvent /\ \A v \in Workers : v = w
      /\ pc \in [Workers -> PC] /\ task \in [Workers -> Task \cup {None}]
  BY DEF IndInv, IndexerInv, RecoveryInv, OneIndexer, IndexerTypeOK
<1>2. /\ pc[w] = "idle" /\ ~Free(s) /\ Spent' = Spent /\ Spent \in Nat
      /\ pc'[w] = "load" /\ task'[w].slot = s /\ task'[w].verdict = "nak"
      /\ task'[w].tender = queue[s].tender /\ task'[w].hash = queue[s].hash
  BY <1>1, SpentType DEF Fetch, Deliver, Goto
<1>3. \A q \in Slots : ~Free(q) =>
        /\ queue[q] \in Message /\ queue[q].readers = {}
        /\ queue[q].delivered \in Nat /\ queue[q].delivered <= Spent
  BY <1>1, <1>2, NobodyReads
<1> DEFINE n == [queue[s] EXCEPT !.state = "out", !.delivered = @ + 1,
                                 !.readers = @ \cup {w}]
<1>4. queue' = [queue EXCEPT ![s] = n]
  BY DEF Fetch, Deliver
<1>5. /\ n.state = "out" /\ n.readers = {w} /\ n.delivered = queue[s].delivered + 1
      /\ n.tender = queue[s].tender /\ n.hash = queue[s].hash
  BY <1>2, <1>3 DEF Message
<1> HIDE DEF n
<1>6. queue'[s] = n /\ \A q \in Slots : q # s => queue'[q] = queue[q]
  BY <1>1, <1>4 DEF QueueTypeOK
<1>7. Paid(s)'
  BY <1>2, <1>3, <1>5, <1>6 DEF Paid
<1>8. \A q \in Slots : q # s /\ ~Free(q) => Paid(q)'
  BY <1>1, <1>2, <1>3, <1>6 DEF Paid, DeliveriesArePaid
<1>9. DeliveriesArePaid'
  <2>1. \A q \in Slots : q # s => (Free(q)' <=> Free(q))
    BY <1>6 DEF Free
  <2>2. \A q \in Slots : ~Free(q)' => Paid(q)'
    BY <1>7, <1>8, <2>1
  <2>3. QED
    BY <2>2 DEF DeliveriesArePaid, Paid
<1>10. TaskIsEvent'
  BY <1>1, <1>2, <1>5, <1>6 DEF TaskIsEvent
<1>11. EventsKept
  <2>1. ~Free(s)'
    BY DeliverType, <1>1 DEF Fetch
  <2>2. QED
    BY <1>5, <1>6, <2>1 DEF EventsKept, Free
<1>12. QED
  BY <1>9, <1>10, <1>11 DEF KeptEvents

\* A settlement, or the end of the worker: an acknowledged event leaves the
\* stream, every other one stays in it.
LEMMA ReleaseKeepsEvents ==
    ASSUME OneIndexer, EventsSurvive, IndInv, RecoveryInv, NEW w \in Workers,
           Acknowledge(w) \/ Nak(w) \/ IndexerRestarts(w),
           NEW s \in Slots, s = task[w].slot
    PROVE  KeptEvents
<1> DEFINE m == queue[s]
<1>1. /\ QueueTypeOK /\ IndexerTypeOK /\ EnvironmentTypeOK /\ DeliveriesAreKnown
      /\ DeliveriesArePaid /\ TaskIsEvent /\ \A v \in Workers : v = w
      /\ pc \in [Workers -> PC] /\ task \in [Workers -> Task \cup {None}]
  BY DEF IndInv, IndexerInv, RecoveryInv, OneIndexer, IndexerTypeOK
<1>2. /\ pc[w] # "idle" /\ pc' = [pc EXCEPT ![w] = "idle"]
      /\ NoFault \/ \E kind : Fault(kind)
  BY DEF Acknowledge, Nak, IndexerRestarts, Idle, Goto
<1>3. /\ s \in Slots /\ ~Free(s) /\ w \in m.readers /\ m \in Message /\ m.state # "gone"
      /\ m.readers \subseteq {w} /\ m.delivered \in Nat /\ Paid(s)
  BY <1>1, <1>2, PaidSlots DEF IndexerTypeOK, Task, DeliveriesAreKnown, QueueTypeOK, Free, Message,
     DeliveriesArePaid
<1>4. Spent \in 0..MaxFaults /\ Spent' \in {Spent, Spent + 1}
  BY <1>1, <1>2, SpentType
<1>5. \/ pc[w] = "ack" /\ queue' = [queue EXCEPT ![s] = None]
      \/ \E n \in Message : /\ queue' = [queue EXCEPT ![s] = n]
                            /\ n.state # "gone" /\ n.readers = {} /\ n.delivered <= Spent'
                            /\ n.tender = m.tender /\ n.hash = m.hash
  <2>1. CASE Acknowledge(w)
    <3>1. pc[w] = "ack" /\ queue' = [queue EXCEPT ![s] = Dropped(Removed(m), w)]
      BY <1>1, <2>1 DEF Acknowledge, Settle, TaskIsEvent
    <3>2. Dropped(Removed(m), w) = None
      BY <1>3 DEF Dropped, Removed, Message
    <3>3. QED
      BY <3>1, <3>2
  <2>2. CASE Nak(w)
    <3>1. pc[w] = "nak" /\ Spent' = Spent
          /\ queue' = [queue EXCEPT ![s] = Dropped(Requeued(m), w)]
      BY <1>1, <2>2, SpentType DEF Nak, Retry, GiveBack
    <3>2. m.delivered <= Spent
      BY <1>3, <3>1 DEF Paid
    <3> DEFINE r == Requeued(m)
    <3>3. /\ r \in Message /\ r.state = "waiting"
          /\ r.tender = m.tender /\ r.hash = m.hash
          /\ r.readers = m.readers /\ r.delivered = m.delivered
      BY <1>3, <1>4, <3>2, RequeuedSurvives
    <3> HIDE DEF r
    <3>4. /\ Dropped(r, w) \in Message /\ Dropped(r, w).state = "waiting"
          /\ Dropped(r, w).tender = m.tender /\ Dropped(r, w).hash = m.hash
          /\ Dropped(r, w).readers = {} /\ Dropped(r, w).delivered = m.delivered
      BY <1>3, <3>3, DroppedSurvives
    <3>5. queue' = [queue EXCEPT ![s] = Dropped(r, w)]
      BY <3>1 DEF r
    <3>6. QED
      BY <3>1, <3>2, <3>4, <3>5
  <2>3. CASE IndexerRestarts(w)
    <3>1. Spent' = Spent + 1 /\ queue' = [queue EXCEPT ![s] = Dropped(m, w)]
      BY <1>1, <2>3, SpentType DEF IndexerRestarts, LetGo
    <3>2. m.delivered <= Spent'
      BY <1>3, <1>4, <3>1 DEF Paid
    <3>3. /\ Dropped(m, w) \in Message /\ Dropped(m, w).state = m.state
          /\ Dropped(m, w).tender = m.tender /\ Dropped(m, w).hash = m.hash
          /\ Dropped(m, w).readers = {} /\ Dropped(m, w).delivered = m.delivered
      BY <1>3, DroppedSurvives
    <3>4. QED
      BY <1>3, <3>1, <3>2, <3>3
  <2>4. QED
    BY <2>1, <2>2, <2>3
<1> HIDE DEF m
<1>6. /\ \A q \in Slots : q # s => queue'[q] = queue[q]
      /\ \/ pc[w] = "ack" /\ queue'[s] = None
         \/ /\ queue'[s] \in Message /\ queue'[s] # None
            /\ queue'[s].state # "gone" /\ queue'[s].readers = {}
            /\ queue'[s].delivered <= Spent'
            /\ queue'[s].tender = queue[s].tender /\ queue'[s].hash = queue[s].hash
  BY <1>1, <1>3, <1>5 DEF QueueTypeOK, m
<1>7. \A q \in Slots : q # s /\ ~Free(q) => Paid(q)'
  <2>1. \A q \in Slots : q # s /\ ~Free(q) =>
          /\ queue[q].readers = {} /\ queue[q].state # "gone"
          /\ queue[q].delivered \in Nat /\ queue[q].delivered <= Spent
    BY <1>1, NobodyReads DEF DeliveriesArePaid
  <2>2. QED
    BY <1>4, <1>6, <2>1 DEF Paid
<1>8. ~Free(s)' => Paid(s)'
  BY <1>6 DEF Paid, Free
<1>9. DeliveriesArePaid'
  <2>1. \A q \in Slots : q # s => (Free(q)' <=> Free(q))
    BY <1>6 DEF Free
  <2>2. \A q \in Slots : ~Free(q)' => Paid(q)'
    BY <1>7, <1>8, <2>1
  <2>3. QED
    BY <2>2 DEF DeliveriesArePaid, Paid
<1>10. TaskIsEvent'
  BY <1>1, <1>2 DEF TaskIsEvent
<1>11. EventsKept
  BY <1>3, <1>6 DEF EventsKept, Free
<1>12. QED
  BY <1>9, <1>10, <1>11 DEF KeptEvents

\* ack_wait runs out: for an event nobody reads a failure was counted when
\* its reader died, and under a live reader this is the failure.
LEMMA ExpiryKeepsEvents ==
    ASSUME OneIndexer, EventsSurvive, IndInv, RecoveryInv, UNCHANGED indexerVars,
           NEW s \in Slots, AckWaitExpires(s)
    PROVE  KeptEvents
<1> DEFINE m == queue[s]
<1>1. /\ QueueTypeOK /\ IndexerTypeOK /\ EnvironmentTypeOK /\ DeliveriesAreKnown
      /\ DeliveriesArePaid /\ TaskIsEvent /\ UNCHANGED <<pc, task>>
  BY DEF IndInv, IndexerInv, RecoveryInv, indexerVars
<1>2. /\ ~Free(s) /\ m \in Message /\ m.state # "gone" /\ m.delivered \in Nat /\ Paid(s)
  BY <1>1, PaidSlots DEF AckWaitExpires, QueueTypeOK, Free, Message, DeliveriesArePaid
<1>3. /\ Spent \in Nat /\ Spent' \in 0..MaxFaults
      /\ Spent' = IF m.readers = {} THEN Spent ELSE Spent + 1
  <2>1. MaxFaults \in Nat /\ Spent \in 0..MaxFaults
    BY <1>1, SpentType
  <2>2. Spent' = IF m.readers = {} THEN Spent ELSE Spent + 1
    BY <1>1, SpentType DEF AckWaitExpires
  <2>3. m.readers # {} => Spent < MaxFaults
    BY <1>1, SpentType DEF AckWaitExpires
  <2>4. QED
    BY <2>1, <2>2, <2>3
<1>4. m.delivered <= Spent'
  BY <1>2, <1>3 DEF Paid
<1>5. /\ Requeued(m) \in Message /\ Requeued(m).state = "waiting"
      /\ Requeued(m).tender = m.tender /\ Requeued(m).hash = m.hash
      /\ Requeued(m).readers = m.readers /\ Requeued(m).delivered = m.delivered
  BY <1>2, <1>3, <1>4, RequeuedSurvives
<1>6. queue' = [queue EXCEPT ![s] = Requeued(m)]
  BY <1>5 DEF AckWaitExpires
<1>7. /\ queue'[s] \in Message /\ queue'[s] # None /\ queue'[s].state = "waiting"
      /\ queue'[s].tender = queue[s].tender /\ queue'[s].hash = queue[s].hash
      /\ queue'[s].readers = queue[s].readers /\ queue'[s].delivered <= Spent'
      /\ \A q \in Slots : q # s => queue'[q] = queue[q]
  BY <1>1, <1>4, <1>5, <1>6 DEF QueueTypeOK
<1>8. Paid(s)'
  BY <1>1, <1>2, <1>7 DEF Paid
<1>9. ASSUME NEW q \in Slots, q # s, ~Free(q) PROVE Paid(q)'
  <2>1. Paid(q) /\ queue[q].delivered \in Nat
    BY <1>1, <1>9, PaidSlots DEF QueueTypeOK, Free, Message
  <2>2. QED
    BY <1>1, <1>3, <1>7, <1>9, <2>1 DEF Paid
<1>10. DeliveriesArePaid'
  BY <1>7, <1>8, <1>9 DEF DeliveriesArePaid, Paid, Free
<1>11. TaskIsEvent'
  BY <1>1, <1>7 DEF TaskIsEvent, IndexerTypeOK, Task
<1>12. EventsKept
  BY <1>2, <1>7 DEF EventsKept, Free
<1>13. QED
  BY <1>10, <1>11, <1>12 DEF KeptEvents

----------------------------------------------------------------------------
(* What the indexer leaves to be handled *)

\* An event that is to be handled stays so, unless a worker is about to
\* acknowledge an event of the same version.
LEMMA EventIsLeft ==
    ASSUME NEW t \in Tenders, row'[t].hash = row[t].hash, EventsKept, EventWillBeHandled(t),
           \A v \in Workers : pc'[v] = "ack" =>
               \/ queue[task'[v].slot].tender # t
               \/ queue[task'[v].slot].hash # row[t].hash
    PROVE  EventWillBeHandled(t)'
BY DEF EventWillBeHandled, EventsKept

\* The row of an indexer's own version, and those of all others.
LEMMA IndexerForgetsNothing ==
    ASSUME OneIndexer, IndInv, RecoveryInv, NEW w \in Workers,
           Work(w) \/ \E s \in Slots : Fetch(w, s), UNCHANGED crawlerVars, KeptEvents
    PROVE  UnindexedWillBeHandled'
<1>1. /\ IndexerTypeOK /\ TaskIsEvent /\ DeliveriesAreKnown /\ \A v \in Workers : v = w
      /\ row \in [Tenders -> Row] /\ EventsKept
      /\ pc \in [Workers -> PC] /\ task \in [Workers -> Task \cup {None}]
      /\ \A t \in Tenders : Unindexed(t) => EventWillBeHandled(t) \/ CrawlerWillPublish(t)
  BY DEF IndInv, IndexerInv, CatalogInv, CatalogTypeOK, RecoveryInv, OneIndexer, KeptEvents,
     IndexerTypeOK, UnindexedWillBeHandled
<1>2. \A t \in Tenders : row'[t].hash = row[t].hash /\ CrawlerWillPublish(t) => CrawlerWillPublish(t)'
  BY DEF CrawlerWillPublish, RequiresIndex, crawlerVars
<1>3. pc[w] # "idle" => /\ task[w] \in Task /\ ~Free(task[w].slot)
                        /\ queue[task[w].slot].tender = task[w].tender
                        /\ queue[task[w].slot].hash = task[w].hash
  BY <1>1 DEF IndexerTypeOK, TaskIsEvent, DeliveriesAreKnown
<1>4. ASSUME NEW t \in Tenders, row'[t].hash = row[t].hash, Unindexed(t),
             pc'[w] = "ack" => /\ pc[w] # "idle" /\ task'[w].slot = task[w].slot
                               /\ task[w].tender # t \/ task[w].hash # row[t].hash
      PROVE  EventWillBeHandled(t)' \/ CrawlerWillPublish(t)'
  BY <1>1, <1>2, <1>3, <1>4, EventIsLeft
<1>5. CASE LoadTender(w)
  <2>1. /\ row' = row /\ pc[w] = "load" /\ task'[w].slot = task[w].slot
        /\ pc'[w] = "ack" => \/ row[task[w].tender].hash # task[w].hash
                             \/ /\ row[task[w].tender].status = "ready"
                                /\ row[task[w].tender].indexed = row[task[w].tender].hash
    BY <1>1, <1>3, <1>5 DEF LoadTender, Goto, StaleAtLoad, Unchanged, MyRow, Task, catalogVars
  <2>2. ASSUME NEW t \in Tenders, Unindexed(t)'
        PROVE  EventWillBeHandled(t)' \/ CrawlerWillPublish(t)'
    BY <1>4, <2>1, <2>2 DEF Unindexed
  <2>3. QED
    BY <2>2 DEF UnindexedWillBeHandled
<1>6. CASE Claim(w)
  <2>1. pc[w] = "claim" /\ task' = task /\ queue' = queue
    BY <1>6 DEF Claim
  <2>2. CASE StaleUnderLock(MyRow(w), task[w].hash)
    <3>1. row' = row /\ row[task[w].tender].hash # task[w].hash
      BY <1>6, <2>2 DEF Claim, StaleUnderLock, MyRow
    <3>2. ASSUME NEW t \in Tenders, Unindexed(t)'
          PROVE  EventWillBeHandled(t)' \/ CrawlerWillPublish(t)'
      BY <1>4, <2>1, <3>1, <3>2 DEF Unindexed
    <3>3. QED
      BY <3>2 DEF UnindexedWillBeHandled
  <2>3. CASE ~StaleUnderLock(MyRow(w), task[w].hash)
    <3>1. /\ row[task[w].tender].hash = task[w].hash /\ pc'[w] = "embed"
          /\ row' = [row EXCEPT ![task[w].tender].status = "processing"]
      BY <1>1, <1>6, <2>3 DEF Claim, StaleUnderLock, MyRow, Goto
    <3>2. task[w].slot \in Slots /\ task[w].tender \in Tenders
      BY <1>3, <2>1 DEF Task
    <3>3. /\ row'[task[w].tender].hash = row[task[w].tender].hash
          /\ \A t \in Tenders : t # task[w].tender => row'[t] = row[t]
      BY <1>1, <3>1, <3>2 DEF Row
    <3>4. EventWillBeHandled(task[w].tender)'
      <4>1. EventWillBeHandled(task[w].tender)
        BY <1>1, <1>3, <2>1, <3>1, <3>2 DEF EventWillBeHandled
      <4>2. ASSUME NEW t \in Tenders, t = task[w].tender PROVE EventWillBeHandled(t)'
        BY <1>1, <3>1, <3>3, <4>1, <4>2, EventIsLeft
      <4>3. QED
        BY <2>1, <3>2, <4>2
    <3>5. ASSUME NEW t \in Tenders, Unindexed(t)'
          PROVE  EventWillBeHandled(t)' \/ CrawlerWillPublish(t)'
      <4>1. CASE t = task[w].tender
        BY <2>1, <3>4, <4>1
      <4>2. CASE t # task[w].tender
        BY <1>4, <3>1, <3>3, <3>5, <4>2 DEF Unindexed
      <4>3. QED
        BY <4>1, <4>2
    <3>6. QED
      BY <3>5 DEF UnindexedWillBeHandled
  <2>4. QED
    BY <2>2, <2>3
<1>7. CASE Commit(w)
  <2>1. /\ pc[w] = "commit" /\ pc'[w] = "ack" /\ task' = task /\ task[w].tender \in Tenders
    BY <1>1, <1>3, <1>7 DEF Commit, Goto, Task
  <2>2. ASSUME NEW t \in Tenders, Unindexed(t)'
        PROVE  EventWillBeHandled(t)' \/ CrawlerWillPublish(t)'
    <3>1. CASE row[task[w].tender].hash # task[w].hash
      <4>1. row' = row
        BY <1>7, <3>1 DEF Commit, StaleUnderLock
      <4>2. QED
        BY <1>4, <2>1, <2>2, <3>1, <4>1 DEF Unindexed
    <3>2. CASE row[task[w].tender].hash = task[w].hash
      <4>1. row' = [row EXCEPT ![task[w].tender].indexed = task[w].hash,
                               ![task[w].tender].status = "ready"]
        BY <1>7, <3>2 DEF Commit, StaleUnderLock
      <4>2. t # task[w].tender
        BY <1>1, <2>1, <2>2, <3>2, <4>1 DEF Unindexed, Row
      <4>3. row'[t] = row[t]
        BY <1>1, <4>1, <4>2
      <4>4. QED
        BY <1>4, <2>1, <2>2, <4>2, <4>3 DEF Unindexed
    <3>3. QED
      BY <3>1, <3>2
  <2>3. QED
    BY <2>2 DEF UnindexedWillBeHandled
<1>8. CASE ~(LoadTender(w) \/ Claim(w) \/ Commit(w))
  <2>1. pc'[w] # "ack"
    BY <1>1, <1>8 DEF Work, Fetch, LoadAttachments, Embed, EmbedFails, CommitFails,
       MarkFailed, DatabaseError, Acknowledge, Nak, IndexerRestarts, Goto, Idle, IndexerTypeOK,
       TaskIsEvent
  <2>2. row' = row \/ \E t \in Tenders : row' = [row EXCEPT ![t].status = "failed"]
    BY <1>1, <1>3, <1>8 DEF Work, Fetch, LoadAttachments, Embed, EmbedFails, CommitFails,
       MarkFailed, DatabaseError, Acknowledge, Nak, IndexerRestarts, Task, catalogVars
  <2>3. ASSUME NEW t \in Tenders, Unindexed(t)'
        PROVE  row'[t] = row[t]
    BY <1>1, <2>2, <2>3 DEF Unindexed, Row
  <2>4. ASSUME NEW t \in Tenders, Unindexed(t)'
        PROVE  EventWillBeHandled(t)' \/ CrawlerWillPublish(t)'
    BY <1>4, <2>1, <2>3, <2>4 DEF Unindexed
  <2>5. QED
    BY <2>4 DEF UnindexedWillBeHandled
<1>9. QED
  BY <1>5, <1>6, <1>7, <1>8

----------------------------------------------------------------------------
(* Recovery *)

\* An expired delivery changes the stream alone.
LEMMA ExpiryForgetsNothing ==
    ASSUME RecoveryInv, EventsKept, UNCHANGED <<catalogVars, crawlerVars, indexerVars>>
    PROVE  UnindexedWillBeHandled'
<1>1. UNCHANGED <<row, pc, task, stage, batch, job>>
  BY DEF catalogVars, crawlerVars, indexerVars
<1>2. \A t \in Tenders : EventWillBeHandled(t) => EventWillBeHandled(t)'
  BY <1>1 DEF EventWillBeHandled, EventsKept
<1>3. \A t \in Tenders : CrawlerWillPublish(t) => CrawlerWillPublish(t)'
  BY <1>1 DEF CrawlerWillPublish, RequiresIndex
<1>4. \A t \in Tenders : Unindexed(t)' => Unindexed(t)
  BY <1>1 DEF Unindexed
<1>5. QED
  BY <1>2, <1>3, <1>4 DEF RecoveryInv, UnindexedWillBeHandled

LEMMA IndexerKeepsEvents ==
    ASSUME OneIndexer, EventsSurvive, IndInv, RecoveryInv, NEW w \in Workers,
           Work(w) \/ \E s \in Slots : Fetch(w, s)
    PROVE  KeptEvents
<1>1. CASE Quiet(w)
  BY <1>1, QuietKeepsEvents
<1>2. CASE \E s \in Slots : Fetch(w, s)
  BY <1>2, FetchKeepsEvents
<1>3. CASE Acknowledge(w) \/ Nak(w) \/ IndexerRestarts(w)
  <2>1. pc[w] # "idle"
    BY <1>3 DEF Acknowledge, Nak, IndexerRestarts
  <2>2. PICK s \in Slots : s = task[w].slot
    BY <2>1 DEF IndInv, IndexerInv, IndexerTypeOK, Task
  <2>3. QED
    BY <1>3, <2>2, ReleaseKeepsEvents
<1>4. QED
  BY <1>1, <1>2, <1>3 DEF Work, Quiet

LEMMA RecoverySteps ==
    ASSUME OneIndexer, EventsSurvive, IndInv, RecoveryInv, [Next]_vars
    PROVE  RecoveryInv'
<1>1. CASE CrawlerStep /\ UNCHANGED indexerVars
  BY <1>1, CrawlerKeepsEvents, CrawlerForgetsNothing DEF RecoveryInv
<1>2. CASE IndexerStep /\ UNCHANGED crawlerVars
  <2>1. PICK w \in Workers : Work(w) \/ \E s \in Slots : Fetch(w, s)
    BY <1>2 DEF IndexerStep
  <2>2. KeptEvents
    BY <2>1, IndexerKeepsEvents
  <2>3. QED
    BY <1>2, <2>1, <2>2, IndexerForgetsNothing DEF RecoveryInv, KeptEvents
<1>3. ASSUME NEW s \in Slots, AckWaitExpires(s),
             UNCHANGED <<catalogVars, crawlerVars, indexerVars>>
      PROVE  RecoveryInv'
  <2>1. KeptEvents
    BY <1>3, ExpiryKeepsEvents
  <2>2. QED
    BY <1>3, <2>1, ExpiryForgetsNothing DEF RecoveryInv, KeptEvents
<1>4. CASE UNCHANGED vars
  BY <1>4 DEF vars, catalogVars, crawlerVars, indexerVars, RecoveryInv, DeliveriesArePaid,
     TaskIsEvent, UnindexedWillBeHandled, Unindexed, EventWillBeHandled, CrawlerWillPublish,
     RequiresIndex, Spent, Free
<1>5. QED
  BY <1>1, <1>2, <1>3, <1>4 DEF Next

\* With one indexer, and as long as failures lose no event and are fewer
\* than the deliveries of an event, a tender whose index is not ready for its
\* content is never forgotten: an event of that content is in the stream, a
\* worker is on it, or the crawler is about to publish it (run_source,
\* republish_pending, the settlements of indexer/__main__.py).
THEOREM RecoverySafety ==
    ASSUME OneIndexer, EventsSurvive
    PROVE  Spec => []UnindexedIsOwned
<1>1. Init => RecoveryInv
  BY DEF Init, CatalogInit, QueueInit, IndexerInit, AbsentRow, Free, RecoveryInv,
     DeliveriesArePaid, TaskIsEvent, UnindexedWillBeHandled, Unindexed
<1>2. IndInv /\ RecoveryInv /\ [Next]_vars => RecoveryInv'
  BY RecoverySteps
<1>3. RecoveryInv => UnindexedIsOwned
  <2>1. ASSUME RecoveryInv, NEW t \in Tenders, EventWillBeHandled(t) PROVE EventInStream(t)
    BY <2>1 DEF RecoveryInv, DeliveriesArePaid, EventWillBeHandled, EventInStream
  <2>2. QED
    BY <2>1 DEF RecoveryInv, UnindexedWillBeHandled, UnindexedIsOwned, Owned
<1>4. QED
  BY <1>1, <1>2, <1>3, Invariance, PTL DEF Spec
=============================================================================
