------------------------------ MODULE Crawler ------------------------------
(* CrawlerService (crawler/service.py) under the loop of                    *)
(* crawler/__main__.py: one cycle republishes pending tenders and then      *)
(* handles up to max_items records, one after the other.  The transactions  *)
(* of a record are the atomic steps; between them the indexer runs.  What a *)
(* source publishes is arbitrary: any version of any tender, also one that  *)
(* was published before.                                                    *)
EXTENDS JetStream

CONSTANTS
    RepublishLimit,  \* LIMIT of republish_pending
    MaxItems         \* max_items of run_source

ASSUME CrawlerAssumption == RepublishLimit \in Nat \ {0} /\ MaxItems \in Nat \ {0}

VARIABLES
    stage,  \* what the crawler does next
    batch,  \* <<tender, content_hash>> rows read by republish_pending
    job,    \* the record being handled
    left    \* records run_source may still accept in this cycle

crawlerVars == <<stage, batch, job, left>>

Stage == {"idle", "republish", "source", "persist", "download"}

\* loaded is the row persist_record's SELECT returned; changed and
\* downloaded are what requires_index is computed from.
Job == [tender : Tenders, version : Versions, loaded : Row,
        todo : SUBSET Attachments, changed : BOOLEAN, downloaded : BOOLEAN]

CrawlerTypeOK ==
    /\ stage \in Stage
    /\ batch \in SUBSET (Tenders \X Versions)
    /\ job \in Job \cup {None}
    /\ left \in 0..MaxItems
    /\ stage \in {"persist", "download"} => job \in Job

CrawlerInit == stage = "idle" /\ batch = {} /\ job = None /\ left = 0

NextStage(s) == stage' = s /\ UNCHANGED <<batch, job, left>>

\* The cycle ends: run_source returned, or an exception reached the loop.
Finish == stage' = "idle" /\ batch' = {} /\ job' = None /\ left' = 0
----------------------------------------------------------------------------
(* republish_pending *)

\* Wrong variant of PendingRows: nothing is ever published again.
NothingPending == {}
\* What republish_pending's SELECT may return.
PendingRows == {<<t, row[t].hash>> : t \in {u \in Tenders : row[u].status = "pending"}}

\* One SELECT ... LIMIT; which rows come first (updated_at) is left open.
BeginCycle ==
    /\ stage = "idle"
    /\ \E rows \in SUBSET PendingRows :
        /\ Cardinality(rows) <= RepublishLimit
        /\ rows # PendingRows => Cardinality(rows) = RepublishLimit
        /\ batch' = rows
    /\ stage' = "republish"
    /\ left' = MaxItems
    /\ UNCHANGED <<job, queue, catalogVars>>
    /\ NoFault

\* publish() swallows the error of an event that did not get through.
PublishOrLose(t, h) ==
    \/ Publish(t, h) /\ NoFault
    \/ Fault("publish") /\ UNCHANGED queue

RepublishOne ==
    /\ stage = "republish"
    /\ \E event \in batch :
        /\ PublishOrLose(event[1], event[2])
        /\ batch' = batch \ {event}
    /\ UNCHANGED <<stage, job, left, catalogVars>>

EndRepublish ==
    /\ stage = "republish" /\ batch = {}
    /\ NextStage("source")
    /\ UNCHANGED <<queue, catalogVars>>
    /\ NoFault
----------------------------------------------------------------------------
(* persist_record *)

\* The SELECT of the tender row, without a lock.
ReadTender(t, v) ==
    /\ stage = "source" /\ left > 0
    /\ job' = [tender |-> t, version |-> v, loaded |-> row[t],
               todo |-> {}, changed |-> FALSE, downloaded |-> FALSE]
    /\ left' = left - 1
    /\ stage' = "persist"
    /\ UNCHANGED <<batch, queue, catalogVars>>
    /\ NoFault

\* The session's UPDATE names a column only when the assigned value differs
\* from the loaded one; otherwise whatever the row holds by now stays.
Emitted(loaded, current, assigned) ==
    IF assigned = loaded THEN current ELSE assigned

InsertedRow(v) == [hash |-> v, indexed |-> None, status |-> "pending"]

PersistedRow(current, loaded, v) ==
    IF loaded.status = "absent" THEN InsertedRow(v)
    ELSE IF loaded.hash = v THEN current
    ELSE [current EXCEPT !.hash = Emitted(loaded.hash, @, v),
                         !.status = Emitted(loaded.status, @, "pending")]

\* Wrong variant of ListedStatus: a skipped URL stays skipped.
NeverRevived(status) == IF status = "absent" THEN "pending" ELSE status

\* A listed URL: a new row is pending, a skipped one becomes pending again.
ListedStatus(status) == IF status \in {"absent", "skipped"} THEN "pending" ELSE status

\* A URL the record no longer names.
UnlistedStatus(status) == IF status = "absent" THEN "absent" ELSE "skipped"

PersistRecord ==
    /\ stage = "persist"
    /\ LET t == job.tender
           v == job.version
       IN  /\ row' = [row EXCEPT ![t] = PersistedRow(@, job.loaded, v)]
           /\ attachment' = [attachment EXCEPT ![t] =
                  [a \in Attachments |-> IF a \in Listed[v] THEN ListedStatus(@[a])
                                                            ELSE UnlistedStatus(@[a])]]
           \* The session is closed: nothing reads the loaded row any more.
           /\ job' = [job EXCEPT !.todo = Listed[v],
                                 !.changed = (job.loaded.hash # v),
                                 !.loaded = AbsentRow]
    /\ stage' = "download"
    /\ UNCHANGED <<batch, left, queue, chunks>>
    /\ NoFault

\* The transaction rolls back and the exception ends the source's cycle.
PersistFails ==
    /\ stage = "persist"
    /\ Fault("persist")
    /\ Finish
    /\ UNCHANGED <<queue, catalogVars>>
----------------------------------------------------------------------------
(* download_record_attachments and _download_one *)

\* The success transaction: the attachment is ready, and a tender whose
\* index was ready has to be indexed again.
DownloadedRow(r) == IF r.status = "ready" THEN [r EXCEPT !.status = "pending"] ELSE r

AlreadyReady(a) == attachment[job.tender][a] = "ready"

DownloadOne(a) ==
    /\ stage = "download" /\ a \in job.todo
    /\ ~AlreadyReady(a)
    /\ attachment' = [attachment EXCEPT ![job.tender][a] = "ready"]
    /\ row' = [row EXCEPT ![job.tender] = DownloadedRow(@)]
    /\ job' = [job EXCEPT !.todo = @ \ {a}, !.downloaded = TRUE]
    /\ UNCHANGED <<stage, batch, left, queue, chunks>>
    /\ NoFault

SkipReady(a) ==
    /\ stage = "download" /\ a \in job.todo
    /\ AlreadyReady(a)
    /\ job' = [job EXCEPT !.todo = @ \ {a}]
    /\ UNCHANGED <<stage, batch, left, queue, catalogVars>>
    /\ NoFault

\* Fetching, storing or committing failed: the attachment is marked failed.
DownloadFails(a) ==
    /\ stage = "download" /\ a \in job.todo
    /\ ~AlreadyReady(a)
    /\ Fault("download")
    /\ attachment' = [attachment EXCEPT ![job.tender][a] = "failed"]
    /\ job' = [job EXCEPT !.todo = @ \ {a}]
    /\ UNCHANGED <<stage, batch, left, queue, row, chunks>>

\* Marking it failed failed too: gather() re-raises and the cycle ends.
DownloadAborts ==
    /\ stage = "download" /\ job.todo # {}
    /\ Fault("persist")
    /\ Finish
    /\ UNCHANGED <<queue, catalogVars>>
----------------------------------------------------------------------------
(* The rest of run_source *)

\* Wrong variant of RequiresIndex: downloads alone do not publish.
OnlyIfChanged == job.changed
\* A new version, or at least one attachment downloaded in this cycle.
RequiresIndex == job.changed \/ job.downloaded

FinishRecord ==
    /\ stage = "download" /\ job.todo = {}
    /\ IF RequiresIndex THEN PublishOrLose(job.tender, job.version)
                        ELSE NoFault /\ UNCHANGED queue
    /\ stage' = "source"
    /\ job' = None
    /\ UNCHANGED <<batch, left, catalogVars>>

\* No further record, max_items reached, or fetch_page raised.
EndCycle ==
    /\ stage = "source"
    /\ Finish
    /\ UNCHANGED <<queue, catalogVars>>
    /\ NoFault

CrawlerRestarts ==
    /\ stage # "idle"
    /\ Fault("crawler_crash")
    /\ Finish
    /\ UNCHANGED <<queue, catalogVars>>

CrawlerStep ==
    \/ BeginCycle \/ RepublishOne \/ EndRepublish
    \/ \E t \in Tenders, v \in Versions : ReadTender(t, v)
    \/ PersistRecord \/ PersistFails
    \/ \E a \in Attachments : DownloadOne(a) \/ SkipReady(a) \/ DownloadFails(a)
    \/ DownloadAborts \/ FinishRecord \/ EndCycle \/ CrawlerRestarts
=============================================================================
