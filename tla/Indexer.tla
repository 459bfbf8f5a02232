------------------------------ MODULE Indexer ------------------------------
(* IndexerService.process (indexer/service.py) and the settlement of events *)
(* in indexer/__main__.py.  Each worker is one indexer process; it handles  *)
(* one event at a time, and each of its transactions is one step.           *)
EXTENDS JetStream

VARIABLES
    pc,    \* what each worker does next
    task   \* the event it holds and what it has read so far

indexerVars == <<pc, task>>

PC == {"idle", "load", "attachments", "claim", "embed", "commit",
       "mark_failed", "ack", "nak", "term"}

\* seen: content of the tender row loaded first; files: the attachments of
\* the second SELECT; verdict: how a failed event is settled.
Task == [slot : Slots, tender : Tenders, hash : Versions, seen : Hash,
         files : SUBSET Attachments, verdict : {"nak", "term"}]

IndexerTypeOK ==
    /\ pc \in [Workers -> PC]
    /\ task \in [Workers -> Task \cup {None}]
    /\ \A w \in Workers : pc[w] # "idle" => task[w] \in Task

IndexerInit ==
    /\ pc = [w \in Workers |-> "idle"]
    /\ task = [w \in Workers |-> None]

Goto(w, label) == pc' = [pc EXCEPT ![w] = label]
Idle(w) == Goto(w, "idle") /\ task' = [task EXCEPT ![w] = None]
MyRow(w) == row[task[w].tender]

\* broker.iter_messages: fetch(batch=1) of a durable pull subscription.
Fetch(w, s) ==
    /\ pc[w] = "idle"
    /\ Deliver(s, w)
    /\ task' = [task EXCEPT ![w] =
           [slot |-> s, tender |-> queue[s].tender, hash |-> queue[s].hash,
            seen |-> None, files |-> {}, verdict |-> "nak"]]
    /\ Goto(w, "load")
    /\ UNCHANGED catalogVars
    /\ NoFault
----------------------------------------------------------------------------
(* process *)

\* Wrong variant of both staleness checks: none is made.
NeverStale(r, hash) == FALSE
\* Missing or stale: the loaded row is not the version the event is about.
StaleAtLoad(r, hash) == r.hash # hash

\* Wrong variant of Unchanged: duplicates are processed again.
NeverUnchanged(r, hash) == FALSE
\* A duplicate of an event that was processed before.
Unchanged(r, hash) == r.indexed = hash /\ r.status = "ready"

\* _load_tender's SELECT of the row, and the three early returns it decides.
LoadTender(w) ==
    /\ pc[w] = "load"
    /\ task' = [task EXCEPT ![w].seen = MyRow(w).hash]
    /\ Goto(w, IF \/ StaleAtLoad(MyRow(w), task[w].hash)
                  \/ Unchanged(MyRow(w), task[w].hash)
               THEN "ack" ELSE "attachments")
    /\ UNCHANGED <<queue, catalogVars>>
    /\ NoFault

\* selectinload's second SELECT, which sees the commits made in between.
LoadAttachments(w) ==
    /\ pc[w] = "attachments"
    /\ task' = [task EXCEPT ![w].files = ReadyFiles(task[w].tender)]
    /\ Goto(w, "claim")
    /\ UNCHANGED <<queue, catalogVars>>
    /\ NoFault

\* The recheck of both locking transactions.
StaleUnderLock(r, hash) == r.hash # hash

Claim(w) ==
    /\ pc[w] = "claim"
    /\ IF StaleUnderLock(MyRow(w), task[w].hash)
       THEN Goto(w, "ack") /\ UNCHANGED row
       ELSE /\ row' = [row EXCEPT ![task[w].tender].status = "processing"]
            /\ Goto(w, "embed")
    /\ UNCHANGED <<task, queue, attachment, chunks>>
    /\ NoFault

\* Extraction, chunking and embedding of what was loaded.
Embed(w) ==
    /\ pc[w] = "embed"
    /\ Goto(w, "commit")
    /\ UNCHANGED <<task, queue, catalogVars>>
    /\ NoFault

\* A DependencyUnavailableError, which an unusable answer of the embedding
\* service is too, or an OSError is retried; any other exception is final.
EmbedFails(w) ==
    /\ pc[w] = "embed"
    /\ \/ /\ Fault("ai_down")
          /\ task' = [task EXCEPT ![w].verdict = "nak"]
       \/ /\ Fault("unexpected")
          /\ task' = [task EXCEPT ![w].verdict = "term"]
    /\ Goto(w, "mark_failed")
    /\ UNCHANGED <<queue, catalogVars>>

\* Chunks, indexed_hash and status change in one transaction.
Commit(w) ==
    /\ pc[w] = "commit"
    /\ LET t == task[w].tender
       IN  IF StaleUnderLock(row[t], task[w].hash)
           THEN UNCHANGED <<row, chunks>>
           ELSE /\ chunks' = [chunks EXCEPT ![t] = [version |-> task[w].seen,
                                                    files |-> task[w].files]]
                /\ row' = [row EXCEPT ![t].indexed = task[w].hash,
                                      ![t].status = "ready"]
    /\ Goto(w, "ack")
    /\ UNCHANGED <<task, queue, attachment>>
    /\ NoFault

\* The final transaction rolls back; process goes through _mark_failed.
CommitFails(w) ==
    /\ pc[w] = "commit"
    /\ Fault("index_db")
    /\ task' = [task EXCEPT ![w].verdict = "nak"]
    /\ Goto(w, "mark_failed")
    /\ UNCHANGED <<queue, catalogVars>>

\* Wrong variant of StillOwn: the hash is not compared.
AlwaysOwn(r, hash) == TRUE
\* _mark_failed touches the row only while it still holds this version.
StillOwn(r, hash) == r.hash = hash

MarkFailed(w) ==
    /\ pc[w] = "mark_failed"
    /\ IF StillOwn(MyRow(w), task[w].hash)
       THEN row' = [row EXCEPT ![task[w].tender].status = "failed"]
       ELSE UNCHANGED row
    /\ Goto(w, task[w].verdict)
    /\ UNCHANGED <<task, queue, attachment, chunks>>
    /\ NoFault

\* A database error outside process's try, or in _mark_failed itself,
\* reaches __main__ as an SQLAlchemyError.
DatabaseError(w) ==
    /\ pc[w] \in {"load", "attachments", "claim", "mark_failed"}
    /\ Fault("index_db")
    /\ Goto(w, "nak")
    /\ UNCHANGED <<task, queue, catalogVars>>
----------------------------------------------------------------------------
(* Settlement in __main__.run *)

\* Wrong variant of Retry: an unavailable service acknowledges the event.
RetryAcknowledges(s, w) == Settle(s, w)
\* nak(delay=10); the delay only reorders deliveries.
Retry(s, w) == GiveBack(s, w)

Acknowledge(w) ==
    /\ pc[w] \in {"ack", "term"}
    /\ Settle(task[w].slot, w)
    /\ Idle(w)
    /\ UNCHANGED catalogVars
    /\ NoFault

Nak(w) ==
    /\ pc[w] = "nak"
    /\ Retry(task[w].slot, w)
    /\ Idle(w)
    /\ UNCHANGED catalogVars
    /\ NoFault

\* The process dies and is restarted, or its settlement never arrives.
IndexerRestarts(w) ==
    /\ pc[w] # "idle"
    /\ Fault("indexer_crash")
    /\ LetGo(task[w].slot, w)
    /\ Idle(w)
    /\ UNCHANGED catalogVars

Work(w) ==
    \/ LoadTender(w) \/ LoadAttachments(w) \/ Claim(w)
    \/ Embed(w) \/ EmbedFails(w) \/ Commit(w) \/ CommitFails(w)
    \/ MarkFailed(w) \/ DatabaseError(w)
    \/ Acknowledge(w) \/ Nak(w) \/ IndexerRestarts(w)

IndexerStep == \E w \in Workers : Work(w) \/ \E s \in Slots : Fetch(w, s)
=============================================================================
