----------------------------- MODULE IndexWrite -----------------------------
(* One tender under its database transactions, statement by statement:      *)
(* process and _mark_failed (indexer/service.py) with what they build in    *)
(* between (IndexBuild), persist_record and the concurrent _download_one    *)
(* (crawler/service.py), and seed-demo (cli.py), over the row locks they    *)
(* take (RowLocks).  Events are left out: an indexer may load the tender    *)
(* whenever the version it holds is not indexed.                            *)
EXTENDS IndexBuild

CONSTANTS
    Tender,      \* the row of the tender
    Ingest,      \* the session that stores records: crawler or seed-demo
    Listed,      \* the attachments a version lists
    Histories,   \* what is stored, as sequences of [by, version]
    MaxFaults    \* failures in a behaviour (a bound)

\* Sessions are told apart by what they are for, and rows by their table.
ASSUME IndexWriteAssumption ==
    /\ Ingest \notin Indexers \cup Attachments
    /\ Indexers \cap Attachments = {}
    /\ Tender \notin Attachments
    /\ IsFiniteSet(Attachments)
    /\ Listed \in [Versions -> SUBSET Attachments]
    /\ \A records \in Histories :
         records \in Seq([by : {"crawler", "demo"}, version : Versions])
    /\ MaxFaults \in Nat

VARIABLES
    row,         \* tenders: content, indexed_hash, index_status, last_error
    file,        \* attachments: download_status
    chunks,      \* chunks
    coming,      \* the records still to be stored
    visit,       \* the record at hand and what was read for it
    load,        \* the downloads under gather()
    held, asks,  \* row locks
    faultsLeft

catalogVars == <<row, file, chunks>>
ingestVars == <<coming, visit, load>>

Sessions == Indexers \cup Attachments \cup {Ingest}
Locks == INSTANCE RowLocks WITH Rows <- Attachments \cup {Tender}

vars == <<catalogVars, ingestVars, buildVars, held, asks, faultsLeft>>

Row == [version : Versions \cup {None}, indexed : Versions \cup {None},
        status : {"absent", "pending", "processing", "ready", "failed"},
        warned : SUBSET Attachments]
FileStatus == {"absent", "pending", "ready", "failed", "skipped"}

NoJob == [version |-> None, files |-> {}, drafts |-> <<>>, start |-> 0,
          vectors |-> <<>>, warnings |-> {}]
NoVisit == [stage |-> "idle", row |-> None, file |-> None]

Init ==
    /\ row = [version |-> None, indexed |-> None, status |-> "absent", warned |-> {}]
    /\ file = [a \in Attachments |-> "absent"]
    /\ chunks = {}
    /\ coming \in Histories
    /\ visit = NoVisit
    /\ load = [a \in Attachments |-> "none"]
    /\ pc = [w \in Indexers |-> "idle"]
    /\ job = [w \in Indexers |-> NoJob]
    /\ Locks!LocksInit
    /\ faultsLeft = MaxFaults

Fault == faultsLeft > 0 /\ faultsLeft' = faultsLeft - 1

TakeLock(s) ==
    /\ Locks!TakeLock(s)
    /\ UNCHANGED <<catalogVars, ingestVars, buildVars, faultsLeft>>
----------------------------------------------------------------------------
(* persist_record and seed-demo's _upsert_demo_record *)

Record == Head(coming)
\* The SELECT of the attachments finds what the transaction read.
StatusAfter(a, status) ==
    IF a \in Listed[Record.version]
    THEN IF status \in {"absent", "skipped"} THEN "pending" ELSE status
    ELSE IF status = "absent" THEN "absent" ELSE "skipped"

\* seed-demo touches the first attachment only, which it has at hand.
DemoFile == SetToSeq(Listed[Record.version])[1]
DemoStatus(a, status) == IF a = DemoFile THEN "ready" ELSE status

StoredStatus(a, status) ==
    IF Record.by = "demo" THEN DemoStatus(a, status) ELSE StatusAfter(a, status)

\* seed-demo assigns pending also to a tender it finds unchanged.
Reopens(seen) == Record.by = "demo" \/ seen.version # Record.version

\* The UPDATEs of a flush: the tender if a column differs, attachments whose
\* status changes; an INSERT of an attachment checks its foreign key.
StoreLocks(seen, files) ==
    LET changed(listed) == {a \in Attachments : /\ (a \in Listed[Record.version]) = listed
                                                /\ files[a] # "absent"
                                                /\ StoredStatus(a, files[a]) # files[a]}
        updates(set) == [i \in 1..Cardinality(set) |-> Locks!Updates(SetToSeq(set)[i])]
        created == {a \in Attachments : files[a] = "absent"
                                        /\ StoredStatus(a, files[a]) # "absent"}
    IN  IF seen.version = None THEN <<>>
        ELSE (IF \/ seen.version # Record.version
                 \/ Reopens(seen) /\ (seen.status # "pending" \/ seen.warned # {})
              THEN <<Locks!Updates(Tender)>> ELSE <<>>)
             \o updates(changed(FALSE))
             \o (IF created = {} THEN <<>> ELSE <<Locks!KeyShare(Tender)>>)
             \o updates(changed(TRUE))

ReadTender ==
    /\ visit.stage = "idle" /\ coming # <<>>
    /\ visit' = [stage |-> "store", row |-> row, file |-> file]
    /\ Locks!Statements(Ingest, StoreLocks(row, file))
    /\ UNCHANGED <<catalogVars, coming, load, buildVars, faultsLeft>>

\* The unit of work writes a column only if it differs from what was read.
Emitted(current, seen, assigned) == IF assigned = seen THEN current ELSE assigned

\* persist_record downloads what the record lists; seed-demo has its file.
StoreRecord ==
    /\ visit.stage = "store" /\ Locks!HasItsLocks(Ingest)
    /\ row' = IF ~Reopens(visit.row) THEN row
              ELSE [row EXCEPT !.version = Record.version,
                               !.status = Emitted(@, visit.row.status, "pending"),
                               !.warned = Emitted(@, visit.row.warned, {})]
    /\ file' = [a \in Attachments |->
                   Emitted(file[a], visit.file[a], StoredStatus(a, visit.file[a]))]
    /\ load' = [a \in Attachments |->
                   IF Record.by = "crawler" /\ a \in Listed[Record.version]
                   THEN "check" ELSE "none"]
    /\ visit' = [NoVisit EXCEPT !.stage = "gather"]
    /\ Locks!Ends(Ingest)
    /\ UNCHANGED <<chunks, coming, buildVars, faultsLeft>>

\* gather() is through; the record is published, the next one follows.
EndRecord ==
    /\ visit.stage = "gather"
    /\ \A a \in Attachments : load[a] \in {"none", "done"}
    /\ visit' = NoVisit
    /\ load' = [a \in Attachments |-> "none"]
    /\ coming' = Tail(coming)
    /\ UNCHANGED <<catalogVars, buildVars, held, asks, faultsLeft>>

\* The database or the process fails; a later cycle finds the same record.
IngestInterrupted ==
    /\ visit.stage # "idle"
    /\ Fault
    /\ visit' = NoVisit
    /\ load' = [a \in Attachments |-> "none"]
    /\ held' = [s \in Sessions |-> IF s \in Indexers THEN held[s] ELSE {}]
    /\ asks' = [s \in Sessions |-> IF s \in Indexers THEN asks[s] ELSE <<>>]
    /\ UNCHANGED <<catalogVars, coming, buildVars>>
----------------------------------------------------------------------------
(* _download_one, a session per attachment *)

Step(a, stage) == load' = [load EXCEPT ![a] = stage]

CheckFile(a) ==
    /\ load[a] = "check"
    /\ Step(a, IF file[a] = "ready" THEN "done" ELSE "transfer")
    /\ UNCHANGED <<catalogVars, coming, visit, buildVars, held, asks, faultsLeft>>

\* Wrong variant of DownloadLocks: a foreign key is checked before the
\* tender is locked.
SharedFirst(a) == <<Locks!KeyShare(Tender), Locks!ForUpdate(a), Locks!ForUpdate(Tender)>>
\* The attachment's row is locked before the tender's.
DownloadLocks(a) == <<Locks!ForUpdate(a), Locks!ForUpdate(Tender)>>

\* The transaction of the except branch.
Fails(a) ==
    /\ Step(a, "fail")
    /\ Locks!Statements(a, <<Locks!ForUpdate(a)>>)

Transfer(a) ==
    /\ load[a] = "transfer"
    /\ \/ Step(a, "store") /\ Locks!Statements(a, DownloadLocks(a)) /\ UNCHANGED faultsLeft
       \/ Fails(a) /\ Fault
    /\ UNCHANGED <<catalogVars, coming, visit, buildVars>>

StoreFile(a) ==
    /\ load[a] = "store" /\ Locks!HasItsLocks(a)
    /\ file' = [file EXCEPT ![a] = "ready"]
    /\ row' = IF row.status = "ready" THEN [row EXCEPT !.status = "pending"] ELSE row
    /\ Step(a, "done")
    /\ Locks!Ends(a)
    /\ UNCHANGED <<chunks, coming, visit, buildVars, faultsLeft>>

\* The server aborts the transaction, which is handled like any exception.
StoreFileDeadlocks(a) ==
    /\ load[a] = "store" /\ Locks!Deadlocked(a)
    /\ Fails(a)
    /\ UNCHANGED <<catalogVars, coming, visit, buildVars, faultsLeft>>

MarkFileFailed(a) ==
    /\ load[a] = "fail" /\ Locks!HasItsLocks(a)
    /\ file' = [file EXCEPT ![a] = "failed"]
    /\ Step(a, "done")
    /\ Locks!Ends(a)
    /\ UNCHANGED <<row, chunks, coming, visit, buildVars, faultsLeft>>
----------------------------------------------------------------------------
(* IndexerService.process *)

\* Wrong variant of Unchanged: a failed or interrupted attempt is the last.
OnlyPending(r) == r.status # "pending"
\* The early return for a duplicate event.
Unchanged(r) == r.indexed = r.version /\ r.status = "ready"

\* Wrong variant of TenderLock: the row is read without FOR UPDATE.
NoLock == <<>>
\* session.get(Tender, ..., with_for_update=True)
TenderLock == <<Locks!ForUpdate(Tender)>>

\* _load_tender, for an event of the row's version.
LoadTender(w) ==
    /\ pc[w] = "idle"
    /\ row.version # None /\ ~Unchanged(row)
    /\ job' = [job EXCEPT ![w] = [NoJob EXCEPT
                  !.version = row.version,
                  !.files = {a \in Attachments : file[a] = "ready"}]]
    /\ Goto(w, "claim")
    /\ Locks!Statements(w, TenderLock)
    /\ UNCHANGED <<catalogVars, ingestVars, faultsLeft>>

Returns(w) ==
    /\ Goto(w, "idle")
    /\ job' = [job EXCEPT ![w] = NoJob]
    /\ Locks!Ends(w)

\* The exception goes through _mark_failed.
FailsWith(w) ==
    /\ Goto(w, "fail")
    /\ job' = [job EXCEPT ![w] = [NoJob EXCEPT !.version = job[w].version]]
    /\ Locks!Statements(w, TenderLock)

\* Wrong variant of Stale: the lock is taken and nothing rechecked.
NeverStale(w) == FALSE
Stale(w) == row.version # job[w].version

Claim(w) ==
    /\ pc[w] = "claim" /\ Locks!HasItsLocks(w)
    /\ IF Stale(w)
       THEN Returns(w) /\ UNCHANGED row
       ELSE /\ row' = [row EXCEPT !.status = "processing", !.warned = {}]
            /\ Goto(w, "extract")
            /\ Locks!Ends(w)
            /\ UNCHANGED job
    /\ UNCHANGED <<file, chunks, ingestVars, faultsLeft>>

Build(w) ==
    /\ Extract(w)
    /\ UNCHANGED <<catalogVars, ingestVars, held, asks, faultsLeft>>

\* One answer of the embedding service; a wrong one, or none, is an error.
Embed(w) ==
    /\ pc[w] = "embed" /\ job[w].start < Len(job[w].drafts)
    /\ \/ \E answer \in Answers(Batch(w)) : EmbedBatch(w, answer)
          /\ UNCHANGED <<held, asks, faultsLeft>>
       \/ FailsWith(w) /\ Fault
    /\ UNCHANGED <<catalogVars, ingestVars>>

\* All batches are answered: the final transaction, or RuntimeError.
Embedded(w) ==
    /\ pc[w] = "embed" /\ job[w].start >= Len(job[w].drafts)
    /\ IF job[w].drafts = <<>> \/ Len(job[w].vectors) # Len(job[w].drafts)
       THEN FailsWith(w)
       ELSE /\ Goto(w, "write")
            /\ Locks!Statements(w, TenderLock)
            /\ UNCHANGED job
    /\ UNCHANGED <<catalogVars, ingestVars, faultsLeft>>

\* The inserted chunks check their foreign keys, one file after the other.
ChunkLocks(w) ==
    LET owners == InOrder({a \in Attachments :
                      \E i \in DOMAIN job[w].drafts : job[w].drafts[i].attachment = a})
    IN  [i \in DOMAIN owners |-> Locks!KeyShare(owners[i])]

\* With the row locked: the recheck, DELETE, and the INSERTs.
Insert(w) ==
    /\ pc[w] = "write" /\ Locks!HasItsLocks(w)
    /\ IF Stale(w)
       THEN Returns(w)
       ELSE /\ Goto(w, "insert")
            /\ asks' = [asks EXCEPT ![w] = ChunkLocks(w)]
            /\ UNCHANGED <<held, job>>
    /\ UNCHANGED <<catalogVars, ingestVars, faultsLeft>>

Commit(w) ==
    /\ pc[w] = "insert" /\ Locks!HasItsLocks(w)
    /\ chunks' = NewChunks(job[w].drafts, job[w].vectors)
    /\ row' = [row EXCEPT !.indexed = job[w].version, !.status = "ready",
                          !.warned = job[w].warnings]
    /\ Returns(w)
    /\ UNCHANGED <<file, ingestVars, faultsLeft>>

\* The server aborts the transaction because of a deadlock or otherwise.
CommitFails(w) ==
    /\ pc[w] \in {"write", "insert"}
    /\ \/ Locks!Deadlocked(w) /\ UNCHANGED faultsLeft
       \/ Fault
    /\ FailsWith(w)
    /\ UNCHANGED <<catalogVars, ingestVars>>

MarkFailed(w) ==
    /\ pc[w] = "fail" /\ Locks!HasItsLocks(w)
    /\ row' = IF Stale(w) THEN row ELSE [row EXCEPT !.status = "failed"]
    /\ Returns(w)
    /\ UNCHANGED <<file, chunks, ingestVars, faultsLeft>>

\* The process dies, or a statement fails outside process's try block.
IndexerInterrupted(w) ==
    /\ pc[w] # "idle"
    /\ Fault
    /\ Returns(w)
    /\ UNCHANGED <<catalogVars, ingestVars>>
----------------------------------------------------------------------------
IngestStep == ReadTender \/ StoreRecord \/ EndRecord
DownloadStep(a) ==
    CheckFile(a) \/ Transfer(a) \/ StoreFile(a) \/ StoreFileDeadlocks(a) \/ MarkFileFailed(a)
IndexerStep(w) ==
    \/ LoadTender(w) \/ Claim(w) \/ Embed(w) \/ Embedded(w)
    \/ Insert(w) \/ Commit(w) \/ CommitFails(w) \/ MarkFailed(w)

Next ==
    \/ IngestStep \/ IngestInterrupted
    \/ \E a \in Attachments : DownloadStep(a)
    \/ \E w \in Indexers : IndexerStep(w) \/ Build(w) \/ IndexerInterrupted(w)
    \/ \E s \in Sessions : TakeLock(s)

Spec == Init /\ [][Next]_vars

\* Every process goes on, extraction is a computation that ends, and the
\* server serves whoever can have its lock.
FairSpec ==
    /\ Spec
    /\ WF_vars(IngestStep)
    /\ \A a \in Attachments : WF_vars(DownloadStep(a))
    /\ \A w \in Indexers : WF_vars(IndexerStep(w)) /\ []<>(pc[w] # "extract")
    /\ \A s \in Sessions : SF_vars(TakeLock(s))
----------------------------------------------------------------------------
ProcessesTypeOK ==
    /\ row \in Row
    /\ file \in [Attachments -> FileStatus]
    /\ visit.stage \in {"idle", "store", "gather"}
    /\ load \in [Attachments -> {"none", "check", "transfer", "store", "fail", "done"}]
    /\ pc \in [Indexers -> {"idle", "claim", "extract", "embed", "write", "insert", "fail"}]
    /\ faultsLeft \in 0..MaxFaults

\* Rows, locks and what the processes hold of them are well formed, two
\* transactions never hold conflicting locks, and chunks are inserted with
\* the tender locked.
TypeOK ==
    /\ ProcessesTypeOK
    /\ Locks!LocksTypeOK
    /\ Locks!LocksExclude
    /\ \A w \in Indexers : pc[w] = "insert" => Locks!ForUpdate(Tender) \in held[w]

Letters(content) == SelectSeq(content, LAMBDA c : c # Space)

\* The chunks in cs, in the order of their positions, cover the letters of
\* text: each holds consecutive letters, of which no two words run together,
\* and it goes on where the one before ended, or at most OverlapChars earlier.
Cover(cs, text) ==
    LET words == Words(text)
        size  == Len(FlattenSeq(words))
        ends  == {Last(words[i]) : i \in DOMAIN words}
        ordered == SetToSortSeq(cs, LAMBDA c, d : c.position < d.position)
        from(i) == Letters(ordered[i].content)[1]
        to(i)   == Last(Letters(ordered[i].content))
    IN  /\ size > 0 => cs # {} /\ from(1) = 1 /\ to(Len(ordered)) = size
        /\ \A c \in cs : \A i \in 1..(Len(c.content) - 1) :
             c.content[i] # Space /\ c.content[i + 1] # Space =>
                 c.content[i + 1] = c.content[i] + 1 /\ c.content[i] \notin ends
        /\ \A c \in cs : LET letters == Letters(c.content)
                         IN  /\ letters # <<>>
                             /\ letters = [i \in DOMAIN letters |-> letters[1] + i - 1]
        /\ \A i \in 2..Len(ordered) :
             /\ from(i) \in (to(i - 1) + 1 - OverlapChars)..(to(i - 1) + 1)
             /\ to(i) > to(i - 1)

ChunksIn(cs, attachment, section) ==
    {c \in cs : c.attachment = attachment /\ c.section = section}

\* The chunks in cs cover all texts of a version, or of a file.
TenderCovered(cs, version) ==
    /\ Cover(ChunksIn(cs, None, "title"), Title[version])
    /\ Cover(ChunksIn(cs, None, "description"), Description[version])
    /\ Cover(ChunksIn(cs, None, "metadata"), Metadata[version])
FileCovered(cs, a) ==
    \A unit \in Range(FileUnits(a)) : Cover(ChunksIn(cs, a, unit.section), unit.text)

\* Nothing of a tender's text is lost between the source and search: the
\* stored chunks cover its title, description and metadata, of the version
\* that indexed_hash names.
TenderTextIsCovered == row.indexed # None => TenderCovered(chunks, row.indexed)

HasDraftOf(drafts, a) == \E i \in DOMAIN drafts : drafts[i].attachment = a

\* A file is in the index as a whole, or not at all and named in last_error;
\* one unreadable file does not keep another one out.
FilesAreWholeOrWarned ==
    /\ \A a \in Attachments : (\E c \in chunks : c.attachment = a) =>
         /\ a \notin row.warned \/ row.status # "ready"
         /\ FileCovered(chunks, a)
    /\ \A w \in Indexers : pc[w] \in {"embed", "write", "insert"} =>
         \A a \in job[w].files : FileUnits(a) # <<>> =>
             a \in job[w].warnings \/ HasDraftOf(job[w].drafts, a)

SchemaAccepts(drafts) ==
    /\ \A i, j \in DOMAIN drafts : i # j => ChunkKey(drafts[i]) # ChunkKey(drafts[j])
    /\ \A i \in DOMAIN drafts : Len(drafts[i].content) \in 1..MaxChars

\* What is inserted the schema accepts, also for a tender whose texts are
\* equal: keys differ, no chunk is empty or longer than max_chars.  And no
\* vector is that of another text, whatever the service answers.
ChunksAreStorable ==
    /\ \A c \in chunks : c.embedding = c.content
    /\ \A w \in Indexers : pc[w] = "insert" => SchemaAccepts(job[w].drafts)

\* A circle of waiting transactions takes a download and an indexer: records
\* are stored without one, and downloads or indexers alone make none.
DeadlocksNeedBoth ==
    \A s \in Sessions : Locks!Deadlocked(s) =>
        /\ s # Ingest
        /\ \E a \in Attachments : Locks!Deadlocked(a)
        /\ \E w \in Indexers : Locks!Deadlocked(w)

\* Statement by statement, the transactions implement the lifecycle that
\* search relies on.
Lifecycle == INSTANCE IndexLifecycle WITH
    Tenders <- {Tender},
    content <- [t \in {Tender} |-> row.version],
    index <- [t \in {Tender} |-> row.indexed],
    searchable <- [t \in {Tender} |-> row.status = "ready"]
ImplementsLifecycle == Lifecycle!LifecycleSpec

----------------------------------------------------------------------------
(* What makes the safety properties inductive *)

FileShare == {Locks!KeyShare(a) : a \in Attachments}
StoreLock == {Locks!KeyShare(Tender), Locks!Updates(Tender)}
             \cup {Locks!Updates(a) : a \in Attachments}

Released(s) == held[s] = {} /\ asks[s] = <<>>

\* The locks of an indexer: the tender's, and in the final transaction the
\* key shares of the files it inserts chunks of.
IndexerHolds(w) ==
    \/ pc[w] \in {"idle", "extract", "embed"} /\ Released(w)
    \/ pc[w] \in {"claim", "write", "fail"} /\ held[w] = {} /\ asks[w] = <<Locks!ForUpdate(Tender)>>
    \/ pc[w] \in {"claim", "write", "fail"} /\ held[w] = {Locks!ForUpdate(Tender)} /\ asks[w] = <<>>
    \/ /\ pc[w] = "insert"
       /\ Locks!ForUpdate(Tender) \in held[w]
       /\ held[w] \subseteq FileShare \cup {Locks!ForUpdate(Tender)}
       /\ asks[w] \in Seq(FileShare)

\* The locks of a download: the file's, and then the tender's.
DownloadHolds(a) ==
    LET own == Locks!ForUpdate(a)
        tender == Locks!ForUpdate(Tender)
    IN  \/ load[a] \notin {"store", "fail"} /\ Released(a)
        \/ load[a] = "store" /\ held[a] = {} /\ asks[a] = <<own, tender>>
        \/ load[a] = "store" /\ held[a] = {own} /\ asks[a] = <<tender>>
        \/ load[a] = "store" /\ held[a] = {own, tender} /\ asks[a] = <<>>
        \/ load[a] = "fail" /\ held[a] = {} /\ asks[a] = <<own>>
        \/ load[a] = "fail" /\ held[a] = {own} /\ asks[a] = <<>>

\* Storing a record changes no key, and nothing is left locked after it.
IngestHolds ==
    \/ visit.stage # "store" /\ Released(Ingest)
    \/ /\ visit.stage = "store"
       /\ held[Ingest] \subseteq StoreLock
       /\ asks[Ingest] \in Seq(StoreLock)

LocksInv ==
    /\ Locks!LocksTypeOK
    /\ Locks!LocksExclude
    /\ IngestHolds
    /\ \A a \in Attachments : DownloadHolds(a)
    /\ \A w \in Indexers : IndexerHolds(w)

\* A record is stored over the row that was read: other content is written
\* with the tender locked, and downloads come after it.
VisitInv ==
    /\ coming \in Seq([by : {"crawler", "demo"}, version : Versions])
    /\ visit.stage # "idle" => coming # <<>>
    /\ visit.stage # "gather" => \A a \in Attachments : load[a] = "none"
    /\ visit.stage = "store" =>
         /\ visit.row \in Row /\ visit.row.version = row.version
         /\ visit.file \in [Attachments -> FileStatus]
         /\ row.version \notin {None, Record.version} =>
              \/ Locks!Updates(Tender) \in held[Ingest]
              \/ asks[Ingest] # <<>> /\ Head(asks[Ingest]) = Locks!Updates(Tender)

IsJob(j) == j = [version |-> j.version, files |-> j.files, drafts |-> j.drafts,
                 start |-> j.start, vectors |-> j.vectors, warnings |-> j.warnings]

\* While chunks are inserted the row keeps the version they were made of.
BuildInv ==
    /\ DOMAIN job = Indexers
    /\ \A w \in Indexers :
         /\ IsJob(job[w])
         /\ job[w].files \subseteq Attachments
         /\ job[w].warnings \subseteq Attachments
         /\ pc[w] # "idle" => job[w].version \in Versions
         /\ pc[w] = "insert" => row.version = job[w].version

WriteInv == ProcessesTypeOK /\ LocksInv /\ VisitInv /\ BuildInv

\* The chunks of a version with some of its files, each text with its own
\* vector.
ChunksFor(version, files) ==
    LET drafts == Drafts[version][files]
    IN  NewChunks(drafts, [i \in DOMAIN drafts |-> drafts[i].content])

\* The index of the version that indexed_hash names, with files of which
\* last_error names none.
IndexIsWhole ==
    /\ row.indexed = None => chunks = {}
    /\ row.indexed # None => \E files \in SUBSET Attachments :
          chunks = ChunksFor(row.indexed, files) /\ files \cap row.warned = {}

\* How far an attempt has come: the drafts are those of its version and of
\* the files without a warning, and the vectors those of the batches so far.
BuiltSoFar(j) ==
    /\ j.drafts = Drafts[j.version][j.files \ j.warnings]
    /\ j.start \in Nat
    /\ j.vectors = [i \in 1..Min({j.start, Len(j.drafts)}) |-> j.drafts[i].content]
JobIsBuilt(w) ==
    /\ pc[w] \in {"claim", "extract"} => job[w].start = 0 /\ job[w].vectors = <<>>
    /\ pc[w] \in {"embed", "write", "insert"} => BuiltSoFar(job[w])
    /\ pc[w] \in {"write", "insert"} => job[w].start >= Len(job[w].drafts)

StoredInv == IndexIsWhole /\ \A w \in Indexers : JobIsBuilt(w)

\* What is left to the pure functions of chunk_units and extract: their
\* result is a list; it fits the schema; it covers the texts of the tender;
\* and it has the whole of every file that is read, and nothing of another.
DraftsAreLists ==
    \A version \in Versions, files \in SUBSET Attachments :
        LET drafts == Drafts[version][files]
        IN  Len(drafts) \in Nat /\ DOMAIN drafts = 1..Len(drafts)
DraftsAreStorable ==
    \A version \in Versions, files \in SUBSET Attachments :
        SchemaAccepts(Drafts[version][files])
DraftsCoverTender ==
    \A version \in Versions, files \in SUBSET Attachments :
        TenderCovered(ChunksFor(version, files), version)
DraftsCoverFiles ==
    \A version \in Versions, files \in SUBSET Attachments, a \in Attachments :
        LET drafts == Drafts[version][files]
        IN  /\ HasDraftOf(drafts, a) => a \in files /\ FileCovered(ChunksFor(version, files), a)
            /\ a \in files /\ FileUnits(a) # <<>> => HasDraftOf(drafts, a)
----------------------------------------------------------------------------
(* Liveness *)

\* After the last record nothing waits for a lock forever, and the tender's
\* index is ready for its content.
IndexConverges == <>[](row.status = "ready" /\ row.indexed = row.version)
=============================================================================
