-------------------------- MODULE AttachmentStore --------------------------
(* The attachments of one tender: their rows, their files in the volume and *)
(* the concurrent downloads of download_record_attachments, _download_one   *)
(* (crawler/service.py) and download_attachment (storage.py).  A download   *)
(* whose gather() has raised goes on without anybody waiting for it.        *)
EXTENDS Naturals, FiniteSets, Functions

CONSTANTS
    Attachments, \* rows of attachments
    Contents,    \* what a server may send for a URL, with its digest
    Tasks,       \* downloads that may be under way at once (a bound)
    MaxFaults,   \* failures in a behaviour (a bound)
    Dead,        \* the owner of files a dead process left
    None

ASSUME AttachmentStoreAssumption ==
    /\ MaxFaults \in Nat
    /\ None \notin Contents \cup Attachments
    /\ Dead \notin Tasks

VARIABLES
    row,        \* download_status and sha256 of each attachment
    file,       \* the file under local_path
    parts,      \* owners of the .part files in the volume
    listed,     \* the URLs of the record persisted last
    stage, of, body, \* of each download: its step, attachment, bytes read
    current,    \* the downloads gather() waits for
    overlapped, \* history: attachments downloaded twice at the same time
    faultsLeft

downloadVars == <<stage, of, body, current, overlapped>>
vars == <<row, file, parts, listed, downloadVars, faultsLeft>>

Status == {"absent", "pending", "ready", "failed", "skipped"}
Row == [status : Status, digest : Contents \cup {None}]
Stage == {"idle", "check", "transfer", "writing", "stored", "failing"}

Init ==
    /\ row = [a \in Attachments |-> [status |-> "absent", digest |-> None]]
    /\ file = [a \in Attachments |-> None]
    /\ parts = {}
    /\ listed = {}
    /\ stage = [d \in Tasks |-> "idle"]
    /\ of = [d \in Tasks |-> None]
    /\ body = [d \in Tasks |-> None]
    /\ current = {}
    /\ overlapped = {}
    /\ faultsLeft = MaxFaults

Fault == faultsLeft > 0 /\ faultsLeft' = faultsLeft - 1
Goto(d, s) == stage' = [stage EXCEPT ![d] = s]
Idle == {d \in Tasks : stage[d] = "idle"}

\* The coroutine of a download returns, and gather() notes it.
Return(d) ==
    /\ Goto(d, "idle")
    /\ of' = [of EXCEPT ![d] = None]
    /\ body' = [body EXCEPT ![d] = None]
    /\ current' = current \ {d}
    /\ UNCHANGED overlapped

\* persist_record: URLs that are listed again after they were skipped wait
\* for a download again, URLs that are not listed are skipped.
StatusAfter(a, urls) ==
    IF a \in urls
    THEN IF row[a].status \in {"absent", "skipped"} THEN "pending" ELSE row[a].status
    ELSE IF row[a].status = "absent" THEN "absent" ELSE "skipped"

\* Idle downloads, one for each of these URLs.
Starts(urls) == UNION {Bijection(tasks, urls) : tasks \in SUBSET Idle}

\* A record is persisted and gather() starts one download per listed URL.
\* Only one record is handled at a time, but downloads of an earlier gather
\* may still run.
HandleRecord(urls) ==
    /\ current = {}
    /\ listed' = urls
    /\ row' = [a \in Attachments |-> [row[a] EXCEPT !.status = StatusAfter(a, urls)]]
    /\ Starts(urls) # {}
    \* Downloads are interchangeable: any assignment will do.
    /\ LET task == CHOOSE f \in Starts(urls) : TRUE
       IN  /\ current' = DOMAIN task
           /\ of' = [d \in Tasks |-> IF d \in DOMAIN task THEN task[d] ELSE of[d]]
           /\ stage' = [d \in Tasks |-> IF d \in DOMAIN task THEN "check" ELSE stage[d]]
    /\ overlapped' = overlapped \cup {a \in urls : \E d \in Tasks : of[d] = a}
    /\ UNCHANGED <<file, parts, body, faultsLeft>>
----------------------------------------------------------------------------
(* _download_one *)

\* Wrong variant of AlreadyReady: every download starts anew.
NeverReady(a) == FALSE
\* Wrong variant of AlreadyReady: nor is a failed one tried again.
FailedIsFinal(a) == row[a].status \in {"ready", "failed"}
AlreadyReady(a) == row[a].status = "ready" /\ row[a].digest # None

Check(d) ==
    /\ stage[d] = "check"
    /\ IF AlreadyReady(of[d])
       THEN Return(d)
       ELSE Goto(d, "transfer") /\ UNCHANGED <<of, body, current, overlapped>>
    /\ UNCHANGED <<row, file, parts, listed, faultsLeft>>

\* The server answers; its bytes go into a .part file with a fresh name.
Transfer(d) ==
    /\ stage[d] = "transfer"
    /\ \E bytes \in Contents : body' = [body EXCEPT ![d] = bytes]
    /\ parts' = parts \cup {d}
    /\ Goto(d, "writing")
    /\ UNCHANGED <<row, file, listed, of, current, overlapped, faultsLeft>>

\* fsync and os.replace: between two awaits, so one step.
Store(d) ==
    /\ stage[d] = "writing"
    /\ file' = [file EXCEPT ![of[d]] = body[d]]
    /\ parts' = parts \ {d}
    /\ Goto(d, "stored")
    /\ UNCHANGED <<row, listed, of, body, current, overlapped, faultsLeft>>

\* Wrong variant of Unlinked: the .part file stays.
KeepsPart(d) == parts
\* temp.unlink(missing_ok=True).
Unlinked(d) == parts \ {d}

\* The server refuses, breaks off or sends too much, the disk is full, the
\* stream cannot be closed, or the success transaction fails.  A download
\* that gather() has left needs no such reason: its client gets closed.
DownloadFails(d) ==
    /\ stage[d] \in {"transfer", "writing", "stored"}
    /\ IF d \in current THEN Fault ELSE UNCHANGED faultsLeft
    /\ parts' = Unlinked(d)
    /\ Goto(d, "failing")
    /\ UNCHANGED <<row, file, listed, of, body, current, overlapped>>

\* Wrong variant of Succeeded: the digest of an earlier download stays.
KeepsDigest(a, bytes) == [row[a] EXCEPT !.status = "ready"]
\* Wrong variant of Succeeded: a status the table's CHECK refuses.
OutsideCheck(a, bytes) == [status |-> "downloaded", digest |-> bytes]
Succeeded(a, bytes) == [status |-> "ready", digest |-> bytes]

CommitReady(d) ==
    /\ stage[d] = "stored"
    /\ row' = [row EXCEPT ![of[d]] = Succeeded(of[d], body[d])]
    /\ Return(d)
    /\ UNCHANGED <<file, parts, listed, faultsLeft>>

MarkFailed(d) ==
    /\ stage[d] = "failing"
    /\ row' = [row EXCEPT ![of[d]].status = "failed"]
    /\ Return(d)
    /\ UNCHANGED <<file, parts, listed, faultsLeft>>

\* A database error outside the try, or while marking the failure: the
\* exception reaches gather(), which re-raises at once and forgets the rest.
Raise(d) ==
    /\ stage[d] \in {"check", "failing"}
    /\ Fault
    /\ Goto(d, "idle")
    /\ of' = [of EXCEPT ![d] = None]
    /\ body' = [body EXCEPT ![d] = None]
    /\ current' = IF d \in current THEN {} ELSE current
    /\ UNCHANGED <<row, file, parts, listed, overlapped>>

\* The process dies; nothing removes its .part files later.
Crash ==
    /\ Idle # Tasks
    /\ Fault
    /\ parts' = IF parts = {} THEN {} ELSE {Dead}
    /\ stage' = [d \in Tasks |-> "idle"]
    /\ of' = [d \in Tasks |-> None]
    /\ body' = [d \in Tasks |-> None]
    /\ current' = {}
    /\ UNCHANGED <<row, file, listed, overlapped>>

Work(d) ==
    \/ Check(d) \/ Transfer(d) \/ Store(d) \/ DownloadFails(d)
    \/ CommitReady(d) \/ MarkFailed(d) \/ Raise(d)

NextRecord == \E urls \in SUBSET Attachments : HandleRecord(urls)

Next == NextRecord \/ (\E d \in Tasks : Work(d)) \/ Crash

Spec == Init /\ [][Next]_vars

\* The crawler comes back to the tender again and again, and the event loop
\* runs every download, waited for or not.
FairSpec == Spec /\ WF_vars(NextRecord) /\ \A d \in Tasks : WF_vars(Work(d))
----------------------------------------------------------------------------
\* Type correctness; a download that is under way has an attachment.
TypeOK ==
    /\ row \in [Attachments -> Row]
    /\ file \in [Attachments -> Contents \cup {None}]
    /\ parts \subseteq Tasks \cup {Dead}
    /\ listed \subseteq Attachments
    /\ stage \in [Tasks -> Stage]
    /\ of \in [Tasks -> Attachments \cup {None}]
    /\ body \in [Tasks -> Contents \cup {None}]
    /\ current \subseteq {d \in Tasks : stage[d] # "idle"}
    /\ overlapped \subseteq Attachments
    /\ faultsLeft \in 0..MaxFaults
    /\ \A d \in Tasks : stage[d] = "idle" <=> of[d] = None

\* Whatever fails or dies, a ready row names a complete file, and its
\* sha256 is that of the file unless two downloads of it ever overlapped.
ReadyHasItsFile ==
    \A a \in Attachments : row[a].status = "ready" =>
        /\ file[a] # None
        /\ a \in overlapped \/ file[a] = row[a].digest

\* A .part file belongs to a download that is writing it, or to a process
\* that died: no way of failing leaves one behind.
PartsAreOwned == \A d \in parts \ {Dead} : stage[d] = "writing"

\* A download never takes away what is ready: only a record that drops the
\* URL does, unless downloads of it overlapped.
ReadyIsKept ==
    [][\A a \in Attachments \ overlapped' :
         row[a].status = "ready" /\ row'[a].status # "ready" => a \notin listed']_vars

\* Two downloads of an attachment at once are what overlapped records.
OneDownloadEach ==
    \A d, e \in Tasks : of[d] = of[e] /\ of[d] # None /\ d # e => of[d] \in overlapped

\* A download past its check works for a row that is not ready; what it has
\* stored is the file.
DownloadsAreNeeded ==
    \A d \in Tasks :
        /\ stage[d] \notin {"idle", "check"} /\ of[d] \notin overlapped =>
              row[of[d]].status # "ready"
        /\ stage[d] \in {"writing", "stored"} => body[d] # None
        /\ stage[d] = "stored" => /\ file[of[d]] # None
                                  /\ of[d] \in overlapped \/ file[of[d]] = body[d]

\* Status and digest of a ready row are written together.
ReadyHasDigest == \A a \in Attachments : row[a].status = "ready" => row[a].digest # None

\* What makes the safety properties inductive.
StoreInv ==
    /\ TypeOK
    /\ OneDownloadEach
    /\ DownloadsAreNeeded
    /\ ReadyHasDigest
    /\ ReadyHasItsFile
    /\ PartsAreOwned

\* A URL that stays listed ends ready, also if orphaned downloads mark it
\* failed in between.
ListedGetsReady ==
    \A a \in Attachments : <>[](a \in listed) => <>[](row[a].status = "ready")
=============================================================================
