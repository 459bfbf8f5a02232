------------------------ MODULE AttachmentStoreProofs ------------------------
(* The attachments of a tender, for any number of rows, contents, downloads *)
(* and failures: what is ready has its file and stays ready, and no way of  *)
(* failing leaves a .part file behind.                                      *)
EXTENDS AttachmentStore, TLAPS

USE AttachmentStoreAssumption

----------------------------------------------------------------------------
(* A record is handled *)

\* One idle download for each listed URL.
LEMMA StartsAreOneEach ==
    ASSUME NEW urls, NEW f \in Starts(urls)
    PROVE  /\ DOMAIN f \subseteq Idle
           /\ \A d \in DOMAIN f : f[d] \in urls
           /\ \A d, e \in DOMAIN f : f[d] = f[e] => d = e
<1>1. PICK tasks \in SUBSET Idle : f \in Bijection(tasks, urls)
  BY DEF Starts
<1>2. f \in [tasks -> urls] /\ \A d, e \in tasks : f[d] = f[e] => d = e
  BY <1>1 DEF Bijection, Injection, IsInjective
<1>3. QED
  BY <1>1, <1>2

\* Downloads start for listed URLs only, on idle tasks, one for each; a ready
\* row that stays listed stays ready.
LEMMA HandleRecordSteps ==
    ASSUME StoreInv, NEW urls \in SUBSET Attachments, HandleRecord(urls)
    PROVE  StoreInv'
<1> DEFINE task == CHOOSE f \in Starts(urls) : TRUE
           new == DOMAIN task
<1>1. task \in Starts(urls)
  BY DEF HandleRecord
<1> HIDE DEF task
<1>2. /\ new \subseteq Idle /\ \A d \in new : task[d] \in urls
      /\ \A d, e \in new : task[d] = task[e] => d = e
  BY <1>1, StartsAreOneEach
<1> HIDE DEF new
<1>3. /\ current' = new
      /\ of' = [d \in Tasks |-> IF d \in new THEN task[d] ELSE of[d]]
      /\ stage' = [d \in Tasks |-> IF d \in new THEN "check" ELSE stage[d]]
      /\ overlapped' = overlapped \cup {a \in urls : \E d \in Tasks : of[d] = a}
      /\ row' = [a \in Attachments |-> [row[a] EXCEPT !.status = StatusAfter(a, urls)]]
      /\ listed' = urls
      /\ UNCHANGED <<file, parts, body, faultsLeft>>
  BY DEF HandleRecord, task, new
<1>4. \A a \in Attachments :
        /\ row[a] \in Row /\ row'[a] \in Row /\ row'[a].digest = row[a].digest
        /\ row'[a].status = "ready" => row[a].status = "ready"
  BY <1>3 DEF StoreInv, TypeOK, Row, Status, StatusAfter
<1>5. \A d \in Tasks : /\ of[d] \in Attachments \cup {None} /\ stage[d] \in Stage
                       /\ stage[d] = "idle" <=> of[d] = None
  BY DEF StoreInv, TypeOK
<1>6. \A d \in new : d \in Tasks /\ stage[d] = "idle" /\ task[d] \in Attachments /\ task[d] # None
  BY <1>2 DEF Idle
<1>7. TypeOK'
  <2>1. row' \in [Attachments -> Row]
    BY <1>3, <1>4
  <2>2. /\ stage' \in [Tasks -> Stage] /\ of' \in [Tasks -> Attachments \cup {None}]
        /\ current' \subseteq {d \in Tasks : stage'[d] # "idle"}
        /\ \A d \in Tasks : stage'[d] = "idle" <=> of'[d] = None
    BY <1>3, <1>5, <1>6 DEF Stage
  <2>3. overlapped' \subseteq Attachments /\ listed' \subseteq Attachments
    BY <1>3 DEF StoreInv, TypeOK
  <2>4. QED
    BY <1>3, <2>1, <2>2, <2>3 DEF StoreInv, TypeOK
<1>8. OneDownloadEach'
  BY <1>2, <1>3, <1>5, <1>6 DEF OneDownloadEach, StoreInv
<1>9. DownloadsAreNeeded'
  <2>1. SUFFICES ASSUME NEW d \in Tasks, stage'[d] \notin {"idle", "check"}
                 PROVE  /\ of'[d] \notin overlapped' => row'[of'[d]].status # "ready"
                        /\ stage'[d] \in {"writing", "stored"} => body'[d] # None
                        /\ stage'[d] = "stored" =>
                             /\ file'[of'[d]] # None
                             /\ of'[d] \in overlapped' \/ file'[of'[d]] = body'[d]
    BY DEF DownloadsAreNeeded
  <2>2. stage'[d] = stage[d] /\ of'[d] = of[d] /\ of[d] \in Attachments
    BY <1>3, <1>5, <2>1
  <2>3. overlapped \subseteq overlapped' /\ file' = file /\ body' = body
    BY <1>3
  <2>4. /\ of[d] \notin overlapped => row[of[d]].status # "ready"
        /\ stage[d] \in {"writing", "stored"} => body[d] # None
        /\ stage[d] = "stored" => /\ file[of[d]] # None
                                  /\ of[d] \in overlapped \/ file[of[d]] = body[d]
    BY <2>1, <2>2 DEF StoreInv, DownloadsAreNeeded
  <2>5. QED
    BY <1>4, <2>2, <2>3, <2>4
<1>10. (ReadyHasDigest /\ ReadyHasItsFile)'
  BY <1>3, <1>4 DEF ReadyHasDigest, ReadyHasItsFile, StoreInv
<1>11. PartsAreOwned'
  BY <1>3, <1>6 DEF PartsAreOwned, StoreInv, TypeOK
<1>12. QED
  BY <1>7, <1>8, <1>9, <1>10, <1>11 DEF StoreInv
----------------------------------------------------------------------------
(* A download *)

LEMMA InitialStore == Init => StoreInv
BY DEF Init, StoreInv, TypeOK, Row, Status, Stage, OneDownloadEach, DownloadsAreNeeded,
       ReadyHasDigest, ReadyHasItsFile, PartsAreOwned

\* Facts about a download that is under way.
LEMMA UnderWay ==
    ASSUME StoreInv, NEW d \in Tasks, stage[d] # "idle"
    PROVE  /\ of[d] \in Attachments /\ of[d] # None
           /\ row[of[d]] \in Row
           /\ d \notin parts \/ stage[d] = "writing"
BY DEF StoreInv, TypeOK, PartsAreOwned

\* Another step of the same download, without a change of rows, files or
\* attachments.
LEMMA TransferSteps ==
    ASSUME StoreInv, NEW d \in Tasks, Transfer(d) \/ DownloadFails(d)
    PROVE  StoreInv'
<1>0. of[d] \in Attachments /\ (d \notin parts \/ stage[d] = "writing") /\ Dead # d
  BY UnderWay DEF Transfer, DownloadFails
<1>1. /\ UNCHANGED <<row, file, listed, of, current, overlapped>>
      /\ stage[d] \in {"transfer", "writing", "stored"}
      /\ \/ /\ stage' = [stage EXCEPT ![d] = "writing"] /\ parts' = parts \cup {d}
            /\ stage[d] = "transfer"
            /\ \E bytes \in Contents : body' = [body EXCEPT ![d] = bytes]
         \/ /\ stage' = [stage EXCEPT ![d] = "failing"] /\ parts' = parts \ {d}
            /\ body' = body
      /\ faultsLeft' = faultsLeft \/ (faultsLeft > 0 /\ faultsLeft' = faultsLeft - 1)
  BY DEF Transfer, DownloadFails, Unlinked, Goto, Fault
<1>2. TypeOK'
  BY <1>1 DEF StoreInv, TypeOK, Stage
<1>3. (OneDownloadEach /\ ReadyHasDigest /\ ReadyHasItsFile)'
  BY <1>1 DEF StoreInv, OneDownloadEach, ReadyHasDigest, ReadyHasItsFile
<1>4. DownloadsAreNeeded'
  BY <1>1 DEF StoreInv, TypeOK, DownloadsAreNeeded
<1>5. PartsAreOwned'
  BY <1>0, <1>1 DEF StoreInv, TypeOK, PartsAreOwned
<1>6. QED
  BY <1>2, <1>3, <1>4, <1>5 DEF StoreInv

\* os.replace: the file of an attachment that is not ready, or that
\* another download stores too.
LEMMA StoreSteps ==
    ASSUME StoreInv, NEW d \in Tasks, Store(d)
    PROVE  StoreInv'
<1>1. /\ of[d] \in Attachments /\ stage[d] = "writing" /\ body[d] \in Contents
      /\ body[d] # None
      /\ of[d] \notin overlapped => row[of[d]].status # "ready"
  BY UnderWay DEF Store, StoreInv, TypeOK, DownloadsAreNeeded
<1>2. /\ UNCHANGED <<row, listed, of, body, current, overlapped, faultsLeft>>
      /\ file' = [file EXCEPT ![of[d]] = body[d]] /\ parts' = parts \ {d}
      /\ stage' = [stage EXCEPT ![d] = "stored"]
      /\ file \in [Attachments -> Contents \cup {None}] /\ stage \in [Tasks -> Stage]
      /\ of \in [Tasks -> Attachments \cup {None}]
  BY DEF Store, Goto, StoreInv, TypeOK
<1>3. TypeOK'
  BY <1>1, <1>2 DEF StoreInv, TypeOK, Stage
<1>4. (OneDownloadEach /\ ReadyHasDigest)'
  BY <1>2 DEF StoreInv, OneDownloadEach, ReadyHasDigest
<1>5. ReadyHasItsFile'
  BY <1>1, <1>2 DEF StoreInv, ReadyHasItsFile
<1>6. DownloadsAreNeeded'
  <2>1. SUFFICES ASSUME NEW e \in Tasks, e # d
                 PROVE  stage[e] = "stored" => /\ file'[of[e]] # None
                                               /\ of[e] \in overlapped \/ file'[of[e]] = body[e]
    BY <1>1, <1>2 DEF DownloadsAreNeeded, StoreInv
  <2>2. of[e] = of[d] => of[e] \in overlapped
    BY <1>1, <2>1 DEF StoreInv, OneDownloadEach
  <2>3. stage[e] = "stored" => of[e] \in Attachments
    BY UnderWay
  <2>4. QED
    BY <1>1, <1>2, <2>2, <2>3 DEF StoreInv, DownloadsAreNeeded
<1>7. PartsAreOwned'
  BY <1>2 DEF StoreInv, TypeOK, PartsAreOwned
<1>8. QED
  BY <1>3, <1>4, <1>5, <1>6, <1>7 DEF StoreInv

\* A download that ends, and what it may leave in its row.
Ends(d) ==
    /\ stage' = [stage EXCEPT ![d] = "idle"]
    /\ of' = [of EXCEPT ![d] = None]
    /\ body' = [body EXCEPT ![d] = None]
    /\ current' \subseteq current \ {d}
    /\ faultsLeft' \in 0..MaxFaults
    /\ UNCHANGED <<file, parts, listed, overlapped>>

LEMMA EndSteps ==
    ASSUME StoreInv, NEW d \in Tasks, Ends(d), stage[d] # "idle", stage[d] # "writing",
           \/ row' = row
           \/ \E r \in Row : /\ row' = [row EXCEPT ![of[d]] = r]
                             /\ r.status = "ready" =>
                                  /\ r.digest # None /\ file[of[d]] # None
                                  /\ of[d] \in overlapped \/ file[of[d]] = r.digest
    PROVE  StoreInv'
<1>1. /\ of[d] \in Attachments /\ of[d] # None /\ d \notin parts
      /\ \A e \in Tasks : e # d /\ of[e] = of[d] => of[d] \in overlapped
      /\ of \in [Tasks -> Attachments \cup {None}] /\ stage \in [Tasks -> Stage]
      /\ body \in [Tasks -> Contents \cup {None}] /\ row \in [Attachments -> Row]
  BY UnderWay DEF StoreInv, TypeOK, OneDownloadEach
<1>2. TypeOK'
  <2>1. row' \in [Attachments -> Row]
    BY <1>1
  <2>2. current' \subseteq {e \in Tasks : stage'[e] # "idle"}
    BY <1>1 DEF Ends, StoreInv, TypeOK
  <2>3. /\ stage' \in [Tasks -> Stage] /\ of' \in [Tasks -> Attachments \cup {None}]
        /\ body' \in [Tasks -> Contents \cup {None}]
        /\ \A e \in Tasks : stage'[e] = "idle" <=> of'[e] = None
    BY <1>1 DEF Ends, StoreInv, TypeOK, Stage
  <2>4. QED
    BY <2>1, <2>2, <2>3 DEF Ends, StoreInv, TypeOK
<1>3. OneDownloadEach'
  BY <1>1 DEF Ends, StoreInv, OneDownloadEach
<1>4. (ReadyHasDigest /\ ReadyHasItsFile)'
  <2>1. CASE row' = row
    BY <2>1 DEF Ends, StoreInv, ReadyHasDigest, ReadyHasItsFile
  <2>2. ASSUME NEW r \in Row, row' = [row EXCEPT ![of[d]] = r],
               r.status = "ready" => /\ r.digest # None /\ file[of[d]] # None
                                     /\ of[d] \in overlapped \/ file[of[d]] = r.digest
        PROVE  (ReadyHasDigest /\ ReadyHasItsFile)'
    BY <1>1, <2>2 DEF Ends, StoreInv, ReadyHasDigest, ReadyHasItsFile
  <2>3. QED
    BY <2>1, <2>2
<1>5. DownloadsAreNeeded'
  <2>1. SUFFICES ASSUME NEW e \in Tasks, e # d, stage[e] \notin {"idle", "check"},
                        of[e] \notin overlapped
                 PROVE  row'[of[e]].status # "ready"
    BY <1>1 DEF Ends, DownloadsAreNeeded, StoreInv
  <2>2. of[e] # of[d] /\ of[e] \in Attachments
    BY <1>1, <2>1, UnderWay
  <2>3. row'[of[e]] = row[of[e]]
    BY <1>1, <2>2
  <2>4. QED
    BY <2>1, <2>3 DEF StoreInv, DownloadsAreNeeded
<1>6. PartsAreOwned'
  BY <1>1 DEF Ends, StoreInv, TypeOK, PartsAreOwned
<1>7. QED
  BY <1>2, <1>3, <1>4, <1>5, <1>6 DEF StoreInv

\* A download of what is not ready goes on.
LEMMA GoesOnSteps ==
    ASSUME StoreInv, NEW d \in Tasks, Check(d), ~AlreadyReady(of[d])
    PROVE  StoreInv'
<1>1. /\ of[d] \in Attachments /\ d \notin parts /\ row[of[d]].status # "ready"
      /\ stage \in [Tasks -> Stage]
  BY UnderWay DEF Check, AlreadyReady, StoreInv, ReadyHasDigest, TypeOK
<1>2. /\ stage[d] = "check" /\ stage' = [stage EXCEPT ![d] = "transfer"]
      /\ UNCHANGED <<row, file, parts, listed, of, body, current, overlapped, faultsLeft>>
  BY DEF Check, Goto
<1>3. TypeOK'
  BY <1>2 DEF StoreInv, TypeOK, Stage
<1>4. (OneDownloadEach /\ ReadyHasDigest /\ ReadyHasItsFile)'
  BY <1>2 DEF StoreInv, OneDownloadEach, ReadyHasDigest, ReadyHasItsFile
<1>5. DownloadsAreNeeded'
  BY <1>1, <1>2 DEF StoreInv, DownloadsAreNeeded
<1>6. PartsAreOwned'
  BY <1>1, <1>2 DEF StoreInv, TypeOK, PartsAreOwned
<1>7. QED
  BY <1>3, <1>4, <1>5, <1>6 DEF StoreInv

\* Success and failure are recorded in the row of the download.
LEMMA RecordSteps ==
    ASSUME StoreInv, NEW d \in Tasks, CommitReady(d) \/ MarkFailed(d)
    PROVE  StoreInv'
<1>1. /\ stage[d] \in {"stored", "failing"} /\ stage[d] # "idle" /\ stage[d] # "writing"
      /\ Ends(d)
  BY DEF CommitReady, MarkFailed, Return, Goto, Ends, StoreInv, TypeOK
<1>2. row \in [Attachments -> Row] /\ of[d] \in Attachments /\ row[of[d]] \in Row
  BY <1>1, UnderWay DEF StoreInv, TypeOK
<1>3. CASE CommitReady(d)
  <2>1. /\ body[d] \in Contents /\ body[d] # None /\ file[of[d]] # None
        /\ of[d] \in overlapped \/ file[of[d]] = body[d]
    BY <1>3 DEF CommitReady, StoreInv, TypeOK, DownloadsAreNeeded
  <2>2. [status |-> "ready", digest |-> body[d]] \in Row
    BY <2>1 DEF Row, Status
  <2>3. row' = [row EXCEPT ![of[d]] = [status |-> "ready", digest |-> body[d]]]
    BY <1>3 DEF CommitReady, Succeeded
  <2>4. QED
    BY <1>1, <2>1, <2>2, <2>3, EndSteps
<1>4. CASE MarkFailed(d)
  <2>1. [row[of[d]] EXCEPT !.status = "failed"] \in Row
    BY <1>2 DEF Row, Status
  <2>2. row' = [row EXCEPT ![of[d]] = [row[of[d]] EXCEPT !.status = "failed"]]
    BY <1>4 DEF MarkFailed
  <2>3. [row[of[d]] EXCEPT !.status = "failed"].status # "ready"
    BY <1>2 DEF Row
  <2>4. QED
    BY <1>1, <2>1, <2>2, <2>3, EndSteps
<1>5. QED
  BY <1>3, <1>4

\* A download that returns at its check, or raises.
LEMMA LeaveSteps ==
    ASSUME StoreInv, NEW d \in Tasks, (Check(d) /\ AlreadyReady(of[d])) \/ Raise(d)
    PROVE  StoreInv'
<1>1. stage[d] \in {"check", "failing"} /\ row' = row /\ Ends(d)
  BY DEF Check, Raise, Return, Goto, Fault, Ends, StoreInv, TypeOK
<1>2. QED
  BY <1>1, EndSteps

LEMMA CrashSteps == StoreInv /\ Crash => StoreInv'
<1> SUFFICES ASSUME StoreInv, Crash PROVE StoreInv'
  OBVIOUS
<1>1. /\ UNCHANGED <<row, file, listed, overlapped>> /\ parts' \subseteq {Dead}
      /\ stage' = [d \in Tasks |-> "idle"] /\ of' = [d \in Tasks |-> None]
      /\ body' = [d \in Tasks |-> None] /\ current' = {}
      /\ faultsLeft' \in 0..MaxFaults
  BY DEF Crash, Fault, StoreInv, TypeOK
<1>2. TypeOK'
  BY <1>1 DEF StoreInv, TypeOK, Stage
<1>3. QED
  BY <1>1, <1>2 DEF StoreInv, OneDownloadEach, DownloadsAreNeeded, ReadyHasDigest,
     ReadyHasItsFile, PartsAreOwned

LEMMA StoreInvSteps ==
    ASSUME StoreInv, [Next]_vars
    PROVE  StoreInv'
<1>1. CASE UNCHANGED vars
  BY <1>1 DEF vars, downloadVars, StoreInv, TypeOK, OneDownloadEach, DownloadsAreNeeded,
     ReadyHasDigest, ReadyHasItsFile, PartsAreOwned
<1>2. CASE NextRecord
  BY <1>2, HandleRecordSteps DEF NextRecord
<1>3. ASSUME NEW d \in Tasks, Work(d) PROVE StoreInv'
  BY <1>3, GoesOnSteps, LeaveSteps, TransferSteps, StoreSteps, RecordSteps DEF Work
<1>4. CASE Crash
  BY <1>4, CrashSteps
<1>5. QED
  BY <1>1, <1>2, <1>3, <1>4 DEF Next
-----------------------------------------------------------------------------
(* Theorems *)

\* The inductive invariant of rows, files and downloads.
THEOREM StoreInvariance == Spec => []StoreInv
<1>1. Init => StoreInv
  BY InitialStore
<1>2. StoreInv /\ [Next]_vars => StoreInv'
  BY StoreInvSteps
<1>3. QED
  BY <1>1, <1>2, PTL DEF Spec

\* Rows, files and downloads are well formed.
THEOREM StoreTypes == Spec => []TypeOK
<1>1. StoreInv => TypeOK
  BY DEF StoreInv
<1>2. QED
  BY <1>1, StoreInvariance, PTL

\* A row that says ready names a complete file, with the row's sha256 unless
\* downloads of it overlapped (_download_one, download_attachment).
THEOREM ReadyFileSafety == Spec => []ReadyHasItsFile
<1>1. StoreInv => ReadyHasItsFile
  BY DEF StoreInv
<1>2. QED
  BY <1>1, StoreInvariance, PTL

\* Only a write that is under way or a dead process owns a .part file.
THEOREM PartSafety == Spec => []PartsAreOwned
<1>1. StoreInv => PartsAreOwned
  BY DEF StoreInv
<1>2. QED
  BY <1>1, StoreInvariance, PTL

\* Only a record that drops its URL takes away what is ready, unless
\* downloads of it overlapped.
THEOREM ReadyStays == Spec => ReadyIsKept
<1>1. ASSUME StoreInv, [Next]_vars, NEW a \in Attachments \ overlapped',
             row[a].status = "ready", row'[a].status # "ready"
      PROVE  a \notin listed'
  <2>1. CASE UNCHANGED vars \/ Crash
    BY <1>1, <2>1 DEF vars, Crash
  <2>2. ASSUME NEW urls \in SUBSET Attachments, HandleRecord(urls) PROVE a \notin listed'
    <3>1. /\ listed' = urls /\ row[a] \in Row
          /\ row'[a] = [row[a] EXCEPT !.status = StatusAfter(a, urls)]
      BY <1>1, <2>2 DEF HandleRecord, StoreInv, TypeOK
    <3>2. QED
      BY <1>1, <3>1 DEF Row, StatusAfter
  <2>3. ASSUME NEW d \in Tasks, Work(d) PROVE a \notin listed'
    <3>1. CASE ~(CommitReady(d) \/ MarkFailed(d))
      BY <1>1, <2>3, <3>1 DEF Work, Check, Transfer, Store, DownloadFails, Raise
    <3>2. CASE CommitReady(d)
      BY <1>1, <3>2 DEF CommitReady, Succeeded, StoreInv, TypeOK
    <3>3. CASE MarkFailed(d)
      <4>1. of[d] = a
        BY <1>1, <3>3 DEF MarkFailed, StoreInv, TypeOK
      <4>2. a \in overlapped
        BY <1>1, <3>3, <4>1 DEF MarkFailed, StoreInv, DownloadsAreNeeded
      <4>3. QED
        BY <1>1, <3>3, <4>2 DEF MarkFailed, Return
    <3>4. QED
      BY <3>1, <3>2, <3>3
  <2>4. QED
    BY <1>1, <2>1, <2>2, <2>3 DEF Next, NextRecord
<1>2. StoreInv /\ [Next]_vars =>
        [\A a \in Attachments \ overlapped' :
           row[a].status = "ready" /\ row'[a].status # "ready" => a \notin listed']_vars
  BY <1>1
<1>3. QED
  BY <1>2, StoreInvariance, PTL DEF Spec, ReadyIsKept
=============================================================================
