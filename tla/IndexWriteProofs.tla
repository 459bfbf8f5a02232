-------------------------- MODULE IndexWriteProofs --------------------------
(* Proofs about IndexWrite, for any number of indexers, attachments and     *)
(* records: its locks exclude each other, deadlocks need a download and an  *)
(* indexer, and its transactions implement the lifecycle search relies on.  *)
EXTENDS IndexWrite, FiniteSetTheorems, SequenceTheorems, TLAPS

----------------------------------------------------------------------------
(* Numbers and sequences *)

LEMMA MinOfTwo ==
    ASSUME NEW m \in Nat, NEW n \in Nat
    PROVE  Min({m, n}) = IF m <= n THEN m ELSE n
<1> DEFINE least == IF m <= n THEN m ELSE n
<1>1. least \in {m, n} /\ \A y \in {m, n} : least <= y
  OBVIOUS
<1>2. \A x \in {m, n} : (\A y \in {m, n} : x <= y) => x = least
  OBVIOUS
<1> HIDE DEF least
<1>3. (CHOOSE x \in {m, n} : \A y \in {m, n} : x <= y) = least
  BY <1>1, <1>2
<1>4. QED
  BY <1>3 DEF Min, least

LEMMA Concatenated ==
    ASSUME NEW S, NEW m \in Nat, NEW n \in Nat, NEW a \in [1..m -> S], NEW b \in [1..n -> S]
    PROVE  /\ a \o b \in [1..(m + n) -> S]
           /\ \A i \in 1..(m + n) : (a \o b)[i] = IF i <= m THEN a[i] ELSE b[i - m]
<1>1. a \in Seq(S) /\ b \in Seq(S) /\ Len(a) = m /\ Len(b) = n
  BY LenProperties, SeqDef
<1>2. /\ a \o b \in Seq(S) /\ Len(a \o b) = m + n
      /\ \A i \in 1..(m + n) : (a \o b)[i] = IF i <= m THEN a[i] ELSE b[i - m]
  BY <1>1, ConcatProperties
<1>3. QED
  BY <1>2, LenProperties

\* Of the answers of the embedding service only the right one passes the
\* checks of embed.
LEMMA AcceptedIsRight ==
    ASSUME NEW n \in Nat \ {0}, NEW texts, DOMAIN texts = 1..n,
           texts = [i \in 1..n |-> texts[i]],
           NEW answer \in Answers(texts), Accepted(texts, answer)
    PROVE  answer = texts
<1> DEFINE S == {texts[i] : i \in 1..n}
<1>1. texts \in Seq(S) /\ Len(texts) = n
  <2>1. texts \in [1..n -> S]
    OBVIOUS
  <2>2. QED
    BY <2>1, LenProperties, SeqDef
<1>2. answer # Tail(texts)
  <2>1. Len(Tail(texts)) = n - 1
    BY <1>1, HeadTailProperties
  <2>2. QED
    BY <1>1, <2>1 DEF Accepted
<1>3. answer # Append(texts, Last(texts))
  <2>1. Last(texts) \in S
    BY <1>1 DEF Last
  <2>2. Len(Append(texts, Last(texts))) = n + 1
    BY <1>1, <2>1, AppendProperties
  <2>3. QED
    BY <1>1, <2>2 DEF Accepted
<1>4. answer # [texts EXCEPT ![Len(texts)] = WrongSize]
  <2>1. SUFFICES ASSUME answer = [texts EXCEPT ![n] = WrongSize] PROVE FALSE
    BY <1>1
  <2>2. n \in DOMAIN answer /\ answer[n] = WrongSize
    BY <2>1
  <2>3. QED
    BY <2>2 DEF Accepted, Range
<1>5. QED
  BY <1>2, <1>3, <1>4 DEF Answers

----------------------------------------------------------------------------
USE IndexWriteAssumption, IndexBuildAssumption

----------------------------------------------------------------------------
(* Row locks *)

\* Every element of a finite set is once in SetToSeq.
LEMMA SetToSeqType ==
    ASSUME NEW S, IsFiniteSet(S)
    PROVE  /\ Cardinality(S) \in Nat
           /\ SetToSeq(S) \in [1..Cardinality(S) -> S]
<1>1. PICK n \in Nat : ExistsBijection(1..n, S)
  BY FS_NatBijection
<1>2. Cardinality(S) = n
  BY <1>1, FS_CountingElements
<1>3. \E f \in [1..Cardinality(S) -> S] : IsInjective(f)
  BY <1>1, <1>2 DEF ExistsBijection, Bijection, Injection, IsInjective
<1>4. QED
  BY <1>2, <1>3 DEF SetToSeq

\* The locks a session asks for in a new transaction conflict with none.
LEMMA NewTransaction ==
    ASSUME Locks!LocksTypeOK, Locks!LocksExclude, NEW s \in Sessions,
           NEW locks \in Seq(Locks!Lock), Locks!Statements(s, locks)
    PROVE  /\ Locks!LocksTypeOK' /\ Locks!LocksExclude'
           /\ held'[s] = {} /\ asks'[s] = locks
           /\ \A o \in Sessions : o # s => held'[o] = held[o] /\ asks'[o] = asks[o]
<1>1. /\ held' = [held EXCEPT ![s] = {}] /\ asks' = [asks EXCEPT ![s] = locks]
      /\ held \in [Sessions -> SUBSET Locks!Lock] /\ asks \in [Sessions -> Seq(Locks!Lock)]
  BY DEF Locks!Statements, Locks!LocksTypeOK
<1>2. /\ held'[s] = {} /\ asks'[s] = locks
      /\ \A o \in Sessions : o # s => held'[o] = held[o] /\ asks'[o] = asks[o]
  BY <1>1
<1>3. Locks!LocksTypeOK'
  BY <1>1 DEF Locks!LocksTypeOK
<1>4. Locks!LocksExclude'
  BY <1>2 DEF Locks!LocksExclude
<1>5. QED
  BY <1>2, <1>3, <1>4

\* Who gets a lock conflicts with nobody who holds one.
LEMMA LockTaken ==
    ASSUME Locks!LocksTypeOK, Locks!LocksExclude, NEW s \in Sessions, Locks!TakeLock(s)
    PROVE  /\ Locks!LocksTypeOK' /\ Locks!LocksExclude'
           /\ asks[s] # <<>>
           /\ held'[s] = held[s] \cup {Head(asks[s])} /\ asks'[s] = Tail(asks[s])
           /\ \A o \in Sessions : o # s => held'[o] = held[o] /\ asks'[o] = asks[o]
<1>1. /\ held' = [held EXCEPT ![s] = @ \cup {Head(asks[s])}]
      /\ asks' = [asks EXCEPT ![s] = Tail(@)] /\ asks[s] # <<>>
      /\ held \in [Sessions -> SUBSET Locks!Lock] /\ asks \in [Sessions -> Seq(Locks!Lock)]
  BY DEF Locks!TakeLock, Locks!LocksTypeOK
<1>2. /\ held'[s] = held[s] \cup {Head(asks[s])} /\ asks'[s] = Tail(asks[s])
      /\ \A o \in Sessions : o # s => held'[o] = held[o] /\ asks'[o] = asks[o]
  BY <1>1
<1>3. Head(asks[s]) \in Locks!Lock /\ Tail(asks[s]) \in Seq(Locks!Lock)
  BY <1>1
<1>4. Locks!LocksTypeOK'
  BY <1>1, <1>3 DEF Locks!LocksTypeOK
<1>5. \A o \in Sessions : o # s =>
        \A taken \in held[o] : taken.row = Head(asks[s]).row =>
           ~Locks!Conflicts(Head(asks[s]).mode, taken.mode)
  BY <1>1 DEF Locks!TakeLock, Locks!WaitsFor
<1>6. \A mode, other : Locks!Conflicts(mode, other) <=> Locks!Conflicts(other, mode)
  BY DEF Locks!Conflicts
<1>7. Locks!LocksExclude'
  BY <1>2, <1>5, <1>6 DEF Locks!LocksExclude
<1>8. QED
  BY <1>1, <1>2, <1>4, <1>7

----------------------------------------------------------------------------
(* What the statements of a transaction ask for *)

LEMMA HeadOfConcat ==
    ASSUME NEW S, NEW s \in Seq(S), NEW t \in Seq(S), s # <<>>
    PROVE  s \o t \in Seq(S) /\ s \o t # <<>> /\ Head(s \o t) = Head(s)
<1>1. Len(s) \in Nat \ {0} /\ Len(t) \in Nat
  BY EmptySeq, LenProperties
<1>2. /\ s \o t \in Seq(S) /\ Len(s \o t) = Len(s) + Len(t)
      /\ \A i \in 1..Len(s) + Len(t) :
           (s \o t)[i] = IF i <= Len(s) THEN s[i] ELSE t[i - Len(s)]
  BY ConcatProperties
<1>3. 1 \in 1..Len(s) + Len(t) /\ 1 <= Len(s)
  BY <1>1
<1>4. (s \o t)[1] = s[1]
  BY <1>2, <1>3
<1>5. s \o t # <<>>
  BY <1>1, <1>2
<1>6. QED
  BY <1>2, <1>4, <1>5

\* The UPDATEs of some attachments.
LEMMA UpdatesType ==
    ASSUME NEW S \in SUBSET Attachments
    PROVE  [i \in 1..Cardinality(S) |-> Locks!Updates(SetToSeq(S)[i])] \in Seq(StoreLock)
<1>1. /\ Cardinality(S) \in Nat
      /\ SetToSeq(S) \in [1..Cardinality(S) -> S]
  BY SetToSeqType, FS_Subset
<1>2. \A i \in 1..Cardinality(S) : Locks!Updates(SetToSeq(S)[i]) \in StoreLock
  BY <1>1 DEF StoreLock
<1>3. QED
  BY <1>1, <1>2

\* A flush updates and shares rows of this tender, and begins with the
\* tender's UPDATE when its content changes.
LEMMA StoreLocksType ==
    ASSUME NEW seen, NEW files
    PROVE  /\ StoreLocks(seen, files) \in Seq(StoreLock)
           /\ seen.version \notin {None, Record.version} =>
                /\ StoreLocks(seen, files) # <<>>
                /\ Head(StoreLocks(seen, files)) = Locks!Updates(Tender)
<1> DEFINE changed(listed) == {a \in Attachments :
              /\ (a \in Listed[Record.version]) = listed
              /\ files[a] # "absent"
              /\ StoredStatus(a, files[a]) # files[a]}
           updates(set) == [i \in 1..Cardinality(set) |-> Locks!Updates(SetToSeq(set)[i])]
           created == {a \in Attachments : files[a] = "absent"
                                            /\ StoredStatus(a, files[a]) # "absent"}
           first == IF \/ seen.version # Record.version
                       \/ Reopens(seen) /\ (seen.status # "pending" \/ seen.warned # {})
                    THEN <<Locks!Updates(Tender)>> ELSE <<>>
           second == updates(changed(FALSE))
           third == IF created = {} THEN <<>> ELSE <<Locks!KeyShare(Tender)>>
           fourth == updates(changed(TRUE))
<1>1. /\ first \in Seq(StoreLock) /\ third \in Seq(StoreLock)
      /\ seen.version # Record.version => first = <<Locks!Updates(Tender)>>
  <2>1. /\ <<Locks!Updates(Tender)>> \in Seq(StoreLock)
        /\ <<Locks!KeyShare(Tender)>> \in Seq(StoreLock)
        /\ <<>> \in Seq(StoreLock)
    BY DEF StoreLock
  <2>2. first \in {<<Locks!Updates(Tender)>>, <<>>} /\ third \in {<<Locks!KeyShare(Tender)>>, <<>>}
    OBVIOUS
  <2>3. seen.version # Record.version => first = <<Locks!Updates(Tender)>>
    OBVIOUS
  <2> HIDE DEF first, third
  <2>4. QED
    BY <2>1, <2>2, <2>3
<1>2. second \in Seq(StoreLock) /\ fourth \in Seq(StoreLock)
  <2>1. \A listed \in BOOLEAN : changed(listed) \in SUBSET Attachments
    OBVIOUS
  <2>2. \A S \in SUBSET Attachments : updates(S) \in Seq(StoreLock)
    BY UpdatesType
  <2> HIDE DEF changed, updates
  <2>3. QED
    BY <2>1, <2>2
<1>3. StoreLocks(seen, files) = IF seen.version = None THEN <<>>
                                ELSE first \o second \o third \o fourth
  BY DEF StoreLocks
<1> HIDE DEF first, second, third, fourth
<1>4. StoreLocks(seen, files) \in Seq(StoreLock)
  BY <1>1, <1>2, <1>3
<1>5. ASSUME seen.version \notin {None, Record.version}
      PROVE  /\ StoreLocks(seen, files) # <<>>
             /\ Head(StoreLocks(seen, files)) = Locks!Updates(Tender)
  <2>1. StoreLocks(seen, files) = first \o second \o third \o fourth
    BY <1>3, <1>5
  <2>2. first \in Seq(StoreLock) /\ first # <<>> /\ Head(first) = Locks!Updates(Tender)
    BY <1>1, <1>5
  <2>3. /\ first \o second \in Seq(StoreLock) /\ first \o second # <<>>
        /\ Head(first \o second) = Head(first)
    BY <1>2, <2>2, HeadOfConcat
  <2>4. /\ first \o second \o third \in Seq(StoreLock) /\ first \o second \o third # <<>>
        /\ Head(first \o second \o third) = Head(first)
    BY <1>1, <2>3, HeadOfConcat
  <2>5. QED
    BY <1>2, <2>1, <2>2, <2>4, HeadOfConcat
<1>6. QED
  BY <1>4, <1>5

\* The INSERTs of chunks share rows of attachments.
LEMMA ChunkLocksType ==
    ASSUME NEW w \in Indexers
    PROVE  ChunkLocks(w) \in Seq(FileShare)
<1> DEFINE owned == {a \in Attachments :
                        \E i \in DOMAIN job[w].drafts : job[w].drafts[i].attachment = a}
<1>1. IsFiniteSet(owned)
  BY FS_Subset
<1>2. /\ Cardinality(owned) \in Nat
      /\ SetToSeq(owned) \in [1..Cardinality(owned) -> owned]
  BY <1>1, SetToSeqType
<1>3. ChunkLocks(w) = [i \in DOMAIN SetToSeq(owned) |-> Locks!KeyShare(SetToSeq(owned)[i])]
  BY DEF ChunkLocks, InOrder
<1>4. \A a \in owned : Locks!KeyShare(a) \in FileShare
  BY DEF FileShare
<1> HIDE DEF owned
<1>5. QED
  BY <1>2, <1>3, <1>4

----------------------------------------------------------------------------
(* Frames *)

\* Sessions are what their process is, and its locks are locks.
LEMMA SessionTypes ==
    /\ \A a \in Attachments : a \in Sessions /\ a # Ingest /\ a \notin Indexers
    /\ \A w \in Indexers : w \in Sessions /\ w # Ingest /\ w \notin Attachments
    /\ Ingest \in Sessions
    /\ StoreLock \subseteq Locks!Lock /\ FileShare \subseteq Locks!Lock
    /\ \A r \in Attachments \cup {Tender} : Locks!ForUpdate(r) \in Locks!Lock
<1>1. /\ \A a \in Attachments : a \in Sessions /\ a # Ingest /\ a \notin Indexers
      /\ \A w \in Indexers : w \in Sessions /\ w # Ingest /\ w \notin Attachments
      /\ Ingest \in Sessions
  BY DEF Sessions
<1>2. \A r \in Attachments \cup {Tender} :
        /\ Locks!KeyShare(r) \in Locks!Lock /\ Locks!Updates(r) \in Locks!Lock
        /\ Locks!ForUpdate(r) \in Locks!Lock
  BY DEF Locks!Lock, Locks!Modes, Locks!KeyShare, Locks!Updates, Locks!ForUpdate
<1>3. StoreLock \subseteq Locks!Lock /\ FileShare \subseteq Locks!Lock
  BY <1>2 DEF StoreLock, FileShare
<1>4. QED
  BY <1>1, <1>2, <1>3

\* Who locked a row FOR UPDATE is alone with it.
LEMMA UpdateExcludes ==
    ASSUME Locks!LocksExclude, NEW s \in Sessions, NEW o \in Sessions, s # o,
           NEW r, Locks!ForUpdate(r) \in held[s], NEW taken \in held[o]
    PROVE  taken.row # r
<1>1. PICK lock : lock = Locks!ForUpdate(r)
  OBVIOUS
<1>2. lock \in held[s] /\ lock.row = r /\ lock.mode = "update"
  BY <1>1 DEF Locks!ForUpdate
<1>3. Locks!Conflicts(lock.mode, taken.mode)
  BY <1>2 DEF Locks!Conflicts
<1>4. QED
  BY <1>2, <1>3 DEF Locks!LocksExclude

\* The transactions of the other sessions go on unchanged.
OthersKeep(s) == \A o \in Sessions : o # s => held'[o] = held[o] /\ asks'[o] = asks[o]

LEMMA OwnTransaction ==
    ASSUME LocksInv, NEW s \in Sessions,
           \/ UNCHANGED <<held, asks>>
           \/ \E locks \in Seq(Locks!Lock) : Locks!Statements(s, locks)
    PROVE  Locks!LocksTypeOK' /\ Locks!LocksExclude' /\ OthersKeep(s)
<1>1. CASE UNCHANGED <<held, asks>>
  BY <1>1 DEF LocksInv, Locks!LocksTypeOK, Locks!LocksExclude, OthersKeep
<1>2. CASE \E locks \in Seq(Locks!Lock) : Locks!Statements(s, locks)
  BY <1>2, NewTransaction DEF LocksInv, OthersKeep
<1>3. QED
  BY <1>1, <1>2

LEMMA OthersHold ==
    ASSUME LocksInv, NEW s \in Sessions, OthersKeep(s)
    PROVE  /\ s # Ingest /\ visit'.stage = visit.stage => IngestHolds'
           /\ \A a \in Attachments : a # s /\ load'[a] = load[a] => DownloadHolds(a)'
           /\ \A w \in Indexers : w # s /\ pc'[w] = pc[w] => IndexerHolds(w)'
<1>1. s # Ingest /\ visit'.stage = visit.stage => IngestHolds'
  BY SessionTypes DEF LocksInv, OthersKeep, IngestHolds, Released
<1>2. ASSUME NEW a \in Attachments, a # s, load'[a] = load[a] PROVE DownloadHolds(a)'
  <2>1. DownloadHolds(a) /\ held'[a] = held[a] /\ asks'[a] = asks[a]
    BY <1>2, SessionTypes DEF LocksInv, OthersKeep
  <2>2. QED
    BY <1>2, <2>1 DEF DownloadHolds, Released
<1>3. ASSUME NEW w \in Indexers, w # s, pc'[w] = pc[w] PROVE IndexerHolds(w)'
  <2>1. IndexerHolds(w) /\ held'[w] = held[w] /\ asks'[w] = asks[w]
    BY <1>3, SessionTypes DEF LocksInv, OthersKeep
  <2>2. QED
    BY <1>3, <2>1 DEF IndexerHolds, Released
<1>4. QED
  BY <1>1, <1>2, <1>3

----------------------------------------------------------------------------
(* Downloads *)

\* Each step of a download takes only its own locks.
LEMMA DownloadLocked ==
    ASSUME WriteInv, NEW a \in Attachments, DownloadStep(a)
    PROVE  /\ Locks!LocksTypeOK' /\ Locks!LocksExclude' /\ OthersKeep(a)
           /\ DownloadHolds(a)'
<1>1. /\ LocksInv /\ a \in Sessions /\ DownloadHolds(a)
      /\ load \in [Attachments -> {"none", "check", "transfer", "store", "fail", "done"}]
      /\ held \in [Sessions -> SUBSET Locks!Lock] /\ asks \in [Sessions -> Seq(Locks!Lock)]
  BY SessionTypes DEF WriteInv, ProcessesTypeOK, LocksInv, Locks!LocksTypeOK
<1>2. /\ <<>> \in Seq(Locks!Lock) /\ <<Locks!ForUpdate(a)>> \in Seq(Locks!Lock)
      /\ <<Locks!ForUpdate(a), Locks!ForUpdate(Tender)>> \in Seq(Locks!Lock)
  BY SessionTypes
<1>3. CASE CheckFile(a)
  <2>1. UNCHANGED <<held, asks>> /\ load[a] = "check" /\ load'[a] \in {"done", "transfer"}
    BY <1>1, <1>3 DEF CheckFile, Step
  <2>2. DownloadHolds(a)'
    BY <1>1, <2>1 DEF DownloadHolds, Released
  <2>3. QED
    BY <1>1, <2>1, <2>2, OwnTransaction
<1>4. CASE /\ Step(a, "store")
           /\ Locks!Statements(a, DownloadLocks(a))
  <2>1. Locks!Statements(a, <<Locks!ForUpdate(a), Locks!ForUpdate(Tender)>>)
    BY <1>4 DEF DownloadLocks
  <2>2. /\ load'[a] = "store" /\ held'[a] = {}
        /\ asks'[a] = <<Locks!ForUpdate(a), Locks!ForUpdate(Tender)>>
    BY <1>1, <1>4, <2>1 DEF Step, Locks!Statements
  <2>3. DownloadHolds(a)'
    BY <2>2 DEF DownloadHolds
  <2>4. QED
    BY <1>1, <1>2, <2>1, <2>3, OwnTransaction
<1>5. CASE Fails(a)
  <2>1. /\ Locks!Statements(a, <<Locks!ForUpdate(a)>>) /\ load'[a] = "fail"
        /\ held'[a] = {} /\ asks'[a] = <<Locks!ForUpdate(a)>>
    BY <1>1, <1>5 DEF Fails, Step, Locks!Statements
  <2>2. DownloadHolds(a)'
    BY <2>1 DEF DownloadHolds
  <2>3. QED
    BY <1>1, <1>2, <2>1, <2>2, OwnTransaction
<1>6. CASE StoreFile(a) \/ MarkFileFailed(a)
  <2>1. /\ Locks!Statements(a, <<>>) /\ load'[a] = "done"
        /\ held'[a] = {} /\ asks'[a] = <<>>
    BY <1>1, <1>6 DEF StoreFile, MarkFileFailed, Step, Locks!Ends, Locks!Statements
  <2>2. DownloadHolds(a)'
    BY <2>1 DEF DownloadHolds, Released
  <2>3. QED
    BY <1>1, <1>2, <2>1, <2>2, OwnTransaction
<1>7. QED
  BY <1>3, <1>4, <1>5, <1>6 DEF DownloadStep, Transfer, StoreFileDeadlocks

\* A download keeps the content, the record and the indexers' jobs.
LEMMA DownloadFrame ==
    ASSUME WriteInv, NEW a \in Attachments, DownloadStep(a)
    PROVE  /\ UNCHANGED <<coming, visit, pc, job>>
           /\ row' \in Row /\ row'.version = row.version /\ row'.indexed = row.indexed
           /\ row'.status = "ready" => row.status = "ready"
           /\ load[a] # "none" /\ ProcessesTypeOK'
           /\ \A b \in Attachments : b # a => load'[b] = load[b]
<1>1. /\ ProcessesTypeOK /\ row \in Row /\ faultsLeft \in 0..MaxFaults /\ MaxFaults \in Nat
      /\ load \in [Attachments -> {"none", "check", "transfer", "store", "fail", "done"}]
      /\ file \in [Attachments -> FileStatus]
  BY DEF WriteInv, ProcessesTypeOK
<1>2. UNCHANGED <<coming, visit, pc, job>>
  BY DEF DownloadStep, CheckFile, Transfer, StoreFile, StoreFileDeadlocks, MarkFileFailed,
         buildVars
<1>3. /\ row' \in Row /\ row'.version = row.version /\ row'.indexed = row.indexed
      /\ row'.status = "ready" => row.status = "ready"
  BY <1>1 DEF DownloadStep, CheckFile, Transfer, StoreFile, StoreFileDeadlocks, MarkFileFailed,
         catalogVars, Row
<1>4. /\ load[a] # "none"
      /\ \E stage \in {"check", "transfer", "store", "fail", "done"} : Step(a, stage)
  BY DEF DownloadStep, CheckFile, Transfer, StoreFile, StoreFileDeadlocks, MarkFileFailed, Fails
<1>5. file' = file \/ \E status \in FileStatus : file' = [file EXCEPT ![a] = status]
  BY DEF DownloadStep, CheckFile, Transfer, StoreFile, StoreFileDeadlocks, MarkFileFailed,
         catalogVars, FileStatus
<1>6. faultsLeft' \in 0..MaxFaults
  BY <1>1 DEF DownloadStep, CheckFile, Transfer, StoreFile, StoreFileDeadlocks, MarkFileFailed,
         Fault
<1>7. /\ load' \in [Attachments -> {"none", "check", "transfer", "store", "fail", "done"}]
      /\ file' \in [Attachments -> FileStatus]
      /\ \A b \in Attachments : b # a => load'[b] = load[b]
  BY <1>1, <1>4, <1>5 DEF Step
<1>8. ProcessesTypeOK'
  BY <1>1, <1>2, <1>3, <1>6, <1>7 DEF ProcessesTypeOK
<1>9. QED
  BY <1>2, <1>3, <1>4, <1>7, <1>8

LEMMA DownloadKeepsInv ==
    ASSUME WriteInv, NEW a \in Attachments, DownloadStep(a)
    PROVE  WriteInv'
<1>1. /\ LocksInv /\ VisitInv /\ BuildInv /\ a \in Sessions
      /\ OthersKeep(a) /\ Locks!LocksTypeOK' /\ Locks!LocksExclude' /\ DownloadHolds(a)'
  BY SessionTypes, DownloadLocked DEF WriteInv
<1>2. /\ UNCHANGED <<coming, visit, pc, job>>
      /\ row'.version = row.version /\ load[a] # "none" /\ ProcessesTypeOK'
      /\ \A b \in Attachments : b # a => load'[b] = load[b]
  BY DownloadFrame
<1>3. /\ IngestHolds' /\ \A w \in Indexers : IndexerHolds(w)'
      /\ \A b \in Attachments : b # a => DownloadHolds(b)'
  BY <1>1, <1>2, OthersHold, SessionTypes
<1>4. LocksInv'
  BY <1>1, <1>3 DEF LocksInv
<1>5. VisitInv'
  BY <1>1, <1>2, SessionTypes DEF VisitInv
<1>6. BuildInv'
  BY <1>1, <1>2 DEF BuildInv, IsJob
<1>7. QED
  BY <1>2, <1>4, <1>5, <1>6 DEF WriteInv

----------------------------------------------------------------------------
(* Indexers *)

\* Each step of an indexer takes only its own locks, and the final
\* transaction has the tender's before it inserts.
LEMMA IndexerLocked ==
    ASSUME WriteInv, NEW w \in Indexers, IndexerStep(w) \/ Build(w) \/ IndexerInterrupted(w)
    PROVE  /\ Locks!LocksTypeOK' /\ Locks!LocksExclude' /\ OthersKeep(w)
           /\ IndexerHolds(w)'
<1>1. /\ LocksInv /\ w \in Sessions /\ IndexerHolds(w) /\ DOMAIN pc = Indexers
      /\ held \in [Sessions -> SUBSET Locks!Lock] /\ asks \in [Sessions -> Seq(Locks!Lock)]
  BY SessionTypes DEF WriteInv, ProcessesTypeOK, LocksInv, Locks!LocksTypeOK
<1>2. /\ <<>> \in Seq(Locks!Lock)
      /\ <<Locks!ForUpdate(Tender)>> \in Seq(Locks!Lock)
      /\ TenderLock = <<Locks!ForUpdate(Tender)>>
  BY SessionTypes DEF TenderLock
<1>3. ASSUME Locks!Statements(w, <<>>), pc'[w] \in {"idle", "extract"}
      PROVE  /\ Locks!LocksTypeOK' /\ Locks!LocksExclude' /\ OthersKeep(w)
             /\ IndexerHolds(w)'
  <2>1. held'[w] = {} /\ asks'[w] = <<>>
    BY <1>1, <1>3 DEF Locks!Statements
  <2>2. IndexerHolds(w)'
    BY <1>3, <2>1 DEF IndexerHolds, Released
  <2>3. QED
    BY <1>1, <1>2, <1>3, <2>2, OwnTransaction
<1>4. ASSUME Locks!Statements(w, TenderLock), pc'[w] \in {"claim", "write", "fail"}
      PROVE  /\ Locks!LocksTypeOK' /\ Locks!LocksExclude' /\ OthersKeep(w)
             /\ IndexerHolds(w)'
  <2>1. held'[w] = {} /\ asks'[w] = <<Locks!ForUpdate(Tender)>>
    BY <1>1, <1>2, <1>4 DEF Locks!Statements
  <2>2. IndexerHolds(w)'
    BY <1>4, <2>1 DEF IndexerHolds
  <2>3. QED
    BY <1>1, <1>2, <1>4, <2>2, OwnTransaction
<1>5. ASSUME UNCHANGED <<held, asks>>, pc[w] \in {"extract", "embed"}, pc'[w] = "embed"
      PROVE  /\ Locks!LocksTypeOK' /\ Locks!LocksExclude' /\ OthersKeep(w)
             /\ IndexerHolds(w)'
  <2>1. IndexerHolds(w)'
    BY <1>1, <1>5 DEF IndexerHolds, Released
  <2>2. QED
    BY <1>1, <1>5, <2>1, OwnTransaction
<1>6. CASE Insert(w) /\ ~Stale(w)
  <2>1. /\ held' = held /\ asks' = [asks EXCEPT ![w] = ChunkLocks(w)]
        /\ pc[w] = "write" /\ asks[w] = <<>> /\ pc'[w] = "insert"
    BY <1>1, <1>6 DEF Insert, Goto, Locks!HasItsLocks
  <2>2. ChunkLocks(w) \in Seq(FileShare) /\ ChunkLocks(w) \in Seq(Locks!Lock)
    BY ChunkLocksType, SeqMonotonic, SessionTypes
  <2>3. held'[w] = {Locks!ForUpdate(Tender)} /\ asks'[w] \in Seq(FileShare)
    BY <1>1, <2>1, <2>2 DEF IndexerHolds
  <2>4. IndexerHolds(w)'
    BY <2>1, <2>3 DEF IndexerHolds
  <2>5. Locks!LocksTypeOK' /\ Locks!LocksExclude' /\ OthersKeep(w)
    BY <1>1, <2>1, <2>2 DEF LocksInv, Locks!LocksTypeOK, Locks!LocksExclude, OthersKeep
  <2>6. QED
    BY <2>4, <2>5
<1>7. CASE \/ LoadTender(w) \/ CommitFails(w) \/ Embedded(w)
           \/ Embed(w) /\ FailsWith(w)
  <2>1. Locks!Statements(w, TenderLock) /\ pc'[w] \in {"claim", "write", "fail"}
    BY <1>1, <1>7 DEF LoadTender, CommitFails, Embedded, FailsWith, Goto
  <2>2. QED
    BY <1>4, <2>1
<1>8. CASE \/ Claim(w) \/ Commit(w) \/ MarkFailed(w) \/ IndexerInterrupted(w)
           \/ Insert(w) /\ Stale(w)
  <2>1. Locks!Statements(w, <<>>) /\ pc'[w] \in {"idle", "extract"}
    BY <1>1, <1>8 DEF Claim, Insert, Commit, MarkFailed, IndexerInterrupted, Returns, Goto, Locks!Ends
  <2>2. QED
    BY <1>3, <2>1
<1>9. CASE Build(w) \/ (Embed(w) /\ ~FailsWith(w))
  <2>1. Build(w) => UNCHANGED <<held, asks>> /\ pc[w] = "extract" /\ pc'[w] = "embed"
    BY <1>1 DEF Build, Extract, Goto
  <2>2. ASSUME Embed(w), ~FailsWith(w)
        PROVE  UNCHANGED <<held, asks>> /\ pc[w] = "embed" /\ pc' = pc
    BY <2>2 DEF Embed, EmbedBatch
  <2>3. UNCHANGED <<held, asks>> /\ pc[w] \in {"extract", "embed"} /\ pc'[w] = "embed"
    BY <1>9, <2>1, <2>2
  <2>4. QED
    BY <1>5, <2>3
<1>10. CASE Embed(w)
  <2>1. CASE FailsWith(w)
    BY <1>7, <1>10, <2>1
  <2>2. CASE ~FailsWith(w)
    BY <1>9, <1>10, <2>2
  <2>3. QED
    BY <2>1, <2>2
<1>11. QED
  BY <1>6, <1>7, <1>8, <1>9, <1>10 DEF IndexerStep

\* An indexer keeps the content, the files and the record at hand.
LEMMA IndexerFrame ==
    ASSUME WriteInv, NEW w \in Indexers, IndexerStep(w) \/ Build(w) \/ IndexerInterrupted(w)
    PROVE  /\ UNCHANGED <<coming, visit, load, file>>
           /\ \A v \in Indexers : v # w => pc'[v] = pc[v] /\ job'[v] = job[v]
           /\ DOMAIN job' = Indexers /\ faultsLeft' \in 0..MaxFaults
           /\ pc' \in [Indexers -> {"idle", "claim", "extract", "embed", "write", "insert", "fail"}]
<1>1. /\ pc \in [Indexers -> {"idle", "claim", "extract", "embed", "write", "insert", "fail"}]
      /\ DOMAIN job = Indexers /\ faultsLeft \in 0..MaxFaults /\ MaxFaults \in Nat
  BY DEF WriteInv, ProcessesTypeOK, BuildInv
<1>2. UNCHANGED <<coming, visit, load, file>>
  BY DEF IndexerStep, LoadTender, Claim, Embed, Embedded, Insert, Commit, CommitFails,
         MarkFailed, IndexerInterrupted, Build, catalogVars, ingestVars
<1>3. \/ pc' = pc
      \/ \E label \in {"idle", "claim", "extract", "embed", "write", "insert", "fail"} : Goto(w, label)
  BY DEF IndexerStep, LoadTender, Claim, Embed, EmbedBatch, Embedded, Insert, Commit, CommitFails,
         MarkFailed, IndexerInterrupted, Build, Extract, Returns, FailsWith
<1>4. job' = job \/ \E j : job' = [job EXCEPT ![w] = j]
  BY DEF IndexerStep, LoadTender, Claim, Embed, EmbedBatch, Embedded, Insert, Commit, CommitFails,
         MarkFailed, IndexerInterrupted, Build, Extract, Returns, FailsWith
<1>5. faultsLeft' = faultsLeft \/ Fault
  BY DEF IndexerStep, LoadTender, Claim, Embed, Embedded, Insert, Commit, CommitFails,
         MarkFailed, IndexerInterrupted, Build
<1>6. faultsLeft' \in 0..MaxFaults
  BY <1>1, <1>5 DEF Fault
<1>7. /\ pc' \in [Indexers -> {"idle", "claim", "extract", "embed", "write", "insert", "fail"}]
      /\ \A v \in Indexers : v # w => pc'[v] = pc[v]
  BY <1>1, <1>3 DEF Goto
<1>8. DOMAIN job' = Indexers /\ \A v \in Indexers : v # w => job'[v] = job[v]
  BY <1>1, <1>4
<1>9. QED
  BY <1>2, <1>6, <1>7, <1>8

\* With the row locked the index is replaced by one of the row's content.
LEMMA CommitWrites ==
    ASSUME WriteInv, NEW w \in Indexers, Commit(w)
    PROVE  /\ row.version \in Versions /\ row' \in Row
           /\ row'.version = row.version /\ row'.indexed = row.version
           /\ row'.status = "ready"
<1>1. /\ row \in Row /\ job[w].version \in Versions /\ row.version = job[w].version
      /\ job[w].warnings \subseteq Attachments
  BY DEF WriteInv, ProcessesTypeOK, BuildInv, Commit
<1>2. row' = [row EXCEPT !.indexed = job[w].version, !.status = "ready",
                         !.warned = job[w].warnings]
  BY DEF Commit
<1>3. QED
  BY <1>1, <1>2 DEF Row

\* Every other step of an indexer keeps the index, and makes nothing ready.
LEMMA IndexerRow ==
    ASSUME WriteInv, NEW w \in Indexers, ~Commit(w),
           IndexerStep(w) \/ Build(w) \/ IndexerInterrupted(w)
    PROVE  /\ row' \in Row /\ row'.version = row.version /\ row'.indexed = row.indexed
           /\ row'.status = "ready" => row.status = "ready"
<1>1. row \in Row
  BY DEF WriteInv, ProcessesTypeOK
<1>2. \/ row' = row
      \/ row' = [row EXCEPT !.status = "processing", !.warned = {}]
      \/ row' = [row EXCEPT !.status = "failed"]
  BY DEF IndexerStep, LoadTender, Claim, Embed, Embedded, Insert, CommitFails,
         MarkFailed, IndexerInterrupted, Build, catalogVars
<1>3. CASE row' = row
  BY <1>1, <1>3
<1>4. CASE row' = [row EXCEPT !.status = "processing", !.warned = {}]
  BY <1>1, <1>4 DEF Row
<1>5. CASE row' = [row EXCEPT !.status = "failed"]
  BY <1>1, <1>5 DEF Row
<1>6. QED
  BY <1>2, <1>3, <1>4, <1>5

\* The job at hand after a step.
LEMMA IndexerJob ==
    ASSUME WriteInv, NEW w \in Indexers, IndexerStep(w) \/ Build(w) \/ IndexerInterrupted(w)
    PROVE  /\ IsJob(job'[w])
           /\ job'[w].files \subseteq Attachments /\ job'[w].warnings \subseteq Attachments
           /\ pc'[w] # "idle" => job'[w].version \in Versions
           /\ pc'[w] = "insert" => row.version = job'[w].version
<1> DEFINE Good(j) ==
        /\ IsJob(j) /\ j.files \subseteq Attachments /\ j.warnings \subseteq Attachments
        /\ pc'[w] # "idle" => j.version \in Versions
        /\ pc'[w] = "insert" => row.version = j.version
<1>1. /\ row \in Row /\ DOMAIN job = Indexers /\ DOMAIN pc = Indexers
      /\ IsJob(job[w]) /\ job[w].files \subseteq Attachments
      /\ job[w].warnings \subseteq Attachments
      /\ pc[w] # "idle" => job[w].version \in Versions
      /\ pc[w] = "insert" => row.version = job[w].version
  BY DEF WriteInv, ProcessesTypeOK, BuildInv
<1>2. CASE LoadTender(w)
  <2>1. PICK v, fs, n : /\ v = row.version /\ fs = {a \in Attachments : file[a] = "ready"}
                        /\ n = [NoJob EXCEPT !.version = v, !.files = fs]
    OBVIOUS
  <2>2. /\ job'[w] = n /\ pc'[w] = "claim" /\ row.version \in Versions
    BY <1>1, <1>2, <2>1 DEF LoadTender, Goto, Row
  <2>3. IsJob(n) /\ n.version = v /\ n.warnings = {} /\ n.files = fs
    BY <2>1 DEF IsJob, NoJob
  <2>4. QED
    BY <2>1, <2>2, <2>3
<1>3. CASE Returns(w)
  <2>1. job'[w] = NoJob /\ pc'[w] = "idle"
    BY <1>1, <1>3 DEF Returns, Goto
  <2>2. QED
    BY <2>1 DEF IsJob, NoJob
<1>4. ASSUME FailsWith(w), pc[w] # "idle" PROVE Good(job'[w])
  <2>1. PICK v, n : v = job[w].version /\ n = [NoJob EXCEPT !.version = v]
    OBVIOUS
  <2>2. job'[w] = n /\ pc'[w] = "fail"
    BY <1>1, <1>4, <2>1 DEF FailsWith, Goto
  <2>3. IsJob(n) /\ n.version = v /\ n.warnings = {} /\ n.files = {}
    BY <2>1 DEF IsJob, NoJob
  <2>4. QED
    BY <1>1, <1>4, <2>1, <2>2, <2>3
<1>5. CASE Build(w)
  <2>1. PICK disk :
          job' = [job EXCEPT
            ![w].drafts = Drafts[job[w].version][Readable(job[w].files, disk)],
            ![w].warnings = Warnings(job[w].files, disk)]
    BY <1>5 DEF Build, Extract
  <2>2. PICK x, y, j, n : /\ x = Drafts[job[w].version][Readable(job[w].files, disk)]
                          /\ y = Warnings(job[w].files, disk)
                          /\ j = job[w] /\ n = [j EXCEPT !.drafts = x, !.warnings = y]
    OBVIOUS
  <2>3. job'[w] = n
    BY <1>1, <2>1, <2>2
  <2>4. IsJob(j)
    BY <1>1, <2>2
  <2>5. IsJob(n) /\ n.version = j.version /\ n.files = j.files /\ n.warnings = y
    BY <2>2, <2>4 DEF IsJob
  <2>6. y \subseteq job[w].files
    BY <2>2 DEF Warnings
  <2>7. pc[w] = "extract" /\ pc'[w] = "embed"
    BY <1>1, <1>5 DEF Build, Extract, Goto
  <2>8. QED
    BY <1>1, <2>2, <2>3, <2>5, <2>6, <2>7
<1>6. CASE Embed(w) /\ ~FailsWith(w)
  <2>1. PICK answer : EmbedBatch(w, answer)
    BY <1>6 DEF Embed
  <2>2. PICK j, x, y, n :
          /\ j = job[w] /\ x = j.vectors \o answer /\ y = j.start + BatchSize
          /\ n = [j EXCEPT !.vectors = x, !.start = y]
    OBVIOUS
  <2>3. job'[w] = n /\ pc[w] = "embed" /\ pc' = pc
    BY <1>1, <2>1, <2>2 DEF EmbedBatch
  <2>4. IsJob(j)
    BY <1>1, <2>2
  <2>5. IsJob(n) /\ n.version = j.version /\ n.files = j.files /\ n.warnings = j.warnings
    BY <2>2, <2>4 DEF IsJob
  <2>6. QED
    BY <1>1, <2>2, <2>3, <2>5
<1>7. ASSUME job' = job, pc[w] # "idle", pc'[w] = "insert" => ~Stale(w) PROVE Good(job'[w])
  BY <1>1, <1>7 DEF Stale
<1>8. CASE Claim(w) \/ Embedded(w) \/ Insert(w)
  <2>1. pc[w] # "idle"
    BY <1>8 DEF Claim, Embedded, Insert
  <2>2. CASE Returns(w) \/ FailsWith(w)
    BY <1>3, <1>4, <2>1, <2>2
  <2>3. CASE ~(Returns(w) \/ FailsWith(w))
    <3>1. job' = job /\ (pc'[w] = "insert" => ~Stale(w))
      BY <1>1, <1>8, <2>3 DEF Claim, Embedded, Insert, Goto
    <3>2. QED
      BY <1>7, <2>1, <3>1
  <2>4. QED
    BY <2>2, <2>3
<1>9. CASE Commit(w) \/ MarkFailed(w) \/ IndexerInterrupted(w)
  BY <1>3, <1>9 DEF Commit, MarkFailed, IndexerInterrupted
<1>10. CASE CommitFails(w) \/ (Embed(w) /\ FailsWith(w))
  BY <1>4, <1>10 DEF CommitFails, Embed
<1>11. CASE Embed(w)
  <2>1. CASE FailsWith(w)
    BY <1>10, <1>11, <2>1
  <2>2. CASE ~FailsWith(w)
    BY <1>6, <1>11, <2>2
  <2>3. QED
    BY <2>1, <2>2
<1>12. QED
  BY <1>2, <1>5, <1>8, <1>9, <1>10, <1>11 DEF IndexerStep

LEMMA IndexerKeepsInv ==
    ASSUME WriteInv, NEW w \in Indexers, IndexerStep(w) \/ Build(w) \/ IndexerInterrupted(w)
    PROVE  WriteInv'
<1>1. /\ LocksInv /\ VisitInv /\ BuildInv /\ ProcessesTypeOK /\ w \in Sessions
      /\ OthersKeep(w) /\ Locks!LocksTypeOK' /\ Locks!LocksExclude' /\ IndexerHolds(w)'
  BY SessionTypes, IndexerLocked DEF WriteInv
<1>2. /\ UNCHANGED <<coming, visit, load, file>>
      /\ \A v \in Indexers : v # w => pc'[v] = pc[v] /\ job'[v] = job[v]
      /\ DOMAIN job' = Indexers /\ faultsLeft' \in 0..MaxFaults
      /\ pc' \in [Indexers -> {"idle", "claim", "extract", "embed", "write", "insert", "fail"}]
  BY IndexerFrame
<1>3. row' \in Row /\ row'.version = row.version
  BY CommitWrites, IndexerRow
<1>4. ProcessesTypeOK'
  BY <1>1, <1>2, <1>3 DEF ProcessesTypeOK
<1>5. /\ IngestHolds' /\ \A a \in Attachments : DownloadHolds(a)'
      /\ \A v \in Indexers : v # w => IndexerHolds(v)'
  BY <1>1, <1>2, OthersHold, SessionTypes
<1>6. LocksInv'
  BY <1>1, <1>5 DEF LocksInv
<1>7. VisitInv'
  BY <1>1, <1>2, <1>3, SessionTypes DEF VisitInv, Record, OthersKeep
<1>8. BuildInv'
  BY <1>1, <1>2, <1>3, IndexerJob DEF BuildInv
<1>9. QED
  BY <1>4, <1>6, <1>7, <1>8 DEF WriteInv

----------------------------------------------------------------------------
(* Storing records *)

\* What may be assigned to the tender and to a file.
LEMMA StoredRow ==
    ASSUME WriteInv, StoreRecord
    PROVE  /\ row' \in Row /\ row'.indexed = row.indexed
           /\ row'.status = "ready" => row.status = "ready"
           /\ row'.version = row.version \/ row'.version = Record.version
           /\ Record.version \in Versions
           /\ file' \in [Attachments -> FileStatus]
<1>1. /\ row \in Row /\ visit.row \in Row /\ visit.file \in [Attachments -> FileStatus]
      /\ file \in [Attachments -> FileStatus]
      /\ coming \in Seq([by : {"crawler", "demo"}, version : Versions]) /\ coming # <<>>
  BY DEF WriteInv, ProcessesTypeOK, VisitInv, StoreRecord
<1>2. Record \in [by : {"crawler", "demo"}, version : Versions]
  BY <1>1, HeadTailProperties DEF Record
<1>3. Record.version \in Versions
  BY <1>2
<1>4. PICK status, warned :
        /\ status = Emitted(row.status, visit.row.status, "pending")
        /\ warned = Emitted(row.warned, visit.row.warned, {})
  OBVIOUS
<1>5. status \in {row.status, "pending"} /\ warned \in {row.warned, {}}
  BY <1>4 DEF Emitted
<1>6. row' = row \/ row' = [row EXCEPT !.version = Record.version, !.status = status,
                                       !.warned = warned]
  BY <1>4 DEF StoreRecord
<1>7. /\ row' \in Row /\ row'.indexed = row.indexed
      /\ row'.status = "ready" => row.status = "ready"
      /\ row'.version = row.version \/ row'.version = Record.version
  <2> DEFINE n == [row EXCEPT !.version = Record.version, !.status = status,
                              !.warned = warned]
  <2>1. /\ n \in Row /\ n.indexed = row.indexed
        /\ n.status = status /\ n.version = Record.version
    BY <1>1, <1>3, <1>5 DEF Row
  <2>2. row' = row \/ row' = n
    BY <1>6
  <2> HIDE DEF n
  <2>3. QED
    BY <1>1, <1>5, <2>1, <2>2
<1>8. ASSUME NEW a \in Attachments
      PROVE  Emitted(file[a], visit.file[a], StoredStatus(a, visit.file[a])) \in FileStatus
  <2>1. visit.file[a] \in FileStatus /\ file[a] \in FileStatus
    BY <1>1
  <2>2. StoredStatus(a, visit.file[a]) \in FileStatus
    BY <2>1 DEF StoredStatus, DemoStatus, StatusAfter, FileStatus
  <2>3. QED
    BY <2>1, <2>2 DEF Emitted
<1>9. file' \in [Attachments -> FileStatus]
  BY <1>8 DEF StoreRecord
<1>10. QED
  BY <1>3, <1>7, <1>9

\* The content changes only while no indexer inserts chunks: both would
\* hold the tender's lock.
LEMMA StoreAndInsertExclude ==
    ASSUME WriteInv, StoreRecord, NEW w \in Indexers, pc[w] = "insert"
    PROVE  row'.version = row.version
<1>1. /\ row \in Row /\ visit.row.version = row.version /\ asks[Ingest] = <<>>
      /\ row.version \notin {None, Record.version} => Locks!Updates(Tender) \in held[Ingest]
      /\ row.version = job[w].version /\ job[w].version \in Versions
      /\ Locks!ForUpdate(Tender) \in held[w]
      /\ Locks!LocksExclude
  BY DEF WriteInv, ProcessesTypeOK, VisitInv, BuildInv, LocksInv, IndexerHolds, StoreRecord,
         Locks!HasItsLocks
<1>2. ASSUME NEW taken \in held[Ingest] PROVE taken.row # Tender
  BY <1>1, SessionTypes, UpdateExcludes
<1>3. Locks!Updates(Tender).row = Tender
  BY DEF Locks!Updates
<1>4. row.version = Record.version
  BY <1>1, <1>2, <1>3
<1>5. QED
  BY <1>1, <1>4, StoredRow

LEMMA ReadTenderKeepsInv ==
    ASSUME WriteInv, ReadTender
    PROVE  WriteInv'
<1>1. /\ LocksInv /\ VisitInv /\ BuildInv /\ ProcessesTypeOK
      /\ row \in Row /\ file \in [Attachments -> FileStatus]
      /\ held \in [Sessions -> SUBSET Locks!Lock] /\ asks \in [Sessions -> Seq(Locks!Lock)]
  BY DEF WriteInv, ProcessesTypeOK, LocksInv, Locks!LocksTypeOK
<1>2. /\ UNCHANGED <<row, file, chunks, coming, load, pc, job, faultsLeft>>
      /\ visit.stage = "idle" /\ coming # <<>>
      /\ visit' = [stage |-> "store", row |-> row, file |-> file]
      /\ Locks!Statements(Ingest, StoreLocks(row, file))
  BY DEF ReadTender, catalogVars, buildVars
<1>3. /\ StoreLocks(row, file) \in Seq(StoreLock)
      /\ row.version \notin {None, Record.version} =>
           /\ StoreLocks(row, file) # <<>>
           /\ Head(StoreLocks(row, file)) = Locks!Updates(Tender)
  BY StoreLocksType
<1>4. StoreLocks(row, file) \in Seq(Locks!Lock)
  BY <1>3, SeqMonotonic, SessionTypes
<1>5. held'[Ingest] = {} /\ asks'[Ingest] = StoreLocks(row, file)
  BY <1>1, <1>2, SessionTypes DEF Locks!Statements
<1>6. Locks!LocksTypeOK' /\ Locks!LocksExclude' /\ OthersKeep(Ingest)
  BY <1>1, <1>2, <1>4, OwnTransaction, SessionTypes
<1>7. IngestHolds'
  BY <1>2, <1>3, <1>5 DEF IngestHolds
<1>8. /\ \A a \in Attachments : DownloadHolds(a)'
      /\ \A w \in Indexers : IndexerHolds(w)'
  BY <1>1, <1>2, <1>6, OthersHold, SessionTypes
<1>9. VisitInv'
  BY <1>1, <1>2, <1>3, <1>5 DEF VisitInv, Record
<1>10. BuildInv' /\ ProcessesTypeOK'
  BY <1>1, <1>2 DEF BuildInv, IsJob, ProcessesTypeOK
<1>11. QED
  BY <1>6, <1>7, <1>8, <1>9, <1>10 DEF WriteInv, LocksInv

LEMMA StoreRecordKeepsInv ==
    ASSUME WriteInv, StoreRecord
    PROVE  WriteInv'
<1>1. /\ LocksInv /\ VisitInv /\ BuildInv /\ ProcessesTypeOK
      /\ held \in [Sessions -> SUBSET Locks!Lock] /\ asks \in [Sessions -> Seq(Locks!Lock)]
      /\ visit.stage = "store"
  BY DEF WriteInv, ProcessesTypeOK, LocksInv, Locks!LocksTypeOK, StoreRecord
<1>2. /\ UNCHANGED <<coming, pc, job, faultsLeft>>
      /\ visit' = [NoVisit EXCEPT !.stage = "gather"]
      /\ load' = [a \in Attachments |->
                     IF Record.by = "crawler" /\ a \in Listed[Record.version]
                     THEN "check" ELSE "none"]
      /\ Locks!Statements(Ingest, <<>>)
  BY DEF StoreRecord, buildVars, Locks!Ends
<1>3. visit'.stage = "gather"
  BY <1>2 DEF NoVisit
<1>4. held'[Ingest] = {} /\ asks'[Ingest] = <<>>
  BY <1>1, <1>2, SessionTypes DEF Locks!Statements
<1>5. Locks!LocksTypeOK' /\ Locks!LocksExclude' /\ OthersKeep(Ingest)
  <2>1. <<>> \in Seq(Locks!Lock)
    OBVIOUS
  <2>2. QED
    BY <1>1, <1>2, <2>1, OwnTransaction, SessionTypes
<1>6. IngestHolds'
  BY <1>3, <1>4 DEF IngestHolds, Released
<1>7. \A w \in Indexers : IndexerHolds(w)'
  BY <1>1, <1>2, <1>5, OthersHold, SessionTypes
<1>8. ASSUME NEW a \in Attachments PROVE DownloadHolds(a)'
  <2>1. DownloadHolds(a) /\ load[a] = "none" /\ load'[a] \in {"check", "none"}
    BY <1>1, <1>2 DEF LocksInv, VisitInv
  <2>2. held'[a] = held[a] /\ asks'[a] = asks[a]
    BY <1>5, SessionTypes DEF OthersKeep
  <2>3. QED
    BY <2>1, <2>2 DEF DownloadHolds, Released
<1>9. VisitInv'
  BY <1>1, <1>2, <1>3 DEF VisitInv
<1>10. BuildInv'
  BY <1>1, <1>2, StoreAndInsertExclude DEF BuildInv, IsJob
<1>11. ProcessesTypeOK'
  BY <1>1, <1>2, <1>3, StoredRow DEF ProcessesTypeOK
<1>12. QED
  BY <1>5, <1>6, <1>7, <1>8, <1>9, <1>10, <1>11 DEF WriteInv, LocksInv

LEMMA EndRecordKeepsInv ==
    ASSUME WriteInv, EndRecord
    PROVE  WriteInv'
<1>1. /\ LocksInv /\ VisitInv /\ BuildInv /\ ProcessesTypeOK
      /\ coming \in Seq([by : {"crawler", "demo"}, version : Versions]) /\ coming # <<>>
      /\ \A a \in Attachments : load[a] \in {"none", "done"}
      /\ visit.stage = "gather"
  BY DEF WriteInv, VisitInv, EndRecord
<1>2. /\ UNCHANGED <<row, file, chunks, pc, job, held, asks, faultsLeft>>
      /\ visit'.stage = "idle" /\ coming' = Tail(coming)
      /\ load' = [a \in Attachments |-> "none"]
  BY DEF EndRecord, NoVisit, catalogVars, buildVars
<1>3. coming' \in Seq([by : {"crawler", "demo"}, version : Versions])
  BY <1>1, <1>2, HeadTailProperties
<1>4. OthersKeep(Ingest) /\ Locks!LocksTypeOK' /\ Locks!LocksExclude'
  BY <1>1, <1>2, OwnTransaction, SessionTypes
<1>5. \A w \in Indexers : IndexerHolds(w)'
  BY <1>1, <1>2, <1>4, OthersHold, SessionTypes
<1>6. IngestHolds' /\ \A a \in Attachments : DownloadHolds(a)'
  BY <1>1, <1>2 DEF LocksInv, IngestHolds, DownloadHolds, Released
<1>7. VisitInv'
  BY <1>2, <1>3 DEF VisitInv
<1>8. BuildInv' /\ ProcessesTypeOK'
  BY <1>1, <1>2 DEF BuildInv, IsJob, ProcessesTypeOK
<1>9. QED
  BY <1>4, <1>5, <1>6, <1>7, <1>8 DEF WriteInv, LocksInv

LEMMA InterruptedKeepsInv ==
    ASSUME WriteInv, IngestInterrupted
    PROVE  WriteInv'
<1>1. /\ LocksInv /\ VisitInv /\ BuildInv /\ ProcessesTypeOK
      /\ faultsLeft \in 0..MaxFaults /\ MaxFaults \in Nat
      /\ held \in [Sessions -> SUBSET Locks!Lock] /\ asks \in [Sessions -> Seq(Locks!Lock)]
      /\ Locks!LocksExclude
  BY DEF WriteInv, ProcessesTypeOK, LocksInv, Locks!LocksTypeOK
<1>2. /\ UNCHANGED <<row, file, chunks, coming, pc, job>>
      /\ visit'.stage = "idle" /\ Fault
      /\ load' = [a \in Attachments |-> "none"]
      /\ held' = [s \in Sessions |-> IF s \in Indexers THEN held[s] ELSE {}]
      /\ asks' = [s \in Sessions |-> IF s \in Indexers THEN asks[s] ELSE <<>>]
  BY DEF IngestInterrupted, NoVisit, catalogVars, buildVars
<1>3. /\ \A s \in Sessions : s \notin Indexers => held'[s] = {} /\ asks'[s] = <<>>
      /\ \A w \in Indexers : held'[w] = held[w] /\ asks'[w] = asks[w]
      /\ \A s \in Sessions : held'[s] \subseteq held[s]
  BY <1>2, SessionTypes
<1>4. Locks!LocksTypeOK'
  BY <1>1, <1>2 DEF Locks!LocksTypeOK
<1>5. Locks!LocksExclude'
  BY <1>1, <1>3 DEF Locks!LocksExclude
<1>6. IngestHolds' /\ \A a \in Attachments : DownloadHolds(a)'
  BY <1>2, <1>3, SessionTypes DEF IngestHolds, DownloadHolds, Released
<1>7. ASSUME NEW w \in Indexers PROVE IndexerHolds(w)'
  <2>1. /\ IndexerHolds(w) /\ pc'[w] = pc[w]
        /\ held'[w] = held[w] /\ asks'[w] = asks[w]
    BY <1>1, <1>2, <1>3 DEF LocksInv
  <2>2. QED
    BY <2>1 DEF IndexerHolds, Released
<1>8. VisitInv'
  BY <1>1, <1>2 DEF VisitInv
<1>9. BuildInv'
  BY <1>1, <1>2 DEF BuildInv, IsJob
<1>10. ProcessesTypeOK'
  BY <1>1, <1>2 DEF ProcessesTypeOK, Fault
<1>11. QED
  BY <1>4, <1>5, <1>6, <1>7, <1>8, <1>9, <1>10 DEF WriteInv, LocksInv

----------------------------------------------------------------------------
(* A lock is granted *)

LEMMA GrantKeepsHolds ==
    ASSUME WriteInv, NEW s \in Sessions, Locks!TakeLock(s), UNCHANGED <<visit, load, pc>>
    PROVE  /\ IngestHolds'
           /\ \A a \in Attachments : DownloadHolds(a)'
           /\ \A w \in Indexers : IndexerHolds(w)'
<1>1. /\ asks[s] # <<>>
      /\ held'[s] = held[s] \cup {Head(asks[s])} /\ asks'[s] = Tail(asks[s])
      /\ OthersKeep(s) /\ LocksInv
  BY LockTaken DEF WriteInv, LocksInv, OthersKeep
<1>2. IngestHolds'
  <2>1. CASE s # Ingest
    BY <1>1, <2>1, OthersHold
  <2>2. CASE s = Ingest
    <3>1. /\ visit.stage = "store" /\ held[s] \subseteq StoreLock
          /\ asks[s] \in Seq(StoreLock)
      BY <1>1, <2>2 DEF LocksInv, IngestHolds, Released
    <3>2. Head(asks[s]) \in StoreLock /\ Tail(asks[s]) \in Seq(StoreLock)
      BY <1>1, <3>1, HeadTailProperties
    <3>3. QED
      BY <1>1, <2>2, <3>1, <3>2 DEF IngestHolds
  <2>3. QED
    BY <2>1, <2>2
<1>3. ASSUME NEW a \in Attachments PROVE DownloadHolds(a)'
  <2>1. CASE s # a
    BY <1>1, <2>1, OthersHold
  <2>2. CASE s = a
    <3> DEFINE own == Locks!ForUpdate(a)
               tender == Locks!ForUpdate(Tender)
    <3>1. DownloadHolds(a) /\ UNCHANGED load
      BY <1>1 DEF LocksInv
    <3>2. \/ load[a] = "store" /\ held[a] = {} /\ asks[a] = <<own, tender>>
          \/ load[a] = "store" /\ held[a] = {own} /\ asks[a] = <<tender>>
          \/ load[a] = "fail" /\ held[a] = {} /\ asks[a] = <<own>>
      BY <1>1, <2>2, <3>1 DEF DownloadHolds, Released
    <3> HIDE DEF own, tender
    <3>3. \A x, y : /\ Head(<<x, y>>) = x /\ Tail(<<x, y>>) = <<y>>
                    /\ Head(<<x>>) = x /\ Tail(<<x>>) = <<>>
      OBVIOUS
    <3>4. \/ load[a] = "store" /\ held'[a] = {own} /\ asks'[a] = <<tender>>
          \/ load[a] = "store" /\ held'[a] = {own, tender} /\ asks'[a] = <<>>
          \/ load[a] = "fail" /\ held'[a] = {own} /\ asks'[a] = <<>>
      <4>1. CASE load[a] = "store" /\ held[a] = {} /\ asks[a] = <<own, tender>>
        BY <1>1, <2>2, <3>3, <4>1
      <4>2. CASE load[a] = "store" /\ held[a] = {own} /\ asks[a] = <<tender>>
        BY <1>1, <2>2, <3>3, <4>2
      <4>3. CASE load[a] = "fail" /\ held[a] = {} /\ asks[a] = <<own>>
        BY <1>1, <2>2, <3>3, <4>3
      <4>4. QED
        BY <3>2, <4>1, <4>2, <4>3
    <3>5. QED
      BY <3>1, <3>4 DEF DownloadHolds, own, tender
  <2>3. QED
    BY <2>1, <2>2
<1>4. ASSUME NEW w \in Indexers PROVE IndexerHolds(w)'
  <2>1. CASE s # w
    BY <1>1, <2>1, OthersHold
  <2>2. CASE s = w
    <3> DEFINE tender == Locks!ForUpdate(Tender)
    <3>1. IndexerHolds(w) /\ UNCHANGED pc
      BY <1>1 DEF LocksInv
    <3>2. CASE pc[w] = "insert"
      <4>1. /\ tender \in held[s] /\ held[s] \subseteq FileShare \cup {tender}
            /\ asks[s] \in Seq(FileShare)
        BY <2>2, <3>1, <3>2 DEF IndexerHolds
      <4>2. Head(asks[s]) \in FileShare /\ Tail(asks[s]) \in Seq(FileShare)
        BY <1>1, <4>1, HeadTailProperties
      <4>3. QED
        BY <1>1, <2>2, <3>1, <3>2, <4>1, <4>2 DEF IndexerHolds
    <3>3. CASE pc[w] # "insert"
      <4>1. /\ pc[w] \in {"claim", "write", "fail"} /\ held[w] = {} /\ asks[w] = <<tender>>
        BY <1>1, <2>2, <3>1, <3>3 DEF IndexerHolds, Released
      <4> HIDE DEF tender
      <4>2. held'[w] = {tender} /\ asks'[w] = <<>>
        BY <1>1, <2>2, <4>1
      <4>3. QED
        BY <3>1, <4>1, <4>2 DEF IndexerHolds, tender
    <3>4. QED
      BY <3>2, <3>3
  <2>3. QED
    BY <2>1, <2>2
<1>5. QED
  BY <1>2, <1>3, <1>4

LEMMA GrantKeepsInv ==
    ASSUME WriteInv, NEW s \in Sessions, TakeLock(s)
    PROVE  WriteInv'
<1>1. /\ LocksInv /\ VisitInv /\ BuildInv /\ ProcessesTypeOK /\ Locks!TakeLock(s)
      /\ UNCHANGED <<row, file, chunks, coming, visit, load, pc, job, faultsLeft>>
  BY DEF WriteInv, TakeLock, catalogVars, ingestVars, buildVars
<1>2. /\ Locks!LocksTypeOK' /\ Locks!LocksExclude' /\ OthersKeep(s)
      /\ held'[s] = held[s] \cup {Head(asks[s])}
  BY <1>1, LockTaken DEF LocksInv, OthersKeep
<1>3. LocksInv'
  BY <1>1, <1>2, GrantKeepsHolds DEF LocksInv
<1>4. VisitInv'
  <2>1. ASSUME asks[Ingest] # <<>>, Head(asks[Ingest]) = Locks!Updates(Tender)
        PROVE  \/ Locks!Updates(Tender) \in held'[Ingest]
               \/ asks'[Ingest] # <<>> /\ Head(asks'[Ingest]) = Locks!Updates(Tender)
    BY <1>2, <2>1, SessionTypes DEF OthersKeep
  <2>2. Locks!Updates(Tender) \in held[Ingest] => Locks!Updates(Tender) \in held'[Ingest]
    BY <1>2, SessionTypes DEF OthersKeep
  <2>3. QED
    BY <1>1, <2>1, <2>2 DEF VisitInv, Record
<1>5. BuildInv' /\ ProcessesTypeOK'
  BY <1>1 DEF BuildInv, IsJob, ProcessesTypeOK
<1>6. QED
  BY <1>3, <1>4, <1>5 DEF WriteInv

----------------------------------------------------------------------------
(* The invariant *)

LEMMA InitWriteInv == Init => WriteInv
<1>1. SUFFICES ASSUME Init PROVE WriteInv
  OBVIOUS
<1>2. /\ held = [s \in Sessions |-> {}] /\ asks = [s \in Sessions |-> <<>>]
      /\ visit.stage = "idle" /\ load = [a \in Attachments |-> "none"]
      /\ pc = [w \in Indexers |-> "idle"] /\ job = [w \in Indexers |-> NoJob]
      /\ file = [a \in Attachments |-> "absent"] /\ faultsLeft = MaxFaults
      /\ row = [version |-> None, indexed |-> None, status |-> "absent", warned |-> {}]
      /\ coming \in Histories
  <2>1. visit = NoVisit => visit.stage = "idle"
    BY DEF NoVisit
  <2>2. QED
    BY <1>1, <2>1 DEF Init, Locks!LocksInit
<1>3. ProcessesTypeOK
  <2>1. row \in Row
    BY <1>2 DEF Row
  <2>2. faultsLeft \in 0..MaxFaults
    BY <1>2
  <2>3. QED
    BY <1>2, <2>1, <2>2 DEF ProcessesTypeOK, FileStatus
<1>4. Locks!LocksTypeOK /\ Locks!LocksExclude
  BY <1>2 DEF Locks!LocksTypeOK, Locks!LocksExclude
<1>5. /\ IngestHolds /\ \A a \in Attachments : DownloadHolds(a)
      /\ \A w \in Indexers : IndexerHolds(w)
  BY <1>2, SessionTypes DEF IngestHolds, DownloadHolds, IndexerHolds, Released
<1>6. VisitInv
  BY <1>2 DEF VisitInv
<1>7. IsJob(NoJob) /\ NoJob.files = {} /\ NoJob.warnings = {}
  BY DEF IsJob, NoJob
<1>8. BuildInv
  BY <1>2, <1>7 DEF BuildInv
<1>9. QED
  BY <1>3, <1>4, <1>5, <1>6, <1>8 DEF WriteInv, LocksInv

LEMMA NextKeepsWriteInv ==
    ASSUME WriteInv, [Next]_vars
    PROVE  WriteInv'
<1>1. CASE IngestStep \/ IngestInterrupted
  BY <1>1, ReadTenderKeepsInv, StoreRecordKeepsInv, EndRecordKeepsInv, InterruptedKeepsInv
     DEF IngestStep
<1>2. CASE \E a \in Attachments : DownloadStep(a)
  BY <1>2, DownloadKeepsInv
<1>3. CASE \E w \in Indexers : IndexerStep(w) \/ Build(w) \/ IndexerInterrupted(w)
  BY <1>3, IndexerKeepsInv
<1>4. CASE \E s \in Sessions : TakeLock(s)
  BY <1>4, GrantKeepsInv
<1>5. CASE UNCHANGED vars
  BY <1>5 DEF vars, catalogVars, ingestVars, buildVars, WriteInv, ProcessesTypeOK, LocksInv,
     Locks!LocksTypeOK, Locks!LocksExclude, IngestHolds, DownloadHolds, IndexerHolds, Released,
     VisitInv, Record, BuildInv, IsJob
<1>6. QED
  BY <1>1, <1>2, <1>3, <1>4, <1>5 DEF Next

\* Every transaction holds and awaits the locks of its statements, records
\* are stored over the row that was read, and chunks are inserted for the
\* content the row has (crawler/service.py, indexer/service.py).
THEOREM WriteInvariance == Spec => []WriteInv
BY InitWriteInv, NextKeepsWriteInv, PTL DEF Spec

\* Types and locks, for any number of indexers, attachments and records: no
\* two transactions hold conflicting locks, and whoever inserts chunks has
\* locked the tender (with_for_update).
THEOREM WriteTypes == Spec => []TypeOK
<1>1. WriteInv => TypeOK
  BY DEF WriteInv, LocksInv, IndexerHolds, TypeOK
<1>2. QED
  BY <1>1, WriteInvariance, PTL

----------------------------------------------------------------------------
(* Refinement *)

\* What search sees of the tender: the refinement mapping by name.
Content == [t \in {Tender} |-> row.version]
Index == [t \in {Tender} |-> row.indexed]
Searchable == [t \in {Tender} |-> row.status = "ready"]

\* A step that keeps content and index, and makes nothing ready, withdraws
\* the tender or is none for search.
LEMMA WithdrawStep ==
    ASSUME row'.version = row.version, row'.indexed = row.indexed,
           row'.status = "ready" => row.status = "ready"
    PROVE  [Lifecycle!LifecycleNext]_(Lifecycle!lifecycleVars)
<1>1. Content' = Content /\ Index' = Index
  BY DEF Content, Index
<1>2. CASE (row'.status = "ready") = (row.status = "ready")
  <2>1. Searchable' = Searchable
    BY <1>2, Zenon DEF Searchable
  <2>2. QED
    BY <1>1, <2>1 DEF Content, Index, Searchable, Lifecycle!lifecycleVars
<1>3. CASE row'.status # "ready"
  <2>1. Searchable' = [Searchable EXCEPT ![Tender] = FALSE]
    BY <1>3 DEF Searchable
  <2>2. Lifecycle!Withdraw(Tender)
    BY <1>1, <2>1 DEF Content, Index, Searchable, Lifecycle!Withdraw
  <2>3. QED
    BY <2>2 DEF Lifecycle!LifecycleNext
<1>4. QED
  BY <1>2, <1>3

\* A step of the transactions is a step of the lifecycle, or none for it.
LEMMA LifecycleStep ==
    ASSUME WriteInv, [Next]_vars
    PROVE  [Lifecycle!LifecycleNext]_(Lifecycle!lifecycleVars)
<1>1. CASE row' = row
  BY <1>1, WithdrawStep
<1>2. CASE StoreRecord
  <2>1. CASE row'.version = row.version
    BY <1>2, <2>1, StoredRow, WithdrawStep
  <2>2. CASE row'.version # row.version
    <3>1. PICK v \in Versions : row'.version = v
      BY <1>2, <2>2, StoredRow
    <3>2. Content' = [Content EXCEPT ![Tender] = v] /\ Index' = Index
      BY <1>2, <3>1, StoredRow DEF Content, Index
    <3>3. PICK kept \in {FALSE, Searchable[Tender]} :
            Searchable' = [Searchable EXCEPT ![Tender] = kept]
      <4>1. (row'.status = "ready") \in {FALSE, row.status = "ready"}
        BY <1>2, StoredRow
      <4>2. QED
        BY <4>1 DEF Searchable
    <3>4. Lifecycle!Change(Tender, v)
      BY <3>2, <3>3 DEF Content, Index, Searchable, Lifecycle!Change
    <3>5. QED
      BY <3>4 DEF Lifecycle!LifecycleNext
  <2>3. QED
    BY <2>1, <2>2
<1>3. ASSUME NEW a \in Attachments, DownloadStep(a)
      PROVE  [Lifecycle!LifecycleNext]_(Lifecycle!lifecycleVars)
  BY <1>3, DownloadFrame, WithdrawStep
<1>4. ASSUME NEW w \in Indexers, Commit(w)
      PROVE  [Lifecycle!LifecycleNext]_(Lifecycle!lifecycleVars)
  <2>1. /\ row.version \in Versions /\ row'.version = row.version
        /\ row'.indexed = row.version /\ row'.status = "ready"
    BY <1>4, CommitWrites
  <2>2. /\ Content' = Content /\ Content[Tender] # None
        /\ Index' = [Index EXCEPT ![Tender] = Content[Tender]]
    BY <2>1 DEF Content, Index
  <2>3. Searchable' = [Searchable EXCEPT ![Tender] = TRUE]
    BY <2>1 DEF Searchable
  <2>4. Lifecycle!Reindex(Tender)
    BY <2>2, <2>3 DEF Content, Index, Searchable, Lifecycle!Reindex
  <2>5. QED
    BY <2>4 DEF Lifecycle!LifecycleNext
<1>5. ASSUME NEW w \in Indexers, ~Commit(w),
             IndexerStep(w) \/ Build(w) \/ IndexerInterrupted(w)
      PROVE  [Lifecycle!LifecycleNext]_(Lifecycle!lifecycleVars)
  BY <1>5, IndexerRow, WithdrawStep
<1>6. CASE \/ ReadTender \/ EndRecord \/ IngestInterrupted \/ UNCHANGED vars
           \/ \E s \in Sessions : TakeLock(s)
  BY <1>1, <1>6 DEF ReadTender, EndRecord, IngestInterrupted, TakeLock, vars, catalogVars
<1>7. QED
  BY <1>2, <1>3, <1>4, <1>5, <1>6 DEF Next, IngestStep

\* Statement by statement the transactions implement the lifecycle search
\* relies on: an index is replaced as a whole by one of the stored content,
\* and only that makes the tender searchable (process, persist_record).
THEOREM WriteRefinement == Spec => ImplementsLifecycle
<1>1. Init => Lifecycle!LifecycleInit
  <2> SUFFICES ASSUME Init PROVE Lifecycle!LifecycleInit
    OBVIOUS
  <2>1. row.version = None /\ row.indexed = None /\ (row.status = "ready") = FALSE
    BY DEF Init
  <2>2. [t \in {Tender} |-> row.status = "ready"] = [t \in {Tender} |-> FALSE]
    BY <2>1, Zenon
  <2>3. QED
    BY <2>1, <2>2 DEF Lifecycle!LifecycleInit
<1>2. WriteInv /\ [Next]_vars => [Lifecycle!LifecycleNext]_(Lifecycle!lifecycleVars)
  BY LifecycleStep
<1>3. QED
  BY <1>1, <1>2, WriteInvariance, PTL DEF Spec, ImplementsLifecycle, Lifecycle!LifecycleSpec

----------------------------------------------------------------------------
(* Deadlocks *)

\* A set that holds all s waits for, and all its members wait for, shows
\* that s is in no circle.
LEMMA NoCircle ==
    ASSUME NEW s \in Sessions, NEW S \in SUBSET Sessions, s \notin S,
           \A o \in Sessions : Locks!WaitsFor(s, o) => o \in S,
           \A via \in S, o \in Sessions : Locks!WaitsFor(via, o) => o \in S
    PROVE  ~Locks!Deadlocked(s)
BY DEF Locks!Deadlocked

\* In a circle everyone waits, and holds what another one waits for.
LEMMA DeadlockedHolds ==
    ASSUME NEW s \in Sessions, Locks!Deadlocked(s)
    PROVE  /\ held[s] # {} /\ asks[s] # <<>>
           /\ \E o \in Sessions : Locks!WaitsFor(s, o)
<1>1. \E o \in Sessions : Locks!WaitsFor(s, o)
  <2>1. ASSUME \A o \in Sessions : ~Locks!WaitsFor(s, o) PROVE FALSE
    BY <2>1, NoCircle, {} \in SUBSET Sessions
  <2>2. QED
    BY <2>1
<1>2. held[s] # {}
  <2> DEFINE Holders == {o \in Sessions : held[o] # {}}
  <2>1. \A via, o \in Sessions : Locks!WaitsFor(via, o) => o \in Holders
    BY DEF Locks!WaitsFor
  <2>2. Holders \in SUBSET Sessions
    OBVIOUS
  <2>3. s \in Holders
    <3> HIDE DEF Holders
    <3>1. \A via \in Holders, o \in Sessions : Locks!WaitsFor(via, o) => o \in Holders
      BY <2>1, <2>2
    <3>2. QED
      BY <2>1, <2>2, <3>1, NoCircle
  <2>4. QED
    BY <2>3
<1>3. QED
  BY <1>1, <1>2 DEF Locks!WaitsFor

\* The row and the mode of each lock.
LEMMA LockFields ==
    ASSUME NEW r
    PROVE  /\ Locks!KeyShare(r).row = r /\ Locks!KeyShare(r).mode = "key_share"
           /\ Locks!Updates(r).row = r /\ Locks!Updates(r).mode = "no_key_update"
           /\ Locks!ForUpdate(r).row = r /\ Locks!ForUpdate(r).mode = "update"
BY DEF Locks!KeyShare, Locks!Updates, Locks!ForUpdate

\* Only FOR UPDATE keeps others from sharing a row, and an indexer shares
\* rows of files.
LEMMA SharedLocks ==
    /\ \A lock \in StoreLock : lock.mode # "update"
    /\ \A lock \in FileShare : lock.mode # "update" /\ lock.row # Tender
<1>1. ASSUME NEW lock \in FileShare PROVE lock.mode # "update" /\ lock.row # Tender
  <2>1. PICK a \in Attachments : lock = Locks!KeyShare(a)
    BY DEF FileShare
  <2>2. lock.row = a /\ lock.mode = "key_share"
    BY <2>1, LockFields
  <2>3. QED
    BY <2>2
<1>2. ASSUME NEW lock \in StoreLock PROVE lock.mode # "update"
  <2>1. PICK r : lock = Locks!KeyShare(r) \/ lock = Locks!Updates(r)
    BY DEF StoreLock
  <2>2. QED
    BY <2>1, LockFields
<1>3. QED
  BY <1>1, <1>2

\* An indexer that holds locks waits for the downloads of one file only.
LEMMA IndexerWaits ==
    ASSUME WriteInv, NEW w \in Indexers, held[w] # {},
           NEW o \in Sessions, Locks!WaitsFor(w, o)
    PROVE  /\ Locks!ForUpdate(Tender) \in held[w]
           /\ o \in Attachments /\ Head(asks[w]) = Locks!KeyShare(o)
<1>1. /\ LocksInv /\ IndexerHolds(w) /\ asks[w] # <<>> /\ o # w
      /\ Locks!LocksExclude
  BY DEF WriteInv, LocksInv, Locks!WaitsFor
<1>2. /\ pc[w] = "insert" /\ Locks!ForUpdate(Tender) \in held[w]
      /\ asks[w] \in Seq(FileShare)
  BY <1>1 DEF IndexerHolds, Released
<1>3. Head(asks[w]) \in FileShare
  BY <1>1, <1>2, HeadTailProperties
<1>4. PICK a \in Attachments : Head(asks[w]) = Locks!KeyShare(a)
  BY <1>3 DEF FileShare
<1>5. PICK taken \in held[o] : taken.row = a /\ taken.mode = "update"
  <2>1. PICK taken \in held[o] :
          /\ taken.row = Head(asks[w]).row
          /\ Locks!Conflicts(Head(asks[w]).mode, taken.mode)
    BY DEF Locks!WaitsFor
  <2>2. Head(asks[w]).row = a /\ Head(asks[w]).mode = "key_share"
    BY <1>4, LockFields
  <2>3. QED
    BY <2>1, <2>2 DEF Locks!Conflicts
<1>6. a # Tender
  OBVIOUS
<1>7. o # Ingest
  <2>1. held[Ingest] \subseteq StoreLock
    BY <1>1 DEF LocksInv, IngestHolds, Released
  <2>2. \A lock \in StoreLock : lock.mode # "update"
    BY SharedLocks
  <2>3. QED
    BY <1>5, <2>1, <2>2
<1>8. o \notin Indexers
  <2>1. ASSUME o \in Indexers
        PROVE  held[o] \subseteq FileShare \cup {Locks!ForUpdate(Tender)}
    BY <1>1, <2>1 DEF LocksInv, IndexerHolds, Released
  <2>2. \A lock \in FileShare : lock.mode # "update"
    BY SharedLocks
  <2>3. Locks!ForUpdate(Tender).row = Tender
    BY LockFields
  <2>4. QED
    BY <1>5, <1>6, <2>1, <2>2, <2>3
<1>9. o \in Attachments
  BY <1>7, <1>8 DEF Sessions
<1>10. o = a
  <2>1. held[o] \subseteq {Locks!ForUpdate(o), Locks!ForUpdate(Tender)}
    BY <1>1, <1>9 DEF LocksInv, DownloadHolds, Released
  <2>2. Locks!ForUpdate(o).row = o /\ Locks!ForUpdate(Tender).row = Tender
    BY LockFields
  <2>3. QED
    BY <1>5, <1>6, <2>1, <2>2
<1>11. QED
  BY <1>2, <1>4, <1>9, <1>10

\* A download that holds locks waits for whoever has the tender's.
LEMMA DownloadWaits ==
    ASSUME WriteInv, NEW a \in Attachments, held[a] # {}, asks[a] # <<>>
    PROVE  /\ visit.stage = "gather" /\ held[a] = {Locks!ForUpdate(a)}
           /\ asks[a] = <<Locks!ForUpdate(Tender)>>
           /\ \A o \in Sessions : Locks!WaitsFor(a, o) <=>
                o # a /\ \E taken \in held[o] : taken.row = Tender
<1>1. LocksInv /\ VisitInv /\ DownloadHolds(a) /\ visit.stage \in {"idle", "store", "gather"}
  BY DEF WriteInv, LocksInv, ProcessesTypeOK
<1> DEFINE own == Locks!ForUpdate(a)
           tender == Locks!ForUpdate(Tender)
<1>2. load[a] = "store" /\ held[a] = {own} /\ asks[a] = <<tender>>
  <2> HIDE DEF own, tender
  <2>1. \/ load[a] \notin {"store", "fail"} /\ Released(a)
        \/ load[a] = "store" /\ held[a] = {} /\ asks[a] = <<own, tender>>
        \/ load[a] = "store" /\ held[a] = {own} /\ asks[a] = <<tender>>
        \/ load[a] = "store" /\ held[a] = {own, tender} /\ asks[a] = <<>>
        \/ load[a] = "fail" /\ held[a] = {} /\ asks[a] = <<own>>
        \/ load[a] = "fail" /\ held[a] = {own} /\ asks[a] = <<>>
    BY <1>1 DEF DownloadHolds, own, tender
  <2>2. QED
    BY <2>1 DEF Released
<1>3. visit.stage = "gather"
  BY <1>1, <1>2 DEF VisitInv
<1>4. Head(asks[a]).row = Tender /\ Head(asks[a]).mode = "update" /\ asks[a] # <<>>
  <2>1. PICK next : next = Locks!ForUpdate(Tender)
    OBVIOUS
  <2>2. Head(asks[a]) = next /\ asks[a] # <<>>
    BY <1>2, <2>1
  <2>3. next.row = Tender /\ next.mode = "update"
    BY <2>1, LockFields
  <2>4. QED
    BY <2>2, <2>3
<1>5. ASSUME NEW o \in Sessions
      PROVE  Locks!WaitsFor(a, o) <=> o # a /\ \E taken \in held[o] : taken.row = Tender
  BY <1>4 DEF Locks!WaitsFor, Locks!Conflicts
<1>6. QED
  BY <1>2, <1>3, <1>5

\* An indexer and a download that wait for each other.
Crossed(w, a) == Locks!WaitsFor(w, a) /\ Locks!WaitsFor(a, w)

LEMMA CrossedDeadlock ==
    ASSUME NEW w \in Indexers, NEW a \in Attachments, Crossed(w, a)
    PROVE  Locks!Deadlocked(w) /\ Locks!Deadlocked(a)
BY SessionTypes DEF Crossed, Locks!Deadlocked

\* An indexer that inserts and waits for a download that waits.
LEMMA WaitingMeet ==
    ASSUME WriteInv, NEW w \in Indexers, NEW a \in Attachments,
           held[w] # {}, Locks!WaitsFor(w, a), asks[a] # <<>>
    PROVE  Crossed(w, a)
<1>1. w \in Sessions /\ a \in Sessions /\ w # a
  BY SessionTypes
<1>2. Locks!ForUpdate(Tender) \in held[w] /\ held[a] # {}
  BY <1>1, IndexerWaits DEF Locks!WaitsFor
<1>3. Locks!ForUpdate(Tender).row = Tender
  BY LockFields
<1>4. Locks!WaitsFor(a, w)
  BY <1>1, <1>2, <1>3, DownloadWaits
<1>5. QED
  BY <1>4 DEF Crossed

\* A deadlocked indexer waits for a download that waits for it.
LEMMA IndexerDeadlock ==
    ASSUME WriteInv, NEW w \in Indexers, Locks!Deadlocked(w)
    PROVE  \E a \in Attachments : Crossed(w, a)
<1>1. w \in Sessions /\ held[w] # {}
  BY SessionTypes, DeadlockedHolds
<1>2. PICK a \in Sessions : Locks!WaitsFor(w, a)
  BY <1>1, DeadlockedHolds
<1>3. a \in Attachments /\ Head(asks[w]) = Locks!KeyShare(a)
  BY <1>1, <1>2, IndexerWaits
<1>4. \A o \in Sessions : Locks!WaitsFor(w, o) => o = a
  <2>1. ASSUME NEW o \in Sessions, Locks!WaitsFor(w, o) PROVE o = a
    <3>1. PICK share : share = Locks!KeyShare(a) /\ share = Locks!KeyShare(o)
      BY <1>1, <1>3, <2>1, IndexerWaits
    <3>2. share.row = a /\ share.row = o
      BY <3>1, LockFields
    <3>3. QED
      BY <3>2
  <2>2. QED
    BY <2>1
<1>5. asks[a] # <<>>
  <2>1. ASSUME asks[a] = <<>> PROVE FALSE
    <3>1. \A o \in Sessions : ~Locks!WaitsFor(a, o)
      BY <2>1 DEF Locks!WaitsFor
    <3> DEFINE S == {a}
    <3>2. S \in SUBSET Sessions /\ w \notin S
      BY <1>2, <1>3, SessionTypes
    <3>3. \A via \in S, o \in Sessions : Locks!WaitsFor(via, o) => o \in S
      BY <3>1
    <3>4. \A o \in Sessions : Locks!WaitsFor(w, o) => o \in S
      BY <1>4
    <3> HIDE DEF S
    <3>5. QED
      BY <1>1, <3>2, <3>3, <3>4, NoCircle
  <2>2. QED
    BY <2>1
<1>6. QED
  BY <1>1, <1>2, <1>3, <1>5, WaitingMeet

\* A deadlocked download waits for an indexer that is deadlocked with a
\* download, itself or another one.
LEMMA DownloadDeadlock ==
    ASSUME WriteInv, NEW b \in Attachments, Locks!Deadlocked(b)
    PROVE  \E w \in Indexers, a \in Attachments : Crossed(w, a)
<1>1. b \in Sessions /\ held[b] # {} /\ asks[b] # <<>> /\ LocksInv
  BY SessionTypes, DeadlockedHolds DEF WriteInv
<1>2. PICK w \in Sessions : Locks!WaitsFor(b, w)
  BY <1>1, DeadlockedHolds
<1>3. /\ visit.stage = "gather" /\ w # b
      /\ \E taken \in held[w] : taken.row = Tender
  BY <1>1, <1>2, DownloadWaits
<1>4. Locks!ForUpdate(Tender) \in held[w] /\ (w \in Attachments => asks[w] = <<>>)
  <2>1. w # Ingest
    BY <1>1, <1>3 DEF LocksInv, IngestHolds, Released
  <2>2. CASE w \in Indexers
    <3>1. held[w] \subseteq FileShare \cup {Locks!ForUpdate(Tender)}
      BY <1>1, <2>2 DEF LocksInv, IndexerHolds, Released
    <3>2. \A lock \in FileShare : lock.row # Tender
      BY SharedLocks
    <3>3. QED
      BY <1>3, <2>2, <3>1, <3>2, SessionTypes
  <2>3. CASE w \in Attachments
    <3>1. held[w] # {Locks!ForUpdate(w)} /\ held[w] # {}
      <4>1. PICK own, taken : /\ own = Locks!ForUpdate(w)
                              /\ taken \in held[w] /\ taken.row = Tender
        BY <1>3
      <4>2. own.row # Tender
        BY <2>3, <4>1, LockFields
      <4>3. QED
        BY <4>1, <4>2
    <3>2. /\ held[w] = {Locks!ForUpdate(w), Locks!ForUpdate(Tender)} /\ asks[w] = <<>>
      BY <1>1, <2>3, <3>1 DEF LocksInv, DownloadHolds, Released
    <3>3. QED
      BY <3>2
  <2>4. QED
    BY <2>1, <2>2, <2>3 DEF Sessions
<1>5. \A o \in Sessions : Locks!WaitsFor(b, o) => o = w
  <2>1. ASSUME NEW o \in Sessions, Locks!WaitsFor(b, o), o # w PROVE FALSE
    <3>1. \E taken \in held[o] : taken.row = Tender
      BY <1>1, <2>1, DownloadWaits
    <3>2. QED
      BY <1>1, <1>4, <2>1, <3>1, UpdateExcludes DEF LocksInv
  <2>2. QED
    BY <2>1
<1>6. \E a \in Sessions : Locks!WaitsFor(w, a)
  <2>1. ASSUME \A o \in Sessions : ~Locks!WaitsFor(w, o) PROVE FALSE
    <3> DEFINE S == {w}
    <3>1. S \in SUBSET Sessions /\ b \notin S
      BY <1>3
    <3>2. \A via \in S, o \in Sessions : Locks!WaitsFor(via, o) => o \in S
      BY <2>1
    <3>3. \A o \in Sessions : Locks!WaitsFor(b, o) => o \in S
      BY <1>5
    <3> HIDE DEF S
    <3>4. QED
      BY <1>1, <3>1, <3>2, <3>3, NoCircle
  <2>2. QED
    BY <2>1
<1>7. w \in Indexers
  <2>1. w \notin Attachments
    BY <1>4, <1>6 DEF Locks!WaitsFor
  <2>2. w # Ingest
    BY <1>1, <1>3 DEF LocksInv, IngestHolds, Released
  <2>3. QED
    BY <2>1, <2>2 DEF Sessions
<1>8. PICK a \in Sessions : Locks!WaitsFor(w, a)
  BY <1>6
<1>9. held[w] # {}
  BY <1>4
<1>10. a \in Attachments /\ Head(asks[w]) = Locks!KeyShare(a)
  BY <1>7, <1>8, <1>9, IndexerWaits
<1>11. \A o \in Sessions : Locks!WaitsFor(w, o) => o = a
  <2>1. ASSUME NEW o \in Sessions, Locks!WaitsFor(w, o) PROVE o = a
    <3>1. PICK share : share = Locks!KeyShare(a) /\ share = Locks!KeyShare(o)
      BY <1>7, <1>9, <1>10, <2>1, IndexerWaits
    <3>2. share.row = a /\ share.row = o
      BY <3>1, LockFields
    <3>3. QED
      BY <3>2
  <2>2. QED
    BY <2>1
<1>12. asks[a] # <<>>
  <2>1. ASSUME asks[a] = <<>> PROVE FALSE
    <3>1. \A o \in Sessions : ~Locks!WaitsFor(a, o)
      BY <2>1 DEF Locks!WaitsFor
    <3> DEFINE S == {w, a}
    <3>2. S \in SUBSET Sessions /\ b \notin S
      BY <1>1, <1>3, <1>8, <2>1
    <3>3. \A via \in S, o \in Sessions : Locks!WaitsFor(via, o) => o \in S
      BY <1>11, <3>1
    <3>4. \A o \in Sessions : Locks!WaitsFor(b, o) => o \in S
      BY <1>5
    <3> HIDE DEF S
    <3>5. QED
      BY <1>1, <3>2, <3>3, <3>4, NoCircle
  <2>2. QED
    BY <2>1
<1>13. QED
  BY <1>7, <1>8, <1>9, <1>10, <1>12, WaitingMeet

\* While a record is stored no download holds anything, hence whoever the
\* record waits for goes on.
LEMMA StoreGoesOn ==
    ASSUME WriteInv
    PROVE  ~Locks!Deadlocked(Ingest)
<1> SUFFICES ASSUME Locks!Deadlocked(Ingest) PROVE FALSE
  OBVIOUS
<1>1. Ingest \in Sessions /\ held[Ingest] # {} /\ LocksInv /\ VisitInv
  BY SessionTypes, DeadlockedHolds DEF WriteInv
<1>2. visit.stage = "store"
  BY <1>1 DEF LocksInv, IngestHolds, Released
<1>3. \A a \in Attachments : held[a] = {}
  <2>1. ASSUME NEW a \in Attachments PROVE held[a] = {}
    <3>1. load[a] = "none" /\ DownloadHolds(a)
      BY <1>1, <1>2 DEF VisitInv, LocksInv
    <3>2. QED
      BY <3>1 DEF DownloadHolds, Released
  <2>2. QED
    BY <2>1
<1> DEFINE Writers == {w \in Indexers : held[w] # {}}
<1>4. Writers \in SUBSET Sessions /\ Ingest \notin Writers
  BY SessionTypes
<1>5. \A o \in Sessions : Locks!WaitsFor(Ingest, o) => o \in Writers
  BY <1>3 DEF Locks!WaitsFor, Sessions
<1>6. \A w \in Writers, o \in Sessions : ~Locks!WaitsFor(w, o)
  <2>1. ASSUME NEW w \in Indexers, held[w] # {}, NEW o \in Sessions, Locks!WaitsFor(w, o)
        PROVE  FALSE
    BY <1>3, <2>1, IndexerWaits DEF Locks!WaitsFor
  <2>2. QED
    BY <2>1
<1> HIDE DEF Writers
<1>7. QED
  BY <1>1, <1>4, <1>5, <1>6, NoCircle

\* A circle of waiting transactions takes a download, which locks its file
\* and then the tender, and an indexer, which goes the other way round;
\* persist_record and seed-demo are never in one.
THEOREM DeadlockSafety == Spec => []DeadlocksNeedBoth
<1>1. ASSUME WriteInv PROVE DeadlocksNeedBoth
  <2>1. ASSUME NEW s \in Sessions, Locks!Deadlocked(s)
        PROVE  /\ s # Ingest
               /\ \E a \in Attachments : Locks!Deadlocked(a)
               /\ \E w \in Indexers : Locks!Deadlocked(w)
    <3>1. s # Ingest
      BY <1>1, <2>1, StoreGoesOn
    <3>2. \E w \in Indexers, a \in Attachments : Crossed(w, a)
      BY <1>1, <2>1, <3>1, IndexerDeadlock, DownloadDeadlock DEF Sessions
    <3>3. QED
      BY <3>1, <3>2, CrossedDeadlock
  <2>2. QED
    BY <2>1 DEF DeadlocksNeedBoth
<1>2. QED
  BY <1>1, WriteInvariance, PTL

----------------------------------------------------------------------------
(* What is stored *)

\* What an attempt knows of its drafts.
LEMMA JobDrafts ==
    ASSUME DraftsAreLists, WriteInv, NEW w \in Indexers, JobIsBuilt(w),
           pc[w] \in {"embed", "write", "insert"}
    PROVE  /\ job[w].version \in Versions /\ job[w].files \in SUBSET Attachments
           /\ IsJob(job[w]) /\ BuiltSoFar(job[w])
           /\ Len(job[w].drafts) \in Nat
           /\ DOMAIN job[w].drafts = 1..Len(job[w].drafts)
<1>1. /\ job[w].version \in Versions /\ job[w].files \in SUBSET Attachments
      /\ IsJob(job[w]) /\ BuiltSoFar(job[w])
  BY DEF WriteInv, BuildInv, JobIsBuilt
<1>2. job[w].files \ job[w].warnings \in SUBSET Attachments
  BY <1>1
<1>3. job[w].drafts = Drafts[job[w].version][job[w].files \ job[w].warnings]
  BY <1>1, Zenon DEF BuiltSoFar
<1>4. QED
  BY <1>1, <1>2, <1>3 DEF DraftsAreLists

\* A batch that is accepted continues the vectors.
LEMMA BatchIsBuilt ==
    ASSUME DraftsAreLists, WriteInv, NEW w \in Indexers, JobIsBuilt(w),
           NEW answer \in Answers(Batch(w)), EmbedBatch(w, answer)
    PROVE  BuiltSoFar(job'[w]) /\ UNCHANGED pc
<1> DEFINE j == job[w]
           size == Len(j.drafts)
           to == Min({j.start + BatchSize, size})
           content == [i \in 1..size |-> j.drafts[i].content]
           n == [j EXCEPT !.vectors = j.vectors \o answer, !.start = j.start + BatchSize]
<1>1. /\ pc[w] = "embed" /\ j.start < size /\ Accepted(Batch(w), answer)
      /\ job' = [job EXCEPT ![w] = n] /\ UNCHANGED pc
  BY DEF EmbedBatch
<1>2. /\ IsJob(j) /\ BuiltSoFar(j) /\ j.start \in Nat /\ size \in Nat
      /\ BatchSize \in Nat \ {0} /\ DOMAIN job = Indexers
  BY <1>1, JobDrafts DEF BuiltSoFar, WriteInv, BuildInv
<1>3. to \in Nat /\ j.start < to /\ to <= size
  <2>1. j.start + BatchSize \in Nat /\ j.start + BatchSize > j.start
    BY <1>2
  <2>2. to = IF j.start + BatchSize <= size THEN j.start + BatchSize ELSE size
    BY <1>2, <2>1, MinOfTwo
  <2>3. QED
    BY <1>1, <1>2, <2>1, <2>2
<1>4. Min({j.start, size}) = j.start
  BY <1>1, <1>2, MinOfTwo
<1>5. Batch(w) = [i \in 1..(to - j.start) |-> content[j.start + i]]
  <2>1. Batch(w) = [i \in 1..(to - j.start) |-> j.drafts[j.start + i].content]
    BY DEF Batch
  <2>2. \A i \in 1..(to - j.start) : j.start + i \in 1..size
    BY <1>2, <1>3
  <2>3. QED
    BY <2>1, <2>2
<1>6. j.vectors = [i \in 1..j.start |-> content[i]]
  <2>1. j.vectors = [i \in 1..j.start |-> j.drafts[i].content]
    BY <1>2, <1>4, Zenon DEF BuiltSoFar
  <2>2. \A i \in 1..j.start : i \in 1..size
    BY <1>1, <1>2
  <2>3. QED
    BY <2>1, <2>2
<1> HIDE DEF to, content
<1>7. answer = Batch(w)
  <2>1. to - j.start \in Nat \ {0}
    BY <1>2, <1>3
  <2>2. DOMAIN Batch(w) = 1..(to - j.start)
        /\ Batch(w) = [i \in 1..(to - j.start) |-> Batch(w)[i]]
    BY <1>5
  <2>3. QED
    BY <1>1, <2>1, <2>2, AcceptedIsRight
<1>8. j.vectors \o answer = [i \in 1..to |-> content[i]]
  <2> DEFINE S == {content[i] : i \in 1..size}
             all == j.vectors \o answer
  <2>1. \A i \in 1..j.start : j.vectors[i] = content[i] /\ content[i] \in S
    <3>1. \A i \in 1..j.start : i \in 1..size
      BY <1>1, <1>2
    <3>2. QED
      BY <1>6, <3>1
  <2>2. \A i \in 1..(to - j.start) :
           answer[i] = content[j.start + i] /\ content[j.start + i] \in S
    <3>1. \A i \in 1..(to - j.start) : j.start + i \in 1..size
      BY <1>2, <1>3
    <3>2. QED
      BY <1>5, <1>7, <3>1
  <2> HIDE DEF S
  <2>3. j.vectors \in [1..j.start -> S] /\ answer \in [1..(to - j.start) -> S]
    BY <1>5, <1>6, <1>7, <2>1, <2>2
  <2>4. to - j.start \in Nat
    BY <1>2, <1>3
  <2>5. j.start + (to - j.start) = to
    BY <1>2, <1>3
  <2>6. /\ all \in [1..to -> S]
        /\ \A i \in 1..to : all[i] = IF i <= j.start THEN j.vectors[i] ELSE answer[i - j.start]
    <3>1. j.start \in Nat
      BY <1>2
    <3>2. all \in [1..(j.start + (to - j.start)) -> S]
      BY <2>3, <2>4, <3>1, Concatenated
    <3>3. \A i \in 1..(j.start + (to - j.start)) :
            all[i] = IF i <= j.start THEN j.vectors[i] ELSE answer[i - j.start]
      <4>1. PICK k, m, a, b : k = j.start /\ m = to - j.start /\ a = j.vectors /\ b = answer
        OBVIOUS
      <4>2. k \in Nat /\ m \in Nat /\ a \in [1..k -> S] /\ b \in [1..m -> S]
        BY <2>3, <2>4, <3>1, <4>1
      <4>3. \A i \in 1..(k + m) : (a \o b)[i] = IF i <= k THEN a[i] ELSE b[i - k]
        BY <4>2, Concatenated
      <4>4. QED
        BY <4>1, <4>3
    <3>4. QED
      BY <2>5, <3>2, <3>3
  <2> HIDE DEF all
  <2>7. ASSUME NEW i \in 1..to PROVE all[i] = content[i]
    <3>1. CASE i <= j.start
      BY <1>2, <2>1, <2>6, <3>1
    <3>2. CASE i > j.start
      <4>1. i - j.start \in 1..(to - j.start) /\ j.start + (i - j.start) = i
        BY <1>2, <1>3, <3>2
      <4>2. answer[i - j.start] = content[i]
        BY <2>2, <4>1
      <4>3. QED
        BY <1>2, <1>3, <2>6, <3>2, <4>2
    <3>3. QED
      BY <1>2, <1>3, <3>1, <3>2
  <2>8. all = [i \in 1..to |-> content[i]]
    BY <2>6, <2>7
  <2>9. QED
    BY <2>8 DEF all
<1>9. /\ n.drafts = j.drafts /\ n.version = j.version /\ n.files = j.files
      /\ n.warnings = j.warnings /\ n.start = j.start + BatchSize
      /\ n.vectors = [i \in 1..to |-> content[i]]
  BY <1>2, <1>8 DEF IsJob
<1>10. [i \in 1..to |-> content[i]] = [i \in 1..to |-> j.drafts[i].content]
  <2>1. \A i \in 1..to : content[i] = j.drafts[i].content
    BY <1>2, <1>3 DEF content
  <2>2. QED
    BY <2>1
<1> HIDE DEF n
<1>11. BuiltSoFar(n)
  <2>1. n.drafts = Drafts[n.version][n.files \ n.warnings] /\ n.start \in Nat
    <3>1. j.drafts = Drafts[j.version][j.files \ j.warnings]
      BY <1>2, Zenon DEF BuiltSoFar
    <3>2. n.drafts = Drafts[n.version][n.files \ n.warnings]
      BY <1>9, <3>1, Zenon
    <3>3. n.start \in Nat
      BY <1>2, <1>9
    <3>4. QED
      BY <3>2, <3>3
  <2>2. Min({n.start, Len(n.drafts)}) = to
    BY <1>9 DEF to
  <2>3. n.vectors = [i \in 1..Min({n.start, Len(n.drafts)}) |-> n.drafts[i].content]
    BY <1>9, <1>10, <2>2
  <2>4. QED
    BY <2>1, <2>3 DEF BuiltSoFar
<1>12. QED
  BY <1>1, <1>2, <1>11

\* Extraction begins an attempt with no vectors yet.
LEMMA ExtractBuilds ==
    ASSUME DraftsAreLists, WriteInv, NEW w \in Indexers, JobIsBuilt(w), Build(w)
    PROVE  BuiltSoFar(job'[w]) /\ pc'[w] = "embed"
<1>1. PICK disk :
        job' = [job EXCEPT
          ![w].drafts = Drafts[job[w].version][Readable(job[w].files, disk)],
          ![w].warnings = Warnings(job[w].files, disk)]
  BY DEF Build, Extract
<1>2. PICK x, y, j, n : /\ x = Drafts[job[w].version][Readable(job[w].files, disk)]
                        /\ y = Warnings(job[w].files, disk)
                        /\ j = job[w] /\ n = [j EXCEPT !.drafts = x, !.warnings = y]
  OBVIOUS
<1>3. /\ IsJob(j) /\ j.start = 0 /\ j.vectors = <<>> /\ pc'[w] = "embed"
      /\ job'[w] = n /\ j.version \in Versions /\ j.files \in SUBSET Attachments
  BY <1>1, <1>2 DEF Build, Extract, Goto, JobIsBuilt, WriteInv, BuildInv, ProcessesTypeOK
<1>4. /\ n.version = j.version /\ n.files = j.files /\ n.warnings = y /\ n.drafts = x
      /\ n.start = 0 /\ n.vectors = <<>>
  BY <1>2, <1>3 DEF IsJob
<1>5. n.drafts = Drafts[n.version][n.files \ n.warnings] /\ Len(x) \in Nat
  <2>1. Readable(j.files, disk) = j.files \ y /\ j.files \ y \in SUBSET Attachments
    BY <1>2, <1>3 DEF Readable
  <2>2. Len(x) \in Nat
    BY <1>2, <1>3, <2>1 DEF DraftsAreLists
  <2>3. QED
    BY <1>2, <1>4, <2>1, <2>2
<1>6. n.vectors = [i \in 1..Min({n.start, Len(n.drafts)}) |-> n.drafts[i].content]
  <2>1. Min({n.start, Len(n.drafts)}) = 0
    BY <1>4, <1>5, MinOfTwo
  <2>2. 1..0 = {} /\ <<>> = [i \in {} |-> n.drafts[i].content]
    OBVIOUS
  <2>3. QED
    BY <1>4, <2>1, <2>2
<1>7. BuiltSoFar(n)
  <2>1. n.start \in Nat
    BY <1>4
  <2>2. QED
    BY <1>5, <1>6, <2>1 DEF BuiltSoFar
<1>8. QED
  BY <1>3, <1>7

\* Whoever writes the index has the vectors of all drafts.
LEMMA CommitStores ==
    ASSUME DraftsAreLists, WriteInv, NEW w \in Indexers, JobIsBuilt(w), Commit(w)
    PROVE  IndexIsWhole'
<1> DEFINE j == job[w]
           drafts == j.drafts
           files == j.files \ j.warnings
<1>1. /\ pc[w] = "insert" /\ chunks' = NewChunks(j.drafts, j.vectors)
      /\ row' = [row EXCEPT !.indexed = j.version, !.status = "ready", !.warned = j.warnings]
      /\ row \in Row
  BY DEF Commit, WriteInv, ProcessesTypeOK
<1>2. /\ j.version \in Versions /\ files \in SUBSET Attachments
      /\ drafts = Drafts[j.version][files] /\ j.start \in Nat /\ j.start >= Len(drafts)
      /\ Len(drafts) \in Nat /\ DOMAIN drafts = 1..Len(drafts)
      /\ j.vectors = [i \in 1..Min({j.start, Len(drafts)}) |-> drafts[i].content]
  BY <1>1, JobDrafts DEF BuiltSoFar, JobIsBuilt
<1>3. Min({j.start, Len(drafts)}) = Len(drafts)
  <2>1. j.start \in Nat /\ Len(drafts) \in Nat /\ j.start >= Len(drafts)
    BY <1>2
  <2>2. Min({j.start, Len(drafts)}) = IF j.start <= Len(drafts) THEN j.start ELSE Len(drafts)
    BY <2>1, MinOfTwo
  <2>3. QED
    BY <2>1, <2>2
<1>4. j.vectors = [i \in DOMAIN drafts |-> drafts[i].content]
  BY <1>2, <1>3, Zenon
<1>5. chunks' = ChunksFor(j.version, files)
  BY <1>1, <1>2, <1>4, Zenon DEF ChunksFor
<1>6. row'.indexed = j.version /\ row'.warned = j.warnings /\ j.version # None
  BY <1>1, <1>2 DEF Row
<1>7. files \cap j.warnings = {}
  OBVIOUS
<1> HIDE DEF j, files, drafts
<1>8. QED
  BY <1>2, <1>5, <1>6, <1>7 DEF IndexIsWhole

LEMMA IndexKept ==
    ASSUME IndexIsWhole, chunks' = chunks, row'.indexed = row.indexed,
           row'.warned \in {row.warned, {}}
    PROVE  IndexIsWhole'
<1>1. CASE row.indexed = None
  BY <1>1 DEF IndexIsWhole
<1>2. CASE row.indexed # None
  <2>1. PICK files \in SUBSET Attachments :
          chunks = ChunksFor(row.indexed, files) /\ files \cap row.warned = {}
    BY <1>2 DEF IndexIsWhole
  <2>2. chunks' = ChunksFor(row'.indexed, files) /\ files \cap row'.warned = {}
    BY <2>1
  <2>3. QED
    BY <1>2, <2>2 DEF IndexIsWhole
<1>3. QED
  BY <1>1, <1>2

\* Nothing but an indexer's commit touches the index, and nothing else puts
\* a file among the warnings.
LEMMA IndexSteps ==
    ASSUME DraftsAreLists, WriteInv, StoredInv, [Next]_vars
    PROVE  IndexIsWhole'
<1>1. IndexIsWhole /\ row \in Row /\ \A w \in Indexers : JobIsBuilt(w)
  BY DEF StoredInv, WriteInv, ProcessesTypeOK
<1>2. ASSUME NEW w \in Indexers, Commit(w) PROVE IndexIsWhole'
  BY <1>1, <1>2, CommitStores
<1>3. CASE ~\E w \in Indexers : Commit(w)
  <2>1. chunks' = chunks
    BY <1>3 DEF Next, IngestStep, ReadTender, StoreRecord, EndRecord, IngestInterrupted,
       DownloadStep, CheckFile, Transfer, StoreFile, StoreFileDeadlocks, MarkFileFailed,
       IndexerStep, LoadTender, Claim, Embed, Embedded, Insert, CommitFails, MarkFailed,
       IndexerInterrupted, Build, TakeLock, vars, catalogVars
  <2>2. row'.indexed = row.indexed
    BY <1>3, StoredRow, DownloadFrame, IndexerRow DEF Next, IngestStep, ReadTender, EndRecord,
       IngestInterrupted, TakeLock, vars, catalogVars
  <2>3. row'.warned \in {row.warned, {}}
    <3>1. CASE StoreRecord
      <4>1. PICK status, warned :
              /\ status = Emitted(row.status, visit.row.status, "pending")
              /\ warned = Emitted(row.warned, visit.row.warned, {})
        OBVIOUS
      <4>2. \/ row' = row
            \/ row' = [row EXCEPT !.version = Record.version, !.status = status,
                                  !.warned = warned]
        BY <3>1, <4>1 DEF StoreRecord
      <4>3. warned \in {row.warned, {}}
        BY <4>1 DEF Emitted
      <4>4. QED
        BY <1>1, <4>2, <4>3 DEF Row
    <3>2. CASE \E a \in Attachments : DownloadStep(a)
      BY <1>1, <3>2 DEF DownloadStep, CheckFile, Transfer, StoreFile, StoreFileDeadlocks,
         MarkFileFailed, catalogVars, Row
    <3>3. CASE \E w \in Indexers : IndexerStep(w) \/ Build(w) \/ IndexerInterrupted(w)
      <4>1. \/ row' = row
            \/ row' = [row EXCEPT !.status = "processing", !.warned = {}]
            \/ row' = [row EXCEPT !.status = "failed"]
        BY <1>3, <3>3 DEF IndexerStep, LoadTender, Claim, Embed, Embedded, Insert, CommitFails,
           MarkFailed, IndexerInterrupted, Build, catalogVars
      <4>2. QED
        BY <1>1, <4>1 DEF Row
    <3>4. CASE \/ ReadTender \/ EndRecord \/ IngestInterrupted \/ UNCHANGED vars
               \/ \E s \in Sessions : TakeLock(s)
      BY <3>4 DEF ReadTender, EndRecord, IngestInterrupted, TakeLock, vars, catalogVars
    <3>5. QED
      BY <3>1, <3>2, <3>3, <3>4 DEF Next, IngestStep
  <2>4. QED
    BY <1>1, <2>1, <2>2, <2>3, IndexKept
<1>4. QED
  BY <1>2, <1>3

\* A step of an indexer keeps what is known of its attempt.
LEMMA BuildSteps ==
    ASSUME DraftsAreLists, WriteInv, NEW w \in Indexers, JobIsBuilt(w),
           IndexerStep(w) \/ Build(w) \/ IndexerInterrupted(w)
    PROVE  JobIsBuilt(w)'
<1>1. DOMAIN job = Indexers /\ DOMAIN pc = Indexers
  BY DEF WriteInv, ProcessesTypeOK, BuildInv
<1>2. CASE LoadTender(w)
  <2>1. PICK v, fs, n : n = [NoJob EXCEPT !.version = v, !.files = fs] /\ job'[w] = n
    BY <1>1, <1>2 DEF LoadTender
  <2>2. n.start = 0 /\ n.vectors = <<>> /\ pc'[w] = "claim"
    BY <1>1, <1>2, <2>1 DEF NoJob, LoadTender, Goto
  <2>3. QED
    BY <2>1, <2>2 DEF JobIsBuilt
<1>3. CASE Build(w)
  BY <1>3, ExtractBuilds DEF JobIsBuilt
<1>4. CASE Embed(w) /\ ~FailsWith(w)
  <2>1. PICK answer \in Answers(Batch(w)) : EmbedBatch(w, answer)
    BY <1>4 DEF Embed
  <2>2. BuiltSoFar(job'[w]) /\ pc'[w] = "embed"
    BY <1>4, <2>1, BatchIsBuilt DEF Embed
  <2>3. QED
    BY <2>2 DEF JobIsBuilt
<1>5. CASE Returns(w) \/ FailsWith(w)
  <2>1. pc'[w] \in {"idle", "fail"}
    BY <1>1, <1>5 DEF Returns, FailsWith, Goto
  <2>2. QED
    BY <2>1 DEF JobIsBuilt
<1>6. CASE (Claim(w) \/ Embedded(w) \/ Insert(w)) /\ ~Returns(w) /\ ~FailsWith(w)
  <2>1. /\ job' = job
        /\ \/ pc[w] = "claim" /\ pc'[w] = "extract"
           \/ pc[w] = "embed" /\ pc'[w] = "write" /\ job[w].start >= Len(job[w].drafts)
           \/ pc[w] = "write" /\ pc'[w] = "insert"
    BY <1>1, <1>6 DEF Claim, Embedded, Insert, Goto
  <2>2. QED
    BY <2>1 DEF JobIsBuilt
<1>7. QED
  BY <1>2, <1>3, <1>4, <1>5, <1>6 DEF IndexerStep, Commit, CommitFails, MarkFailed,
     IndexerInterrupted

LEMMA StoredSteps ==
    ASSUME DraftsAreLists, WriteInv, StoredInv, [Next]_vars
    PROVE  StoredInv'
<1>1. ASSUME NEW w \in Indexers PROVE JobIsBuilt(w)'
  <2>1. JobIsBuilt(w)
    BY DEF StoredInv
  <2>2. CASE IndexerStep(w) \/ Build(w) \/ IndexerInterrupted(w)
    BY <2>1, <2>2, BuildSteps
  <2>3. CASE ~(IndexerStep(w) \/ Build(w) \/ IndexerInterrupted(w))
    <3>1. job'[w] = job[w] /\ pc'[w] = pc[w]
      <4>1. CASE \E v \in Indexers : IndexerStep(v) \/ Build(v) \/ IndexerInterrupted(v)
        BY <2>3, <4>1, IndexerFrame
      <4>2. CASE \E a \in Attachments : DownloadStep(a)
        BY <4>2, DownloadFrame
      <4>3. CASE \/ IngestStep \/ IngestInterrupted \/ UNCHANGED vars
                 \/ \E s \in Sessions : TakeLock(s)
        BY <4>3 DEF IngestStep, ReadTender, StoreRecord, EndRecord, IngestInterrupted,
           TakeLock, vars, buildVars
      <4>4. QED
        BY <4>1, <4>2, <4>3 DEF Next
    <3>2. QED
      BY <2>1, <3>1 DEF JobIsBuilt
  <2>4. QED
    BY <2>2, <2>3
<1>2. QED
  BY <1>1, IndexSteps DEF StoredInv

\* The index of a tender is always that of one version, the one indexed_hash
\* names, with whole files and each text with its own vector, whatever the
\* embedding service answers and wherever an attempt is interrupted
\* (process, OllamaAIProvider.embed).
THEOREM IndexSafety == ASSUME DraftsAreLists PROVE Spec => []StoredInv
<1>1. Init => StoredInv
  <2> SUFFICES ASSUME Init PROVE StoredInv
    OBVIOUS
  <2>1. row.indexed = None /\ chunks = {} /\ \A w \in Indexers : pc[w] = "idle"
    BY DEF Init
  <2>2. QED
    BY <2>1 DEF StoredInv, IndexIsWhole, JobIsBuilt
<1>2. WriteInv /\ StoredInv /\ [Next]_vars => StoredInv'
  BY StoredSteps
<1>3. QED
  BY <1>1, <1>2, WriteInvariance, PTL DEF Spec

\* The chunks of a version are its drafts with their vectors.
LEMMA ChunksOfDrafts ==
    ASSUME NEW version, NEW files
    PROVE  /\ \A c \in ChunksFor(version, files) : c.embedding = c.content
           /\ \A a \in Attachments :
                (\E c \in ChunksFor(version, files) : c.attachment = a)
                    => HasDraftOf(Drafts[version][files], a)
<1> DEFINE drafts == Drafts[version][files]
           contents == [i \in DOMAIN drafts |-> drafts[i].content]
<1>1. ASSUME NEW c \in ChunksFor(version, files)
      PROVE  \E i \in DOMAIN drafts :
               c.attachment = drafts[i].attachment /\ c.content = drafts[i].content
               /\ c.embedding = drafts[i].content
  <2>1. PICK i \in DOMAIN drafts :
          c = [attachment |-> drafts[i].attachment, section |-> drafts[i].section,
               position |-> drafts[i].position, content |-> drafts[i].content,
               embedding |-> contents[i]]
    BY <1>1 DEF ChunksFor, NewChunks
  <2>2. QED
    BY <2>1
<1>2. QED
  BY <1>1 DEF HasDraftOf

\* No text is lost, none repeated and no two words run together between the
\* database and search, as long as chunk_units gives the chunks of a tender
\* that cover it: no interleaving mixes versions or loses chunks.
THEOREM TextSafety ==
    ASSUME DraftsAreLists, DraftsCoverTender PROVE Spec => []TenderTextIsCovered
<1>1. WriteInv /\ StoredInv => TenderTextIsCovered
  BY DEF WriteInv, ProcessesTypeOK, Row, StoredInv, IndexIsWhole, TenderTextIsCovered,
     DraftsCoverTender
<1>2. QED
  BY <1>1, WriteInvariance, IndexSafety, PTL

\* A file is in the index as a whole or, if it could not be read, not at all
\* and named in last_error, whatever is downloaded, stored or interrupted
\* meanwhile, as long as extract and chunk_units miss nothing of a file.
THEOREM FileSafety ==
    ASSUME DraftsAreLists, DraftsCoverFiles PROVE Spec => []FilesAreWholeOrWarned
<1>1. ASSUME WriteInv, StoredInv PROVE FilesAreWholeOrWarned
  <2>1. ASSUME NEW a \in Attachments, \E c \in chunks : c.attachment = a
        PROVE  a \notin row.warned /\ FileCovered(chunks, a)
    <3>1. PICK version \in Versions, files \in SUBSET Attachments :
            chunks = ChunksFor(version, files) /\ files \cap row.warned = {}
      BY <1>1, <2>1 DEF WriteInv, ProcessesTypeOK, Row, StoredInv, IndexIsWhole
    <3>2. HasDraftOf(Drafts[version][files], a)
      BY <2>1, <3>1, ChunksOfDrafts
    <3>3. QED
      BY <3>1, <3>2 DEF DraftsCoverFiles
  <2>2. ASSUME NEW w \in Indexers, pc[w] \in {"embed", "write", "insert"},
               NEW a \in job[w].files, FileUnits(a) # <<>>, a \notin job[w].warnings
        PROVE  HasDraftOf(job[w].drafts, a)
    <3>1. /\ job[w].version \in Versions /\ job[w].files \in SUBSET Attachments
          /\ job[w].drafts = Drafts[job[w].version][job[w].files \ job[w].warnings]
      BY <1>1, <2>2, JobDrafts DEF StoredInv, BuiltSoFar
    <3>2. a \in job[w].files \ job[w].warnings
          /\ job[w].files \ job[w].warnings \in SUBSET Attachments
      BY <2>2, <3>1
    <3>3. QED
      BY <2>2, <3>1, <3>2 DEF DraftsCoverFiles
  <2>3. QED
    BY <2>1, <2>2 DEF FilesAreWholeOrWarned
<1>2. QED
  BY <1>1, WriteInvariance, IndexSafety, PTL

\* No chunk has the vector of another text, whatever the service answers,
\* and what is inserted the schema accepts if chunk_units made it so.
THEOREM ChunkSafety ==
    ASSUME DraftsAreLists, DraftsAreStorable PROVE Spec => []ChunksAreStorable
<1>1. ASSUME WriteInv, StoredInv PROVE ChunksAreStorable
  <2>1. \A c \in chunks : c.embedding = c.content
    <3>1. CASE row.indexed = None
      BY <1>1, <3>1 DEF StoredInv, IndexIsWhole
    <3>2. CASE row.indexed # None
      BY <1>1, <3>2, ChunksOfDrafts DEF StoredInv, IndexIsWhole
    <3>3. QED
      BY <3>1, <3>2
  <2>2. ASSUME NEW w \in Indexers, pc[w] = "insert" PROVE SchemaAccepts(job[w].drafts)
    <3>1. /\ job[w].version \in Versions /\ job[w].files \ job[w].warnings \in SUBSET Attachments
          /\ job[w].drafts = Drafts[job[w].version][job[w].files \ job[w].warnings]
      BY <1>1, <2>2, JobDrafts DEF StoredInv, BuiltSoFar
    <3>2. QED
      BY <3>1 DEF DraftsAreStorable
  <2>3. QED
    BY <2>1, <2>2 DEF ChunksAreStorable
<1>2. QED
  BY <1>1, WriteInvariance, IndexSafety, PTL
=============================================================================
