------------------------- MODULE CrawlSourceProofs -------------------------
(* The cursor of a source never gets ahead of what is stored, for sources,  *)
(* pages and limits of any size and any number of failures.                 *)
EXTENDS CrawlSource, TLAPS

USE CrawlSourceAssumption

\* A cursor counts records of the source.
LEMMA CursorCounts == \A c \in Cursor : Before(c) \in 0..Size
BY DEF Cursor, Before

\* Storing more leaves stored what is stored.
LEMMA StoredStays ==
    ASSUME NEW n, persisted \subseteq persisted', StoredUpTo(n)
    PROVE  StoredUpTo(n)'
BY DEF StoredUpTo

\* Storing the next record of a page extends what is stored up to it.
LEMMA NextRecordStored ==
    ASSUME NEW at \in 0..Size, NEW last \in 0..Size, StoredUpTo(at),
           NEW record \in Offered(at + 1, last),
           \A other \in Offered(at + 1, last) : record <= other,
           persisted' = persisted \cup {record}
    PROVE  StoredUpTo(record)'
<1> SUFFICES ASSUME NEW r \in Offered(1, record) PROVE r \in persisted'
  BY DEF StoredUpTo, Offered
<1>1. CASE r <= at
  BY <1>1 DEF StoredUpTo, Offered
<1>2. CASE r > at
  <2>1. r \in Offered(at + 1, last)
    BY <1>2 DEF Offered
  <2>2. r = record
    BY <2>1 DEF Offered
  <2>3. QED
    BY <2>2
<1>3. QED
  BY <1>1, <1>2 DEF Offered

\* A page of which nothing is left to store is stored to its end.
LEMMA WholePageStored ==
    ASSUME NEW at \in 0..Size, NEW last \in 0..Size, StoredUpTo(at),
           Offered(at + 1, last) = {}
    PROVE  StoredUpTo(last)
<1> SUFFICES ASSUME NEW r \in Offered(1, last) PROVE r \in persisted
  BY DEF StoredUpTo
<1>1. CASE r <= at
  BY <1>1 DEF StoredUpTo, Offered
<1>2. CASE r > at
  BY <1>2 DEF Offered
<1>3. QED
  BY <1>1, <1>2 DEF Offered

LEMMA InitiallySafe == Init => PagingInv
<1> SUFFICES ASSUME Init PROVE PagingInv
  OBVIOUS
<1>1. TypeOK
  BY DEF Init, TypeOK, Cursor, Page, NoPage
<1>2. CursorsAreSafe
  BY DEF Init, CursorsAreSafe, StoredUpTo, Offered, Before
<1>3. PageIsSafe
  BY DEF Init, PageIsSafe
<1>4. QED
  BY <1>1, <1>2, <1>3 DEF PagingInv

\* A cycle that ends, however it does, forgets its local cursors.
LEMMA LeaveIsSafe ==
    ASSUME PagingInv, Leave, stored' \in Cursor, StoredUpTo(Before(stored')),
           persisted' = persisted, faultsLeft' \in 0..MaxFaults,
           refused' = refused
    PROVE  PagingInv'
<1>1. TypeOK'
  BY DEF PagingInv, TypeOK, Leave, Cursor, Page, NoPage
<1>2. CursorsAreSafe'
  BY DEF CursorsAreSafe, StoredUpTo, Offered, Before, Leave
<1>3. PageIsSafe'
  BY DEF PageIsSafe, Leave
<1>4. QED
  BY <1>1, <1>2, <1>3 DEF PagingInv

\* The page that the source answers with.
LEMMA FetchIsSafe ==
    ASSUME PagingInv, FetchPage
    PROVE  PagingInv'
<1> USE DEF PagingInv
<1>1. PICK n \in Before(cursor)..Size :
        /\ n - Before(cursor) <= Wanted
        /\ n = Before(cursor) => n = Size
        /\ \/ \E next \in CursorsAfter(n) : page' = PageUpTo(n, next) /\ UNCHANGED surroundings
           \/ \E next \in seen \ {None} : page' = PageUpTo(n, next) /\ Fault
  BY DEF FetchPage
<1>2. Before(cursor) \in 0..Size /\ n \in 0..Size
  BY CursorCounts DEF TypeOK
<1>3. PICK next : /\ next \in CursorsAfter(n) \cup (seen \ {None})
                  /\ page' = PageUpTo(n, next)
  BY <1>1
<1>4. /\ next \in Cursor
      /\ IF next = None THEN n = Size ELSE next \in seen \cup {n}
  BY <1>1, <1>2, <1>3 DEF CursorsAfter, Cursor, TypeOK, Before
<1>5. faultsLeft' \in 0..MaxFaults /\ refused' \in Refusals
  BY <1>1 DEF Fault, surroundings, TypeOK
<1>6. TypeOK'
  BY <1>2, <1>3, <1>4, <1>5 DEF TypeOK, FetchPage, PageUpTo, Page
<1>7. CursorsAreSafe'
  BY DEF CursorsAreSafe, FetchPage, StoredUpTo
<1>8. PageIsSafe'
  <2>1. StoredUpTo(Before(cursor))'
    BY DEF CursorsAreSafe, StoredUpTo, FetchPage
  <2>2. n <= Before(cursor) + (MaxItems - received)
    BY <1>1, <1>2 DEF Wanted, TypeOK
  <2>3. /\ page'.at = Before(cursor) /\ page'.last = n /\ page'.next = next
        /\ received' = received /\ seen' = seen /\ cursor' = cursor
    BY <1>3 DEF PageUpTo, FetchPage
  <2>4. StoredUpTo(page.at)'
    BY <2>1, <2>3 DEF StoredUpTo
  <2>5. QED
    BY <1>4, <2>2, <2>3, <2>4 DEF PageIsSafe
<1>9. QED
  BY <1>6, <1>7, <1>8

LEMMA PersistIsSafe ==
    ASSUME PagingInv, PersistRecord
    PROVE  PagingInv'
<1> USE DEF PagingInv
<1>1. PICK record \in Offered(page.at + 1, page.last) :
        /\ \A other \in Offered(page.at + 1, page.last) : record <= other
        /\ persisted' = persisted \cup {record}
        /\ page' = [page EXCEPT !.at = record]
  BY DEF PersistRecord, IsNext, Rest
<1>2. page.at \in 0..Size /\ page.last \in 0..Size
  BY DEF TypeOK, Page
<1>3. /\ record \in 1..Size /\ record >= page.at + 1
      /\ record \in Offered(1, Size)
  BY <1>2 DEF Offered
<1>4. TypeOK'
  BY <1>1, <1>3 DEF TypeOK, PersistRecord, surroundings, Page
<1>5. CursorsAreSafe'
  BY <1>1, StoredStays DEF CursorsAreSafe, PersistRecord, StoredUpTo
<1>6. StoredUpTo(record)'
  BY <1>1, <1>2, NextRecordStored DEF PageIsSafe, PersistRecord
<1>7. PageIsSafe'
  <2>1. /\ page'.at = record /\ page'.last = page.last /\ page'.next = page.next
        /\ received' = received + 1 /\ seen' = seen
    BY <1>1 DEF PersistRecord, TypeOK, Page
  <2>2. StoredUpTo(page.at)'
    BY <1>6, <2>1 DEF StoredUpTo
  <2>3. page'.last <= page'.at + (MaxItems - received')
    BY <1>2, <1>3, <2>1 DEF PageIsSafe, PersistRecord, TypeOK
  <2>4. QED
    BY <2>1, <2>2, <2>3 DEF PageIsSafe, PersistRecord
<1>8. QED
  BY <1>4, <1>5, <1>7

\* The cursor that is stored stands behind stored records.
LEMMA StoredCursorIsSafe ==
    ASSUME PagingInv, StoreCursor
    PROVE  /\ stored' \in Cursor
           /\ StoredUpTo(IF stored' = None THEN Size ELSE stored')
           /\ StoredUpTo(Before(stored'))
<1> USE DEF PagingInv
<1>1. page.at \in 0..Size /\ page.last \in 0..Size /\ page.next \in Cursor
  BY DEF TypeOK, Page
<1>2. stored' = page.next
  BY DEF StoreCursor
<1>3. Offered(page.at + 1, page.last) = {}
  <2>1. CASE received >= MaxItems
    <3>1. page.last <= page.at
      BY <1>1, <2>1 DEF PageIsSafe, StoreCursor, TypeOK
    <3>2. QED
      BY <1>1, <3>1 DEF Offered
  <2>2. CASE received < MaxItems
    BY <2>2 DEF StoreCursor, Rest, TypeOK
  <2>3. QED
    BY <2>1, <2>2 DEF TypeOK
<1>4. StoredUpTo(page.last)
  BY <1>1, <1>3, WholePageStored DEF PageIsSafe, StoreCursor
<1>5. StoredUpTo(IF stored' = None THEN Size ELSE stored')
  BY <1>2, <1>4 DEF PageIsSafe, StoreCursor, CursorsAreSafe, Before
<1>6. StoredUpTo(Before(stored'))
  BY <1>5 DEF StoredUpTo, Offered, Before
<1>7. QED
  BY <1>1, <1>2, <1>5, <1>6

LEMMA StoreIsSafe ==
    ASSUME PagingInv, StoreCursor
    PROVE  PagingInv'
<1> USE DEF PagingInv
<1>1. /\ stored' \in Cursor /\ StoredUpTo(Before(stored'))
      /\ stored' = page.next
      /\ persisted' = persisted
      /\ faultsLeft' \in 0..MaxFaults /\ refused' = refused /\ refused \in Refusals
  BY StoredCursorIsSafe DEF StoreCursor, surroundings, TypeOK
<1>2. CASE page.empty \/ page.next = None
  BY <1>1, <1>2, LeaveIsSafe DEF StoreCursor
<1>3. CASE ~(page.empty \/ page.next = None)
  <2>1. /\ cursor' = stored' /\ stage' = "page" /\ page' = NoPage
        /\ UNCHANGED <<seen, received>>
    BY <1>1, <1>3 DEF StoreCursor
  <2>2. TypeOK'
    BY <1>1, <2>1 DEF TypeOK, Page, NoPage, Cursor
  <2>3. CursorsAreSafe'
    BY <1>1, <2>1 DEF CursorsAreSafe, StoredUpTo
  <2>4. PageIsSafe'
    BY <2>1 DEF PageIsSafe
  <2>5. QED
    BY <2>2, <2>3, <2>4
<1>4. QED
  BY <1>2, <1>3

LEMMA StepIsSafe ==
    ASSUME PagingInv, [Work]_vars
    PROVE  PagingInv'
<1> USE DEF PagingInv
<1>1. CASE Begin
  <2>1. TypeOK'
    BY <1>1 DEF Begin, StartCursor, surroundings, TypeOK
  <2>2. CursorsAreSafe' /\ PageIsSafe'
    BY <1>1 DEF Begin, StartCursor, CursorsAreSafe, PageIsSafe, StoredUpTo
  <2>3. QED
    BY <2>1, <2>2
<1>2. CASE AnotherPage
  <2>1. TypeOK'
    BY <1>2 DEF AnotherPage, surroundings, TypeOK
  <2>2. CursorsAreSafe' /\ PageIsSafe'
    BY <1>2 DEF AnotherPage, CursorsAreSafe, PageIsSafe, StoredUpTo
  <2>3. QED
    BY <2>1, <2>2
<1>3. CASE NoFurtherPage \/ PersistFails \/ Interrupted
  <2>1. /\ Leave /\ UNCHANGED <<stored, persisted, refused>>
        /\ faultsLeft' \in 0..MaxFaults
    BY <1>3 DEF NoFurtherPage, PersistFails, Interrupted, Fault, surroundings, TypeOK
  <2>2. stored' \in Cursor /\ StoredUpTo(Before(stored'))
    BY <2>1 DEF TypeOK, CursorsAreSafe
  <2>3. QED
    BY <2>1, <2>2, LeaveIsSafe
<1>4. CASE FetchPage
  BY <1>4, FetchIsSafe
<1>5. CASE PersistRecord
  BY <1>5, PersistIsSafe
<1>6. CASE StoreCursor
  BY <1>6, StoreIsSafe
<1>7. CASE UNCHANGED vars
  BY <1>7 DEF vars, localVars, surroundings, TypeOK, CursorsAreSafe, PageIsSafe, StoredUpTo
<1>8. QED
  BY <1>1, <1>2, <1>3, <1>4, <1>5, <1>6, <1>7 DEF Work

\* The inductive invariant of the paging: every cursor the code may still
\* store, and the page at hand, stand behind stored records.
THEOREM PagingInvariance == Spec => []PagingInv
<1>1. Init => PagingInv
  BY InitiallySafe
<1>2. PagingInv /\ [Work]_vars => PagingInv'
  BY StepIsSafe
<1>3. QED
  BY <1>1, <1>2, PTL DEF Spec

\* run_source's local state and the sources row are well formed, and a cycle
\* takes max_items records at most.
THEOREM PagingTypes == Spec => []TypeOK
<1>1. PagingInv => TypeOK
  BY DEF PagingInv
<1>2. QED
  BY <1>1, PagingInvariance, PTL

\* The cursor of a source moves only behind committed records: interrupted
\* or cut short, no cycle makes a later one skip a record.
THEOREM CursorSafety == Spec => CursorNeverSkips
<1> DEFINE Moves == stored' # stored =>
        Offered(1, IF stored' = None THEN Size ELSE stored') \subseteq persisted
<1>1. PagingInv /\ [Work]_vars => [Moves]_vars
  <2> SUFFICES ASSUME PagingInv, [Work]_vars, stored' # stored
               PROVE  Offered(1, IF stored' = None THEN Size ELSE stored') \subseteq persisted
    OBVIOUS
  <2>1. StoreCursor
    BY DEF Work, Begin, AnotherPage, NoFurtherPage, FetchPage, PersistRecord,
           PersistFails, Interrupted, vars
  <2>2. QED
    BY <2>1, StoredCursorIsSafe DEF StoredUpTo
<1>2. QED
  BY <1>1, PagingInvariance, PTL DEF Spec, CursorNeverSkips
=============================================================================
