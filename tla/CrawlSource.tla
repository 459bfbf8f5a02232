---------------------------- MODULE CrawlSource ----------------------------
(* One source under the loop of the crawler: run_source with its paging,    *)
(* max_items and the cursor in the sources table (crawler/service.py), and  *)
(* fetch_page of the adapters.  The source holds a fixed list of records    *)
(* and is asked for the next ones after a cursor.                           *)
EXTENDS Naturals, FiniteSets

CONSTANTS
    Size,      \* records the source offers, numbered in its order
    Malformed, \* those the adapter skips with a warning
    Refusals,  \* sets of records that persist_record cannot store
    PageSize,  \* records of a page at most (250 and 100 in the adapters)
    MaxItems,  \* source_max_items
    MaxFaults, \* failures in a behaviour (a bound)
    None       \* the cursor before the first page and after the last one

ASSUME CrawlSourceAssumption ==
    /\ Size \in Nat
    /\ Malformed \subseteq 1..Size
    /\ Refusals \subseteq SUBSET (1..Size)
    /\ PageSize \in Nat \ {0}
    /\ MaxItems \in Nat \ {0}
    /\ MaxFaults \in Nat
    /\ None \notin Nat

VARIABLES
    stored,    \* sources.cursor
    stage,     \* where run_source is
    cursor,    \* its local cursor
    seen,      \* seen_cursors
    received,  \* its count of records
    page,      \* the page at hand: first record, last record, next cursor
    persisted, \* records that were committed at least once
    faultsLeft,
    refused    \* the records of this source that raise whenever they come

localVars == <<cursor, seen, received, page>>
surroundings == <<faultsLeft, refused>>
vars == <<stored, stage, localVars, persisted, surroundings>>

\* A cursor stands for the number of records before it.
Cursor == (1..Size) \cup {None}
Before(c) == IF c = None THEN 0 ELSE c
Offered(from, to) == (from..to) \ Malformed

NoPage == [at |-> 0, last |-> 0, next |-> None, empty |-> TRUE]
Page == [at : 0..Size, last : 0..Size, next : Cursor, empty : BOOLEAN]

Init ==
    /\ stored = None
    /\ stage = "idle"
    /\ cursor = None /\ seen = {} /\ received = 0 /\ page = NoPage
    /\ persisted = {}
    /\ faultsLeft = MaxFaults
    /\ refused \in Refusals

Fault == faultsLeft > 0 /\ faultsLeft' = faultsLeft - 1 /\ UNCHANGED refused

\* run_source returns or raises, and the loop of __main__ goes on.
Leave ==
    /\ stage' = "idle"
    /\ cursor' = None /\ seen' = {} /\ received' = 0 /\ page' = NoPage

\* Wrong variant of StartCursor: every cycle starts with the first page.
FromTheStart == None
StartCursor == stored

\* get_cursor: the row is created if need be.
Begin ==
    /\ stage = "idle"
    /\ stage' = "page"
    /\ cursor' = StartCursor
    /\ UNCHANGED <<stored, seen, received, page, persisted, surroundings>>

\* while received < max_items, and the check for a repeated cursor.
AnotherPage ==
    /\ stage = "page"
    /\ received < MaxItems /\ ~(cursor # None /\ cursor \in seen)
    /\ stage' = "fetch"
    /\ seen' = seen \cup {cursor}
    /\ UNCHANGED <<stored, cursor, received, page, persisted, surroundings>>

\* The count is reached, or RuntimeError.
NoFurtherPage ==
    /\ stage = "page"
    /\ received >= MaxItems \/ (cursor # None /\ cursor \in seen)
    /\ Leave
    /\ UNCHANGED <<stored, persisted, surroundings>>

\* Wrong variant of Wanted: the full number in every page.
AlwaysMaxItems == MaxItems
\* The limit handed to fetch_page.
Wanted == MaxItems - received

\* Wrong variant of CursorsAfter: off by one.
CursorsPast(n) == {n + 1}
\* The cursor of the rest; after the last record a token or none.
CursorsAfter(n) == IF n = Size THEN {n, None} \cap Cursor ELSE {n}

PageUpTo(n, next) ==
    [at |-> Before(cursor), last |-> n, next |-> next,
     empty |-> Offered(Before(cursor) + 1, n) = {}]

\* The source answers with some of the records after the cursor.
FetchPage ==
    /\ stage = "fetch"
    /\ \E n \in Before(cursor)..Size :
        /\ n - Before(cursor) <= Wanted /\ n - Before(cursor) <= PageSize
        /\ n = Before(cursor) => n = Size
        /\ \/ \E next \in CursorsAfter(n) : page' = PageUpTo(n, next)
              /\ UNCHANGED surroundings
           \* A source that loses the thread repeats an earlier cursor.
           \/ \E next \in seen \ {None} : page' = PageUpTo(n, next)
              /\ Fault
    /\ stage' = "records"
    /\ UNCHANGED <<stored, cursor, seen, received, persisted>>

Rest == Offered(page.at + 1, page.last)

IsNext(record) == record \in Rest /\ \A other \in Rest : record <= other

\* persist_record commits, downloads and publication follow.  The loop over
\* the page's records is left early when max_items is reached.
PersistRecord ==
    /\ stage = "records" /\ received < MaxItems
    /\ \E record \in Rest \ refused :
        /\ IsNext(record)
        /\ persisted' = persisted \cup {record}
        /\ page' = [page EXCEPT !.at = record]
    /\ received' = received + 1
    /\ UNCHANGED <<stored, stage, cursor, seen, surroundings>>

\* The exception leaves run_source: the cursor stays where it was.
PersistFails ==
    /\ stage = "records" /\ Rest # {} /\ received < MaxItems
    /\ \/ Fault
       \/ (\E record \in refused : IsNext(record)) /\ UNCHANGED surroundings
    /\ Leave
    /\ UNCHANGED <<stored, persisted>>

\* update_cursor, and the ends of the loop: a page without records, or no
\* further page.
StoreCursor ==
    /\ stage = "records" /\ (Rest = {} \/ received >= MaxItems)
    /\ stored' = page.next
    /\ IF page.empty \/ page.next = None
       THEN Leave
       ELSE /\ cursor' = page.next
            /\ stage' = "page"
            /\ page' = NoPage
            /\ UNCHANGED <<seen, received>>
    /\ UNCHANGED <<persisted, surroundings>>

\* fetch_page or a transaction raises, or the process stops.
Interrupted ==
    /\ stage # "idle"
    /\ Fault
    /\ Leave
    /\ UNCHANGED <<stored, persisted>>

Work ==
    \/ Begin \/ AnotherPage \/ NoFurtherPage \/ FetchPage \/ PersistRecord
    \/ PersistFails \/ StoreCursor \/ Interrupted

Spec == Init /\ [][Work]_vars
----------------------------------------------------------------------------
\* Type correctness; a cycle takes max_items records at most.
TypeOK ==
    /\ stored \in Cursor
    /\ stage \in {"idle", "page", "fetch", "records"}
    /\ cursor \in Cursor
    /\ seen \subseteq Cursor
    /\ received \in 0..MaxItems
    /\ page \in Page
    /\ persisted \subseteq Offered(1, Size)
    /\ faultsLeft \in 0..MaxFaults
    /\ refused \in Refusals

\* The stored cursor moves only behind records that were all committed,
\* also when max_items cuts the cycle short, a record cannot be stored, the
\* process stops or the source repeats a cursor.
CursorNeverSkips ==
    [][stored' # stored =>
         Offered(1, IF stored' = None THEN Size ELSE stored') \subseteq persisted]_vars

\* Once failures stop, every well-formed record is stored, in as many cycles
\* as max_items makes necessary, up to the first one that always raises.
EveryRecordIsPersisted ==
    <>(\A record \in Offered(1, Size) :
          (\A other \in refused : record < other) => record \in persisted)

\* "The failure of one record, attachment or source does not stop the others"
\* (README.md): every record is stored but those that cannot be.
OneRecordStopsNoOther == <>(Offered(1, Size) \ refused \subseteq persisted)
----------------------------------------------------------------------------
(* The inductive invariant behind CursorNeverSkips *)

\* Everything up to a record, or a cursor, is stored.
StoredUpTo(n) == Offered(1, n) \subseteq persisted

\* Every cursor the code may still write back stands behind stored records.
CursorsAreSafe ==
    \A c \in {stored, cursor} \cup seen : StoredUpTo(Before(c))

\* The page at hand is stored as far as it was read, fits into what is left
\* of max_items, and its cursor is its end or one that was seen.
PageIsSafe ==
    stage = "records" =>
        /\ StoredUpTo(page.at)
        /\ page.last <= page.at + (MaxItems - received)
        /\ IF page.next = None THEN page.last = Size
                               ELSE page.next \in seen \cup {page.last}

PagingInv == TypeOK /\ CursorsAreSafe /\ PageIsSafe
=============================================================================
