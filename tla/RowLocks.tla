------------------------------ MODULE RowLocks ------------------------------
(* Row locks of PostgreSQL as the transactions of the program take them:    *)
(* SELECT ... FOR UPDATE, UPDATE, and the key share of a foreign key check. *)
(* A transaction asks for its locks one statement after the other, keeps    *)
(* them until it ends, and is aborted if it waits in a circle.              *)
EXTENDS Naturals, Sequences, FiniteSets

CONSTANTS
    Sessions,  \* database sessions, one transaction at a time each
    Rows

VARIABLES
    held,  \* the locks of each session's transaction
    asks   \* those its statements still have to take, in order

lockVars == <<held, asks>>

\* UPDATE does not touch keys, hence the weaker lock; with_for_update is
\* SELECT FOR UPDATE; an INSERT locks the row a foreign key points to.
Modes == {"key_share", "no_key_update", "update"}
Lock == [row : Rows, mode : Modes]

KeyShare(row) == [row |-> row, mode |-> "key_share"]
Updates(row) == [row |-> row, mode |-> "no_key_update"]
ForUpdate(row) == [row |-> row, mode |-> "update"]

Conflicts(mode, other) ==
    \/ "update" \in {mode, other}
    \/ mode = "no_key_update" /\ other = "no_key_update"

LocksTypeOK ==
    /\ held \in [Sessions -> SUBSET Lock]
    /\ asks \in [Sessions -> Seq(Lock)]

LocksInit ==
    /\ held = [s \in Sessions |-> {}]
    /\ asks = [s \in Sessions |-> <<>>]

\* Two transactions never hold conflicting locks on a row.
LocksExclude ==
    \A s, other \in Sessions : s # other =>
        \A lock \in held[s], taken \in held[other] :
            lock.row = taken.row => ~Conflicts(lock.mode, taken.mode)

WaitsFor(s, other) ==
    /\ s # other /\ asks[s] # <<>>
    /\ \E taken \in held[other] :
          taken.row = Head(asks[s]).row /\ Conflicts(Head(asks[s]).mode, taken.mode)

\* The next statement of a transaction gets its lock.
TakeLock(s) ==
    /\ asks[s] # <<>>
    /\ \A other \in Sessions : ~WaitsFor(s, other)
    /\ held' = [held EXCEPT ![s] = @ \cup {Head(asks[s])}]
    /\ asks' = [asks EXCEPT ![s] = Tail(@)]

\* s waits for itself, through any number of others.
Deadlocked(s) ==
    \A S \in SUBSET Sessions :
        /\ \A other \in Sessions : WaitsFor(s, other) => other \in S
        /\ \A via \in S, other \in Sessions : WaitsFor(via, other) => other \in S
        => s \in S

\* A transaction begins, or ends and the next one of its session begins.
Statements(s, locks) ==
    /\ held' = [held EXCEPT ![s] = {}]
    /\ asks' = [asks EXCEPT ![s] = locks]
Ends(s) == Statements(s, <<>>)

\* All statements are through, and the transaction can commit.
HasItsLocks(s) == asks[s] = <<>>
=============================================================================
