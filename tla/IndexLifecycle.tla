--------------------------- MODULE IndexLifecycle ---------------------------
(* What the pipeline promises to search, whatever fails: the index of a     *)
(* tender is only ever replaced as a whole, by an index of the content the  *)
(* database holds at that moment, and a tender becomes searchable only by   *)
(* such a replacement.                                                      *)
CONSTANTS Tenders, Versions, None

VARIABLES
    content,    \* the version the database holds, None before the first
    index,      \* the version the chunks were made from
    searchable  \* whether search reads the chunks

lifecycleVars == <<content, index, searchable>>

LifecycleInit ==
    /\ content = [t \in Tenders |-> None]
    /\ index = [t \in Tenders |-> None]
    /\ searchable = [t \in Tenders |-> FALSE]

\* The source publishes other content; the tender may leave the search.
Change(t, v) ==
    /\ content' = [content EXCEPT ![t] = v]
    /\ \E kept \in {FALSE, searchable[t]} :
           searchable' = [searchable EXCEPT ![t] = kept]
    /\ UNCHANGED index

Reindex(t) ==
    /\ content[t] # None
    /\ index' = [index EXCEPT ![t] = content[t]]
    /\ searchable' = [searchable EXCEPT ![t] = TRUE]
    /\ UNCHANGED content

Withdraw(t) ==
    /\ searchable' = [searchable EXCEPT ![t] = FALSE]
    /\ UNCHANGED <<content, index>>

LifecycleNext ==
    \E t \in Tenders :
        \/ \E v \in Versions : Change(t, v)
        \/ Reindex(t)
        \/ Withdraw(t)

LifecycleSpec == LifecycleInit /\ [][LifecycleNext]_lifecycleVars
=============================================================================
