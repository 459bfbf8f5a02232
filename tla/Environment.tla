---------------------------- MODULE Environment ----------------------------
(* Failures the two background roles of TenderLens have to live with.  A    *)
(* failure of a kind in Faults may strike wherever a component allows for   *)
(* that kind; MaxFaults bounds how many strike in one behaviour, so every   *)
(* behaviour ends in a period without failures.                             *)
EXTENDS Naturals

CONSTANTS
    Faults,      \* the kinds of failure that may occur
    MaxFaults    \* how many of them one behaviour may contain (a bound)

FaultKinds == {"publish",        \* NATS rejects an event or its answer is lost
               "download",       \* an attachment cannot be fetched or stored
               "persist",        \* a database error in a crawler transaction
               "crawler_crash",  \* the crawler process stops and is restarted
               "ai_down",        \* no embeddings, or none of the right shape
               "unexpected",     \* any other error while indexing
               "index_db",       \* a database error in an indexer transaction
               "indexer_crash",  \* an indexer stops, or its settlement is lost
               "slow"}           \* ack_wait runs out under a live indexer

ASSUME FaultsAssumption == Faults \subseteq FaultKinds /\ MaxFaults \in Nat

VARIABLE faultsLeft

EnvironmentInit == faultsLeft = MaxFaults

EnvironmentTypeOK == faultsLeft \in 0..MaxFaults

\* One failure of the given kind happens in this step.
Fault(kind) ==
    /\ kind \in Faults
    /\ faultsLeft > 0
    /\ faultsLeft' = faultsLeft - 1

NoFault == UNCHANGED faultsLeft
=============================================================================
