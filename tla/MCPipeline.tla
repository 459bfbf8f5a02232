----------------------------- MODULE MCPipeline -----------------------------
(* Small instances of the pipeline for TLC.                                 *)
EXTENDS Pipeline, TLC

CONSTANTS v1, v2, a1

\* The first version lists the attachment, the second one drops it.
MCListed == (v1 :> {a1}) @@ (v2 :> {})

AllFaults == FaultKinds
\* Failures that lose no event: downloads a later cycle makes up for, and
\* failures of the indexer, all of them retried.
RetriedFaults == {"download", "ai_down", "index_db", "indexer_crash", "slow"}
PublishFaults == {"publish"}
DownloadFaults == {"download"}

\* Indexers are interchangeable, and so are the places of the stream.
Symmetry == Permutations(Workers) \cup Permutations(Slots)
=============================================================================
