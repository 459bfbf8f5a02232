---------------------------- MODULE MCRateLimit ----------------------------
(* Four requests with one key of two requests per minute, over two minutes. *)
EXTENDS RateLimit, TLC

CONSTANT k1

MCKeyOf == [r \in Requests |-> k1]
MCLimit == k1 :> 2
Symmetry == Permutations(Requests)
=============================================================================
