----------------------------- MODULE SearchApi -----------------------------
(* POST /api/v1/search and /api/v1/ask (api/routes.py, search.py): requests *)
(* of one API process, which share the connection pool of its engine        *)
(* (db.py).  Which key, what is found and what the AI service answers are   *)
(* choices; the rate limit itself is in RateLimit.                          *)
EXTENDS Naturals, FiniteSets

CONSTANTS
    Requests,  \* requests the process may get, each once
    PoolSize,  \* connections of the pool, overflow included
    None

ASSUME SearchApiAssumption == IsFiniteSet(Requests) /\ PoolSize \in Nat \ {0}

VARIABLES
    free,    \* connections in the pool
    step,    \* where each request is
    kind,    \* its route
    outcome  \* what it is answered with

apiVars == <<free, step, kind, outcome>>

Kind == {"search", "ask"}
Outcome == {"ok", "error"}
Waiting == {"wait_auth", "wait_limit", "wait_select"}
Connected == {"auth", "limit", "select", "generate"}
Step == {"unsent", "embed", "answered"} \cup Waiting \cup Connected

ApiInit ==
    /\ free = PoolSize
    /\ step = [r \in Requests |-> "unsent"]
    /\ kind = [r \in Requests |-> None]
    /\ outcome = [r \in Requests |-> None]

Move(r, s) == step' = [step EXCEPT ![r] = s]

\* Wrong variant of Disconnect: an exception skips the end of the session.
LosesConnection == UNCHANGED free
\* The end of "async with factory() as session", in whatever way.
Disconnect == free' = free + 1

Answer(r, o) == Move(r, "answered") /\ outcome' = [outcome EXCEPT ![r] = o]

Send(r, k) ==
    /\ step[r] = "unsent"
    /\ kind' = [kind EXCEPT ![r] = k]
    /\ Move(r, "wait_auth")
    /\ UNCHANGED <<free, outcome>>

\* Wrong variant of PoolHasRoom: an engine without a limit.
NoLimit == TRUE
PoolHasRoom == free > 0

\* A session takes a connection with its first statement.
Connect(r) ==
    /\ step[r] \in Waiting /\ PoolHasRoom
    /\ free' = free - 1
    /\ Move(r, CASE step[r] = "wait_auth" -> "auth"
                 [] step[r] = "wait_limit" -> "limit"
                 [] step[r] = "wait_select" -> "select")
    /\ UNCHANGED <<kind, outcome>>

\* The pool gives up waiting: 500.
PoolTimeout(r) ==
    /\ step[r] \in Waiting
    /\ Answer(r, "error")
    /\ UNCHANGED <<free, kind>>

\* authenticate_api_key and rate_limited_key have sessions of their own and
\* close them before the route runs.
Dependency(r) ==
    /\ step[r] \in {"auth", "limit"}
    /\ Disconnect
    /\ \/ /\ Move(r, IF step[r] = "auth" THEN "wait_limit" ELSE "embed")
          /\ UNCHANGED outcome
       \* 401, 403, 429, or a database error.
       \/ Answer(r, "error")
    /\ UNCHANGED kind

\* The query is embedded before the route's session does anything.
EmbedQuery(r) ==
    /\ step[r] = "embed"
    /\ \/ Move(r, "wait_select") /\ UNCHANGED outcome
       \/ Answer(r, "error")
    /\ UNCHANGED <<free, kind>>

\* The ranking SELECT; a search, or an ask that found nothing, is answered.
Select(r) ==
    /\ step[r] = "select"
    /\ \/ /\ \E o \in Outcome : Answer(r, o)
          /\ Disconnect
       \* The session stays open while the AI service writes the answer.
       \/ /\ kind[r] = "ask"
          /\ Move(r, "generate")
          /\ UNCHANGED <<free, outcome>>
    /\ UNCHANGED kind

Generate(r) ==
    /\ step[r] = "generate"
    /\ \E o \in Outcome : Answer(r, o)
    /\ Disconnect
    /\ UNCHANGED kind

Handle(r) == Dependency(r) \/ EmbedQuery(r) \/ Select(r) \/ Generate(r)

ApiStep == \E r \in Requests : Connect(r) \/ PoolTimeout(r) \/ Handle(r)
----------------------------------------------------------------------------
ApiTypeOK ==
    /\ free \in 0..PoolSize
    /\ step \in [Requests -> Step]
    /\ kind \in [Requests -> Kind \cup {None}]
    /\ outcome \in [Requests -> Outcome \cup {None}]

\* Every connection is in the pool or with a request that uses it, however
\* requests fail: none is lost, and none is held while waiting for another.
ConnectionsBalanced ==
    free + Cardinality({r \in Requests : step[r] \in Connected}) = PoolSize
=============================================================================
