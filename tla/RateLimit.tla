----------------------------- MODULE RateLimit -----------------------------
(* The API-key dependency every search and ask request passes through:      *)
(* authenticate_api_key (api/auth.py), consume_rate_limit                   *)
(* (api/rate_limit.py) and the disable command (cli.py).  Requests run      *)
(* concurrently, in one API process or in several, over one api_keys row.   *)
(* The fixed window is a UTC minute, here a number.                         *)
EXTENDS Naturals, FiniteSets

CONSTANTS
    Keys,       \* rows of api_keys
    Requests,   \* requests with an X-API-Key header, each made once
    KeyOf,      \* the key a request names
    Limit,      \* limit_per_minute of a key
    LastMinute, \* the clock stops here (a bound)
    None        \* SQL NULL, and a lock nobody holds

ASSUME RateLimitAssumption ==
    /\ KeyOf \in [Requests -> Keys]
    /\ Limit \in [Keys -> Nat \ {0}]
    /\ LastMinute \in Nat
    /\ None \notin Requests /\ None \notin Nat

VARIABLES
    minute,    \* the UTC minute of the wall clock
    apiKey,    \* enabled, window_started_at, request_count of each key
    holder,    \* the request whose transaction holds the row lock
    stage,     \* where each request is
    window,    \* minute_start(current) of a request
    loaded,    \* the row as its SELECT ... FOR UPDATE returned it
    backward   \* history: keys whose window was ever moved back in time

vars == <<minute, apiKey, holder, stage, window, loaded, backward>>

Minutes == 0..LastMinute
ApiKey == [enabled : BOOLEAN, window : Minutes \cup {None}, count : Nat]
FreshKey == [enabled |-> TRUE, window |-> None, count |-> 0]
Stage == {"new", "authenticated", "timed", "locked", "granted", "limited", "refused"}
Answered == {"granted", "limited", "refused"}

Init ==
    /\ minute = 0
    /\ apiKey = [k \in Keys |-> FreshKey]
    /\ holder = [k \in Keys |-> None]
    /\ stage = [r \in Requests |-> "new"]
    /\ window = [r \in Requests |-> 0]
    /\ loaded = [r \in Requests |-> FreshKey]
    /\ backward = {}

Goto(r, s) == stage' = [stage EXCEPT ![r] = s]
\* Wrong variant of Unlock: the transaction is never ended.
KeepsLock(r) == UNCHANGED holder
\* Commit, rollback or a lost connection gives the row lock back.
Unlock(r) == holder' = [holder EXCEPT ![KeyOf[r]] = None]

Tick ==
    /\ minute < LastMinute
    /\ minute' = minute + 1
    /\ UNCHANGED <<apiKey, holder, stage, window, loaded, backward>>

\* A session of its own reads the key; a disabled one is refused with 403.
Authenticate(r) ==
    /\ stage[r] = "new"
    /\ Goto(r, IF apiKey[KeyOf[r]].enabled THEN "authenticated" ELSE "refused")
    /\ UNCHANGED <<minute, apiKey, holder, window, loaded, backward>>

\* consume_rate_limit reads the clock before it asks for the row.
ReadClock(r) ==
    /\ stage[r] = "authenticated"
    /\ window' = [window EXCEPT ![r] = minute]
    /\ Goto(r, "timed")
    /\ UNCHANGED <<minute, apiKey, holder, loaded, backward>>

\* Wrong variant of LockAvailable: a plain SELECT.
NoLock(r) == TRUE
\* with_for_update waits until no other transaction holds the row.
LockAvailable(r) == holder[KeyOf[r]] = None

LoadForUpdate(r) ==
    /\ stage[r] = "timed"
    /\ LockAvailable(r)
    /\ holder' = [holder EXCEPT ![KeyOf[r]] = r]
    /\ loaded' = [loaded EXCEPT ![r] = apiKey[KeyOf[r]]]
    /\ Goto(r, "locked")
    /\ UNCHANGED <<minute, apiKey, window, backward>>

\* Wrong variant of CountInWindow: the old window's count is kept.
KeepsCount(r) == loaded[r].count
\* The count the request starts from: 0 in a window the row does not have.
CountInWindow(r) == IF loaded[r].window = window[r] THEN loaded[r].count ELSE 0

\* Wrong variant of StillEnabled: authentication is relied on.
SkipsRecheck(r) == TRUE
\* api_key.enabled under the lock.
StillEnabled(r) == loaded[r].enabled

\* Wrong variant of HasRoom: off by one.
LimitPlusOne(r) == CountInWindow(r) <= Limit[KeyOf[r]]
\* request_count < limit_per_minute, after the reset.
HasRoom(r) == CountInWindow(r) < Limit[KeyOf[r]]

\* The key was disabled since it was authenticated: 401.
Refuse(r) ==
    /\ stage[r] = "locked" /\ ~StillEnabled(r)
    /\ Goto(r, "refused")
    /\ Unlock(r)
    /\ UNCHANGED <<minute, apiKey, window, loaded, backward>>

\* 429: rollback, the row stays as it was.
Exceed(r) ==
    /\ stage[r] = "locked" /\ StillEnabled(r) /\ ~HasRoom(r)
    /\ Goto(r, "limited")
    /\ Unlock(r)
    /\ UNCHANGED <<minute, apiKey, window, loaded, backward>>

\* The new window and the absolute count are written and committed.
Grant(r) ==
    LET k == KeyOf[r] IN
    /\ stage[r] = "locked" /\ StillEnabled(r) /\ HasRoom(r)
    /\ apiKey' = [apiKey EXCEPT ![k].window = window[r],
                                ![k].count = CountInWindow(r) + 1]
    /\ backward' = IF apiKey[k].window # None /\ apiKey[k].window > window[r]
                   THEN backward \cup {k} ELSE backward
    /\ Goto(r, "granted")
    /\ Unlock(r)
    /\ UNCHANGED <<minute, window, loaded>>

\* The client disconnects or the process dies before the commit.
Abort(r) ==
    /\ stage[r] = "locked"
    /\ Goto(r, "refused")
    /\ Unlock(r)
    /\ UNCHANGED <<minute, apiKey, window, loaded, backward>>

\* cli.disable_key: its UPDATE of enabled waits for the row lock.
DisableKey(k) ==
    /\ apiKey[k].enabled
    /\ holder[k] = None
    /\ apiKey' = [apiKey EXCEPT ![k].enabled = FALSE]
    /\ UNCHANGED <<minute, holder, stage, window, loaded, backward>>

Serve(r) ==
    \/ Authenticate(r) \/ ReadClock(r) \/ LoadForUpdate(r)
    \/ Refuse(r) \/ Exceed(r) \/ Grant(r) \/ Abort(r)

Next == Tick \/ (\E r \in Requests : Serve(r)) \/ (\E k \in Keys : DisableKey(k))

Spec == Init /\ [][Next]_vars

\* The event loop runs every request to its answer.
FairSpec == Spec /\ \A r \in Requests : WF_vars(Serve(r))
----------------------------------------------------------------------------
\* Type correctness of the rows, the locks and the requests; a row lock is
\* held by exactly the request that is between its SELECT and its commit.
TypeOK ==
    /\ minute \in Minutes
    /\ apiKey \in [Keys -> ApiKey]
    /\ holder \in [Keys -> Requests \cup {None}]
    /\ stage \in [Requests -> Stage]
    /\ window \in [Requests -> Minutes]
    /\ loaded \in [Requests -> ApiKey]
    /\ backward \in SUBSET Keys
    /\ \A r \in Requests : stage[r] = "locked" <=> holder[KeyOf[r]] = r

Granted(k, m) == {r \in Requests : KeyOf[r] = k /\ stage[r] = "granted" /\ window[r] = m}

\* As long as requests reach the row in the order of their clock readings,
\* no minute sees more than limit_per_minute granted requests, however they
\* overlap and however many API processes there are.
OrderedRequestsStayWithinLimit ==
    \A k \in Keys \ backward, m \in Minutes : Cardinality(Granted(k, m)) <= Limit[k]

\* A request gets 429 only if limit_per_minute others were granted in its
\* own minute: no count is carried over from another window.
LimitedOnlyWhenFull ==
    \A r \in Requests :
        stage[r] = "limited" => Cardinality(Granted(KeyOf[r], window[r])) >= Limit[KeyOf[r]]

\* After disable_key has committed no request is granted any more, also none
\* that was authenticated before.
NoGrantAfterDisable ==
    [][\A r \in Requests :
         stage[r] # "granted" /\ stage'[r] = "granted" => apiKey[KeyOf[r]].enabled]_vars

\* Between its SELECT and its commit a transaction's copy is the row.
LoadedIsRow == \A r \in Requests : stage[r] = "locked" => loaded[r] = apiKey[KeyOf[r]]

\* What a row with count n and window w says of the grants of each minute:
\* never more than those of its window, and exactly those if the window was
\* never moved back.
CountMeans(n, w, grants, limit, exact) ==
    /\ n <= limit
    /\ \A m \in Minutes : IsFiniteSet(grants[m])
    /\ w = None => \A m \in Minutes : grants[m] = {}
    /\ w # None => n <= Cardinality(grants[w])
    /\ exact /\ w # None => /\ Cardinality(grants[w]) <= n
                            /\ \A m \in Minutes : m > w => grants[m] = {}

GrantsOf(k) == [m \in Minutes |-> Granted(k, m)]

CountsAreGrants ==
    \A k \in Keys :
        CountMeans(apiKey[k].count, apiKey[k].window, GrantsOf(k), Limit[k], k \notin backward)

\* What makes the safety properties inductive.
RateInv ==
    /\ TypeOK
    /\ LoadedIsRow
    /\ CountsAreGrants
    /\ OrderedRequestsStayWithinLimit
    /\ LimitedOnlyWhenFull

\* Every request is answered: no transaction keeps the row lock for good.
EveryRequestIsAnswered == \A r \in Requests : <>(stage[r] \in Answered)

\* The documented promise without the proviso on the order of requests.
AtMostLimitPerMinute ==
    \A k \in Keys, m \in Minutes : Cardinality(Granted(k, m)) <= Limit[k]
=============================================================================
