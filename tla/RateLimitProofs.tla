--------------------------- MODULE RateLimitProofs ---------------------------
(* The rate limit of an API key, for any number of keys, requests, API      *)
(* processes and minutes: what the row lock and the count in the row        *)
(* guarantee, and under which order of requests.                            *)
EXTENDS RateLimit, FiniteSetTheorems, TLAPS

USE RateLimitAssumption

----------------------------------------------------------------------------
(* Rows and locks *)

LEMMA InitialRate == Init => RateInv
<1> SUFFICES ASSUME Init PROVE RateInv
  OBVIOUS
<1> USE DEF Init
<1>1. FreshKey \in ApiKey /\ 0 \in Minutes
  BY DEF FreshKey, ApiKey, Minutes
<1>2. \A k \in Keys, m \in Minutes : Granted(k, m) = {}
  BY DEF Granted
<1>3. TypeOK /\ LoadedIsRow
  BY <1>1 DEF TypeOK, LoadedIsRow, Stage
<1>4. CountsAreGrants
  <2>1. \A k \in Keys : apiKey[k].count = 0 /\ apiKey[k].window = None
    BY DEF FreshKey
  <2>2. \A k \in Keys, m \in Minutes : IsFiniteSet(Granted(k, m))
    BY <1>2, FS_EmptySet
  <2>3. QED
    BY <1>2, <2>1, <2>2 DEF CountsAreGrants, CountMeans, GrantsOf
<1>5. OrderedRequestsStayWithinLimit
  BY <1>2, FS_EmptySet DEF OrderedRequestsStayWithinLimit
<1>6. LimitedOnlyWhenFull
  BY DEF LimitedOnlyWhenFull
<1>7. QED
  BY <1>3, <1>4, <1>5, <1>6 DEF RateInv

\* What holds of a request's copy of the row, the window it counts in and
\* the number it counts from.
LEMMA CountType ==
    ASSUME TypeOK, NEW r \in Requests
    PROVE  /\ KeyOf[r] \in Keys /\ window[r] \in Minutes /\ window[r] # None
           /\ CountInWindow(r) \in Nat /\ Limit[KeyOf[r]] \in Nat \ {0}
<1>1. KeyOf[r] \in Keys /\ window[r] \in Minutes /\ loaded[r] \in ApiKey
  BY DEF TypeOK
<1>2. QED
  BY <1>1 DEF CountInWindow, ApiKey, Minutes

\* What a grant writes.
LEMMA GrantWrites ==
    ASSUME TypeOK, NEW r \in Requests, Grant(r)
    PROVE  /\ apiKey' \in [Keys -> ApiKey]
           /\ apiKey'[KeyOf[r]].window = window[r]
           /\ apiKey'[KeyOf[r]].count = CountInWindow(r) + 1
           /\ \A k \in Keys : k # KeyOf[r] => apiKey'[k] = apiKey[k]
<1> DEFINE row == [apiKey[KeyOf[r]] EXCEPT !.window = window[r], !.count = CountInWindow(r) + 1]
<1>1. /\ KeyOf[r] \in Keys /\ window[r] \in Minutes /\ CountInWindow(r) + 1 \in Nat
      /\ apiKey \in [Keys -> ApiKey]
  BY CountType DEF TypeOK
<1>2. apiKey' = [apiKey EXCEPT ![KeyOf[r]] = row]
  BY <1>1 DEF Grant
<1>3. row \in ApiKey /\ row.window = window[r] /\ row.count = CountInWindow(r) + 1
  BY <1>1 DEF ApiKey
<1> HIDE DEF row
<1>4. QED
  BY <1>1, <1>2, <1>3

\* What disable_key writes.
LEMMA DisableWrites ==
    ASSUME TypeOK, NEW k \in Keys, DisableKey(k)
    PROVE  /\ apiKey' \in [Keys -> ApiKey]
           /\ \A j \in Keys : /\ apiKey'[j].window = apiKey[j].window
                             /\ apiKey'[j].count = apiKey[j].count
           /\ \A j \in Keys : j # k => apiKey'[j] = apiKey[j]
<1> DEFINE row == [apiKey[k] EXCEPT !.enabled = FALSE]
<1>1. apiKey' = [apiKey EXCEPT ![k] = row] /\ apiKey \in [Keys -> ApiKey]
  BY DEF DisableKey, TypeOK
<1>2. row \in ApiKey /\ row.window = apiKey[k].window /\ row.count = apiKey[k].count
  BY <1>1 DEF ApiKey
<1> HIDE DEF row
<1>3. QED
  BY <1>1, <1>2

LEMMA TypeSteps ==
    ASSUME TypeOK, LoadedIsRow, [Next]_vars
    PROVE  TypeOK' /\ LoadedIsRow'
<1> USE DEF TypeOK, Goto, Unlock, Stage
<1>1. CASE UNCHANGED vars
  BY <1>1 DEF vars, LoadedIsRow
<1>2. CASE Tick
  BY <1>2 DEF Tick, LoadedIsRow, Minutes
<1>3. ASSUME NEW r \in Requests, Authenticate(r) PROVE TypeOK' /\ LoadedIsRow'
  BY <1>3 DEF Authenticate, LoadedIsRow
<1>4. ASSUME NEW r \in Requests, ReadClock(r) PROVE TypeOK' /\ LoadedIsRow'
  BY <1>4 DEF ReadClock, LoadedIsRow
<1>5. ASSUME NEW r \in Requests, LoadForUpdate(r) PROVE TypeOK' /\ LoadedIsRow'
  BY <1>5 DEF LoadForUpdate, LockAvailable, LoadedIsRow
<1>6. ASSUME NEW r \in Requests, Refuse(r) \/ Exceed(r) \/ Abort(r)
      PROVE  TypeOK' /\ LoadedIsRow'
  BY <1>6 DEF Refuse, Exceed, Abort, LoadedIsRow
<1>7. ASSUME NEW r \in Requests, Grant(r) PROVE TypeOK' /\ LoadedIsRow'
  <2>1. KeyOf[r] \in Keys /\ CountInWindow(r) + 1 \in Nat /\ window[r] \in Minutes
    BY CountType
  <2>2. apiKey' \in [Keys -> ApiKey]
    BY <1>7, GrantWrites
  <2>3. /\ holder' \in [Keys -> Requests \cup {None}] /\ stage' \in [Requests -> Stage]
        /\ backward' \in SUBSET Keys
        /\ \A q \in Requests : stage'[q] = "locked" <=> holder'[KeyOf[q]] = q
    BY <1>7, <2>1 DEF Grant
  <2>4. TypeOK'
    BY <1>7, <2>2, <2>3 DEF Grant
  <2>5. LoadedIsRow'
    <3>1. \A q \in Requests : stage'[q] = "locked" => apiKey'[KeyOf[q]] = apiKey[KeyOf[q]]
      BY <1>7, <2>3, GrantWrites DEF Grant
    <3>2. QED
      BY <1>7, <3>1 DEF Grant, LoadedIsRow
  <2>6. QED
    BY <2>4, <2>5
<1>8. ASSUME NEW k \in Keys, DisableKey(k) PROVE TypeOK' /\ LoadedIsRow'
  <2>1. apiKey' \in [Keys -> ApiKey]
    BY <1>8, DisableWrites
  <2>2. \A r \in Requests : stage[r] = "locked" => apiKey'[KeyOf[r]] = apiKey[KeyOf[r]]
    BY <1>8 DEF DisableKey
  <2>3. QED
    BY <1>8, <2>1, <2>2 DEF DisableKey, LoadedIsRow
<1>9. QED
  BY <1>1, <1>2, <1>3, <1>4, <1>5, <1>6, <1>7, <1>8 DEF Next, Serve
----------------------------------------------------------------------------
(* Counting grants *)

RowCounts == CountsAreGrants /\ OrderedRequestsStayWithinLimit

\* A step that grants nothing and leaves windows and counts of the rows
\* alone keeps what the counts mean.
LEMMA QuietKeepsCounts ==
    ASSUME TypeOK, RowCounts, backward' = backward,
           \A k \in Keys : /\ apiKey'[k].window = apiKey[k].window
                           /\ apiKey'[k].count = apiKey[k].count,
           \A r \in Requests : /\ stage'[r] = "granted" <=> stage[r] = "granted"
                               /\ stage[r] = "granted" => window'[r] = window[r]
    PROVE  RowCounts' /\ \A k \in Keys, m \in Minutes : Granted(k, m)' = Granted(k, m)
<1>1. \A k \in Keys, m \in Minutes : Granted(k, m)' = Granted(k, m)
  BY DEF Granted
<1>2. \A k \in Keys : GrantsOf(k)' = GrantsOf(k)
  BY <1>1 DEF GrantsOf
<1>3. CountsAreGrants'
  BY <1>2 DEF RowCounts, CountsAreGrants
<1>4. OrderedRequestsStayWithinLimit'
  BY <1>1 DEF RowCounts, OrderedRequestsStayWithinLimit
<1>5. QED
  BY <1>1, <1>3, <1>4 DEF RowCounts

\* A grant adds one request to one minute of one key, and the count follows.
LEMMA GrantKeepsCounts ==
    ASSUME TypeOK, LoadedIsRow, RowCounts, NEW r \in Requests, Grant(r)
    PROVE  RowCounts' /\ \A k \in Keys, m \in Minutes : Granted(k, m) \subseteq Granted(k, m)'
<1> DEFINE k == KeyOf[r]
           w == window[r]
           n == CountInWindow(r)
<1>1. /\ k \in Keys /\ w \in Minutes /\ w # None /\ w \in Nat
      /\ n \in Nat /\ Limit[k] \in Nat \ {0} /\ n < Limit[k]
      /\ stage[r] = "locked" /\ loaded[r] = apiKey[k]
      /\ stage' = [stage EXCEPT ![r] = "granted"] /\ stage \in [Requests -> Stage]
      /\ window' = window
  BY CountType DEF Grant, HasRoom, LoadedIsRow, Goto, TypeOK, Minutes
<1>2. n = IF apiKey[k].window = w THEN apiKey[k].count ELSE 0
  BY <1>1 DEF CountInWindow
<1>3. \A j \in Keys, m \in Minutes :
         j # k \/ m # w => Granted(j, m)' = Granted(j, m)
  BY <1>1 DEF Granted
<1>4. Granted(k, w)' = Granted(k, w) \cup {r} /\ r \notin Granted(k, w)
  BY <1>1 DEF Granted
<1>5. CountMeans(apiKey[k].count, apiKey[k].window, GrantsOf(k), Limit[k], k \notin backward)
  BY <1>1 DEF RowCounts, CountsAreGrants
<1>6. IsFiniteSet(Granted(k, w))
  BY <1>1, <1>5 DEF CountMeans, GrantsOf
<1>7. /\ Cardinality(Granted(k, w)) \in Nat /\ IsFiniteSet(Granted(k, w)')
      /\ Cardinality(Granted(k, w)') = Cardinality(Granted(k, w)) + 1
  BY <1>4, <1>6, FS_AddElement, FS_CardinalityType
<1>8. /\ apiKey'[k].window = w /\ apiKey'[k].count = n + 1
      /\ \A j \in Keys : j # k => apiKey'[j] = apiKey[j]
  BY GrantWrites
<1>9. apiKey[k].window \in Minutes \cup {None}
  BY <1>1 DEF TypeOK, ApiKey
<1>10. n <= Cardinality(Granted(k, w))
  BY <1>1, <1>2, <1>5, <1>7 DEF CountMeans, GrantsOf
<1>11. ASSUME k \notin backward'
       PROVE  /\ Cardinality(Granted(k, w)) <= n
              /\ \A m \in Minutes : m > w => Granted(k, m) = {}
  <2>1. k \notin backward /\ (apiKey[k].window = None \/ ~(apiKey[k].window > w))
    BY <1>11 DEF Grant
  <2>2. CASE apiKey[k].window = w
    BY <1>1, <1>2, <1>5, <2>1, <2>2 DEF CountMeans, GrantsOf
  <2>3. CASE apiKey[k].window # w
    <3>1. ASSUME NEW m \in Minutes, m >= w PROVE Granted(k, m) = {}
      <4>1. GrantsOf(k)[m] = Granted(k, m)
        BY DEF GrantsOf
      <4>2. CASE apiKey[k].window = None
        BY <1>5, <4>1, <4>2 DEF CountMeans
      <4>3. CASE apiKey[k].window # None
        <5>1. m > apiKey[k].window
          BY <1>1, <1>9, <2>1, <2>3, <3>1, <4>3 DEF Minutes
        <5>2. QED
          BY <1>5, <2>1, <4>1, <4>3, <5>1 DEF CountMeans
      <4>4. QED
        BY <4>2, <4>3
    <3>2. Granted(k, w) = {}
      BY <1>1, <3>1 DEF Minutes
    <3>3. QED
      BY <1>1, <3>1, <3>2, FS_EmptySet DEF Minutes
  <2>4. QED
    BY <2>2, <2>3
<1>12. \A j \in Keys : j # k => GrantsOf(j)' = GrantsOf(j) /\ (j \in backward' <=> j \in backward)
  BY <1>3 DEF GrantsOf, Grant
<1>13. /\ GrantsOf(k)'[w] = Granted(k, w)'
       /\ \A m \in Minutes : m # w => GrantsOf(k)'[m] = GrantsOf(k)[m]
       /\ \A m \in Minutes : GrantsOf(k)[m] = Granted(k, m)
  BY <1>1, <1>3 DEF GrantsOf
<1>14. CountMeans(n + 1, w, GrantsOf(k)', Limit[k], k \notin backward')
  <2>1. n + 1 <= Limit[k] /\ n + 1 <= Cardinality(GrantsOf(k)'[w])
    BY <1>1, <1>7, <1>10, <1>13
  <2>2. \A m \in Minutes : IsFiniteSet(GrantsOf(k)'[m])
    BY <1>5, <1>7, <1>13 DEF CountMeans
  <2>3. k \notin backward' => /\ Cardinality(GrantsOf(k)'[w]) <= n + 1
                              /\ \A m \in Minutes : m > w => GrantsOf(k)'[m] = {}
    BY <1>1, <1>7, <1>11, <1>13 DEF Minutes
  <2>4. QED
    BY <1>1, <2>1, <2>2, <2>3 DEF CountMeans
<1>15. \A j \in Keys : CountMeans(apiKey'[j].count, apiKey'[j].window, GrantsOf(j)', Limit[j],
                                  j \notin backward')
  BY <1>8, <1>12, <1>14 DEF RowCounts, CountsAreGrants
<1>16. CountsAreGrants'
  BY <1>15 DEF CountsAreGrants
<1>17. OrderedRequestsStayWithinLimit'
  <2>1. ASSUME NEW j \in Keys \ backward', NEW m \in Minutes
        PROVE  Cardinality(Granted(j, m)') <= Limit[j]
    <3>1. CASE j = k /\ m = w
      BY <1>1, <1>7, <1>11, <2>1, <3>1
    <3>2. CASE j # k \/ m # w
      <4>1. j \notin backward
        BY <2>1 DEF Grant
      <4>2. QED
        BY <1>3, <3>2, <4>1 DEF RowCounts, OrderedRequestsStayWithinLimit
    <3>3. QED
      BY <3>1, <3>2
  <2>2. QED
    BY <2>1 DEF OrderedRequestsStayWithinLimit
<1>18. \A j \in Keys, m \in Minutes : Granted(j, m) \subseteq Granted(j, m)'
  BY <1>1 DEF Granted
<1>19. QED
  BY <1>16, <1>17, <1>18 DEF RowCounts

\* The last use of the counts: who is refused found the limit reached.
LEMMA ExceedFindsLimit ==
    ASSUME TypeOK, LoadedIsRow, RowCounts, NEW r \in Requests, Exceed(r)
    PROVE  Cardinality(Granted(KeyOf[r], window[r])) >= Limit[KeyOf[r]]
<1>1. /\ KeyOf[r] \in Keys /\ window[r] \in Minutes /\ window[r] # None
      /\ Limit[KeyOf[r]] \in Nat \ {0} /\ CountInWindow(r) \in Nat
      /\ CountInWindow(r) >= Limit[KeyOf[r]] /\ loaded[r] = apiKey[KeyOf[r]]
  BY CountType DEF Exceed, HasRoom, LoadedIsRow
<1>2. /\ apiKey[KeyOf[r]].window = window[r]
      /\ CountInWindow(r) = apiKey[KeyOf[r]].count
  BY <1>1 DEF CountInWindow
<1>3. /\ CountInWindow(r) <= Cardinality(Granted(KeyOf[r], window[r]))
      /\ IsFiniteSet(Granted(KeyOf[r], window[r]))
  BY <1>1, <1>2 DEF RowCounts, CountsAreGrants, CountMeans, GrantsOf
<1>4. Cardinality(Granted(KeyOf[r], window[r])) \in Nat
  BY <1>3, FS_CardinalityType
<1>5. QED
  BY <1>1, <1>3, <1>4

\* No step takes a grant back or moves its minute.
LEMMA CountSteps ==
    ASSUME TypeOK, LoadedIsRow, RowCounts, [Next]_vars
    PROVE  RowCounts' /\ \A k \in Keys, m \in Minutes : Granted(k, m) \subseteq Granted(k, m)'
<1> DEFINE G == RowCounts' /\ \A k \in Keys, m \in Minutes : Granted(k, m) \subseteq Granted(k, m)'
<1>1. CASE UNCHANGED vars \/ Tick
  <2>1. UNCHANGED <<apiKey, stage, window, backward>>
    BY <1>1 DEF vars, Tick
  <2>2. QED
    BY <2>1, QuietKeepsCounts
<1>2. ASSUME NEW r \in Requests,
             \/ Authenticate(r) \/ ReadClock(r) \/ LoadForUpdate(r)
             \/ Refuse(r) \/ Exceed(r) \/ Abort(r)
      PROVE  G
  <2>1. /\ UNCHANGED <<apiKey, backward>> /\ stage[r] # "granted"
        /\ \E s \in Stage \ {"granted"} : stage' = [stage EXCEPT ![r] = s]
        /\ window' = [window EXCEPT ![r] = minute] \/ window' = window
    BY <1>2 DEF Authenticate, ReadClock, LoadForUpdate, Refuse, Exceed, Abort, Goto, Stage
  <2>2. \A q \in Requests : /\ stage'[q] = "granted" <=> stage[q] = "granted"
                            /\ stage[q] = "granted" => window'[q] = window[q]
    BY <2>1 DEF TypeOK
  <2>3. QED
    BY <2>1, <2>2, QuietKeepsCounts
<1>3. ASSUME NEW r \in Requests, Grant(r) PROVE G
  BY <1>3, GrantKeepsCounts
<1>4. ASSUME NEW k \in Keys, DisableKey(k) PROVE G
  BY <1>4, DisableWrites, QuietKeepsCounts DEF DisableKey
<1>5. QED
  BY <1>1, <1>2, <1>3, <1>4 DEF Next, Serve

LEMMA LimitedSteps ==
    ASSUME RateInv, [Next]_vars
    PROVE  LimitedOnlyWhenFull'
<1> DEFINE Full(r) == Cardinality(Granted(KeyOf[r], window[r])) >= Limit[KeyOf[r]]
<1>1. /\ TypeOK /\ LoadedIsRow /\ RowCounts /\ TypeOK' /\ RowCounts'
      /\ \A k \in Keys, m \in Minutes : Granted(k, m) \subseteq Granted(k, m)'
  BY TypeSteps, CountSteps DEF RateInv, RowCounts
<1>2. SUFFICES ASSUME NEW r \in Requests, stage'[r] = "limited"
               PROVE  Cardinality(Granted(KeyOf[r], window[r])') >= Limit[KeyOf[r]]
  BY DEF LimitedOnlyWhenFull
<1>3. KeyOf[r] \in Keys /\ window[r] \in Minutes /\ Limit[KeyOf[r]] \in Nat
  BY <1>1, CountType
<1>4. Full(r) /\ window'[r] = window[r]
  <2>1. CASE stage[r] = "limited"
    <3>1. window'[r] = window[r]
      <4>1. CASE window' = window
        BY <4>1
      <4>2. CASE window' # window
        <5>1. PICK q \in Requests : ReadClock(q)
          BY <4>2 DEF Next, Serve, vars, Tick, Authenticate, LoadForUpdate,
             Refuse, Exceed, Grant, Abort, DisableKey
        <5>2. QED
          BY <1>1, <2>1, <5>1 DEF ReadClock, TypeOK
      <4>3. QED
        BY <4>1, <4>2
    <3>2. QED
      BY <2>1, <3>1 DEF RateInv, LimitedOnlyWhenFull
  <2>2. CASE stage[r] # "limited"
    <3>1. Exceed(r)
      <4>1. stage' # stage
        BY <1>2, <2>2
      <4>2. PICK q \in Requests : Serve(q)
        BY <4>1 DEF Next, vars, Tick, DisableKey
      <4>3. q = r
        BY <1>1, <1>2, <2>2, <4>2 DEF Serve, Authenticate, ReadClock, LoadForUpdate,
           Refuse, Exceed, Grant, Abort, Goto, TypeOK
      <4>4. QED
        BY <1>1, <1>2, <2>2, <4>2, <4>3 DEF Serve, Authenticate, ReadClock, LoadForUpdate,
           Refuse, Exceed, Grant, Abort, Goto, TypeOK
    <3>2. QED
      BY <1>1, <3>1, ExceedFindsLimit DEF Exceed
  <2>3. QED
    BY <2>1, <2>2
<1>5. PICK m \in Minutes : m = window[r]
  BY <1>3
<1>6. Granted(KeyOf[r], m) = Granted(KeyOf[r], window[r])
  BY <1>5
<1>7. Granted(KeyOf[r], m)' = Granted(KeyOf[r], window[r])'
  BY <1>4, <1>5 DEF Granted
<1>8. IsFiniteSet(Granted(KeyOf[r], m)')
  <2>1. GrantsOf(KeyOf[r])'[m] = Granted(KeyOf[r], m)'
    BY DEF GrantsOf
  <2>2. QED
    BY <1>1, <1>3, <2>1 DEF RowCounts, CountsAreGrants, CountMeans
<1>9. /\ Cardinality(Granted(KeyOf[r], m)) <= Cardinality(Granted(KeyOf[r], m)')
      /\ Cardinality(Granted(KeyOf[r], m)) \in Nat
      /\ Cardinality(Granted(KeyOf[r], m)') \in Nat
  BY <1>1, <1>3, <1>8, FS_Subset, FS_CardinalityType
<1>10. QED
  BY <1>3, <1>4, <1>6, <1>7, <1>9
-----------------------------------------------------------------------------
(* Theorems *)

\* The inductive invariant of the rows, the locks and the requests.
THEOREM RateInvariance == Spec => []RateInv
<1>1. Init => RateInv
  BY InitialRate
<1>2. RateInv /\ [Next]_vars => RateInv'
  BY TypeSteps, CountSteps, LimitedSteps DEF RateInv, RowCounts
<1>3. QED
  BY <1>1, <1>2, PTL DEF Spec

\* Rows, locks and requests are well formed; a row lock is held by exactly
\* the request between its SELECT ... FOR UPDATE and its commit.
THEOREM RateTypes == Spec => []TypeOK
<1>1. RateInv => TypeOK
  BY DEF RateInv
<1>2. QED
  BY <1>1, RateInvariance, PTL

\* While requests reach a key's row in the order of their clock readings, no
\* minute sees more than limit_per_minute of them granted.
THEOREM LimitSafety == Spec => []OrderedRequestsStayWithinLimit
<1>1. RateInv => OrderedRequestsStayWithinLimit
  BY DEF RateInv
<1>2. QED
  BY <1>1, RateInvariance, PTL

\* A 429 is only answered in a minute that was used up.
THEOREM LimitedSafety == Spec => []LimitedOnlyWhenFull
<1>1. RateInv => LimitedOnlyWhenFull
  BY DEF RateInv
<1>2. QED
  BY <1>1, RateInvariance, PTL

\* Nothing is granted with a key once disable_key has committed.
THEOREM DisableSafety == Spec => NoGrantAfterDisable
<1>1. ASSUME RateInv, [Next]_vars, NEW r \in Requests,
             stage[r] # "granted", stage'[r] = "granted"
      PROVE  apiKey[KeyOf[r]].enabled
  <2>1. PICK q \in Requests : Serve(q)
    BY <1>1 DEF Next, vars, Tick, DisableKey
  <2>2. q = r /\ Grant(r)
    BY <1>1, <2>1 DEF Serve, Authenticate, ReadClock, LoadForUpdate, Refuse, Exceed, Grant,
       Abort, Goto, RateInv, TypeOK
  <2>3. QED
    BY <1>1, <2>2 DEF Grant, StillEnabled, RateInv, LoadedIsRow
<1>2. RateInv /\ [Next]_vars =>
        [\A r \in Requests :
           stage[r] # "granted" /\ stage'[r] = "granted" => apiKey[KeyOf[r]].enabled]_vars
  BY <1>1
<1>3. QED
  BY <1>2, RateInvariance, PTL DEF Spec, NoGrantAfterDisable
=============================================================================
