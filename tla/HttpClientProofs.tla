-------------------------- MODULE HttpClientProofs --------------------------
(* The bounds of the HTTP client for any number of calls, permits, attempts *)
(* and redirects.                                                           *)
EXTENDS HttpClient, FiniteSetTheorems, TLAPS

USE HttpClientAssumption

\* The number of permits a call in a stage holds.
Held(s) == IF s \in Holding THEN 1 ELSE 0

LEMMA HoldersAreFinite == IsFiniteSet(Holders) /\ Cardinality(Holders) \in Nat
BY FS_Subset, FS_CardinalityType DEF Holders

\* A call that changes its stage and gives and takes permits accordingly
\* keeps the balance.
LEMMA MoveKeepsBalance ==
    ASSUME TypeOK, PermitsBalanced, NEW c \in Calls,
           \A d \in Calls \ {c} : stage'[d] = stage[d],
           permits' = permits + Held(stage[c]) - Held(stage'[c])
    PROVE  PermitsBalanced'
<1> DEFINE s == stage'[c]
<1>1. \A d \in Calls : stage'[d] = IF d = c THEN s ELSE stage[d]
  OBVIOUS
<1> HIDE DEF s
<1>2. CASE s \in Holding /\ c \notin Holders
  <2>1. Holders' = Holders \cup {c}
    BY <1>1, <1>2 DEF Holders
  <2>2. Cardinality(Holders') = Cardinality(Holders) + 1
    BY <1>2, <2>1, HoldersAreFinite, FS_AddElement
  <2>3. permits' = permits - 1
    BY <1>1, <1>2 DEF Held, Holders, TypeOK
  <2>4. QED
    BY <2>2, <2>3, HoldersAreFinite DEF PermitsBalanced, TypeOK
<1>3. CASE s \notin Holding /\ c \in Holders
  <2>1. Holders' = Holders \ {c}
    BY <1>1, <1>3 DEF Holders
  <2>2. Cardinality(Holders') = Cardinality(Holders) - 1
    BY <1>3, <2>1, HoldersAreFinite, FS_RemoveElement
  <2>3. permits' = permits + 1
    BY <1>1, <1>3 DEF Held, Holders, TypeOK
  <2>4. QED
    BY <2>2, <2>3, HoldersAreFinite DEF PermitsBalanced, TypeOK
<1>4. CASE s \in Holding <=> c \in Holders
  <2>1. Holders' = Holders
    BY <1>1, <1>4 DEF Holders
  <2>2. permits' = permits
    BY <1>1, <1>4 DEF Held, Holders, TypeOK
  <2>3. QED
    BY <2>1, <2>2 DEF PermitsBalanced
<1>5. QED
  BY <1>2, <1>3, <1>4

\* The other calls are left alone.
OnlyMoves(c) ==
    \A d \in Calls \ {c} :
        /\ stage'[d] = stage[d]
        /\ attempt'[d] = attempt[d]
        /\ redirects'[d] = redirects[d]
        /\ sent'[d] = sent[d]
        /\ failures'[d] = failures[d]

\* What every step of a call has to respect: it pays for its requests, and
\* counts its failures by its attempts.
PaysItsWay(c) ==
    /\ sent'[c] <= attempt'[c] + redirects'[c]
    /\ stage'[c] \in {"delay", "wait", "backoff"} => sent'[c] < attempt'[c] + redirects'[c]
    /\ failures'[c] = IF stage'[c] = "exhausted" THEN MaxAttempts ELSE attempt'[c] - 1

WellTyped ==
    /\ stage \in [Calls -> Stage]
    /\ attempt \in [Calls -> 1..MaxAttempts]
    /\ redirects \in [Calls -> 0..MaxRedirects]
    /\ thrown \in SUBSET Streams
    /\ sent \in [Calls -> Nat]
    /\ failures \in [Calls -> Nat]

LEMMA CallMoves ==
    ASSUME ClientInv, NEW c \in Calls, WellTyped', OnlyMoves(c), PaysItsWay(c),
           permits' \in Nat, permits' = permits + Held(stage[c]) - Held(stage'[c]),
           stage'[c] = "body" => c \in Streams
    PROVE  ClientInv'
<1> USE DEF ClientInv
<1>1. PermitsBalanced'
  BY MoveKeepsBalance DEF OnlyMoves
<1>2. permits' \in 0..MaxConcurrency
  <2>1. Cardinality(Holders') \in Nat
    BY FS_Subset, FS_CardinalityType DEF Holders
  <2>2. QED
    BY <1>1, <2>1 DEF PermitsBalanced
<1>3. TypeOK'
  BY <1>2 DEF TypeOK, WellTyped
<1>4. RequestsArePaid'
  BY DEF RequestsArePaid, OnlyMoves, PaysItsWay
<1>5. AttemptsAreFailures'
  BY DEF AttemptsAreFailures, OnlyMoves, PaysItsWay
<1>6. OnlyStreamsYield'
  BY DEF OnlyStreamsYield, OnlyMoves
<1>7. QED
  BY <1>1, <1>3, <1>4, <1>5, <1>6

LEMMA InitialClient == Init => ClientInv
<1> SUFFICES ASSUME Init PROVE ClientInv
  OBVIOUS
<1>1. TypeOK /\ RequestsArePaid /\ AttemptsAreFailures /\ OnlyStreamsYield
  BY DEF Init, TypeOK, RequestsArePaid, AttemptsAreFailures, OnlyStreamsYield,
         Stage, Ended, Holding
<1>2. Holders = {}
  BY DEF Init, Holders, Holding
<1>3. PermitsBalanced
  BY <1>2, FS_EmptySet DEF PermitsBalanced, Init
<1>4. QED
  BY <1>1, <1>3 DEF ClientInv

\* What the invariant says of one call.
LEMMA OneCall ==
    ASSUME ClientInv, NEW c \in Calls
    PROVE  /\ permits \in Nat /\ stage[c] \in Stage
           /\ attempt[c] \in 1..MaxAttempts /\ redirects[c] \in 0..MaxRedirects
           /\ sent[c] \in Nat /\ sent[c] <= attempt[c] + redirects[c]
           /\ stage[c] \in {"delay", "wait", "backoff"} => sent[c] < attempt[c] + redirects[c]
           /\ failures[c] = IF stage[c] = "exhausted" THEN MaxAttempts ELSE attempt[c] - 1
           /\ stage[c] = "body" => c \in Streams
BY DEF ClientInv, TypeOK, RequestsArePaid, AttemptsAreFailures, OnlyStreamsYield

\* The last attempt or another one, after a failure that gave its permit back.
LEMMA RetrySteps ==
    ASSUME ClientInv, NEW c \in Calls, stage[c] \in Holding, Release,
           RetryOrGiveUp(c), thrown' \in SUBSET Streams, UNCHANGED <<redirects, sent>>
    PROVE  ClientInv'
<1> USE DEF Stage, Ended, Holding, Held
<1>1. WellTyped
  BY DEF ClientInv, TypeOK, WellTyped
<1>2. CASE LastAttempt(c)
  <2>1. /\ stage' = [stage EXCEPT ![c] = "exhausted"] /\ attempt' = attempt
        /\ failures' = [failures EXCEPT ![c] = @ + 1]
    BY <1>2 DEF RetryOrGiveUp, Goto
  <2>2. WellTyped' /\ OnlyMoves(c)
    BY <1>1, <2>1 DEF WellTyped, OnlyMoves
  <2>3. PaysItsWay(c)
    <3>1. attempt[c] = MaxAttempts /\ failures[c] = attempt[c] - 1
      BY <1>2, OneCall DEF LastAttempt
    <3>2. stage'[c] = "exhausted" /\ failures'[c] = failures[c] + 1
      BY <1>1, <2>1 DEF WellTyped
    <3>3. QED
      BY <2>1, <3>1, <3>2, OneCall DEF PaysItsWay
  <2>4. stage'[c] = "exhausted" /\ permits' = permits + 1 /\ permits' \in Nat
    BY <1>1, <2>1, OneCall DEF Release, WellTyped
  <2>5. QED
    BY <2>2, <2>3, <2>4, OneCall, CallMoves
<1>3. CASE ~LastAttempt(c)
  <2>1. /\ stage' = [stage EXCEPT ![c] = "backoff"]
        /\ attempt' = [attempt EXCEPT ![c] = @ + 1]
        /\ failures' = [failures EXCEPT ![c] = @ + 1]
    BY <1>3 DEF RetryOrGiveUp, Goto
  <2>2. attempt[c] + 1 \in 1..MaxAttempts
    BY <1>3, OneCall DEF LastAttempt
  <2>3. WellTyped' /\ OnlyMoves(c)
    BY <1>1, <2>1, <2>2 DEF WellTyped, OnlyMoves
  <2>4. PaysItsWay(c)
    BY <1>1, <2>1, OneCall DEF PaysItsWay, WellTyped
  <2>5. stage'[c] = "backoff" /\ permits' = permits + 1 /\ permits' \in Nat
    BY <1>1, <2>1, OneCall DEF Release, WellTyped
  <2>6. QED
    BY <2>3, <2>4, <2>5, OneCall, CallMoves
<1>4. QED
  BY <1>2, <1>3

\* Steps of a call that change nothing but its stage and its permits.
LEMMA PlainSteps ==
    ASSUME ClientInv, NEW c \in Calls, NEW s \in Stage \ {"exhausted"}, Goto(c, s),
           stage[c] # "exhausted", s = "body" => c \in Streams,
           permits' = permits + Held(stage[c]) - Held(s), permits' \in Nat,
           s \in {"delay", "wait", "backoff"} => stage[c] \in {"delay", "wait", "backoff"},
           UNCHANGED <<attempt, redirects, thrown, sent, failures>>
    PROVE  ClientInv'
<1>1. WellTyped
  BY DEF ClientInv, TypeOK, WellTyped
<1>2. WellTyped' /\ OnlyMoves(c) /\ stage'[c] = s
  BY <1>1 DEF WellTyped, OnlyMoves, Goto
<1>3. PaysItsWay(c)
  BY <1>2, OneCall DEF PaysItsWay
<1>4. QED
  BY <1>2, <1>3, CallMoves

LEMMA AcquireSteps ==
    ASSUME ClientInv, NEW c \in Calls, Acquire(c)
    PROVE  ClientInv'
<1>1. WellTyped
  BY DEF ClientInv, TypeOK, WellTyped
<1>2. WellTyped' /\ OnlyMoves(c) /\ stage'[c] = "io" /\ sent'[c] = sent[c] + 1
  BY <1>1 DEF WellTyped, OnlyMoves, Acquire, Goto, Stage, Holding
<1>3. PaysItsWay(c)
  BY <1>2, OneCall DEF PaysItsWay, Acquire
<1>4. permits' = permits + Held(stage[c]) - Held("io") /\ permits' \in Nat
  BY OneCall DEF Acquire, Held, Holding
<1>5. QED
  BY <1>2, <1>3, <1>4, CallMoves

LEMMA RedirectSteps ==
    ASSUME ClientInv, NEW c \in Calls, Redirect(c)
    PROVE  ClientInv'
<1>1. WellTyped
  BY DEF ClientInv, TypeOK, WellTyped
<1>2. redirects[c] + 1 \in 0..MaxRedirects
  BY OneCall DEF Redirect, TooManyRedirects
<1>3. /\ attempt' = [attempt EXCEPT ![c] = attempt[c]]
      /\ redirects' = [redirects EXCEPT ![c] = @ + 1]
  BY DEF Redirect, AttemptAfterRedirect
<1>4. attempt'[c] = attempt[c] /\ redirects'[c] = redirects[c] + 1
  BY <1>1, <1>3 DEF WellTyped
<1>5. Goto(c, "delay")
  BY <1>4, OneCall DEF Redirect
<1>6. WellTyped' /\ OnlyMoves(c) /\ stage'[c] = "delay"
  BY <1>1, <1>2, <1>3, <1>5 DEF WellTyped, OnlyMoves, Redirect, Goto, Stage
<1>7. PaysItsWay(c)
  BY <1>4, <1>6, OneCall DEF PaysItsWay, Redirect
<1>8. permits' = permits + Held(stage[c]) - Held("delay") /\ permits' \in Nat
  BY OneCall DEF Redirect, Release, Held, Holding
<1>9. QED
  BY <1>6, <1>7, <1>8, CallMoves

LEMMA ClientSteps ==
    ASSUME ClientInv, [Next]_vars
    PROVE  ClientInv'
<1>1. CASE UNCHANGED vars
  BY <1>1 DEF vars, ClientInv, TypeOK, RequestsArePaid, AttemptsAreFailures,
              PermitsBalanced, Holders, OnlyStreamsYield
<1>2. ASSUME NEW c \in Calls, Advance(c) \/ Acquire(c) \/ Cancel(c)
      PROVE  ClientInv'
  <2> USE DEF Held, Holding, Stage, Ended
  <2>0. permits \in Nat /\ permits + 1 \in Nat /\ thrown \in SUBSET Streams
    BY DEF ClientInv, TypeOK
  <2>1. CASE PoliteDelay(c)
    BY <2>0, <2>1, PlainSteps DEF PoliteDelay
  <2>2. CASE Acquire(c)
    BY <2>2, AcquireSteps
  <2>3. CASE RetryableFailure(c)
    BY <2>0, <2>3, RetrySteps DEF RetryableFailure
  <2>4. CASE Redirect(c)
    BY <2>4, RedirectSteps
  <2>5. CASE Refused(c)
    BY <2>0, <2>5, PlainSteps DEF Refused, Release
  <2>6. CASE Wake(c)
    BY <2>0, <2>6, PlainSteps DEF Wake
  <2>7. CASE RequestSucceeds(c)
    BY <2>0, <2>7, PlainSteps DEF RequestSucceeds, Release
  <2>8. CASE StreamOpens(c)
    BY <2>0, <2>8, PlainSteps DEF StreamOpens
  <2>9. CASE StreamCloses(c)
    BY <2>0, <2>9, PlainSteps DEF StreamCloses, Release
  <2>10. CASE BodyBreaks(c)
    <3>1. c \in Streams
      BY <2>10, OneCall DEF BodyBreaks
    <3>2. QED
      BY <2>0, <2>10, <3>1, RetrySteps DEF BodyBreaks
  <2>11. CASE SecondYield(c)
    BY <2>0, <2>11, PlainSteps DEF SecondYield, Release
  <2>12. CASE Cancel(c)
    BY <2>0, <2>12, PlainSteps DEF Cancel, Release
  <2>13. QED
    BY <1>2, <2>1, <2>2, <2>3, <2>4, <2>5, <2>6, <2>7, <2>8, <2>9, <2>10, <2>11, <2>12
       DEF Advance
<1>3. QED
  BY <1>1, <1>2 DEF Next

\* The inductive invariant of the client: counters, stages and permits
\* belong together in every reachable state.
THEOREM ClientInvariance == Spec => []ClientInv
<1>1. Init => ClientInv
  BY InitialClient
<1>2. ClientInv /\ [Next]_vars => ClientInv'
  BY ClientSteps
<1>3. QED
  BY <1>1, <1>2, PTL DEF Spec

\* The semaphore's permits are free or with calls that talk to a server.
THEOREM PermitSafety == Spec => []PermitsBalanced
<1>1. ClientInv => PermitsBalanced
  BY DEF ClientInv
<1>2. QED
  BY <1>1, ClientInvariance, PTL

\* Attempts, redirects and permits stay within what get_json was given.
THEOREM ClientTypes == Spec => []TypeOK
<1>1. ClientInv => TypeOK
  BY DEF ClientInv
<1>2. QED
  BY <1>1, ClientInvariance, PTL

\* No mixture of failures and redirects makes more than max_attempts plus
\* five requests.
THEOREM RequestBound == Spec => []RequestsAreBounded
<1>1. ClientInv => RequestsAreBounded
  BY DEF ClientInv, RequestsArePaid, TypeOK, RequestsAreBounded
<1>2. QED
  BY <1>1, ClientInvariance, PTL

\* Giving up takes exactly max_attempts retryable failures.
THEOREM AttemptsExhausted == Spec => []GivesUpAfterMaxAttempts
<1>1. ClientInv => GivesUpAfterMaxAttempts
  BY DEF ClientInv, AttemptsAreFailures, GivesUpAfterMaxAttempts
<1>2. QED
  BY <1>1, ClientInvariance, PTL
=============================================================================
