----------------------------- MODULE HttpClient -----------------------------
(* ResilientHttpClient (crawler/base.py): calls of request() and stream()   *)
(* that share one client and its semaphore.  What a server answers is a     *)
(* choice; URLs, headers and the length of a delay are left out.  Closing a *)
(* response is assumed not to raise.                                        *)
EXTENDS Naturals, FiniteSets

CONSTANTS
    Calls,          \* calls made on the client, each once
    Streams,        \* those of them made through stream()
    MaxConcurrency, \* permits of the semaphore
    MaxAttempts,    \* http_max_attempts
    MaxRedirects    \* 5 in the code

ASSUME HttpClientAssumption ==
    /\ IsFiniteSet(Calls)
    /\ Streams \subseteq Calls
    /\ MaxConcurrency \in Nat \ {0}
    /\ MaxAttempts \in Nat \ {0}
    /\ MaxRedirects \in Nat

VARIABLES
    permits,   \* free permits
    stage,     \* where each call is
    attempt,   \* the loop's counter of tries
    redirects, \* redirects followed
    thrown,    \* streams whose caller's exception entered the generator
    sent,      \* history: requests sent for a call
    failures   \* history: its retryable failures

vars == <<permits, stage, attempt, redirects, thrown, sent, failures>>

Ended == {"returned", "refused", "exhausted", "caller_error", "runtime_error", "cancelled"}
Holding == {"io", "body"}
Stage == {"delay", "wait", "backoff"} \cup Holding \cup Ended

Init ==
    /\ permits = MaxConcurrency
    \* _validate_host comes before the loop.
    /\ stage \in [Calls -> {"delay", "refused"}]
    /\ attempt = [c \in Calls |-> 1]
    /\ redirects = [c \in Calls |-> 0]
    /\ thrown = {}
    /\ sent = [c \in Calls |-> 0]
    /\ failures = [c \in Calls |-> 0]

Goto(c, s) == stage' = [stage EXCEPT ![c] = s]

\* Wrong variant of Release: one way out of the try forgets the semaphore.
KeepsPermit == UNCHANGED permits
\* The end of "async with semaphore", or the finally of stream().
Release == permits' = permits + 1
----------------------------------------------------------------------------
(* One turn of the loop *)

\* _polite_delay, before every request, also the one a redirect asks for.
PoliteDelay(c) ==
    /\ stage[c] = "delay"
    /\ Goto(c, "wait")
    /\ UNCHANGED <<permits, attempt, redirects, thrown, sent, failures>>

Acquire(c) ==
    /\ stage[c] = "wait" /\ permits > 0
    /\ permits' = permits - 1
    /\ sent' = [sent EXCEPT ![c] = @ + 1]
    /\ Goto(c, "io")
    /\ UNCHANGED <<attempt, redirects, thrown, failures>>

\* Wrong variant of LastAttempt: off by one.
OneMoreAttempt(c) == attempt[c] > MaxAttempts
LastAttempt(c) == attempt[c] >= MaxAttempts

\* What a retryable failure does: the last attempt ends the call with a
\* SourceRequestError, any other one is repeated after a delay.
RetryOrGiveUp(c) ==
    /\ failures' = [failures EXCEPT ![c] = @ + 1]
    /\ IF LastAttempt(c)
       THEN Goto(c, "exhausted") /\ UNCHANGED attempt
       ELSE /\ attempt' = [attempt EXCEPT ![c] = @ + 1]
            /\ Goto(c, "backoff")

\* A timeout, a network error, or one of the statuses that are retried.
RetryableFailure(c) ==
    /\ stage[c] = "io"
    /\ Release
    /\ RetryOrGiveUp(c)
    /\ UNCHANGED <<redirects, thrown, sent>>

\* Wrong variant of TooManyRedirects: off by one.
OneMoreRedirect(c) == redirects[c] > MaxRedirects
\* redirects > 5, after counting this one.
TooManyRedirects(c) == redirects[c] + 1 > MaxRedirects

\* Wrong variant of AttemptAfterRedirect: it costs an attempt.
CountsAsAttempt(c) == attempt[c] + 1
AttemptAfterRedirect(c) == attempt[c]

Redirect(c) ==
    /\ stage[c] = "io" /\ ~TooManyRedirects(c)
    /\ Release
    /\ redirects' = [redirects EXCEPT ![c] = @ + 1]
    /\ attempt' = [attempt EXCEPT ![c] = AttemptAfterRedirect(c)]
    \* while attempt <= self._max_attempts
    /\ Goto(c, IF attempt'[c] <= MaxAttempts THEN "delay" ELSE "exhausted")
    /\ UNCHANGED <<thrown, sent, failures>>

\* One redirect too many, a redirect without a usable target, or a status
\* that is not retried.
Refused(c) ==
    /\ stage[c] = "io"
    /\ Release
    /\ Goto(c, "refused")
    /\ UNCHANGED <<attempt, redirects, thrown, sent, failures>>

\* The retry delay is over.
Wake(c) ==
    /\ stage[c] = "backoff"
    /\ Goto(c, "delay")
    /\ UNCHANGED <<permits, attempt, redirects, thrown, sent, failures>>
----------------------------------------------------------------------------
(* A good answer *)

\* request() reads the whole body before it gives the permit back.
RequestSucceeds(c) ==
    /\ stage[c] = "io" /\ c \notin Streams
    /\ Release
    /\ Goto(c, "returned")
    /\ UNCHANGED <<attempt, redirects, thrown, sent, failures>>

\* stream() yields the response and keeps the permit.
StreamOpens(c) ==
    /\ stage[c] = "io" /\ c \in Streams \ thrown
    /\ Goto(c, "body")
    /\ UNCHANGED <<permits, attempt, redirects, thrown, sent, failures>>

\* The caller's block is over, normally or with an exception of its own.
StreamCloses(c) ==
    /\ stage[c] = "body"
    /\ Release
    /\ \E end \in {"returned", "caller_error"} : Goto(c, end)
    /\ UNCHANGED <<attempt, redirects, thrown, sent, failures>>

\* A timeout or network error while the caller reads is thrown in at the
\* yield, where the loop takes it for a failure of its own request.
BodyBreaks(c) ==
    /\ stage[c] = "body"
    /\ Release
    /\ thrown' = thrown \cup {c}
    /\ RetryOrGiveUp(c)
    /\ UNCHANGED <<redirects, sent>>

\* The repeated request succeeds, but there is no caller to yield to: the
\* context manager closes the generator and raises RuntimeError.
SecondYield(c) ==
    /\ stage[c] = "io" /\ c \in thrown
    /\ Release
    /\ Goto(c, "runtime_error")
    /\ UNCHANGED <<attempt, redirects, thrown, sent, failures>>

\* The task is cancelled at one of its awaits.
Cancel(c) ==
    /\ stage[c] \notin Ended
    /\ IF stage[c] \in Holding THEN Release ELSE UNCHANGED permits
    /\ Goto(c, "cancelled")
    /\ UNCHANGED <<attempt, redirects, thrown, sent, failures>>

Advance(c) ==
    \/ PoliteDelay(c) \/ RetryableFailure(c) \/ Redirect(c) \/ Refused(c)
    \/ Wake(c) \/ RequestSucceeds(c) \/ StreamOpens(c) \/ StreamCloses(c)
    \/ BodyBreaks(c) \/ SecondYield(c)

Next == \E c \in Calls : Advance(c) \/ Acquire(c) \/ Cancel(c)

Spec == Init /\ [][Next]_vars

\* Timeouts end every wait for a server, delays are finite, and the
\* semaphore serves its waiters in turn.
FairSpec == Spec /\ \A c \in Calls : WF_vars(Advance(c)) /\ SF_vars(Acquire(c))
----------------------------------------------------------------------------
\* Type correctness of the counters of a call and of the semaphore.
TypeOK ==
    /\ permits \in 0..MaxConcurrency
    /\ stage \in [Calls -> Stage]
    /\ attempt \in [Calls -> 1..MaxAttempts]
    /\ redirects \in [Calls -> 0..MaxRedirects]
    /\ thrown \in SUBSET Streams
    /\ sent \in [Calls -> Nat]
    /\ failures \in [Calls -> Nat]

Holders == {c \in Calls : stage[c] \in Holding}

\* Every permit is free or held by a call that talks to a server: whatever
\* way a call takes out of the loop, and never while it only waits.
PermitsBalanced == permits + Cardinality(Holders) = MaxConcurrency

\* Retries and redirects, mixed in any order, make a bounded number of
\* requests; also when errors of the caller's reading are retried.
RequestsAreBounded == \A c \in Calls : sent[c] <= MaxAttempts + MaxRedirects

\* A call gives up only after max_attempts retryable failures: redirects in
\* between use up no attempt.
GivesUpAfterMaxAttempts ==
    \A c \in Calls : stage[c] = "exhausted" => failures[c] = MaxAttempts

\* Every call ends, although calls compete for permits.
EveryCallEnds == \A c \in Calls : <>(stage[c] \in Ended)
----------------------------------------------------------------------------
(* The inductive invariant behind the bounds *)

\* Requests are paid for by attempts and redirects: a call about to send one
\* has an attempt or a redirect left to pay with.
RequestsArePaid ==
    \A c \in Calls :
        /\ sent[c] <= attempt[c] + redirects[c]
        /\ stage[c] \in {"delay", "wait", "backoff"} => sent[c] < attempt[c] + redirects[c]

\* The loop's counter is one ahead of the failures until the call gives up.
AttemptsAreFailures ==
    \A c \in Calls :
        failures[c] = IF stage[c] = "exhausted" THEN MaxAttempts ELSE attempt[c] - 1

\* Only stream() yields to a caller.
OnlyStreamsYield == \A c \in Calls : stage[c] = "body" => c \in Streams

ClientInv ==
    /\ TypeOK
    /\ RequestsArePaid
    /\ AttemptsAreFailures
    /\ PermitsBalanced
    /\ OnlyStreamsYield
=============================================================================
