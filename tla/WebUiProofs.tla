----------------------------- MODULE WebUiProofs -----------------------------
(* The page and the API process behind it, for any number of requests,      *)
(* submissions and connections: no connection is lost or held twice, no     *)
(* half of an answer is shown, and the button can be used again.            *)
EXTENDS WebUi, FiniteSetTheorems, TLAPS

USE SearchApiAssumption, WebUiAssumption

----------------------------------------------------------------------------
(* Connections *)

Users == {r \in Requests : step[r] \in Connected}

\* The number of connections a request in a step holds.
Held(s) == IF s \in Connected THEN 1 ELSE 0

LEMMA UsersAreFinite == IsFiniteSet(Users) /\ Cardinality(Users) \in Nat
BY FS_Subset, FS_CardinalityType DEF Users

\* A request that moves on and takes or returns its connection accordingly
\* keeps the balance; at most PoolSize connections are then in the pool.
LEMMA MoveKeepsBalance ==
    ASSUME free \in Nat, step \in [Requests -> Step], ConnectionsBalanced,
           NEW r \in Requests, NEW s \in Step, Move(r, s),
           free' = free + Held(step[r]) - Held(s), free' \in Nat
    PROVE  /\ ConnectionsBalanced' /\ free' \in 0..PoolSize
           /\ step' \in [Requests -> Step]
<1>1. \A q \in Requests : step'[q] = IF q = r THEN s ELSE step[q]
  BY DEF Move
<1>2. free + Cardinality(Users) = PoolSize
  BY DEF ConnectionsBalanced, Users
<1>3. free' + Cardinality(Users') = PoolSize
  <2>1. CASE s \in Connected /\ r \notin Users
    <3>1. Users' = Users \cup {r}
      BY <1>1, <2>1 DEF Users
    <3>2. Cardinality(Users') = Cardinality(Users) + 1
      BY <2>1, <3>1, UsersAreFinite, FS_AddElement
    <3>3. free' = free - 1
      BY <2>1 DEF Held, Users
    <3>4. QED
      BY <1>2, <3>2, <3>3, UsersAreFinite
  <2>2. CASE s \notin Connected /\ r \in Users
    <3>1. Users' = Users \ {r}
      BY <1>1, <2>2 DEF Users
    <3>2. Cardinality(Users') = Cardinality(Users) - 1
      BY <2>2, <3>1, UsersAreFinite, FS_RemoveElement
    <3>3. free' = free + 1
      BY <2>2 DEF Held, Users
    <3>4. QED
      BY <1>2, <3>2, <3>3, UsersAreFinite
  <2>3. CASE s \in Connected <=> r \in Users
    <3>1. Users' = Users
      BY <1>1, <2>3 DEF Users
    <3>2. free' = free
      BY <2>3 DEF Held, Users
    <3>3. QED
      BY <1>2, <3>1, <3>2
  <2>4. QED
    BY <2>1, <2>2, <2>3
<1>4. Cardinality(Users') \in Nat
  BY FS_Subset, FS_CardinalityType DEF Users
<1>5. QED
  BY <1>3, <1>4 DEF ConnectionsBalanced, Users, Move

ApiInv == ApiTypeOK /\ ConnectionsBalanced

\* What a step of the API process does: one request that was sent, and is
\* not answered, moves on.
Serves(r) ==
    /\ step[r] # "unsent" /\ step[r] # "answered"
    /\ \E s \in Step \ {"unsent"} : Move(r, s)
    /\ kind' = kind

LEMMA ApiSteps ==
    ASSUME ApiInv, ApiStep
    PROVE  ApiInv' /\ \E r \in Requests : Serves(r)
<1> USE DEF Step, Waiting, Connected, Held
<1>1. PICK r \in Requests : Connect(r) \/ PoolTimeout(r) \/ Handle(r)
  BY DEF ApiStep
<1>2. /\ free \in 0..PoolSize /\ step \in [Requests -> Step]
      /\ kind \in [Requests -> Kind \cup {None}]
      /\ outcome \in [Requests -> Outcome \cup {None}]
  BY DEF ApiInv, ApiTypeOK
<1>3. \E s \in Step \ {"unsent"} :
        /\ Move(r, s)
        /\ free' = free + Held(step[r]) - Held(s) /\ free' \in Nat
        /\ kind' = kind
        /\ \/ outcome' = outcome
           \/ \E o \in Outcome : outcome' = [outcome EXCEPT ![r] = o]
        /\ step[r] # "unsent" /\ step[r] # "answered"
  <2>1. CASE Connect(r)
    BY <1>2, <2>1 DEF Connect, PoolHasRoom
  <2>2. CASE PoolTimeout(r)
    BY <1>2, <2>2 DEF PoolTimeout, Answer, Outcome
  <2>3. CASE Dependency(r)
    BY <1>2, <2>3 DEF Dependency, Disconnect, Answer, Outcome
  <2>4. CASE EmbedQuery(r)
    BY <1>2, <2>4 DEF EmbedQuery, Answer, Outcome
  <2>5. CASE Select(r)
    BY <1>2, <2>5 DEF Select, Disconnect, Answer, Outcome
  <2>6. CASE Generate(r)
    <3>1. /\ Move(r, "answered") /\ free' = free + 1 /\ kind' = kind
          /\ \E o \in Outcome : outcome' = [outcome EXCEPT ![r] = o]
      BY <2>6 DEF Generate, Disconnect, Answer
    <3>2. step[r] = "generate" /\ "answered" \in Step \ {"unsent"}
      BY <2>6 DEF Generate
    <3>3. free' = free + Held(step[r]) - Held("answered") /\ free' \in Nat
      BY <1>2, <3>1, <3>2
    <3>4. QED
      BY <3>1, <3>2, <3>3
  <2>7. QED
    BY <1>1, <2>1, <2>2, <2>3, <2>4, <2>5, <2>6 DEF Handle
<1>4. PICK s \in Step \ {"unsent"} :
        /\ Move(r, s)
        /\ free' = free + Held(step[r]) - Held(s) /\ free' \in Nat
        /\ kind' = kind
        /\ \/ outcome' = outcome
           \/ \E o \in Outcome : outcome' = [outcome EXCEPT ![r] = o]
        /\ step[r] # "unsent" /\ step[r] # "answered"
  BY <1>3
<1>5. /\ ConnectionsBalanced' /\ free' \in 0..PoolSize
      /\ step' \in [Requests -> Step]
  BY <1>2, <1>4, MoveKeepsBalance DEF ApiInv
<1>6. ApiTypeOK'
  BY <1>2, <1>4, <1>5 DEF ApiTypeOK
<1>7. QED
  BY <1>4, <1>5, <1>6 DEF ApiInv, Serves

\* A new request takes no connection yet.
LEMMA SendSteps ==
    ASSUME ApiInv, NEW r \in Requests, NEW k \in Kind, Send(r, k)
    PROVE  /\ ApiInv'
           /\ step[r] = "unsent" /\ step' = [step EXCEPT ![r] = "wait_auth"]
           /\ kind' = [kind EXCEPT ![r] = k]
<1> USE DEF Step, Waiting, Connected, Held
<1>1. /\ step[r] = "unsent" /\ Move(r, "wait_auth") /\ free' = free
      /\ kind' = [kind EXCEPT ![r] = k] /\ outcome' = outcome
  BY DEF Send
<1>2. free \in 0..PoolSize /\ step \in [Requests -> Step]
  BY DEF ApiInv, ApiTypeOK
<1>3. /\ ConnectionsBalanced' /\ free' \in 0..PoolSize
      /\ step' \in [Requests -> Step]
  BY <1>1, <1>2, MoveKeepsBalance DEF ApiInv
<1>4. ApiTypeOK'
  BY <1>1, <1>3 DEF ApiInv, ApiTypeOK
<1>5. QED
  BY <1>1, <1>3, <1>4 DEF ApiInv, Move
----------------------------------------------------------------------------
(* The page *)

LEMMA InitialPage == Init => PageInv
<1> SUFFICES ASSUME Init PROVE PageInv
  OBVIOUS
<1>1. TypeOK /\ SubmissionsAreSent /\ ShownAreDone /\ AnswerIsComplete /\ ButtonIsEnabledAgain
  BY DEF Init, ApiInit, PageInit, TypeOK, ApiTypeOK, Step, Kind, Outcome, Text, Caption, Busy,
         SubmissionsAreSent, ShownAreDone, AnswerIsComplete, ButtonIsEnabledAgain
<1>2. {r \in Requests : step[r] \in Connected} = {}
  BY DEF Init, ApiInit, Connected
<1>3. ConnectionsBalanced
  BY <1>2, FS_EmptySet DEF ConnectionsBalanced, Init, ApiInit
<1>4. QED
  BY <1>1, <1>3 DEF PageInv

\* What the invariant says of the page, apart from the API process.
PageOK ==
    /\ mode \in Kind
    /\ sub \in [Submissions -> {"unused", "fetching", "reading", "done"}]
    /\ savedText \in [Submissions -> Text]
    /\ button \in [disabled : BOOLEAN, text : Text]
    /\ results \subseteq Submissions
    /\ answerCard \in [hidden : BOOLEAN, of : Submissions \cup {None}]

LEMMA PageInvParts ==
    PageInv <=> /\ ApiInv /\ PageOK /\ SubmissionsAreSent /\ ShownAreDone
                /\ AnswerIsComplete /\ ButtonIsEnabledAgain
BY DEF PageInv, TypeOK, ApiInv, PageOK

\* The user switches the mode: a shown answer is hidden.
LEMMA SwitchSteps ==
    ASSUME PageInv, SwitchMode
    PROVE  PageInv'
<1> USE DEF SwitchMode
<1>1. ApiInv'
  BY PageInvParts DEF ApiInv, ApiTypeOK, ConnectionsBalanced, apiVars
<1>2. PageOK'
  BY PageInvParts DEF PageOK
<1>3. answerCard'.hidden
  BY PageInvParts DEF PageOK
<1>4. (SubmissionsAreSent /\ ShownAreDone /\ AnswerIsComplete /\ ButtonIsEnabledAgain)'
  BY <1>3, PageInvParts DEF SubmissionsAreSent, ShownAreDone, AnswerIsComplete,
     ButtonIsEnabledAgain, UnderWay, apiVars
<1>5. QED
  BY <1>1, <1>2, <1>4, PageInvParts DEF PageInv, TypeOK, ApiInv, PageOK

\* A submission, with the button or with the keyboard: one new request.
LEMMA SubmitSteps ==
    ASSUME PageInv, NEW s \in Submissions, Submit(s)
    PROVE  PageInv'
<1>0. ApiInv /\ PageOK /\ SubmissionsAreSent /\ ShownAreDone
  BY PageInvParts
<1>1. s \in Requests /\ mode \in Kind /\ Send(s, mode)
  BY <1>0 DEF Submit, PageOK
<1>2. ApiInv' /\ step' = [step EXCEPT ![s] = "wait_auth"]
  BY <1>0, <1>1, SendSteps
<1>3. PageOK'
  BY <1>0 DEF PageOK, Submit, Text, Busy
<1>4. results' = {} /\ answerCard'.hidden
  BY <1>0 DEF PageOK, Submit
<1>5. sub' = [sub EXCEPT ![s] = "fetching"] /\ s \in UnderWay'
  BY <1>0 DEF Submit, PageOK, UnderWay
<1>6. SubmissionsAreSent'
  BY <1>0, <1>2, <1>5 DEF SubmissionsAreSent, PageOK, ApiInv, ApiTypeOK
<1>7. (ShownAreDone /\ AnswerIsComplete /\ ButtonIsEnabledAgain)'
  BY <1>4, <1>5 DEF ShownAreDone, AnswerIsComplete, ButtonIsEnabledAgain
<1>8. QED
  BY <1>2, <1>3, <1>6, <1>7 DEF PageInv, TypeOK, ApiInv, PageOK

LEMMA FetchSteps ==
    ASSUME PageInv, NEW s \in Submissions, FetchResolves(s)
    PROVE  PageInv'
<1>0. ApiInv /\ PageOK /\ SubmissionsAreSent /\ ShownAreDone /\ AnswerIsComplete
  BY PageInvParts
<1>1. ApiInv'
  BY <1>0 DEF ApiInv, ApiTypeOK, ConnectionsBalanced, apiVars, FetchResolves
<1>2. PageOK' /\ s \in UnderWay'
  BY <1>0 DEF PageOK, FetchResolves, UnderWay
<1>3. ShownAreDone'
  BY <1>0 DEF ShownAreDone, FetchResolves, PageOK
<1>4. (SubmissionsAreSent /\ AnswerIsComplete /\ ButtonIsEnabledAgain)'
  BY <1>0, <1>2 DEF SubmissionsAreSent, AnswerIsComplete, ButtonIsEnabledAgain,
     FetchResolves, PageOK, apiVars
<1>5. QED
  BY <1>1, <1>2, <1>3, <1>4 DEF PageInv, TypeOK, ApiInv, PageOK

\* A submission ends, with its answer shown or not: whatever the page shows
\* then is whole, and its finally block has run.
LEMMA ShowSteps ==
    ASSUME PageInv, NEW s \in Submissions, Show(s) \/ FetchFails(s)
    PROVE  PageInv'
<1>0. /\ ApiInv /\ PageOK /\ SubmissionsAreSent /\ ShownAreDone
      /\ AnswerIsComplete
  BY PageInvParts
<1>1. ApiInv'
  BY <1>0 DEF ApiInv, ApiTypeOK, ConnectionsBalanced, apiVars, Show, FetchFails
<1>2. /\ sub' = [sub EXCEPT ![s] = "done"] /\ sub[s] \in {"fetching", "reading"}
      /\ button' = [disabled |-> FALSE, text |-> savedText[s]]
      /\ UNCHANGED <<mode, savedText, apiVars>>
  BY DEF Show, FetchFails, Restored
<1>3. \/ /\ results' = results \cup {s} /\ kind[s] = mode
         /\ IF mode = "ask" THEN answerCard' = [hidden |-> FALSE, of |-> s]
                            ELSE answerCard' = answerCard
      \/ UNCHANGED <<results, answerCard>>
  BY DEF Show, FetchFails, Readable
<1>4. PageOK'
  <2>1. mode' \in Kind /\ savedText' \in [Submissions -> Text]
    BY <1>0, <1>2 DEF PageOK
  <2>2. sub' \in [Submissions -> {"unused", "fetching", "reading", "done"}]
    BY <1>0, <1>2 DEF PageOK
  <2>3. savedText[s] \in Text
    BY <1>0 DEF PageOK
  <2>4. button' \in [disabled : BOOLEAN, text : Text]
    BY <1>2, <2>3
  <2>5. results' \subseteq Submissions
    BY <1>0, <1>3 DEF PageOK
  <2>6. answerCard' \in [hidden : BOOLEAN, of : Submissions \cup {None}]
    <3>1. answerCard' = [hidden |-> FALSE, of |-> s] \/ answerCard' = answerCard
      BY <1>3
    <3>2. answerCard \in [hidden : BOOLEAN, of : Submissions \cup {None}]
      BY <1>0 DEF PageOK
    <3>3. [hidden |-> FALSE, of |-> s] \in [hidden : BOOLEAN, of : Submissions \cup {None}]
      OBVIOUS
    <3>4. QED
      BY <3>1, <3>2, <3>3
  <2>7. QED
    BY <2>1, <2>2, <2>4, <2>5, <2>6 DEF PageOK
<1>5. SubmissionsAreSent'
  BY <1>0, <1>2 DEF SubmissionsAreSent, PageOK, apiVars
<1>6. ShownAreDone'
  BY <1>0, <1>2, <1>3 DEF ShownAreDone, PageOK
<1>7. AnswerIsComplete'
  <2>1. UNCHANGED <<mode, kind>>
    BY <1>2 DEF apiVars
  <2>2. CASE UNCHANGED <<results, answerCard>>
    BY <1>0, <2>1, <2>2 DEF AnswerIsComplete
  <2>3. CASE /\ results' = results \cup {s} /\ kind[s] = mode /\ mode = "ask"
             /\ answerCard' = [hidden |-> FALSE, of |-> s]
    BY <2>1, <2>3 DEF AnswerIsComplete
  <2>4. CASE results' = results \cup {s} /\ answerCard' = answerCard
    BY <1>0, <2>1, <2>4 DEF AnswerIsComplete
  <2>5. QED
    BY <1>3, <2>2, <2>3, <2>4
<1>8. ButtonIsEnabledAgain'
  BY <1>2 DEF ButtonIsEnabledAgain
<1>9. QED
  BY <1>1, <1>4, <1>5, <1>6, <1>7, <1>8 DEF PageInv, TypeOK, ApiInv, PageOK

\* The API process and its other clients leave the page alone; what they do
\* to a request they do to one that is under way.
LEMMA ServerSteps ==
    ASSUME PageInv, ApiStep \/ OtherClient, UNCHANGED pageVars
    PROVE  PageInv'
<1>0. /\ ApiInv /\ PageOK /\ SubmissionsAreSent /\ ShownAreDone
      /\ AnswerIsComplete /\ ButtonIsEnabledAgain
  BY PageInvParts
<1>1. /\ ApiInv'
      /\ \A s \in Submissions : /\ step'[s] = "unsent" <=> step[s] = "unsent"
                                /\ step[s] # "unsent" => kind'[s] = kind[s]
  <2>1. CASE ApiStep
    <3>1. ApiInv' /\ \E r \in Requests : Serves(r)
      BY <1>0, <2>1, ApiSteps
    <3>2. PICK r \in Requests : Serves(r)
      BY <3>1
    <3>3. QED
      BY <1>0, <3>1, <3>2 DEF Serves, Move, ApiInv, ApiTypeOK
  <2>2. CASE OtherClient
    <3>1. PICK r \in Requests \ Submissions, k \in Kind : Send(r, k)
      BY <2>2 DEF OtherClient
    <3>2. /\ ApiInv' /\ step' = [step EXCEPT ![r] = "wait_auth"]
          /\ kind' = [kind EXCEPT ![r] = k]
      BY <1>0, <3>1, SendSteps
    <3>3. QED
      BY <1>0, <3>2 DEF ApiInv, ApiTypeOK
  <2>3. QED
    BY <2>1, <2>2
<1>2. PageOK' /\ (ShownAreDone /\ ButtonIsEnabledAgain)'
  BY <1>0 DEF PageOK, ShownAreDone, ButtonIsEnabledAgain, UnderWay, pageVars
<1>3. SubmissionsAreSent'
  BY <1>0, <1>1 DEF SubmissionsAreSent, pageVars
<1>4. AnswerIsComplete'
  <2>1. \A s \in results : step[s] # "unsent"
    BY <1>0 DEF ShownAreDone, SubmissionsAreSent, PageOK
  <2>2. QED
    BY <1>0, <1>1, <2>1 DEF AnswerIsComplete, PageOK, pageVars
<1>5. QED
  BY <1>1, <1>2, <1>3, <1>4 DEF PageInv, TypeOK, ApiInv, PageOK

LEMMA PageSteps ==
    ASSUME PageInv, [Next]_vars
    PROVE  PageInv'
<1>1. CASE UNCHANGED vars
  BY <1>1 DEF vars, apiVars, pageVars, PageInv, TypeOK, ApiTypeOK, ConnectionsBalanced,
     SubmissionsAreSent, ShownAreDone, AnswerIsComplete, ButtonIsEnabledAgain, UnderWay
<1>2. CASE SwitchMode
  BY <1>2, SwitchSteps
<1>3. ASSUME NEW s \in Submissions, Click(s) \/ CtrlEnter(s) PROVE PageInv'
  BY <1>3, SubmitSteps DEF Click, CtrlEnter
<1>4. ASSUME NEW s \in Submissions, FetchResolves(s) \/ Show(s) \/ FetchFails(s)
      PROVE  PageInv'
  BY <1>4, FetchSteps, ShowSteps
<1>5. CASE (ApiStep \/ OtherClient) /\ UNCHANGED pageVars
  BY <1>5, ServerSteps
<1>6. QED
  BY <1>1, <1>2, <1>3, <1>4, <1>5 DEF Next, Page

\* The inductive invariant of the page and the API process behind it.
THEOREM PageInvariance == Spec => []PageInv
<1>1. Init => PageInv
  BY InitialPage
<1>2. PageInv /\ [Next]_vars => PageInv'
  BY PageSteps
<1>3. QED
  BY <1>1, <1>2, PTL DEF Spec

\* Page, requests and pool are well formed: no more than PoolSize connections
\* are ever in the pool.
THEOREM PageTypes == Spec => []TypeOK
<1>1. PageInv => TypeOK
  BY DEF PageInv
<1>2. QED
  BY <1>1, PageInvariance, PTL

\* Every connection is in the pool or with a request that uses it, whatever
\* fails on its way through the three sessions.
THEOREM ConnectionSafety == Spec => []ConnectionsBalanced
<1>1. PageInv => ConnectionsBalanced
  BY DEF PageInv
<1>2. QED
  BY <1>1, PageInvariance, PTL

\* However modes are switched and submissions overlap, a visible answer is
\* one of the ask route, with its sources in the list (submitQuery).
THEOREM AnswerSafety == Spec => []AnswerIsComplete
<1>1. PageInv => AnswerIsComplete
  BY DEF PageInv
<1>2. QED
  BY <1>1, PageInvariance, PTL

\* The finally block of submitQuery leaves no disabled button behind.
THEOREM ButtonSafety == Spec => []ButtonIsEnabledAgain
<1>1. PageInv => ButtonIsEnabledAgain
  BY DEF PageInv
<1>2. QED
  BY <1>1, PageInvariance, PTL
===========================================================================
