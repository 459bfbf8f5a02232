------------------------------- MODULE WebUi -------------------------------
(* The page of web/app.js in front of SearchApi: one browser tab whose user *)
(* switches the mode and submits with the button or with Ctrl+Enter, and    *)
(* other clients of the same API process.                                   *)
EXTENDS SearchApi

CONSTANT Submissions  \* the requests that this tab sends

ASSUME WebUiAssumption == Submissions \subseteq Requests

VARIABLES
    mode,       \* state.mode
    sub,        \* where each call of submitQuery is
    savedText,  \* its originalText
    button,     \* disabled and textContent of the button
    results,    \* the submissions whose cards are in the list
    answerCard  \* hidden, and whose answer it holds

pageVars == <<mode, sub, savedText, button, results, answerCard>>
vars == <<apiVars, pageVars>>

\* What the button says: its caption, or that a request is processed.
Caption == "caption"
Busy == "busy"
Text == {Caption, Busy}

PageInit ==
    /\ mode = "search"
    /\ sub = [s \in Submissions |-> "unused"]
    /\ savedText = [s \in Submissions |-> Caption]
    /\ button = [disabled |-> FALSE, text |-> Caption]
    /\ results = {}
    /\ answerCard = [hidden |-> TRUE, of |-> None]

\* A click on a mode button; requests under way are left alone.
SwitchMode ==
    /\ \E m \in Kind : mode' = m
    /\ answerCard' = [answerCard EXCEPT !.hidden = TRUE]
    /\ UNCHANGED <<sub, savedText, button, results, apiVars>>

\* submitQuery up to its fetch, with a valid query and a key.
Submit(s) ==
    /\ sub[s] = "unused"
    /\ results' = {}
    /\ answerCard' = [answerCard EXCEPT !.hidden = TRUE]
    /\ savedText' = [savedText EXCEPT ![s] = button.text]
    /\ button' = [disabled |-> TRUE, text |-> Busy]
    /\ Send(s, mode)
    /\ sub' = [sub EXCEPT ![s] = "fetching"]
    /\ UNCHANGED mode

Click(s) == ~button.disabled /\ Submit(s)
\* The keydown handler does not look at the button.
CtrlEnter(s) == Submit(s)

\* fetch resolves; the body is still to be read.
FetchResolves(s) ==
    /\ sub[s] = "fetching" /\ step[s] = "answered"
    /\ sub' = [sub EXCEPT ![s] = "reading"]
    /\ UNCHANGED <<mode, savedText, button, results, answerCard, apiVars>>

\* Wrong variant of Restored: only a good answer restores the button.
RestoredIfOk(s) ==
    IF outcome[s] = "ok" THEN [disabled |-> FALSE, text |-> savedText[s]] ELSE button
\* The finally block.
Restored(s) == [disabled |-> FALSE, text |-> savedText[s]]

\* Wrong variant of Readable: either list is taken.
AnyList(s) == TRUE
\* payload.sources or payload.items, as the mode is now: the list of the
\* other route is undefined, and forEach on it throws.
Readable(s) == kind[s] = mode

\* The body has been read; the mode is read again.
Show(s) ==
    /\ sub[s] = "reading"
    /\ IF outcome[s] = "ok" /\ Readable(s)
       THEN /\ results' = results \cup {s}
            /\ answerCard' = IF mode = "ask" THEN [hidden |-> FALSE, of |-> s] ELSE answerCard
       ELSE UNCHANGED <<results, answerCard>>
    /\ button' = Restored(s)
    /\ sub' = [sub EXCEPT ![s] = "done"]
    /\ UNCHANGED <<mode, savedText, apiVars>>

\* The connection breaks before or while the answer is read.
FetchFails(s) ==
    /\ sub[s] \in {"fetching", "reading"}
    /\ button' = Restored(s)
    /\ sub' = [sub EXCEPT ![s] = "done"]
    /\ UNCHANGED <<mode, savedText, results, answerCard, apiVars>>

OtherClient == \E r \in Requests \ Submissions, k \in Kind : Send(r, k)

Page == \E s \in Submissions :
    Click(s) \/ CtrlEnter(s) \/ FetchResolves(s) \/ Show(s) \/ FetchFails(s)

Init == ApiInit /\ PageInit

Next ==
    \/ SwitchMode
    \/ Page
    \/ (ApiStep \/ OtherClient) /\ UNCHANGED pageVars

Spec == Init /\ [][Next]_vars

\* The process handles its requests, AI and database calls end (they have
\* timeouts), the pool serves its waiters in turn, and the browser goes on.
FairSpec ==
    /\ Spec
    /\ \A r \in Requests :
        /\ WF_vars(Handle(r) /\ UNCHANGED pageVars)
        /\ SF_vars(Connect(r) /\ UNCHANGED pageVars)
    /\ \A s \in Submissions : WF_vars(FetchResolves(s) \/ Show(s))
----------------------------------------------------------------------------
\* Type correctness of the page and of the API process behind it.
TypeOK ==
    /\ ApiTypeOK
    /\ mode \in Kind
    /\ sub \in [Submissions -> {"unused", "fetching", "reading", "done"}]
    /\ savedText \in [Submissions -> Text]
    /\ button \in [disabled : BOOLEAN, text : Text]
    /\ results \subseteq Submissions
    /\ answerCard \in [hidden : BOOLEAN, of : Submissions \cup {None}]

UnderWay == {s \in Submissions : sub[s] \in {"fetching", "reading"}}

\* A visible answer is one of the ask route, under the mode that says so,
\* and its sources are in the list; whatever the user did to the mode and to
\* other requests while it was being written.
AnswerIsComplete ==
    ~answerCard.hidden =>
        /\ mode = "ask"
        /\ answerCard.of \in results
        /\ kind[answerCard.of] = "ask"

\* With no request under way the button can be used, whatever happened.
ButtonIsEnabledAgain == UnderWay = {} => ~button.disabled

\* A submission has sent its request exactly once.
SubmissionsAreSent == \A s \in Submissions : sub[s] = "unused" <=> step[s] = "unsent"

\* The cards in the list are of submissions that are over.
ShownAreDone == \A s \in results : sub[s] = "done"

\* What makes the safety properties inductive.
PageInv ==
    /\ TypeOK
    /\ ConnectionsBalanced
    /\ SubmissionsAreSent
    /\ ShownAreDone
    /\ AnswerIsComplete
    /\ ButtonIsEnabledAgain

\* Every submission comes to its end, although requests of other clients
\* keep connections while the AI service writes.
EverySubmissionEnds ==
    \A s \in Submissions : sub[s] = "fetching" ~> sub[s] = "done"

\* "submitQuery ... always restores the button in finally"
\* (docs/modules/web-ui.md): the button carries its caption again.
ButtonIsRestored == UnderWay = {} => button = [disabled |-> FALSE, text |-> Caption]
=============================================================================
