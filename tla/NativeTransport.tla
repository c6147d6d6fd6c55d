--------------------------- MODULE NativeTransport ---------------------------
(***************************************************************************)
(* One call of HHNativeApplicationTransport.apply_outcome: the vacancy is  *)
(* read again, the application is posted over the API or as a vacancy test *)
(* and what the site asks for on the way (a CAPTCHA, a form, a test) is    *)
(* answered in the browser session.  The call ends in one outcome: a code  *)
(* and how certain the delivery is.                                        *)
(*                                                                         *)
(* The site is free: it may answer anything, take an application and lose  *)
(* the answer, refuse, or fail with or without having taken it.  Assumed   *)
(* of it: a refusal it words itself, a request to log in and a 201 are     *)
(* true, and a page with its success marker is shown only where there is   *)
(* an application.                                                         *)
(***************************************************************************)
EXTENDS Naturals, FiniteSets

CONSTANTS
    Modes,          \* application settings: [screening, form, captcha]
    Selectors       \* how many submit selectors match something on the form

NativeTransportAssumption == Selectors \in Nat \ {0}

VARIABLES
    mode,           \* the settings of this call
    pc,             \* where the transport is
    round,          \* challenge_number of the loop it is in
    from,           \* the loop that is waiting for a CAPTCHA
    url,            \* the answer named a location
    clicks,         \* submit buttons pressed
    made,           \* the site has the application of this call
    last,           \* what the site said last to a request that applies
    asked,          \* what the site asked for
    solved,         \* CAPTCHAs solved so far
    jars,           \* of which of them the cookies of each jar are
    wire,           \* the requests that apply, as they went out
    outcome         \* [code, sent], Pending before
vars == <<mode, pc, round, from, url, clicks, made, last, asked, solved, jars, wire, outcome>>

Pending == [code |-> "", sent |-> ""]
Unsent == "definitely_not_sent"
Maybe == "possibly_sent"
Definite == "definite_response"

Init ==
    /\ mode \in Modes
    /\ pc = "read" /\ round = 0 /\ from = "read" /\ url = FALSE /\ clicks = 0
    /\ made = FALSE /\ last = "nothing" /\ asked = {}
    /\ solved = 0 /\ jars = [session |-> 0, api |-> 0] /\ wire = {}
    /\ outcome = Pending

Return(code, sent) == pc' = "done" /\ outcome' = [code |-> code, sent |-> sent]
Go(p) == pc' = p /\ UNCHANGED outcome
Solving(loop) == Go("solving") /\ from' = loop
Vision == mode.captcha = "vision_then_manual"
Cookies == <<solved, jars>>
Site == <<made, last, asked, Cookies, wire>>

----------------------------------------------------------------------------
(* The read before the application, and the roles of the fresh vacancy.    *)

Read ==
    /\ pc = "read"
    /\ \/ Go("post") /\ round' = 0 /\ UNCHANGED from
       \/ Go("test") /\ round' = 0 /\ UNCHANGED from
       \/ \E c \in {"auth_expired", "rate_limited", "pre_dispatch_network_error",
                    "role_not_allowed", "read_parse_error"} :
            Return(c, Unsent) /\ UNCHANGED <<round, from>>
       \/ /\ IF Vision /\ round = 0 THEN Solving("read")
             ELSE Return("manual_captcha", Unsent) /\ UNCHANGED from
          /\ UNCHANGED round
    /\ UNCHANGED <<mode, url, clicks, Site>>

\* _apply_test: what the screening mode makes of a test.
Test ==
    /\ pc = "test"
    /\ \/ mode.screening = "off" /\ Return("screening_disabled", Unsent)
       \/ mode.screening \notin {"off", "ai"} /\ Return("manual_assessment", Unsent)
       \/ mode.screening = "ai" /\ Go("testread")
    /\ UNCHANGED <<mode, round, from, url, clicks, Site>>

----------------------------------------------------------------------------
(* Requests that apply.  What the site may say, whether the application    *)
(* may be made, and what the program makes of the answer.                  *)

\* "refused" is a refusal the site words itself (a limit, a duplicate, a
\* request it finds wrong), "login" a request to log in, "failed" an error of
\* the server, which the program takes for a definite answer.
Answers == {"created", "unreached", "lost", "garbled", "unclear", "captcha", "form", "test",
            "refused", "login", "failed"}
TestAnswers == Answers \ {"unreached", "unclear", "form", "test"}
MayApply == {"created", "lost", "garbled", "unclear", "failed"}

CertaintyOf(a) ==
    IF a \in {"lost", "garbled", "unclear"} THEN Maybe ELSE IF a = "unreached" THEN Unsent ELSE Definite

CodeOf(a) ==
    CASE a = "created"   -> "applied"
      [] a = "unreached" -> "pre_dispatch_network_error"
      [] a = "lost"      -> "post_dispatch_network_error"
      [] a \in {"garbled", "unclear"} -> "post_dispatch_parse_error"
      [] a = "captcha"   -> "manual_captcha"
      [] a = "refused"   -> "invalid_request"
      [] a = "login"     -> "auth_expired"
      [] a = "failed"    -> "server_error"

\* The site took the request, or may have, when it answers a.
Answered(a) ==
    /\ made' \in (IF a = "created" THEN {TRUE} ELSE IF a \in MayApply THEN {made, TRUE} ELSE {made})
    /\ last' = a
    /\ asked' = asked \cup ({a} \cap {"captcha", "form", "test"})

\* A request that applies: what the site had said before it, the cookies it
\* carries and the CAPTCHAs solved by then.  n numbers the clicks, from 1.
Sends(n, cookies) ==
    wire' = wire \cup {[click |-> n, after |-> last, carried |-> cookies, solved |-> solved]}

\* _sync_api_cookies before a request of the API, _sync_browser_cookies after.
Sync(j) == [j EXCEPT !.api = j.session]
SyncBack(j) == [j EXCEPT !.session = j.api]

\* _client_apply and the loop of _apply_direct.
AgainAfterLoss(a) == a \in {"captcha", "lost"}
Again(a) == a = "captcha"
NextRound == round + 1

Post ==
    /\ pc = "post"
    /\ \E a \in Answers, u \in BOOLEAN :
         /\ Answered(a) /\ url' = u
         /\ IF Again(a) /\ Vision /\ round = 0 THEN Solving("post")
            ELSE IF a \in {"form", "test"} THEN Go("handle") /\ UNCHANGED from
            ELSE Return(CodeOf(a), CertaintyOf(a)) /\ UNCHANGED from
    /\ Sends(0, Sync(jars).api)
    /\ jars' = SyncBack(Sync(jars))
    /\ UNCHANGED <<mode, round, clicks, solved>>

\* HHVacancyTestTransport.apply: the page of the test, then its answers.
TestRead ==
    /\ pc = "testread"
    /\ \/ \E c \in {"manual_auth", "pre_dispatch_network_error", "auth_expired", "forbidden",
                    "ai_unavailable", "manual_assessment"} :
            Return(c, Unsent) /\ UNCHANGED from
       \/ IF Vision /\ round = 0 THEN Solving("testread")
          ELSE Return("manual_captcha", Unsent) /\ UNCHANGED from
       \/ Go("testpost") /\ UNCHANGED from
    /\ UNCHANGED <<mode, round, url, clicks, Site>>

\* The session of the test is made of the cookies of the browser.  Any failure
\* to get an answer counts as lost, a connection that was never made included.
TestPost ==
    /\ pc = "testpost"
    /\ \E a \in TestAnswers, u \in BOOLEAN :
         /\ Answered(a) /\ url' = u
         /\ IF Again(a) /\ Vision /\ round = 0 THEN Solving("testread")
            ELSE Return(CodeOf(a), CertaintyOf(a)) /\ UNCHANGED from
    /\ Sends(0, jars.session)
    /\ UNCHANGED <<mode, round, clicks, Cookies>>

\* _solve_captcha, for the loop that waits for it.  The read is tried again
\* whatever came of it; a form that was behind a CAPTCHA is posted again.
\* capture_session keeps the cookies of the page on which it was solved.
Solve ==
    /\ pc = "solving"
    /\ \E ok \in BOOLEAN :
         /\ solved' = (IF ok THEN solved + 1 ELSE solved)
         /\ jars' = (IF ok THEN [jars EXCEPT !.session = solved + 1] ELSE jars)
         /\ \/ from = "read" /\ Go("read")
            \/ from \in {"post", "testread"} /\ ok /\ Go(from)
            \/ from = "inspect" /\ ok /\ round = 0 /\ Go("post")
            \/ from = "inspect" /\ ok /\ round > 0 /\ Return("manual_captcha", Unsent)
            \/ from = "inspect" /\ ~ok /\ Return("manual_captcha", Unsent)
            \/ from \in {"post", "testread"} /\ ~ok
               /\ Return("manual_captcha", IF last = "captcha" THEN Definite ELSE Unsent)
         /\ round' = NextRound
    /\ UNCHANGED <<mode, from, url, clicks, made, last, asked, wire>>

----------------------------------------------------------------------------
(* The form in the browser.                                                *)

\* _handle_browser_flow: the page behind the location.
Inspect ==
    /\ pc = "handle"
    /\ \/ ~url /\ Return("manual_assessment", Unsent) /\ UNCHANGED from
       \/ url /\ Return("form_required", Unsent) /\ UNCHANGED from
       \/ url /\ IF Vision THEN Solving("inspect")
                 ELSE Return("manual_captcha", Unsent) /\ UNCHANGED from
       \/ url /\ Return("auth_expired", Unsent) /\ UNCHANGED from
       \/ url /\ Go("test") /\ UNCHANGED from
       \/ url /\ Go("fields") /\ UNCHANGED from
    /\ round' = (IF pc' = "test" THEN 0 ELSE round)
    /\ UNCHANGED <<mode, url, clicks, Site>>

\* What answers there are to the fields: facts of the profile, then the AI.
Fields ==
    /\ pc = "fields"
    /\ \/ mode.form = "off" /\ Return("form_disabled", Unsent)
       \/ /\ mode.form # "off"
          /\ \/ Return("missing_required_data", Unsent)
             \/ mode.form = "profile_grounded" /\ Return("manual_assessment", Unsent)
             \/ mode.form = "ai" /\ Return("ai_unavailable", Unsent)
             \/ Go("form")
    /\ UNCHANGED <<mode, round, from, url, clicks, Site>>

\* submit_grounded_form up to the click; before it nothing is sent.
Fill ==
    /\ pc = "form"
    /\ \/ Go("click")
       \/ Return("pre_dispatch_network_error", Unsent)
       \/ Return("manual_captcha", Definite)
    /\ UNCHANGED <<mode, round, from, url, clicks, Site>>

Raised == [code |-> "post_dispatch_network_error", sent |-> Maybe]

\* _click_submit: a click that raises, which the site may have taken, is
\* followed by a click on the next selector.  The page has the cookies of the
\* browser session (_restore_session).
Click ==
    /\ pc = "click" /\ clicks < Selectors
    /\ clicks' = clicks + 1
    /\ last' \in {"click", "taken"}
    /\ made' = (made \/ last' = "taken")
    /\ Sends(clicks', jars.session)
    /\ \/ Go("landed")
       \/ IF clicks' < Selectors THEN Go("click") ELSE Return(Raised.code, Raised.sent)
    /\ UNCHANGED <<mode, round, from, url, asked, Cookies>>

\* The page after the click.  The site shows its marker, a test or a login
\* as they are; of everything else only visible fields tell it from success.
Pages == {"success", "error", "captcha", "test", "login", "form"}
LandedOn(p) ==
    CASE p \in {"success", "error"} -> [code |-> "applied", sent |-> Definite]
      [] p = "captcha" -> [code |-> "manual_captcha", sent |-> Definite]
      [] p = "test"    -> [code |-> "manual_assessment", sent |-> Definite]
      [] p = "login"   -> [code |-> "auth_expired", sent |-> Definite]
      [] p = "form"    -> [code |-> "form_required", sent |-> Definite]
Landed ==
    /\ pc = "landed"
    /\ \/ \E p \in Pages :
            /\ p = "success" => made
            \* a page that asks for more answers the last click, which was not taken
            /\ p \in {"captcha", "test", "login", "form"} => last # "taken"
            /\ Return(LandedOn(p).code, LandedOn(p).sent)
       \/ Return(Raised.code, Raised.sent)
    /\ UNCHANGED <<mode, round, from, url, clicks, Site>>

Ended == pc = "done" /\ UNCHANGED vars

Steps == \/ Read \/ Test \/ Post \/ TestRead \/ TestPost \/ Solve
         \/ Inspect \/ Fields \/ Fill \/ Click \/ Landed
Next == Steps \/ Ended
Spec == Init /\ [][Next]_vars

\* Every request and every operation of the page has a timeout, and so has
\* every call of the AI.
FairSpec == Spec /\ WF_vars(Steps)
----------------------------------------------------------------------------

\* A call that reports that nothing was sent has not left an application
\* behind, however often a button was clicked; nor has one that reports a
\* refusal, except after several clicks (RefusalAfterClicksIsTrue) and after
\* an error of the server, which counts as a refusal (server_error).  The item
\* may be tried again only because of this (DispatchOutcome.certainty).
Refuses == /\ pc = "done" /\ outcome.sent \in {Unsent, Definite}
           /\ outcome.code # "applied"
RefusalIsTrue ==
    /\ Refuses /\ outcome.code # "server_error"
    /\ outcome.sent = Unsent \/ clicks <= 1
    => ~made

\* The same of every refusal: also where a click raised and the next selector
\* was tried (HHBrowserApplicationAdapter._click_submit).
RefusalAfterClicksIsTrue == Refuses /\ outcome.code # "server_error" => ~made

\* "applied" after a request of the API or a test: the application exists.
\* What a form sent in the browser answers is left to FormAppliedIsReal.
AppliedIsReal == pc = "done" /\ outcome.code = "applied" /\ last \notin {"click", "taken"} => made

\* The same of a form sent in the browser (submit_grounded_form).
FormAppliedIsReal == pc = "done" /\ outcome.code = "applied" => made

\* A request of the API or of a test goes out again only after the site asked
\* for something instead of taking the one before, and a button is clicked
\* first only after it asked for a form or a test (HHApiSession.apply: a
\* request is not replayed within one attempt).  Clicks that follow a click
\* that raised are not covered: the site may have taken it.
AskedBeforeAgain ==
    \A r \in wire :
        /\ r.click = 0 => r.after \in {"nothing", "captcha", "form", "test"}
        /\ r.click = 1 => r.after \in {"form", "test"}

\* Every request that applies carries the cookies of the last CAPTCHA solved
\* before it, through the jars of the browser, the API session and the test
\* (capture_session, _sync_api_cookies, _sync_browser_cookies, _http_session).
SolutionIsCarried == \A r \in wire : r.carried = r.solved

\* A form or a test that the settings switched off is never put before the
\* operator (form_mode, screening_mode "off").
OffAsksNobody ==
    pc = "done" /\ outcome.code = "manual_assessment" =>
        \/ "test" \in asked /\ mode.screening # "off"
        \/ "form" \in asked /\ mode.form # "off"
        \/ asked = {} \/ asked = {"captcha"}

\* Every call answers: no CAPTCHA, form or test keeps it going for ever.
Done == pc = "done"
CallEnds == <>Done
=============================================================================
