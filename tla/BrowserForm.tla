----------------------------- MODULE BrowserForm ----------------------------
(***************************************************************************)
(* The browser adapter (external_apply.BrowserApplyAdapter): it opens the  *)
(* vacancy, waits for a login, finds the way to the form, fills what is    *)
(* visible, goes on screen by screen and clicks the final button once.     *)
(* Any operation on the page may raise; the click may be taken although it *)
(* raises.  A page is what the selectors find on it.                       *)
(*                                                                         *)
(* Assumed of the sites: only Habr's start button and a final submit send  *)
(* an application, and a receipt is shown only where there is one.         *)
(***************************************************************************)
EXTENDS Naturals, FiniteSets, Sequences

CONSTANTS
    Sites,          \* vacancies as their pages show them
    Letters,        \* whether there is a letter to send: a subset of BOOLEAN
    MaxSteps        \* max_steps of the adapter

BrowserFormAssumption ==
    /\ MaxSteps \in Nat \ {0} /\ Letters \subseteq BOOLEAN
    \* screens are numbered, and whoever has a form has a first one
    /\ \A s \in Sites : DOMAIN s.screens \subseteq Nat \ {0} /\ (s.source # "habr" => 1 \in DOMAIN s.screens)

VARIABLES
    site,           \* [source, login, applied, start, screens, receipt]
    letter,
    pc,             \* where the adapter is
    screen,         \* the screen of the form that is visible
    steps,          \* screens passed
    entered,        \* what each field of each screen holds, and whose it is
    clicks,         \* final clicks
    took,           \* the site has an application
    status          \* the answer, "" before
vars == <<site, letter, pc, screen, steps, entered, clicks, took, status>>

Untouched(f) == [value |-> f.given, by |-> "page"]

Init ==
    /\ site \in Sites /\ letter \in Letters
    /\ pc = "open" /\ screen = 1 /\ steps = 0 /\ clicks = 0
    /\ took = site.applied /\ status = ""
    /\ entered = [i \in DOMAIN site.screens |-> [f \in site.screens[i].fields |-> Untouched(f)]]

Still == UNCHANGED <<site, letter>>
Form == UNCHANGED <<screen, steps, entered>>
Answer(s) == status' = s /\ pc' = "done"

----------------------------------------------------------------------------
(* From the vacancy to the form.                                           *)

Open ==
    /\ pc = "open"
    /\ \/ site.source = "lever" /\ pc' = "form" /\ UNCHANGED status
       \/ site.source # "lever" /\ site.login = "never" /\ Answer("needs_login")
       \/ site.source # "lever" /\ site.login # "never" /\ pc' = "looking" /\ UNCHANGED status
    /\ Still /\ Form /\ UNCHANGED <<clicks, took>>

\* The receipt of an earlier application; only two sources have a known one.
Receipt == took /\ site.receipt
AlreadyApplied == site.source \in {"habr", "linkedin"} /\ Receipt

Look ==
    /\ pc = "looking"
    /\ \/ AlreadyApplied /\ Answer("already_applied")
       \/ ~AlreadyApplied /\ ~site.start /\ Answer("blocked")
       \/ ~AlreadyApplied /\ site.start
          /\ pc' = (IF site.source = "habr" THEN "submitting" ELSE "form") /\ UNCHANGED status
    /\ Still /\ Form /\ UNCHANGED <<clicks, took>>

----------------------------------------------------------------------------
(* One screen of the form.                                                 *)

\* resolve_typed_answer: a decision counts when the user made it for this
\* question of this vacancy and it has not expired; a legacy answer, a plain
\* value, counts for contacts only.
Current(d) == d \in {"yes", "no"}
None == [value |-> "", by |-> "nobody"]
Resolved(f) ==
    IF Current(f.decision) THEN [value |-> f.decision, by |-> "user"]
    ELSE IF f.kind = "contact" /\ f.decision = "legacy" THEN [value |-> "yes", by |-> "user"]
    ELSE IF f.kind \in {"contact", "select", "file"} /\ f.known THEN [value |-> "yes", by |-> "profile"]
    ELSE IF f.kind = "letter" /\ letter THEN [value |-> "yes", by |-> "letter"]
    ELSE None

\* What a field holds after it is filled; a value that the page gives stays.
Filled(f) ==
    LET a == Resolved(f) IN
    IF a = None \/ (f.given # "" /\ f.kind \in {"contact", "select", "letter"}) THEN Untouched(f) ELSE a

\* The field keeps the form from being sent.
Blocks(f) ==
    \/ f.kind = "file" /\ f.known /\ f.defect
    \/ f.required /\ f.kind = "checkbox" /\ Resolved(f).value # "yes"
    \/ f.required /\ f.kind # "checkbox" /\ Filled(f).value = ""

StepsTaken == steps + 1

Shown == site.screens[screen]

\* What _complete_browser_form does at one step, once the fields are filled.
Step ==
    /\ pc = "form"
    /\ \/ (steps = MaxSteps \/ ~Shown.scope) /\ Answer("blocked") /\ UNCHANGED <<screen, steps, entered>>
       \/ /\ steps < MaxSteps /\ Shown.scope
          /\ entered' = [entered EXCEPT ![screen] = [f \in DOMAIN @ |-> Filled(f)]]
          /\ IF \E f \in Shown.fields : Blocks(f)
             THEN Answer("needs_answers") /\ UNCHANGED <<screen, steps>>
             ELSE \/ /\ Shown.action = "next" /\ steps' = StepsTaken
                     /\ screen' \in {screen} \union ({screen + 1} \intersect DOMAIN site.screens)
                     /\ UNCHANGED <<pc, status>>
                  \/ Shown.action = "submit" /\ pc' = "submitting" /\ UNCHANGED <<screen, steps, status>>
                  \/ Shown.action = "none" /\ Answer("blocked") /\ UNCHANGED <<screen, steps>>
    /\ Still /\ UNCHANGED <<clicks, took>>

----------------------------------------------------------------------------
(* The final click.                                                        *)

\* final_submit_started is noted before the click, whose failure says nothing.
Click ==
    /\ pc = "submitting" /\ clicks' = clicks + 1
    /\ took' \in {took, TRUE}
    /\ \/ pc' = "verifying" /\ UNCHANGED status
       \/ Answer("submission_unknown")
    /\ Still /\ Form

\* _application_success: the source's own receipt on the same vacancy.
Success == site.source \in {"habr", "linkedin", "lever"} /\ Receipt

Verify ==
    /\ pc = "verifying"
    /\ \/ Success /\ site.source = "habr" /\ letter /\ pc' = "letter" /\ UNCHANGED status
       \/ Success /\ ~(site.source = "habr" /\ letter) /\ Answer("applied")
       \/ ~Success /\ Answer("submission_unknown")
    /\ Still /\ Form /\ UNCHANGED <<clicks, took>>

\* Habr's editor saves the letter after the response; whatever becomes of it,
\* the response stands.
SaveLetter ==
    /\ pc = "letter" /\ Answer("applied")
    /\ Still /\ Form /\ UNCHANGED <<clicks, took>>

Raised == IF clicks > 0 THEN "submission_unknown" ELSE "error"

\* An operation on the page raises.
Raise ==
    /\ pc \in {"open", "looking", "form", "verifying"} /\ Answer(Raised)
    /\ Still /\ Form /\ UNCHANGED <<clicks, took>>

Progress == Open \/ Look \/ Step \/ Click \/ Verify \/ SaveLetter
Next == Progress \/ Raise
Spec == Init /\ [][Next]_vars /\ WF_vars(Progress)

----------------------------------------------------------------------------
(* Properties.                                                             *)

\* An answer that lets confirm_apply try the vacancy again means that the final
\* button was not touched.
RetryableMeansUntouched == status \in {"blocked", "needs_login", "needs_answers", "error"} => clicks = 0

\* An application is reported only where the site has one.
AppliedIsReal == status \in {"applied", "already_applied"} => took

\* Every screen is filled before the final click, and what is required was
\* answered by the user, the profile, the letter or, save for a consent, the page.
RequiredIsAnswered ==
    clicks > 0 /\ site.source # "habr" =>
        /\ \A f \in Shown.fields : f.required => entered[screen][f].value # ""
        /\ \A i \in DOMAIN site.screens : \A f \in site.screens[i].fields :
              i <= screen /\ f.required /\ f.kind = "checkbox" =>
                  /\ entered[i][f] = [value |-> "yes", by |-> "user"]
                  /\ f.decision = "yes"

\* The attempt comes to an answer, although a screen may show itself again.
HasAnswer == status # ""
TheAttemptEnds == <>HasAnswer

\* external_apply.py: a prechecked control is not evidence of the decision of
\* the user, so no consent is sent that the user did not give.
NoConsentWithoutDecision ==
    clicks > 0 => \A i \in DOMAIN site.screens : \A f \in site.screens[i].fields :
        i <= screen /\ f.kind = "checkbox" /\ entered[i][f].value = "yes" => entered[i][f].by = "user"
=============================================================================
