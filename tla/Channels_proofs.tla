--------------------------- MODULE Channels_proofs ---------------------------
(***************************************************************************)
(* Proofs about the ways an application, a mail or a reply leaves the      *)
(* program, for every value of their constants.  Each component is an      *)
(* instance; MCChannels_proofs instantiates this module as the suite       *)
(* instantiates the components.                                            *)
(***************************************************************************)
EXTENDS Naturals, FiniteSets, Sequences, FiniteSetTheorems, TLAPS

CONSTANTS
    Workers, Jobs, Resumes, Versions, MaxPlans,         \* ExternalApply
    Sites, Letters, MaxSteps,                           \* BrowserForm
    Modes, Selectors,                                   \* NativeTransport
    Leads, Emails, Recipient, MaxMails,                 \* EmailOutreach
    Procs,                                              \* EmailOutreach and Replies
    MaxThread, MaxRows, MaxApprovals,                   \* Replies
    Vacancy, Resume, Proc, Campaign, Plan, Own, Lists,  \* Manual
    Most, FileLimit, Reuse, Together, MaxCommands

VARIABLES
    plans, applications, bundle, work, delivered,
    site, letter, formPc, screen, steps, entered, formClicks, took, status,
    mode, nativePc, round, from, url, nativeClicks, made, last, asked, solved,
    jars, wire, outcome,
    mailFile, copy, mailRun, released, handed, mailed, receipt,
    thread, seen, keys, outbox, approvals, replyRun, granted, refused, closed,
    latest, cached, item, campaign, plan, listFile, state, lease, cmd, hh,
    skipped, used

Ext == INSTANCE ExternalApply
Form == INSTANCE BrowserForm WITH pc <- formPc, clicks <- formClicks
Native == INSTANCE NativeTransport WITH pc <- nativePc, clicks <- nativeClicks
Mail == INSTANCE EmailOutreach WITH file <- mailFile, run <- mailRun
Reply == INSTANCE Replies WITH run <- replyRun
Hand == INSTANCE Manual WITH file <- listFile
------------------------------------------------------------------------------
(* NativeTransport: one call of the transport of HH.                       *)

\* Where the call is before the submit button is in reach.
Before == {"read", "test", "post", "testread", "testpost", "solving", "handle",
           "fields", "form"}
\* What the site says when it asks for something instead of taking a request.
Asks == {"nothing", "captcha", "form", "test"}

NativeTypes ==
    /\ nativePc \in Before \cup {"click", "landed", "done"}
    /\ nativeClicks \in Nat /\ made \in BOOLEAN
    /\ solved \in Nat /\ jars \in [session : Nat, api : Nat]

\* Nothing has been taken while the transport still talks to the site, and
\* the site has asked for what comes next.
NothingTaken ==
    /\ nativePc \in Before => ~made /\ last \in Asks /\ nativeClicks = 0
    /\ nativePc \in {"handle", "fields", "form"} => last \in {"form", "test"}

\* The clicks: what the first of them left behind is known from its answer.
ClicksAreKnown ==
    /\ nativePc = "click" /\ nativeClicks = 0 => ~made /\ last \in {"form", "test"}
    /\ nativePc = "landed" => /\ nativeClicks > 0 /\ last \in {"click", "taken"}
                              /\ nativeClicks = 1 /\ made => last = "taken"

\* The browser's jar has the last solution, and what went out is on record.
Carried ==
    /\ jars.session = solved
    /\ Native!AskedBeforeAgain
    /\ Native!SolutionIsCarried

NativeInv ==
    /\ NativeTypes
    /\ NothingTaken
    /\ ClicksAreKnown
    /\ Carried
    /\ Native!RefusalIsTrue
    /\ Native!AppliedIsReal

LEMMA NativeStarts == ASSUME Native!Init PROVE NativeInv
  <1>1. /\ nativePc = "read" /\ ~made /\ last = "nothing" /\ nativeClicks = 0
        /\ made \in BOOLEAN /\ wire = {} /\ solved = 0
        /\ jars = [session |-> 0, api |-> 0]
    BY DEF Native!Init
  <1> QED BY <1>1 DEF NativeInv, NativeTypes, NothingTaken, ClicksAreKnown, Carried, Before,
      Asks, Native!RefusalIsTrue, Native!Refuses, Native!AppliedIsReal,
      Native!AskedBeforeAgain, Native!SolutionIsCarried

\* A step that sends no request that applies keeps the requests as they are.
LEMMA NativeQuiet ==
    ASSUME NativeInv, UNCHANGED wire,
           \/ UNCHANGED <<solved, jars>>
           \/ solved' = solved + 1 /\ jars' = [jars EXCEPT !.session = solved + 1]
    PROVE  Carried' /\ solved' \in Nat /\ jars' \in [session : Nat, api : Nat]
  BY DEF NativeInv, NativeTypes, Carried, Native!AskedBeforeAgain, Native!SolutionIsCarried

\* A request of the API or of a test with the cookies of the last solution.
LEMMA NativeSends ==
    ASSUME NativeInv, nativePc \in Before, Native!Sends(0, jars.session), UNCHANGED solved,
           \/ UNCHANGED jars
           \/ jars' = [session |-> jars.session, api |-> jars.session]
    PROVE  Carried' /\ solved' \in Nat /\ jars' \in [session : Nat, api : Nat]
  BY DEF NativeInv, NativeTypes, NothingTaken, Asks, Carried, Native!AskedBeforeAgain,
         Native!SolutionIsCarried, Native!Sends

\* A call that ends before the button is in reach, refused, has sent nothing.
LEMMA NativeRefuses ==
    ASSUME NativeInv, nativePc \in Before, NEW c, NEW s, Native!Return(c, s),
           c # "applied", UNCHANGED <<nativeClicks, made, last, wire>>,
           \/ UNCHANGED <<solved, jars>>
           \/ solved' = solved + 1 /\ jars' = [jars EXCEPT !.session = solved + 1]
    PROVE  NativeInv'
  <1>1. Carried' /\ solved' \in Nat /\ jars' \in [session : Nat, api : Nat]
    BY NativeQuiet
  <1> QED BY <1>1 DEF NativeInv, NativeTypes, NothingTaken, ClicksAreKnown, Before, Asks,
      Native!Return, Native!RefusalIsTrue, Native!Refuses, Native!AppliedIsReal

\* A step on the way to the button.
LEMMA NativeGoes ==
    ASSUME NativeInv, nativePc \in Before, NEW s \in Before \cup {"click"}, Native!Go(s),
           s \in {"handle", "fields", "form", "click"}
               => nativePc \in {"handle", "fields", "form"},
           UNCHANGED <<nativeClicks, made, last, wire>>,
           \/ UNCHANGED <<solved, jars>>
           \/ solved' = solved + 1 /\ jars' = [jars EXCEPT !.session = solved + 1]
    PROVE  NativeInv'
  <1>1. Carried' /\ solved' \in Nat /\ jars' \in [session : Nat, api : Nat]
    BY NativeQuiet
  <1> QED BY <1>1 DEF NativeInv, NativeTypes, NothingTaken, ClicksAreKnown, Before, Asks,
      Native!Go, Native!RefusalIsTrue, Native!Refuses, Native!AppliedIsReal

\* An answer to a request that applies.
LEMMA NativeAnswers ==
    ASSUME NativeInv, nativePc \in Before, NEW a \in Native!Answers,
           Native!Answered(a), UNCHANGED nativeClicks,
           Carried', solved' \in Nat, jars' \in [session : Nat, api : Nat],
           \/ a = "captcha" /\ Native!Go("solving")
           \/ a \in {"form", "test"} /\ Native!Go("handle")
           \/ Native!Return(Native!CodeOf(a), Native!CertaintyOf(a)) /\ a \notin {"form", "test"}
    PROVE  NativeInv'
  <1>1. CASE a = "captcha" /\ Native!Go("solving")
    BY <1>1 DEF NativeInv, NativeTypes, NothingTaken, ClicksAreKnown, Before, Asks, Native!Go,
        Native!RefusalIsTrue, Native!Refuses, Native!AppliedIsReal, Native!Answered,
        Native!MayApply
  <1>2. CASE a \in {"form", "test"} /\ Native!Go("handle")
    BY <1>2 DEF NativeInv, NativeTypes, NothingTaken, ClicksAreKnown, Before, Asks, Native!Go,
        Native!RefusalIsTrue, Native!Refuses, Native!AppliedIsReal, Native!Answered,
        Native!MayApply
  <1>3. CASE Native!Return(Native!CodeOf(a), Native!CertaintyOf(a)) /\ a \notin {"form", "test"}
    BY <1>3 DEF NativeInv, NativeTypes, NothingTaken, ClicksAreKnown, Before, Asks,
        Native!Return, Native!RefusalIsTrue, Native!Refuses, Native!AppliedIsReal,
        Native!Answers, Native!Answered, Native!MayApply, Native!CodeOf, Native!CertaintyOf,
        Native!Unsent, Native!Maybe, Native!Definite
  <1> QED BY <1>1, <1>2, <1>3

LEMMA NativeStep ==
    ASSUME NativeInv, [Native!Next]_(Native!vars) PROVE NativeInv'
  <1>1. CASE Native!Read
    BY <1>1, NativeRefuses, NativeGoes
       DEF Native!Read, Native!Site, Native!Cookies, Native!Solving, Before
  <1>2. CASE Native!Test
    BY <1>2, NativeRefuses, NativeGoes DEF Native!Test, Native!Site, Native!Cookies, Before
  <1>3. CASE Native!Post
    <2>1. /\ nativePc \in Before /\ UNCHANGED <<nativeClicks, solved>>
          /\ Native!Sends(0, jars.session)
          /\ jars' = [session |-> jars.session, api |-> jars.session]
      BY <1>3 DEF Native!Post, Native!Sync, Native!SyncBack, Before, NativeInv, NativeTypes
    <2>2. PICK a \in Native!Answers, u \in BOOLEAN :
            /\ Native!Answered(a)
            /\ IF Native!Again(a) /\ Native!Vision /\ round = 0 THEN Native!Solving("post")
               ELSE IF a \in {"form", "test"} THEN Native!Go("handle") /\ UNCHANGED from
               ELSE Native!Return(Native!CodeOf(a), Native!CertaintyOf(a)) /\ UNCHANGED from
      BY <1>3 DEF Native!Post
    <2>3. \/ a = "captcha" /\ Native!Go("solving")
          \/ a \in {"form", "test"} /\ Native!Go("handle")
          \/ Native!Return(Native!CodeOf(a), Native!CertaintyOf(a)) /\ a \notin {"form", "test"}
      BY <2>2 DEF Native!Again, Native!Solving
    <2>4. Carried' /\ solved' \in Nat /\ jars' \in [session : Nat, api : Nat]
      BY <2>1, NativeSends
    <2> QED BY <2>1, <2>2, <2>3, <2>4, NativeAnswers
  <1>4. CASE Native!TestRead
    BY <1>4, NativeRefuses, NativeGoes
       DEF Native!TestRead, Native!Site, Native!Cookies, Native!Solving, Before
  <1>5. CASE Native!TestPost
    <2>1. /\ nativePc \in Before /\ UNCHANGED <<nativeClicks, solved, jars>>
          /\ Native!Sends(0, jars.session)
      BY <1>5 DEF Native!TestPost, Native!Cookies, Before
    <2>2. PICK a \in Native!TestAnswers, u \in BOOLEAN :
            /\ Native!Answered(a)
            /\ IF Native!Again(a) /\ Native!Vision /\ round = 0 THEN Native!Solving("testread")
               ELSE Native!Return(Native!CodeOf(a), Native!CertaintyOf(a)) /\ UNCHANGED from
      BY <1>5 DEF Native!TestPost
    <2>3. \/ a = "captcha" /\ Native!Go("solving")
          \/ Native!Return(Native!CodeOf(a), Native!CertaintyOf(a)) /\ a \notin {"form", "test"}
      BY <2>2 DEF Native!Again, Native!Solving, Native!TestAnswers
    <2>4. Carried' /\ solved' \in Nat /\ jars' \in [session : Nat, api : Nat]
      BY <2>1, NativeSends
    <2>5. a \in Native!Answers
      BY <2>2 DEF Native!TestAnswers
    <2> QED BY <2>1, <2>2, <2>3, <2>4, <2>5, NativeAnswers
  <1>6. CASE Native!Solve
    <2>1. /\ nativePc = "solving"
          /\ UNCHANGED <<nativeClicks, made, last, wire>>
          /\ \/ UNCHANGED <<solved, jars>>
             \/ solved' = solved + 1 /\ jars' = [jars EXCEPT !.session = solved + 1]
      BY <1>6 DEF Native!Solve
    <2>2. \/ \E s \in {"read", "post", "testread"} : Native!Go(s)
          \/ \E s : Native!Return("manual_captcha", s)
      BY <1>6 DEF Native!Solve
    <2> QED BY <2>1, <2>2, NativeRefuses, NativeGoes DEF Before
  <1>7. CASE Native!Inspect
    <2>1. nativePc = "handle" /\ UNCHANGED <<nativeClicks, made, last, wire, solved, jars>>
      BY <1>7 DEF Native!Inspect, Native!Site, Native!Cookies
    <2>2. \/ \E s \in {"solving", "test", "fields"} : Native!Go(s)
          \/ \E c \in {"manual_assessment", "form_required", "manual_captcha", "auth_expired"} :
                Native!Return(c, Native!Unsent)
      BY <1>7 DEF Native!Inspect, Native!Solving
    <2> QED BY <2>1, <2>2, NativeRefuses, NativeGoes DEF Before
  <1>8. CASE Native!Fields
    BY <1>8, NativeRefuses, NativeGoes DEF Native!Fields, Native!Site, Native!Cookies, Before
  <1>9. CASE Native!Fill
    BY <1>9, NativeRefuses, NativeGoes DEF Native!Fill, Native!Site, Native!Cookies, Before
  <1>10. CASE Native!Click
    <2>1. /\ nativePc = "click" /\ nativeClicks' = nativeClicks + 1
          /\ UNCHANGED <<solved, jars>> /\ Native!Sends(nativeClicks', jars.session)
          /\ last' \in {"click", "taken"} /\ made' = (made \/ last' = "taken")
          /\ \/ Native!Go("landed") \/ Native!Go("click")
             \/ Native!Return(Native!Raised.code, Native!Raised.sent)
      BY <1>10 DEF Native!Click, Native!Cookies
    <2>2. Carried'
      BY <2>1 DEF NativeInv, NativeTypes, ClicksAreKnown, Carried, Native!Sends,
          Native!AskedBeforeAgain, Native!SolutionIsCarried
    <2> QED BY <2>1, <2>2 DEF NativeInv, NativeTypes, NothingTaken, ClicksAreKnown, Before,
          Asks, Native!Go, Native!Return, Native!Raised, Native!Maybe, Native!Unsent,
          Native!Definite, Native!RefusalIsTrue, Native!Refuses, Native!AppliedIsReal
  <1>11. CASE Native!Landed
    <2>1. nativePc = "landed" /\ UNCHANGED <<nativeClicks, made, last, wire, solved, jars>>
      BY <1>11 DEF Native!Landed, Native!Site, Native!Cookies
    <2>0. Carried'
      BY <2>1, NativeQuiet
    <2>2. CASE Native!Return(Native!Raised.code, Native!Raised.sent)
      BY <2>0, <2>1, <2>2 DEF NativeInv, NativeTypes, NothingTaken, ClicksAreKnown, Before,
          Asks, Native!Return, Native!Raised, Native!Maybe, Native!Unsent, Native!Definite,
          Native!RefusalIsTrue, Native!Refuses, Native!AppliedIsReal
    <2>3. ASSUME NEW pg \in Native!Pages,
                 pg \in {"captcha", "test", "login", "form"} => last # "taken",
                 Native!Return(Native!LandedOn(pg).code, Native!LandedOn(pg).sent)
          PROVE  NativeInv'
      <3>1. CASE pg \in {"success", "error"}
        BY <2>0, <2>1, <2>3, <3>1 DEF NativeInv, NativeTypes, NothingTaken, ClicksAreKnown,
            Before, Asks, Native!Return, Native!LandedOn, Native!Unsent, Native!Definite,
            Native!RefusalIsTrue, Native!Refuses, Native!AppliedIsReal
      <3>2. CASE pg \in {"captcha", "test", "login", "form"}
        BY <2>0, <2>1, <2>3, <3>2 DEF NativeInv, NativeTypes, NothingTaken, ClicksAreKnown,
            Before, Asks, Native!Return, Native!LandedOn, Native!Unsent, Native!Definite,
            Native!RefusalIsTrue, Native!Refuses, Native!AppliedIsReal
      <3> QED BY <3>1, <3>2 DEF Native!Pages
    <2> QED BY <1>11, <2>2, <2>3 DEF Native!Landed
  <1>12. CASE UNCHANGED Native!vars
    BY <1>12 DEF Native!vars, NativeInv, NativeTypes, NothingTaken, ClicksAreKnown, Carried,
        Before, Asks, Native!RefusalIsTrue, Native!Refuses, Native!AppliedIsReal,
        Native!AskedBeforeAgain, Native!SolutionIsCarried
  <1>13. CASE Native!Ended
    BY <1>13, <1>12 DEF Native!Ended
  <1> QED BY <1>1, <1>2, <1>3, <1>4, <1>5, <1>6, <1>7, <1>8, <1>9, <1>10, <1>11, <1>12, <1>13
          DEF Native!Next, Native!Steps

\* One call of the transport (HHNativeApplicationTransport.apply_outcome): an
\* answer that nothing was sent is true; a refusal by the site is true unless a
\* button was clicked more than once or the answer is an error of the server;
\* and "applied" after a request of the API or a test means that there is an
\* application.  Of "applied" after a form sent in the browser it says nothing.
THEOREM NativeAnswersAreTrue ==
    Native!Spec => [](Native!RefusalIsTrue /\ Native!AppliedIsReal)
  <1>1. NativeInv => Native!RefusalIsTrue /\ Native!AppliedIsReal
    BY DEF NativeInv
  <1> QED BY <1>1, NativeStarts, NativeStep, PTL DEF Native!Spec

\* The call as it follows the site (HHApiSession.apply, _sync_api_cookies): a
\* request of the API or of a test goes out again only when the site asked for
\* something, a button is clicked first only when it asked for a form or a
\* test, and every request and click carries the cookies of the last solved
\* CAPTCHA.  Of what follows a click that raised it says only the latter.
THEOREM NativeRequestsFollowAnswers ==
    Native!Spec => [](Native!AskedBeforeAgain /\ Native!SolutionIsCarried)
  <1>1. NativeInv => Native!AskedBeforeAgain /\ Native!SolutionIsCarried
    BY DEF NativeInv, Carried
  <1> QED BY <1>1, NativeStarts, NativeStep, PTL DEF Native!Spec
------------------------------------------------------------------------------
(* BrowserForm: one attempt of the browser adapter.                        *)

\* Where the adapter is and what it has done by then.
Touched == {"verifying", "letter"}
FormTypes ==
    /\ site \in Sites /\ screen \in Nat /\ formClicks \in Nat
    /\ formPc \in {"open", "looking", "form", "submitting", "done"} \cup Touched
    /\ site.source # "habr" => screen \in DOMAIN site.screens
    /\ DOMAIN entered = DOMAIN site.screens
    /\ \A i \in DOMAIN site.screens : DOMAIN entered[i] = site.screens[i].fields

\* The button is touched once, on the way from submitting.
TouchedOnce ==
    /\ formPc \in {"open", "looking", "form", "submitting"} => formClicks = 0
    /\ formPc \in Touched => formClicks > 0
    /\ formPc = "letter" => took
    /\ formPc # "done" => status = ""

\* The screens behind the adapter hold what was resolved for them, and so does
\* the one that is sent; none of their fields keeps the form from being sent.
FilledIn(i) == \A f \in site.screens[i].fields : entered[i][f] = Form!Filled(f) /\ ~Form!Blocks(f)
ScreensAreFilled ==
    site.source # "habr" =>
        \A i \in DOMAIN site.screens :
            i < screen \/ (i = screen /\ (formPc = "submitting" \/ formClicks > 0)) => FilledIn(i)

FormInv ==
    /\ FormTypes
    /\ TouchedOnce
    /\ ScreensAreFilled
    /\ Form!RetryableMeansUntouched
    /\ Form!AppliedIsReal

\* A field that does not block the form holds a value, and a consent that is
\* required the user's own (resolve_typed_answer).
LEMMA NoBlockMeansAnswered ==
    ASSUME NEW f, ~Form!Blocks(f), f.required
    PROVE  /\ Form!Filled(f).value # ""
           /\ f.kind = "checkbox" =>
                 Form!Filled(f) = [value |-> "yes", by |-> "user"] /\ f.decision = "yes"
  <1>1. CASE f.kind # "checkbox"
    BY <1>1 DEF Form!Blocks
  <1>2. CASE f.kind = "checkbox"
    <2>1. Form!Resolved(f).value = "yes"
      BY <1>2 DEF Form!Blocks
    <2>2. Form!Resolved(f) = [value |-> "yes", by |-> "user"] /\ f.decision = "yes"
      BY <1>2, <2>1 DEF Form!Resolved, Form!Current, Form!None
    <2>3. Form!Resolved(f) # Form!None
      <3>1. Form!None.value = ""
        BY DEF Form!None
      <3> QED BY <2>1, <3>1
    <2>4. Form!Filled(f) = Form!Resolved(f)
      BY <1>2, <2>3 DEF Form!Filled
    <2> QED BY <2>2, <2>4
  <1> QED BY <1>1, <1>2

LEMMA FormStarts == ASSUME Form!BrowserFormAssumption, Form!Init PROVE FormInv
  <1>1. FormTypes
    <2>1. site \in Sites /\ DOMAIN site.screens \subseteq Nat \ {0}
          /\ (site.source # "habr" => 1 \in DOMAIN site.screens)
      BY DEF Form!Init, Form!BrowserFormAssumption
    <2> QED BY <2>1 DEF FormTypes, Form!Init, Touched
  <1>2. TouchedOnce /\ Form!RetryableMeansUntouched /\ Form!AppliedIsReal
    BY DEF Form!Init, TouchedOnce, Touched, Form!RetryableMeansUntouched, Form!AppliedIsReal
  <1>3. ScreensAreFilled
    <2>1. screen = 1 /\ formClicks = 0 /\ formPc = "open" /\ DOMAIN site.screens \subseteq Nat \ {0}
      BY DEF Form!Init, Form!BrowserFormAssumption
    <2>2. \A i \in DOMAIN site.screens : ~(i < 1)
      BY <2>1
    <2> QED BY <2>1, <2>2 DEF ScreensAreFilled
  <1> QED BY <1>1, <1>2, <1>3 DEF FormInv

\* What a step leaves alone, and the screens it does not reach.
LEMMA FormKeeps ==
    ASSUME FormInv, UNCHANGED <<site, letter, screen, entered, formClicks, took>>,
           formPc' \in {"open", "looking", "form", "submitting", "done"} \cup Touched,
           formPc' = "submitting" => site.source = "habr" \/ formPc = "submitting"
    PROVE  FormTypes' /\ ScreensAreFilled'
  <1>1. \A f : Form!Filled(f)' = Form!Filled(f) /\ Form!Blocks(f)' = Form!Blocks(f)
    BY DEF Form!Filled, Form!Blocks, Form!Resolved, Form!Untouched
  <1>2. \A i : FilledIn(i) => FilledIn(i)'
    BY <1>1 DEF FilledIn
  <1> QED BY <1>2 DEF FormInv, FormTypes, ScreensAreFilled

LEMMA FormStep ==
    ASSUME Form!BrowserFormAssumption, FormInv, [Form!Next]_(Form!vars) PROVE FormInv'
  <1> USE DEF Touched
  <1>0. /\ FormTypes /\ TouchedOnce /\ ScreensAreFilled
        /\ Form!RetryableMeansUntouched /\ Form!AppliedIsReal
    BY DEF FormInv
  <1> DEFINE Kept == UNCHANGED <<site, letter, screen, entered, formClicks, took>>
             Says == TouchedOnce /\ Form!RetryableMeansUntouched /\ Form!AppliedIsReal
  <1>1. CASE Form!Open
    <2>1. Kept /\ formPc = "open" /\ (Form!Answer("needs_login") \/ (formPc' \in {"form", "looking"} /\ UNCHANGED status))
      BY <1>1 DEF Form!Open, Form!Still, Form!Form
    <2> QED BY <2>1, <1>0, FormKeeps DEF FormInv, TouchedOnce, Form!RetryableMeansUntouched,
          Form!AppliedIsReal, Form!Answer
  <1>2. CASE Form!Look
    <2>1. /\ Kept /\ formPc = "looking"
          /\ \/ took /\ Form!Answer("already_applied")
             \/ Form!Answer("blocked")
             \/ UNCHANGED status /\ (formPc' = "form" \/ (formPc' = "submitting" /\ site.source = "habr"))
      BY <1>2 DEF Form!Look, Form!Still, Form!Form, Form!AlreadyApplied, Form!Receipt
    <2> QED BY <2>1, <1>0, FormKeeps DEF FormInv, TouchedOnce, Form!RetryableMeansUntouched,
          Form!AppliedIsReal, Form!Answer
  <1>3. CASE Form!Step
    <2>1. /\ formPc = "form" /\ UNCHANGED <<site, letter, formClicks, took>>
      BY <1>3 DEF Form!Step, Form!Still
    <2>2. CASE Form!Answer("blocked") /\ UNCHANGED <<screen, steps, entered>>
      BY <2>1, <2>2, <1>0, FormKeeps DEF FormInv, TouchedOnce, Form!RetryableMeansUntouched,
          Form!AppliedIsReal, Form!Answer
    <2>3. ASSUME entered' = [entered EXCEPT ![screen] = [f \in DOMAIN @ |-> Form!Filled(f)]],
                 IF \E f \in Form!Shown.fields : Form!Blocks(f)
                 THEN Form!Answer("needs_answers") /\ UNCHANGED <<screen, steps>>
                 ELSE \/ /\ Form!Shown.action = "next" /\ steps' = Form!StepsTaken
                         /\ screen' \in {screen} \union ({screen + 1} \intersect DOMAIN site.screens)
                         /\ UNCHANGED <<formPc, status>>
                      \/ Form!Shown.action = "submit" /\ formPc' = "submitting"
                         /\ UNCHANGED <<screen, steps, status>>
                      \/ Form!Shown.action = "none" /\ Form!Answer("blocked")
                         /\ UNCHANGED <<screen, steps>>
          PROVE  FormInv'
      <3>1. formClicks = 0 /\ screen \in Nat
        BY <2>1, <1>0 DEF TouchedOnce, FormTypes
      <3>10. status = ""
        BY <2>1, <1>0 DEF TouchedOnce
      <3>2. \/ formPc' = "form" /\ UNCHANGED status
            \/ formPc' = "submitting" /\ UNCHANGED status
            \/ Form!Answer("needs_answers") \/ Form!Answer("blocked")
        BY <2>1, <2>3
      <3>3. Says'
        BY <2>1, <3>1, <3>10, <3>2 DEF TouchedOnce, Form!RetryableMeansUntouched, Form!AppliedIsReal, Form!Answer
      <3>4. screen' \in Nat /\ (screen' = screen \/ (screen' = screen + 1 /\ screen' \in DOMAIN site.screens))
        <4>1. screen' = screen \/ screen' \in {screen} \union ({screen + 1} \intersect DOMAIN site.screens)
          BY <2>3
        <4> QED BY <4>1, <3>1
      <3>5. /\ DOMAIN entered' = DOMAIN entered
            /\ \A i \in DOMAIN entered : DOMAIN (entered'[i]) = DOMAIN (entered[i])
        BY <2>3
      <3>6. FormTypes'
        BY <2>1, <3>1, <3>2, <3>4, <3>5, <1>0 DEF FormTypes, Form!Answer
      <3>7. \A f : Form!Filled(f)' = Form!Filled(f) /\ Form!Blocks(f)' = Form!Blocks(f)
        BY <2>1 DEF Form!Filled, Form!Blocks, Form!Resolved, Form!Untouched
      <3>8. ASSUME site.source # "habr", NEW i \in DOMAIN site.screens,
                   i < screen' \/ (i = screen' /\ formPc' = "submitting")
            PROVE  FilledIn(i)'
        <4>1. DOMAIN site.screens \subseteq Nat
          BY <1>0 DEF FormTypes, Form!BrowserFormAssumption
        <4>2. CASE i < screen
          <5>1. FilledIn(i)
            BY <3>8, <4>2, <1>0 DEF ScreensAreFilled
          <5>2. i # screen /\ entered'[i] = entered[i]
            <6>1. i \in Nat
              BY <4>1, <3>8
            <6>2. i # screen
              BY <6>1, <4>2, <3>1
            <6>3. i \in DOMAIN entered
              BY <3>8, <1>0 DEF FormTypes
            <6> QED BY <6>2, <6>3, <2>3
          <5> QED BY <5>1, <5>2, <3>7, <2>1 DEF FilledIn
        <4>3. CASE ~(i < screen)
          <5>1. i = screen
            <6>1. i \in Nat
              BY <4>1, <3>8
            <6>2. i < screen' \/ i = screen'
              BY <3>8
            <6>3. CASE screen' = screen
              BY <6>1, <6>2, <6>3, <3>1, <4>3
            <6>4. CASE screen' = screen + 1 /\ screen' \in DOMAIN site.screens
              <7>1. CASE i < screen'
                BY <6>1, <6>4, <7>1, <3>1, <4>3
              <7>2. CASE i = screen' /\ formPc' = "submitting"
                BY <7>2, <2>1, <2>3 DEF Form!Answer
              <7> QED BY <3>8, <7>1, <7>2
            <6> QED BY <6>3, <6>4, <3>4
          <5>2. \A f \in Form!Shown.fields : ~Form!Blocks(f)
            <6>1. CASE screen' = screen
              <7>1. formPc' = "submitting"
                <8>1. ~(i < screen')
                  BY <5>1, <6>1, <3>1
                <8> QED BY <8>1, <3>8
              <7> QED BY <7>1, <2>1, <2>3 DEF Form!Answer
            <6>2. CASE screen' # screen
              BY <2>3, <6>2
            <6> QED BY <6>1, <6>2
          <5>3. \A f \in site.screens[i].fields : entered'[i][f] = Form!Filled(f)
            BY <5>1, <2>3, <1>0 DEF FormTypes
          <5> QED BY <5>1, <5>2, <5>3, <3>7, <2>1 DEF FilledIn, Form!Shown
        <4> QED BY <4>2, <4>3
      <3>9. ScreensAreFilled'
        <4>1. ~(formClicks' > 0)
          BY <2>1, <3>1
        <4> QED BY <3>8, <4>1, <2>1 DEF ScreensAreFilled
      <3> QED BY <3>3, <3>6, <3>9 DEF FormInv
    <2> QED BY <1>3, <2>2, <2>3 DEF Form!Step
  <1>4. CASE Form!Click
    <2>1. /\ formPc = "submitting" /\ UNCHANGED <<site, letter, screen, entered>>
          /\ formClicks' = formClicks + 1 /\ took' \in {took, TRUE}
          /\ \/ formPc' = "verifying" /\ UNCHANGED status
             \/ Form!Answer("submission_unknown")
      BY <1>4 DEF Form!Click, Form!Still, Form!Form
    <2>7. formClicks \in Nat
      BY <1>0 DEF FormTypes
    <2>8. status = ""
      BY <2>1, <1>0 DEF TouchedOnce
    <2>2. formClicks' > 0 /\ formClicks' \in Nat
      BY <2>1, <2>7
    <2>5. Says'
      BY <2>1, <2>2, <2>8 DEF TouchedOnce, Form!RetryableMeansUntouched, Form!AppliedIsReal, Form!Answer
    <2>6. FormTypes'
      BY <2>1, <2>2, <1>0 DEF FormTypes, Form!Answer
    <2>3. \A f : Form!Filled(f)' = Form!Filled(f) /\ Form!Blocks(f)' = Form!Blocks(f)
      BY <2>1 DEF Form!Filled, Form!Blocks, Form!Resolved, Form!Untouched
    <2>4. \A i : FilledIn(i) => FilledIn(i)'
      BY <2>1, <2>3 DEF FilledIn
    <2> QED BY <2>1, <2>5, <2>6, <2>4, <1>0 DEF FormInv, ScreensAreFilled
  <1>5. CASE Form!Verify
    <2>1. /\ Kept /\ formPc = "verifying"
          /\ \/ took /\ formPc' = "letter" /\ UNCHANGED status
             \/ took /\ Form!Answer("applied")
             \/ Form!Answer("submission_unknown")
      BY <1>5 DEF Form!Verify, Form!Still, Form!Form, Form!Success, Form!Receipt
    <2> QED BY <2>1, <1>0, FormKeeps DEF FormInv, TouchedOnce, Form!RetryableMeansUntouched,
          Form!AppliedIsReal, Form!Answer
  <1>6. CASE Form!SaveLetter
    <2>1. Kept /\ formPc = "letter" /\ Form!Answer("applied")
      BY <1>6 DEF Form!SaveLetter, Form!Still, Form!Form
    <2> QED BY <2>1, <1>0, FormKeeps DEF FormInv, TouchedOnce, Form!RetryableMeansUntouched,
          Form!AppliedIsReal, Form!Answer
  <1>7. CASE Form!Raise
    <2>1. Kept /\ formPc \in {"open", "looking", "form", "verifying"} /\ Form!Answer(Form!Raised)
      BY <1>7 DEF Form!Raise, Form!Still, Form!Form
    <2> QED BY <2>1, <1>0, FormKeeps DEF FormInv, TouchedOnce, Form!RetryableMeansUntouched,
          Form!AppliedIsReal, Form!Answer, Form!Raised, FormTypes
  <1>8. CASE UNCHANGED Form!vars
    <2>1. Kept /\ UNCHANGED <<formPc, status>>
      BY <1>8 DEF Form!vars
    <2> QED BY <2>1, <1>0, FormKeeps DEF FormInv, TouchedOnce, Form!RetryableMeansUntouched,
          Form!AppliedIsReal, FormTypes
  <1> QED BY <1>1, <1>2, <1>3, <1>4, <1>5, <1>6, <1>7, <1>8 DEF Form!Next, Form!Progress

\* What the adapter answers is true (BrowserApplyAdapter.apply): applied only
\* where the site has an application, an answer that allows another try only
\* where the final button was not touched, and what it sent was answered.
\* No fairness is needed for that.
THEOREM FormAnswersAreTrue ==
    ASSUME Form!BrowserFormAssumption
    PROVE  Form!Init /\ [][Form!Next]_(Form!vars)
              => [](Form!AppliedIsReal /\ Form!RetryableMeansUntouched /\ Form!RequiredIsAnswered)
  <1>1. ASSUME FormInv PROVE Form!AppliedIsReal /\ Form!RetryableMeansUntouched /\ Form!RequiredIsAnswered
    <2>1. FormTypes /\ ScreensAreFilled /\ Form!AppliedIsReal /\ Form!RetryableMeansUntouched
      BY <1>1 DEF FormInv
    <2>2. ASSUME formClicks > 0, site.source # "habr",
                 NEW i \in DOMAIN site.screens, i <= screen, NEW f \in site.screens[i].fields, f.required
          PROVE  /\ entered[i][f].value # ""
                 /\ f.kind = "checkbox" => /\ entered[i][f] = [value |-> "yes", by |-> "user"]
                                           /\ f.decision = "yes"
      <3>1. i < screen \/ i = screen
        BY <2>1, <2>2 DEF FormTypes, Form!BrowserFormAssumption
      <3>2. FilledIn(i)
        BY <3>1, <2>1, <2>2 DEF ScreensAreFilled
      <3> QED BY <3>2, <2>2, NoBlockMeansAnswered DEF FilledIn
    <2>3. site.source # "habr" => screen \in DOMAIN site.screens /\ screen <= screen
      BY <2>1 DEF FormTypes
    <2> QED BY <2>1, <2>2, <2>3 DEF Form!RequiredIsAnswered, Form!Shown
  <1> QED BY <1>1, FormStarts, FormStep, PTL
------------------------------------------------------------------------------
(* ExternalApply: workers that confirm applications to other sites.        *)

Said == Ext!Spent \cup {"none", "blocked", "needs_login", "needs_answers", "reconciliation_required"}
PlanRow == [job : Jobs, resume : Resumes, bundle : Nat, status : Said \cup {"ready"}, shown : BOOLEAN]
AppRow == [status : {"none", "applied", "not_sent", "submission_unknown"}, transport : BOOLEAN]
Errand == [step : {"idle", "preparing", "requesting", "claiming", "refused", "sending",
                   "recording", "updating", "finishing"},
           stored : Nat, own : Nat, expected : Nat, request : Nat, answer : Said, applied : BOOLEAN]
Submission == [by : {"program"}, expected : Nat, request : Nat] \cup [by : {Ext!ByHand}]

ExtTypes ==
    /\ plans \in Seq(PlanRow)
    /\ applications \in [Jobs \X Ext!Rows -> AppRow]
    /\ bundle \in Nat
    /\ work \in [Workers -> Errand]
    /\ delivered \in [Jobs -> Seq(Submission)]

\* A worker past the preparation has a plan of its own, which nobody was shown;
\* the plan it was told to confirm was shown.
Owns(w) == work[w].step \notin {"idle", "preparing"}
PlansAreOwned ==
    /\ \A w \in Workers : Owns(w) => work[w].own \in DOMAIN plans /\ ~plans[work[w].own].shown
    /\ \A w, u \in Workers : Owns(w) /\ Owns(u) /\ work[w].own = work[u].own => w = u
    /\ \A w \in Workers : work[w].stored # 0 =>
          work[w].stored \in DOMAIN plans /\ plans[work[w].stored].shown
    /\ \A w \in Workers : work[w].step = "preparing" =>
          work[w].stored # 0 /\ work[w].own = work[w].stored
    /\ \A w \in Workers : work[w].step = "idle" => work[w].stored = 0

\* Only a worker that has claimed a vacancy submits to it, the first time.
Sends(w) == work[w].step = "sending"
ClaimedBeforeSent ==
    /\ \A w \in Workers : Sends(w) =>
          plans[work[w].own].status = "submitting" /\ Ext!ByProgram(plans[work[w].own].job) = {}
    /\ \A w, u \in Workers :
          Sends(w) /\ Sends(u) /\ plans[work[w].own].job = plans[work[u].own].job => w = u

\* After a submission the plan it was sent for bars another attempt, whatever
\* its worker and those that confirm other plans write meanwhile.
Bars(o) ==
    /\ plans[o].status \in Ext!Spent
    /\ \A w \in Workers :
          /\ work[w].stored # o
          /\ Owns(w) /\ work[w].own = o =>
                /\ work[w].step \in {"recording", "updating", "finishing"}
                /\ work[w].step # "finishing" => work[w].answer \in Ext!Spent
SubmissionBars ==
    \A j \in Jobs : Ext!ByProgram(j) # {} => \E o \in DOMAIN plans : plans[o].job = j /\ Bars(o)

\* The hash a worker expects is that of its plan, and then of its request.
RequestsAsExpected ==
    \A w \in Workers :
        /\ work[w].step = "requesting" => work[w].expected \in {Ext!NoBundle, plans[work[w].own].bundle}
        /\ work[w].step \in {"claiming", "sending"} => work[w].expected \in {Ext!NoBundle, work[w].request}

\* What a worker is about to record as applied is there.
AppliedIsThere ==
    \A w \in Workers : work[w].step = "recording" /\ work[w].applied =>
        delivered[plans[work[w].own].job] # <<>>

ExtInv ==
    /\ ExtTypes /\ PlansAreOwned /\ ClaimedBeforeSent /\ SubmissionBars
    /\ RequestsAsExpected /\ AppliedIsThere
    /\ Ext!SubmittedOnce /\ Ext!SentAsPreviewed /\ Ext!SentIsNeverOverstated

LEMMA ExtStarts == ASSUME Ext!Init PROVE ExtInv
  <1>1. ExtTypes
    BY DEF Ext!Init, ExtTypes, Ext!NoRow, AppRow, Ext!Idle, Errand, Said, Ext!NoBundle
  <1>2. \A j \in Jobs : Ext!ByProgram(j) = {}
    BY DEF Ext!Init, Ext!ByProgram
  <1>3. \A w \in Workers : work[w].step = "idle" /\ work[w].stored = 0
    BY DEF Ext!Init, Ext!Idle
  <1>4. \A j \in Jobs, r \in Ext!Rows : applications[<<j, r>>].status = "none"
    BY DEF Ext!Init, Ext!NoRow
  <1> QED BY <1>1, <1>2, <1>3, <1>4 DEF ExtInv, PlansAreOwned, Owns, ClaimedBeforeSent, Sends,
      SubmissionBars, RequestsAsExpected, AppliedIsThere, Ext!SubmittedOnce, Ext!SentAsPreviewed,
      Ext!SentIsNeverOverstated

\* What a plan and what a worker holds.
LEMMA PlanTypes ==
    ASSUME ExtTypes, NEW p \in DOMAIN plans
    PROVE  plans[p].job \in Jobs /\ plans[p].resume \in Resumes /\ plans[p].bundle \in Nat
  <1>1. plans[p] \in PlanRow
    BY DEF ExtTypes
  <1> QED BY <1>1 DEF PlanRow
LEMMA ErrandTypes ==
    ASSUME ExtTypes, NEW w \in Workers
    PROVE  /\ work[w].stored \in Nat /\ work[w].own \in Nat /\ work[w].expected \in Nat
           /\ work[w].request \in Nat /\ work[w].answer \in Said /\ work[w].applied \in BOOLEAN
  BY DEF ExtTypes, Errand

\* A plan is added at the end.
LEMMA PlanAdded ==
    ASSUME ExtTypes, NEW j \in Jobs, NEW r \in Resumes, NEW shown \in BOOLEAN, Ext!NewPlan(j, r, shown)
    PROVE  /\ plans' \in Seq(PlanRow) /\ Len(plans') = Len(plans) + 1 /\ Len(plans) \in Nat
           /\ DOMAIN plans = 1..Len(plans) /\ DOMAIN plans' = 1..(Len(plans) + 1)
           /\ \A p \in DOMAIN plans : p \in DOMAIN plans' /\ plans'[p] = plans[p]
           /\ plans'[Len(plans) + 1].job = j /\ plans'[Len(plans) + 1].resume = r
           /\ plans'[Len(plans) + 1].bundle = bundle /\ plans'[Len(plans) + 1].shown = shown
           /\ plans'[Len(plans) + 1].status \in {"ready", "blocked"}
  <1>1. PICK s \in {"ready", "blocked"} :
          plans' = Append(plans, [job |-> j, resume |-> r, bundle |-> bundle, status |-> s, shown |-> shown])
    BY DEF Ext!NewPlan
  <1> DEFINE row == [job |-> j, resume |-> r, bundle |-> bundle, status |-> s, shown |-> shown]
  <1>2. row \in PlanRow
    BY DEF ExtTypes, PlanRow, Said
  <1>3. /\ row.job = j /\ row.resume = r /\ row.bundle = bundle /\ row.shown = shown
        /\ row.status \in {"ready", "blocked"}
    OBVIOUS
  <1>4. plans' = Append(plans, row)
    BY <1>1
  <1> HIDE DEF row
  <1>5. /\ plans' \in Seq(PlanRow) /\ Len(plans') = Len(plans) + 1 /\ Len(plans) \in Nat
        /\ DOMAIN plans = 1..Len(plans) /\ DOMAIN plans' = 1..(Len(plans) + 1)
        /\ \A p \in DOMAIN plans : p \in DOMAIN plans' /\ plans'[p] = plans[p]
        /\ plans'[Len(plans) + 1] = row
    BY <1>2, <1>4 DEF ExtTypes
  <1> QED BY <1>3, <1>5

\* The status of a plan is written.
LEMMA StatusWritten ==
    ASSUME ExtTypes, NEW o \in DOMAIN plans, NEW s \in Said \cup {"ready"}, Ext!SetStatus(o, s)
    PROVE  /\ plans' \in Seq(PlanRow) /\ DOMAIN plans' = DOMAIN plans
           /\ plans'[o].status = s
           /\ \A p \in DOMAIN plans :
                /\ p # o => plans'[p].status = plans[p].status
                /\ plans'[p].job = plans[p].job /\ plans'[p].shown = plans[p].shown
                /\ plans'[p].bundle = plans[p].bundle
  <1> DEFINE row == [plans[o] EXCEPT !.status = s]
  <1>1. plans \in Seq(PlanRow) /\ plans[o] \in PlanRow
    BY DEF ExtTypes
  <1>2. /\ row \in PlanRow /\ row.status = s
        /\ row.job = plans[o].job /\ row.shown = plans[o].shown /\ row.bundle = plans[o].bundle
    BY <1>1 DEF PlanRow
  <1>3. plans' = [plans EXCEPT ![o] = row]
    BY DEF Ext!SetStatus
  <1> HIDE DEF row
  <1>4. /\ plans' \in Seq(PlanRow) /\ DOMAIN plans' = DOMAIN plans
        /\ plans'[o] = row /\ \A p \in DOMAIN plans : p # o => plans'[p] = plans[p]
    BY <1>1, <1>2, <1>3
  <1> QED BY <1>2, <1>4

\* Preview and Edit touch no worker; a candidate's own doings neither.
LEMMA ExtPreviews ==
    ASSUME ExtInv, NEW j \in Jobs, NEW r \in Resumes, Ext!Preview(j, r) PROVE ExtInv'
  <1>1. /\ plans' \in Seq(PlanRow)
        /\ \A p \in DOMAIN plans : p \in DOMAIN plans' /\ plans'[p] = plans[p]
    BY PlanAdded DEF Ext!Preview, ExtInv
  <1>2. UNCHANGED <<applications, bundle, work, delivered>>
    BY DEF Ext!Preview
  <1>3. ExtTypes' /\ Ext!SubmittedOnce' /\ Ext!SentAsPreviewed' /\ Ext!SentIsNeverOverstated'
    BY <1>1, <1>2 DEF ExtInv, ExtTypes, Ext!SubmittedOnce, Ext!SentAsPreviewed,
        Ext!SentIsNeverOverstated, Ext!ByProgram
  <1>4. PlansAreOwned' /\ RequestsAsExpected' /\ AppliedIsThere'
    BY <1>1, <1>2 DEF ExtInv, PlansAreOwned, Owns, RequestsAsExpected, AppliedIsThere
  <1>5. \A w \in Workers : Sends(w) => plans'[work[w].own] = plans[work[w].own]
    BY <1>1 DEF ExtInv, PlansAreOwned, Owns, Sends
  <1>6. \A k : Ext!ByProgram(k)' = Ext!ByProgram(k)
    BY <1>2 DEF Ext!ByProgram
  <1>7. ClaimedBeforeSent'
    BY <1>2, <1>5, <1>6 DEF ExtInv, ClaimedBeforeSent, Sends
  <1>8. SubmissionBars'
    BY <1>1, <1>2, <1>6 DEF ExtInv, SubmissionBars, Bars, Owns
  <1> QED BY <1>3, <1>4, <1>7, <1>8 DEF ExtInv

LEMMA ExtEdits == ASSUME ExtInv, Ext!Edit PROVE ExtInv'
  <1>1. UNCHANGED <<plans, applications, work, delivered>> /\ bundle' \in Nat
    BY DEF Ext!Edit, ExtInv, ExtTypes
  <1>2. ExtTypes' /\ Ext!SubmittedOnce' /\ Ext!SentAsPreviewed' /\ Ext!SentIsNeverOverstated'
    BY <1>1 DEF ExtInv, ExtTypes, Ext!SubmittedOnce, Ext!SentAsPreviewed, Ext!SentIsNeverOverstated, Ext!ByProgram
  <1>3. PlansAreOwned' /\ RequestsAsExpected' /\ AppliedIsThere'
    BY <1>1 DEF ExtInv, PlansAreOwned, Owns, RequestsAsExpected, AppliedIsThere
  <1>4. ClaimedBeforeSent' /\ SubmissionBars'
    BY <1>1 DEF ExtInv, ClaimedBeforeSent, Sends, SubmissionBars, Bars, Owns, Ext!ByProgram
  <1> QED BY <1>2, <1>3, <1>4 DEF ExtInv

LEMMA ExtMarks ==
    ASSUME ExtInv, NEW j \in Jobs, NEW s \in {"applied", "not_sent"}, Ext!Mark(j, s) PROVE ExtInv'
  <1>1. UNCHANGED <<plans, bundle, work, delivered>>
    BY DEF Ext!Mark
  <1>2. [status |-> s, transport |-> FALSE] \in AppRow
    BY DEF AppRow
  <1>3. ExtTypes'
    BY <1>1, <1>2 DEF Ext!Mark, ExtInv, ExtTypes
  <1>4. \A t \in Jobs \X Ext!Rows : applications'[t].transport => applications'[t] = applications[t]
    BY DEF Ext!Mark, ExtInv, ExtTypes
  <1>5. Ext!SentIsNeverOverstated'
    BY <1>1, <1>4 DEF ExtInv, Ext!SentIsNeverOverstated, Ext!Rows
  <1> QED BY <1>1, <1>3, <1>5 DEF ExtInv, PlansAreOwned, Owns, ClaimedBeforeSent, Sends, SubmissionBars,
      Bars, RequestsAsExpected, AppliedIsThere, Ext!SubmittedOnce, Ext!SentAsPreviewed, Ext!ByProgram

LEMMA ExtAppliesByHand ==
    ASSUME ExtInv, NEW j \in Jobs, Ext!ApplyByHand(j) PROVE ExtInv'
  <1>1. UNCHANGED <<plans, applications, bundle, work>> /\ delivered[j] = <<>>
        /\ delivered' = [delivered EXCEPT ![j] = <<[by |-> Ext!ByHand]>>]
    BY DEF Ext!ApplyByHand
  <1>2. [by |-> Ext!ByHand] \in Submission /\ <<[by |-> Ext!ByHand]>> # <<>>
    BY DEF Submission
  <1>3. ExtTypes'
    BY <1>1, <1>2 DEF ExtInv, ExtTypes
  <1>4. \A k \in Jobs : k # j => delivered'[k] = delivered[k]
    BY <1>1 DEF ExtInv, ExtTypes
  <1>5. delivered'[j] # <<>> /\ \A i \in DOMAIN (delivered'[j]) : delivered'[j][i].by # "program"
    <2> DEFINE d == [by |-> Ext!ByHand]
    <2>1. d.by # "program"
      BY DEF Ext!ByHand
    <2>2. delivered'[j] = <<d>>
      BY <1>1 DEF ExtInv, ExtTypes
    <2> HIDE DEF d
    <2> QED BY <2>1, <2>2
  <1>6. Ext!ByProgram(j)' = {} /\ Ext!ByProgram(j) = {}
    BY <1>1, <1>5 DEF Ext!ByProgram
  <1>7. \A k \in Jobs : k # j => Ext!ByProgram(k)' = Ext!ByProgram(k)
    BY <1>4 DEF Ext!ByProgram
  <1>8. Ext!SubmittedOnce' /\ SubmissionBars' /\ Ext!SentAsPreviewed'
    <2>1. Ext!SubmittedOnce'
      BY <1>6, <1>7 DEF ExtInv, Ext!SubmittedOnce
    <2>2. \A o : Bars(o)' = Bars(o)
      BY <1>1 DEF Bars, Owns
    <2>3. SubmissionBars'
      BY <1>1, <1>6, <1>7, <2>2 DEF ExtInv, SubmissionBars
    <2>4. Ext!SentAsPreviewed'
      BY <1>4, <1>6, <1>7 DEF ExtInv, Ext!SentAsPreviewed
    <2> QED BY <2>1, <2>3, <2>4
  <1>12. \A k \in Jobs : delivered[k] # <<>> => delivered'[k] # <<>>
    BY <1>4, <1>5
  <1>13. \A w \in Workers : Owns(w) => plans[work[w].own].job \in Jobs
    BY PlanTypes DEF ExtInv, PlansAreOwned
  <1>14. Ext!SentIsNeverOverstated'
    <2>1. UNCHANGED applications
      BY <1>1
    <2> QED BY <2>1, <1>12 DEF ExtInv, Ext!SentIsNeverOverstated
  <1>15. \A w : work[w].step = "recording" => Owns(w)
    BY DEF Owns
  <1>9. AppliedIsThere'
    BY <1>1, <1>12, <1>13, <1>15 DEF ExtInv, AppliedIsThere
  <1>10. \A w \in Workers : Sends(w) => plans[work[w].own].job \in Jobs
    BY <1>13 DEF Owns, Sends
  <1>11. ClaimedBeforeSent'
    BY <1>1, <1>6, <1>7, <1>10 DEF ExtInv, ClaimedBeforeSent, Sends
  <1> QED BY <1>1, <1>3, <1>8, <1>9, <1>11, <1>14 DEF ExtInv, PlansAreOwned, Owns, RequestsAsExpected

\* A worker's errand changes, those of the others do not.
LEMMA ErrandChanges ==
    ASSUME ExtTypes, NEW w \in Workers, NEW e \in Errand, work' = [work EXCEPT ![w] = e]
    PROVE  /\ work' \in [Workers -> Errand] /\ work'[w] = e
           /\ \A u \in Workers : u # w => work'[u] = work[u]
  BY DEF ExtTypes

\* A worker turns to a plan that was shown.
LEMMA ExtConfirmsPlan ==
    ASSUME ExtInv, NEW w \in Workers, NEW p \in DOMAIN plans, Ext!ConfirmPlan(w, p) PROVE ExtInv'
  <1> DEFINE e == [Ext!Idle EXCEPT !.step = "preparing", !.stored = p, !.own = p, !.expected = plans[p].bundle]
  <1>1. ExtTypes
    BY DEF ExtInv
  <1>2. /\ UNCHANGED <<plans, applications, bundle, delivered>>
        /\ work' = [work EXCEPT ![w] = e] /\ work[w].step = "idle"
        /\ plans[p].shown /\ plans[p].status = "ready"
    BY DEF Ext!ConfirmPlan, Ext!At
  <1>3. p \in Nat /\ p # 0 /\ plans[p].bundle \in Nat
    BY <1>1, PlanTypes DEF ExtTypes
  <1>4. e \in Errand /\ e.step = "preparing" /\ e.stored = p /\ e.own = p
    BY <1>3 DEF Ext!Idle, Errand, Said, Ext!NoBundle
  <1> HIDE DEF e
  <1>5. /\ work' \in [Workers -> Errand] /\ work'[w] = e
        /\ \A u \in Workers : u # w => work'[u] = work[u]
    BY <1>1, <1>2, <1>4, ErrandChanges
  <1>6. ExtTypes'
    BY <1>1, <1>2, <1>5 DEF ExtTypes
  <1>7. \A u \in Workers : Owns(u)' => u # w /\ Owns(u)
    BY <1>4, <1>5 DEF Owns
  <1>8. PlansAreOwned'
    BY <1>2, <1>3, <1>4, <1>5, <1>7 DEF ExtInv, PlansAreOwned
  <1>9. ClaimedBeforeSent'
    BY <1>2, <1>4, <1>5 DEF ExtInv, ClaimedBeforeSent, Sends, Ext!ByProgram
  <1>10. \A o \in DOMAIN plans : Bars(o) => Bars(o)'
    BY <1>2, <1>4, <1>5, <1>7 DEF Bars, Ext!Spent
  <1>11. SubmissionBars'
    BY <1>2, <1>10 DEF ExtInv, SubmissionBars, Ext!ByProgram
  <1>12. RequestsAsExpected' /\ AppliedIsThere'
    BY <1>2, <1>4, <1>5 DEF ExtInv, RequestsAsExpected, AppliedIsThere
  <1>13. Ext!SubmittedOnce' /\ Ext!SentAsPreviewed' /\ Ext!SentIsNeverOverstated'
    BY <1>2 DEF ExtInv, Ext!SubmittedOnce, Ext!SentAsPreviewed, Ext!SentIsNeverOverstated, Ext!ByProgram
  <1> QED BY <1>6, <1>8, <1>9, <1>11, <1>12, <1>13 DEF ExtInv

\* A worker crashes; nothing it has written is undone.
LEMMA ExtCrashes ==
    ASSUME ExtInv, NEW w \in Workers, Ext!Crash(w) PROVE ExtInv'
  <1>1. ExtTypes
    BY DEF ExtInv
  <1>2. UNCHANGED <<plans, applications, bundle, delivered>> /\ work' = [work EXCEPT ![w] = Ext!Idle]
    BY DEF Ext!Crash
  <1>4. Ext!Idle \in Errand /\ Ext!Idle.step = "idle" /\ Ext!Idle.stored = 0
    BY DEF Ext!Idle, Errand, Said, Ext!NoBundle
  <1>5. /\ work' \in [Workers -> Errand] /\ work'[w] = Ext!Idle
        /\ \A u \in Workers : u # w => work'[u] = work[u]
    BY <1>1, <1>2, <1>4, ErrandChanges
  <1>6. ExtTypes'
    BY <1>1, <1>2, <1>5 DEF ExtTypes
  <1>7. \A u \in Workers : Owns(u)' => u # w /\ Owns(u)
    BY <1>4, <1>5 DEF Owns
  <1>8. PlansAreOwned'
    BY <1>2, <1>4, <1>5, <1>7 DEF ExtInv, PlansAreOwned
  <1>9. ClaimedBeforeSent'
    BY <1>2, <1>4, <1>5 DEF ExtInv, ClaimedBeforeSent, Sends, Ext!ByProgram
  <1>3. 0 \notin DOMAIN plans
    BY <1>1 DEF ExtTypes
  <1>10. \A o \in DOMAIN plans : Bars(o) => Bars(o)'
    BY <1>2, <1>3, <1>4, <1>5, <1>7 DEF Bars
  <1>11. SubmissionBars'
    BY <1>2, <1>10 DEF ExtInv, SubmissionBars, Ext!ByProgram
  <1>12. RequestsAsExpected' /\ AppliedIsThere'
    BY <1>2, <1>4, <1>5 DEF ExtInv, RequestsAsExpected, AppliedIsThere
  <1>13. Ext!SubmittedOnce' /\ Ext!SentAsPreviewed' /\ Ext!SentIsNeverOverstated'
    BY <1>2 DEF ExtInv, Ext!SubmittedOnce, Ext!SentAsPreviewed, Ext!SentIsNeverOverstated, Ext!ByProgram
  <1> QED BY <1>6, <1>8, <1>9, <1>11, <1>12, <1>13 DEF ExtInv

\* A worker with a plan of its own goes on; plans keep their jobs and stay as
\* they were shown.
PlansStay ==
    /\ DOMAIN plans' = DOMAIN plans
    /\ \A p \in DOMAIN plans : /\ plans'[p].job = plans[p].job /\ plans'[p].shown = plans[p].shown
                               /\ plans'[p].bundle = plans[p].bundle
LEMMA ErrandGoesOn ==
    ASSUME ExtInv, NEW w \in Workers, Owns(w), NEW e \in Errand, work' = [work EXCEPT ![w] = e],
           e.step \notin {"idle", "preparing"}, e.own = work[w].own, e.stored = work[w].stored, PlansStay
    PROVE  /\ work' \in [Workers -> Errand] /\ work'[w] = e
           /\ \A u \in Workers : u # w => work'[u] = work[u]
           /\ PlansAreOwned'
           /\ \A u \in Workers : Owns(u)' = Owns(u)
           /\ work[w].own \in DOMAIN plans /\ plans[work[w].own].job \in Jobs
           /\ \A u \in Workers : Owns(u) /\ u # w => work[u].own # work[w].own
           /\ \A u \in Workers : work[u].stored # work[w].own
  <1>1. /\ work' \in [Workers -> Errand] /\ work'[w] = e
        /\ \A u \in Workers : u # w => work'[u] = work[u]
    BY ErrandChanges DEF ExtInv
  <1>2. \A u \in Workers : Owns(u)' = Owns(u)
    BY <1>1 DEF Owns
  <1>3. PlansAreOwned'
    <2>1. \A u \in Workers : work'[u].own = work[u].own /\ work'[u].stored = work[u].stored
      BY <1>1
    <2>2. \A u \in Workers : /\ work'[u].step = "preparing" => work[u].step = "preparing"
                            /\ work'[u].step = "idle" => work[u].step = "idle"
      BY <1>1
    <2> QED BY <2>1, <2>2, <1>2 DEF ExtInv, PlansAreOwned, PlansStay
  <1>4. work[w].own \in DOMAIN plans /\ plans[work[w].own].job \in Jobs
    BY PlanTypes DEF ExtInv, PlansAreOwned
  <1>5. \A u \in Workers : Owns(u) /\ u # w => work[u].own # work[w].own
    BY DEF ExtInv, PlansAreOwned
  <1>6. 0 \notin DOMAIN plans
    BY DEF ExtInv, ExtTypes
  <1>7. \A u \in Workers : work[u].stored # work[w].own
    BY <1>4, <1>6 DEF ExtInv, PlansAreOwned
  <1> QED BY <1>1, <1>2, <1>3, <1>4, <1>5, <1>7

\* What bars a vacancy goes on to bar it, if it is not the plan of this worker.
LEMMA BarsStays ==
    ASSUME NEW w \in Workers, NEW o, Bars(o), plans'[o].status = plans[o].status, work'[w].stored # o,
           Owns(w)' => work'[w].own # o,
           \A u \in Workers : u # w => work'[u] = work[u]
    PROVE  Bars(o)'
  BY DEF Bars, Owns

\* What was submitted and what is recorded of it stays as it is.
LEMMA ExtKeepsSubmissions ==
    ASSUME UNCHANGED <<applications, delivered>>,
           Ext!SubmittedOnce, Ext!SentAsPreviewed, Ext!SentIsNeverOverstated
    PROVE  Ext!SubmittedOnce' /\ Ext!SentAsPreviewed' /\ Ext!SentIsNeverOverstated'
  BY DEF Ext!SubmittedOnce, Ext!SentAsPreviewed, Ext!SentIsNeverOverstated, Ext!ByProgram

\* A worker that has not claimed yet goes on, and nothing else happens.
LEMMA ExtGoesOn ==
    ASSUME ExtInv, NEW w \in Workers, work[w].step \in {"requesting", "claiming"},
           NEW e \in Errand, work' = [work EXCEPT ![w] = e],
           e.step \in {"claiming", "refused", "finishing"},
           e.own = work[w].own, e.stored = work[w].stored,
           e.step = "claiming" => e.expected \in {Ext!NoBundle, e.request},
           UNCHANGED <<plans, applications, bundle, delivered>>
    PROVE  ExtInv'
  <1>1. Owns(w) /\ ExtTypes
    BY DEF Owns, ExtInv
  <1>3. PlansStay
    BY DEF PlansStay
  <1>4. /\ work' \in [Workers -> Errand] /\ work'[w] = e /\ PlansAreOwned'
        /\ \A u \in Workers : u # w => work'[u] = work[u]
    BY <1>1, <1>3, ErrandGoesOn
  <1>5. ExtTypes'
    BY <1>1, <1>4 DEF ExtTypes
  <1>6. ClaimedBeforeSent'
    BY <1>4 DEF ExtInv, ClaimedBeforeSent, Sends, Ext!ByProgram
  <1>7. \A o \in DOMAIN plans : Bars(o) => Bars(o)'
    <2>1. \A o : Bars(o) => o # work[w].own /\ o # work[w].stored
      BY <1>1 DEF Bars
    <2> QED BY <2>1, <1>4, BarsStays
  <1>8. SubmissionBars'
    BY <1>7 DEF ExtInv, SubmissionBars, Ext!ByProgram
  <1>9. RequestsAsExpected' /\ AppliedIsThere'
    BY <1>4 DEF ExtInv, RequestsAsExpected, AppliedIsThere
  <1>10. Ext!SubmittedOnce' /\ Ext!SentAsPreviewed' /\ Ext!SentIsNeverOverstated'
    BY ExtKeepsSubmissions DEF ExtInv
  <1> QED BY <1>4, <1>5, <1>6, <1>8, <1>9, <1>10 DEF ExtInv

LEMMA ExtRequests ==
    ASSUME ExtInv, NEW w \in Workers, Ext!Request(w) PROVE ExtInv'
  <1>1. /\ UNCHANGED <<plans, applications, bundle, delivered>>
        /\ work[w].step = "requesting" /\ ExtTypes /\ work[w] \in Errand
    BY DEF Ext!Request, Ext!At, ExtInv, ExtTypes
  <1>2. PICK e \in Errand :
          /\ work' = [work EXCEPT ![w] = e] /\ e.step \in {"claiming", "finishing"}
          /\ e.own = work[w].own /\ e.stored = work[w].stored
          /\ e.step = "claiming" => e.expected \in {Ext!NoBundle, e.request}
    <2>1. CASE Ext!SameRequest(w)
      <3> DEFINE e == [work[w] EXCEPT !.step = "claiming", !.request = bundle]
      <3>1. e \in Errand
        BY <1>1 DEF ExtTypes, Errand
      <3>2. e.expected = work[w].expected /\ e.request = plans[work[w].own].bundle
        BY <1>1, <2>1 DEF Ext!SameRequest, Ext!Own, Errand
      <3>3. work[w].expected \in {Ext!NoBundle, plans[work[w].own].bundle}
        BY <1>1 DEF ExtInv, RequestsAsExpected
      <3>4. work' = [work EXCEPT ![w] = e]
        BY <2>1 DEF Ext!Request
      <3>5. e.step = "claiming" /\ e.own = work[w].own /\ e.stored = work[w].stored
        BY <1>1 DEF Errand
      <3> QED BY <3>1, <3>2, <3>3, <3>4, <3>5
    <2>2. CASE ~Ext!SameRequest(w)
      <3> DEFINE e == [work[w] EXCEPT !.step = "finishing", !.answer = "blocked"]
      <3>1. e \in Errand /\ e.step = "finishing" /\ e.own = work[w].own /\ e.stored = work[w].stored
        BY <1>1 DEF Errand, Said
      <3>2. work' = [work EXCEPT ![w] = e]
        BY <2>2 DEF Ext!Request, Ext!Answer
      <3> QED BY <3>1, <3>2
    <2> QED BY <2>1, <2>2
  <1> QED BY <1>1, <1>2, ExtGoesOn

\* A worker makes a plan of its own: while it prepares, or at once.
LEMMA ExtMakesPlan ==
    ASSUME ExtInv, NEW w \in Workers, NEW j \in Jobs, NEW r \in Resumes, Ext!NewPlan(j, r, FALSE),
           ~Owns(w), NEW e \in Errand, work' = [work EXCEPT ![w] = e],
           e.own = Len(plans) + 1, e.step \in {"requesting", "finishing"}, e.stored = work[w].stored,
           e.step = "requesting" => e.expected \in {Ext!NoBundle, plans'[Len(plans) + 1].bundle},
           UNCHANGED <<applications, bundle, delivered>>
    PROVE  ExtInv'
  <1> DEFINE n == Len(plans) + 1
  <1>1. /\ plans' \in Seq(PlanRow) /\ n \notin DOMAIN plans /\ n \in DOMAIN plans' /\ n # 0
        /\ \A p \in DOMAIN plans : p \in DOMAIN plans' /\ plans'[p] = plans[p]
        /\ ~plans'[n].shown
    <2>1. ExtTypes /\ FALSE \in BOOLEAN
      BY DEF ExtInv
    <2>2. plans'[Len(plans) + 1].shown = FALSE
      BY <2>1, PlanAdded
    <2>3. /\ plans' \in Seq(PlanRow) /\ Len(plans) \in Nat
          /\ DOMAIN plans = 1..Len(plans) /\ DOMAIN plans' = 1..(Len(plans) + 1)
          /\ \A p \in DOMAIN plans : p \in DOMAIN plans' /\ plans'[p] = plans[p]
      BY <2>1, PlanAdded
    <2> QED BY <2>2, <2>3
  <1>2. e.own = n
    OBVIOUS
  <1> HIDE DEF n
  <1>3. /\ work' \in [Workers -> Errand] /\ work'[w] = e
        /\ \A u \in Workers : u # w => work'[u] = work[u]
    BY ErrandChanges DEF ExtInv
  <1>4. ExtTypes'
    BY <1>1, <1>3 DEF ExtInv, ExtTypes
  <1>5. Owns(w)' /\ \A u \in Workers : u # w => Owns(u)' = Owns(u)
    BY <1>3 DEF Owns
  <1>6. PlansAreOwned'
    <2>1. \A u \in Workers : Owns(u)' => work'[u].own \in DOMAIN plans' /\ ~plans'[work'[u].own].shown
      BY <1>1, <1>2, <1>3, <1>5 DEF ExtInv, PlansAreOwned
    <2>2. \A u \in Workers : Owns(u)' /\ work'[u].own = n => u = w
      BY <1>1, <1>3, <1>5 DEF ExtInv, PlansAreOwned
    <2>3. \A u, v \in Workers : Owns(u)' /\ Owns(v)' /\ work'[u].own = work'[v].own => u = v
      BY <2>2, <1>2, <1>3, <1>5 DEF ExtInv, PlansAreOwned
    <2>4. \A u \in Workers : work'[u].stored = work[u].stored
      BY <1>3
    <2>5. \A u \in Workers : work'[u].stored # 0 =>
            work'[u].stored \in DOMAIN plans' /\ plans'[work'[u].stored].shown
      BY <2>4, <1>1 DEF ExtInv, PlansAreOwned
    <2>6. \A u \in Workers : work'[u].step = "preparing" =>
            work'[u].stored # 0 /\ work'[u].own = work'[u].stored
      BY <1>3 DEF ExtInv, PlansAreOwned
    <2>7. \A u \in Workers : work'[u].step = "idle" => work'[u].stored = 0
      BY <1>3 DEF ExtInv, PlansAreOwned
    <2> QED BY <2>1, <2>3, <2>5, <2>6, <2>7 DEF PlansAreOwned
  <1>7. \A u \in Workers : Owns(u) => plans'[work[u].own] = plans[work[u].own]
    BY <1>1 DEF ExtInv, PlansAreOwned
  <1>8. ClaimedBeforeSent'
    BY SMTT(30), <1>3, <1>7 DEF ExtInv, ClaimedBeforeSent, Sends, Owns, Ext!ByProgram
  <1>9. \A o \in DOMAIN plans : Bars(o) => Bars(o)'
    <2>1. \A o \in DOMAIN plans : o # n
      BY <1>1
    <2>2. \A o \in DOMAIN plans : Bars(o) => o # work'[w].stored
      BY <1>3 DEF Bars
    <2> QED BY <2>1, <2>2, <1>1, <1>2, <1>3, BarsStays
  <1>10. SubmissionBars'
    BY <1>1, <1>9 DEF ExtInv, SubmissionBars, Ext!ByProgram
  <1>11. RequestsAsExpected'
    BY <1>2, <1>3, <1>7 DEF ExtInv, RequestsAsExpected, Owns, n
  <1>12. AppliedIsThere'
    BY <1>3, <1>7 DEF ExtInv, AppliedIsThere, Owns
  <1>13. Ext!SubmittedOnce' /\ Ext!SentAsPreviewed' /\ Ext!SentIsNeverOverstated'
    BY ExtKeepsSubmissions DEF ExtInv
  <1> QED BY <1>4, <1>6, <1>8, <1>10, <1>11, <1>12, <1>13 DEF ExtInv

LEMMA ExtConfirms ==
    ASSUME ExtInv, NEW w \in Workers, NEW j \in Jobs, NEW r \in Resumes, Ext!Confirm(w, j, r)
    PROVE  ExtInv'
  <1> DEFINE s == IF plans'[Len(plans) + 1].status = "ready" THEN "requesting" ELSE "finishing"
             e == [Ext!Idle EXCEPT !.own = Len(plans) + 1, !.step = s]
  <1>1. /\ Ext!NewPlan(j, r, FALSE) /\ work[w].step = "idle" /\ UNCHANGED <<applications, bundle, delivered>>
        /\ work' = [work EXCEPT ![w] = e]
    BY DEF Ext!Confirm, Ext!At
  <1>2. Len(plans) + 1 \in Nat
    BY PlanAdded, <1>1 DEF ExtInv
  <1>3. s \in {"requesting", "finishing"}
    OBVIOUS
  <1> HIDE DEF s
  <1>4. /\ e \in Errand /\ e.own = Len(plans) + 1 /\ e.step = s /\ e.stored = 0
        /\ e.expected = Ext!NoBundle
    BY <1>2, <1>3 DEF Ext!Idle, Errand, Said, Ext!NoBundle
  <1> HIDE DEF e
  <1>5. ~Owns(w)
    BY <1>1 DEF Owns
  <1>6. work[w].stored = 0
    BY <1>1 DEF ExtInv, PlansAreOwned
  <1> QED BY <1>1, <1>3, <1>4, <1>5, <1>6, ExtMakesPlan

LEMMA ExtPrepares ==
    ASSUME ExtInv, NEW w \in Workers, Ext!Prepare(w) PROVE ExtInv'
  <1> DEFINE n == Len(plans) + 1
             s == IF plans'[n].status # "ready" \/ Ext!Changed(w) THEN "finishing" ELSE "requesting"
             e == [work[w] EXCEPT !.own = n, !.answer = "blocked", !.step = s]
  <1>1. /\ work[w].step = "preparing" /\ ExtTypes /\ work[w] \in Errand /\ ~Owns(w)
        /\ plans[work[w].own].job \in Jobs /\ plans[work[w].own].resume \in Resumes
    <2>1. /\ work[w].step = "preparing" /\ ExtTypes /\ work[w] \in Errand /\ ~Owns(w)
      BY DEF Ext!Prepare, Ext!At, ExtInv, ExtTypes, Owns
    <2>2. work[w].own \in DOMAIN plans
      BY <2>1 DEF ExtInv, PlansAreOwned
    <2> QED BY <2>1, <2>2, PlanTypes
  <1>2. /\ Ext!NewPlan(plans[work[w].own].job, plans[work[w].own].resume, FALSE)
        /\ UNCHANGED <<applications, bundle, delivered>>
    BY DEF Ext!Prepare, Ext!Own
  <1>3. Len(plans') = n /\ n \in Nat
    <2>1. FALSE \in BOOLEAN
      OBVIOUS
    <2>2. Len(plans') = Len(plans) + 1 /\ Len(plans) \in Nat
      BY <1>1, <1>2, <2>1, PlanAdded
    <2> QED BY <2>2
  <1>4. work' = [work EXCEPT ![w] = e]
    BY <1>3 DEF Ext!Prepare
  <1>5. s \in {"requesting", "finishing"}
    OBVIOUS
  <1>6. s = "requesting" => work[w].expected \in {Ext!NoBundle, plans'[n].bundle}
    BY <1>3 DEF Ext!Changed
  <1> HIDE DEF s
  <1>7. /\ e \in Errand /\ e.own = n /\ e.step = s /\ e.stored = work[w].stored
        /\ e.expected = work[w].expected
    BY <1>1, <1>3, <1>5 DEF Errand, Said
  <1> HIDE DEF e
  <1> QED BY <1>1, <1>2, <1>4, <1>5, <1>6, <1>7, ExtMakesPlan

\* A worker writes the status of its plan, claiming it or closing it.
LEMMA ExtWritesPlan ==
    ASSUME ExtInv, NEW w \in Workers, Owns(w), NEW e \in Errand, work' = [work EXCEPT ![w] = e],
           NEW s \in Said \cup {"ready"}, Ext!SetStatus(work[w].own, s),
           e.step \in {"sending", "finishing"}, e.own = work[w].own, e.stored = work[w].stored,
           e.step = "sending" =>
              /\ s = "submitting" /\ e.expected \in {Ext!NoBundle, e.request}
              /\ Ext!ByProgram(plans[e.own].job) = {}
              /\ \A u \in Workers : Sends(u) => plans[work[u].own].job # plans[e.own].job,
           Bars(work[w].own) => s \in Ext!Spent /\ e.step = "finishing",
           UNCHANGED <<applications, bundle, delivered>>
    PROVE  ExtInv'
  <1>1. ExtTypes /\ work[w].own \in DOMAIN plans
    BY DEF ExtInv, PlansAreOwned
  <1>2. /\ plans' \in Seq(PlanRow) /\ DOMAIN plans' = DOMAIN plans
        /\ plans'[work[w].own].status = s
        /\ \A p \in DOMAIN plans :
             /\ p # work[w].own => plans'[p].status = plans[p].status
             /\ plans'[p].job = plans[p].job /\ plans'[p].shown = plans[p].shown
             /\ plans'[p].bundle = plans[p].bundle
    BY <1>1, StatusWritten
  <1>3. PlansStay
    BY <1>2 DEF PlansStay
  <1>4. /\ work' \in [Workers -> Errand] /\ work'[w] = e /\ PlansAreOwned'
        /\ \A u \in Workers : u # w => work'[u] = work[u]
        /\ \A u \in Workers : Owns(u)' = Owns(u)
        /\ \A u \in Workers : Owns(u) /\ u # w => work[u].own # work[w].own
        /\ \A u \in Workers : work[u].stored # work[w].own
    BY <1>3, ErrandGoesOn
  <1>5. ExtTypes'
    BY <1>1, <1>2, <1>4 DEF ExtTypes
  <1>6. \A u \in Workers : Owns(u) => work[u].own \in DOMAIN plans
    BY DEF ExtInv, PlansAreOwned
  <1>7. ClaimedBeforeSent'
    <2>1. \A u \in Workers : Sends(u)' => (u = w /\ e.step = "sending") \/ (u # w /\ Sends(u) /\ Owns(u))
      BY <1>4 DEF Sends, Owns
    <2>2. \A k : Ext!ByProgram(k)' = Ext!ByProgram(k)
      BY DEF Ext!ByProgram
    <2>3. ASSUME NEW u \in Workers, Sends(u)'
          PROVE  plans'[work'[u].own].status = "submitting" /\ Ext!ByProgram(plans'[work'[u].own].job) = {}
      <3>1. CASE u = w
        BY <3>1, <2>1, <2>2, <2>3, <1>1, <1>2, <1>4
      <3>2. CASE u # w
        BY ZenonT(30), <3>2, <2>1, <2>2, <2>3, <1>2, <1>4, <1>6 DEF ExtInv, ClaimedBeforeSent
      <3> QED BY <3>1, <3>2
    <2>4. ASSUME NEW u \in Workers, NEW v \in Workers, Sends(u)', Sends(v)',
                 plans'[work'[u].own].job = plans'[work'[v].own].job
          PROVE  u = v
      <3>1. work'[u].own = work[u].own /\ work'[v].own = work[v].own
        BY <1>4
      <3>2. plans[work[u].own].job = plans[work[v].own].job
        BY <3>1, <2>1, <2>4, <1>1, <1>2, <1>6
      <3> QED BY <3>2, <2>1, <2>4 DEF ExtInv, ClaimedBeforeSent
    <2> QED BY <2>3, <2>4 DEF ClaimedBeforeSent, Ext!ByProgram
  <1>8. \A o \in DOMAIN plans : Bars(o) => Bars(o)'
    <2>1. ASSUME NEW o \in DOMAIN plans, Bars(o), o # work[w].own PROVE Bars(o)'
      BY <2>1, <1>2, <1>4, BarsStays DEF Bars
    <2>2. ASSUME NEW o, o = work[w].own, Bars(o) PROVE Bars(o)'
      <3>1. plans'[o].status \in Ext!Spent /\ e.step = "finishing"
        BY <2>2, <1>2
      <3>2. \A u \in Workers : work'[u].stored # o
        BY <2>2, <1>4
      <3>3. \A u \in Workers : Owns(u)' /\ work'[u].own = o => work'[u].step = "finishing"
        BY <2>2, <3>1, <1>4
      <3> QED BY <3>1, <3>2, <3>3 DEF Bars
    <2> QED BY <2>1, <2>2
  <1>9. SubmissionBars'
    BY <1>2, <1>8 DEF ExtInv, SubmissionBars, Ext!ByProgram
  <1>10. RequestsAsExpected' /\ AppliedIsThere'
    BY <1>2, <1>4, <1>6 DEF ExtInv, RequestsAsExpected, AppliedIsThere, Owns
  <1>11. Ext!SubmittedOnce' /\ Ext!SentAsPreviewed' /\ Ext!SentIsNeverOverstated'
    BY ExtKeepsSubmissions DEF ExtInv
  <1> QED BY <1>4, <1>5, <1>7, <1>9, <1>10, <1>11 DEF ExtInv

LEMMA ExtClaims ==
    ASSUME ExtInv, NEW w \in Workers, Ext!Claim(w) PROVE ExtInv'
  <1>1. /\ work[w].step = "claiming" /\ Owns(w) /\ ExtTypes /\ work[w] \in Errand
        /\ UNCHANGED <<applications, bundle, delivered>>
    BY DEF Ext!Claim, Ext!At, Owns, ExtInv, ExtTypes
  <1>2. CASE Ext!Previous(w)
    <2> DEFINE e == [work[w] EXCEPT !.step = "refused"]
    <2>1. UNCHANGED plans /\ work' = [work EXCEPT ![w] = e]
      BY <1>2 DEF Ext!Claim, Ext!Goto
    <2>2. e \in Errand /\ e.step = "refused" /\ e.own = work[w].own /\ e.stored = work[w].stored
      BY <1>1 DEF Errand
    <2> HIDE DEF e
    <2> QED BY <1>1, <2>1, <2>2, ExtGoesOn
  <1>3. CASE ~Ext!Previous(w)
    <2> DEFINE e == [work[w] EXCEPT !.step = "sending"]
    <2>1. Ext!SetStatus(work[w].own, "submitting") /\ work' = [work EXCEPT ![w] = e]
      BY <1>3 DEF Ext!Claim, Ext!Goto
    <2>2. /\ e \in Errand /\ e.step = "sending" /\ e.own = work[w].own /\ e.stored = work[w].stored
          /\ e.expected = work[w].expected /\ e.request = work[w].request
      BY <1>1 DEF Errand
    <2> HIDE DEF e
    <2>3. work[w].expected \in {Ext!NoBundle, work[w].request}
      BY <1>1 DEF ExtInv, RequestsAsExpected
    <2>4. work[w].own \in DOMAIN plans /\ plans[work[w].own].job \in Jobs
      BY <1>1, PlanTypes DEF ExtInv, PlansAreOwned
    <2>5. \A o \in DOMAIN plans :
            plans[o].job = plans[work[w].own].job /\ plans[o].status \in Ext!Spent => o = work[w].own
      BY <1>3 DEF Ext!Previous, Ext!Own
    <2>6. \A o : Bars(o) => o # work[w].own /\ plans[o].status \in Ext!Spent
      BY <1>1 DEF Bars
    <2>7. Ext!ByProgram(plans[work[w].own].job) = {}
      BY <2>4, <2>5, <2>6 DEF ExtInv, SubmissionBars
    <2>8. ASSUME NEW u \in Workers, Sends(u) PROVE plans[work[u].own].job # plans[work[w].own].job
      <3>1. Owns(u) /\ u # w
        BY <1>1, <2>8 DEF Sends, Owns
      <3>2. work[u].own \in DOMAIN plans /\ work[u].own # work[w].own
        BY <1>1, <3>1 DEF ExtInv, PlansAreOwned
      <3>3. plans[work[u].own].status \in Ext!Spent
        BY <2>8 DEF ExtInv, ClaimedBeforeSent, Ext!Spent
      <3> QED BY <2>5, <3>2, <3>3
    <2>9. "submitting" \in Said \cup {"ready"}
      BY DEF Said, Ext!Spent
    <2> QED BY <1>1, <2>1, <2>2, <2>3, <2>6, <2>7, <2>8, <2>9, ExtWritesPlan
  <1> QED BY <1>2, <1>3

LEMMA ExtIsRefused ==
    ASSUME ExtInv, NEW w \in Workers, Ext!Refused(w) PROVE ExtInv'
  <1> DEFINE e == [work[w] EXCEPT !.step = "finishing", !.answer = "reconciliation_required"]
  <1>1. /\ work[w].step = "refused" /\ Owns(w) /\ work[w] \in Errand
        /\ UNCHANGED <<applications, bundle, delivered>>
        /\ Ext!SetStatus(work[w].own, "blocked") /\ work' = [work EXCEPT ![w] = e]
    BY DEF Ext!Refused, Ext!At, Owns, ExtInv, ExtTypes, Ext!Answer
  <1>2. e \in Errand /\ e.step = "finishing" /\ e.own = work[w].own /\ e.stored = work[w].stored
    BY <1>1 DEF Errand, Said
  <1> HIDE DEF e
  <1>3. ~Bars(work[w].own)
    BY <1>1 DEF Bars
  <1>4. "blocked" \in Said \cup {"ready"}
    BY DEF Said
  <1> QED BY <1>1, <1>2, <1>3, <1>4, ExtWritesPlan

LEMMA ExtUpdates ==
    ASSUME ExtInv, NEW w \in Workers, Ext!Update(w) PROVE ExtInv'
  <1> DEFINE e == [work[w] EXCEPT !.step = "finishing"]
  <1>1. /\ work[w].step = "updating" /\ Owns(w) /\ work[w] \in Errand
        /\ UNCHANGED <<applications, bundle, delivered>>
        /\ Ext!SetStatus(work[w].own, work[w].answer) /\ work' = [work EXCEPT ![w] = e]
    BY DEF Ext!Update, Ext!At, Owns, ExtInv, ExtTypes, Ext!Goto
  <1>2. /\ e \in Errand /\ e.step = "finishing" /\ e.own = work[w].own /\ e.stored = work[w].stored
        /\ work[w].answer \in Said \cup {"ready"}
    BY <1>1 DEF Errand
  <1> HIDE DEF e
  <1>3. Bars(work[w].own) => work[w].answer \in Ext!Spent
    BY <1>1 DEF Bars
  <1> QED BY <1>1, <1>2, <1>3, ExtWritesPlan

LEMMA ExtRecords ==
    ASSUME ExtInv, NEW w \in Workers, Ext!Record(w) PROVE ExtInv'
  <1> DEFINE e == [work[w] EXCEPT !.step = "updating"]
             t == <<plans[work[w].own].job, plans[work[w].own].resume>>
             row == [status |-> Ext!RowStatus(w), transport |-> TRUE]
  <1>1. /\ work[w].step = "recording" /\ Owns(w) /\ work[w] \in Errand /\ ExtTypes
        /\ UNCHANGED <<plans, bundle, delivered>> /\ work' = [work EXCEPT ![w] = e]
        /\ applications' \in {applications, [applications EXCEPT ![t] = row]}
    BY DEF Ext!Record, Ext!At, Owns, ExtInv, ExtTypes, Ext!Goto, Ext!Own
  <1>2. e \in Errand /\ e.step = "updating" /\ e.own = work[w].own /\ e.stored = work[w].stored /\ e.answer = work[w].answer
    BY <1>1 DEF Errand
  <1>3. PlansStay
    BY <1>1 DEF PlansStay
  <1>4. row \in AppRow /\ (row.status = "applied" => work[w].applied)
    BY DEF Ext!RowStatus, AppRow
  <1> HIDE DEF e, row
  <1>5. /\ work' \in [Workers -> Errand] /\ work'[w] = e /\ PlansAreOwned'
        /\ \A u \in Workers : u # w => work'[u] = work[u]
        /\ \A u \in Workers : Owns(u)' = Owns(u)
        /\ work[w].own \in DOMAIN plans /\ plans[work[w].own].job \in Jobs
    BY <1>1, <1>2, <1>3, ErrandGoesOn
  <1>6. plans[work[w].own].resume \in Resumes
    BY <1>1, <1>5, PlanTypes
  <1>7. t \in Jobs \X Ext!Rows
    BY <1>5, <1>6 DEF Ext!Rows
  <1>8. /\ applications' \in [Jobs \X Ext!Rows -> AppRow]
        /\ \A k \in Jobs \X Ext!Rows : k # t => applications'[k] = applications[k]
        /\ applications'[t] \in {applications[t], row}
    BY <1>1, <1>4, <1>7 DEF ExtTypes
  <1>9. ExtTypes'
    BY <1>1, <1>5, <1>8 DEF ExtTypes
  <1>10. ClaimedBeforeSent'
    BY <1>1, <1>2, <1>5 DEF ExtInv, ClaimedBeforeSent, Sends, Ext!ByProgram
  <1>11. \A o \in DOMAIN plans : Bars(o) => Bars(o)'
    <2>1. \A u \in Workers : work'[u].own = work[u].own /\ work'[u].stored = work[u].stored /\ work'[u].answer = work[u].answer
      BY <1>2, <1>5
    <2>2. \A u \in Workers : work'[u].step = work[u].step \/ (work[u].step = "recording" /\ work'[u].step = "updating")
      BY <1>1, <1>2, <1>5
    <2> QED BY <2>1, <2>2, <1>1, <1>5 DEF Bars
  <1>12. SubmissionBars'
    BY <1>1, <1>11 DEF ExtInv, SubmissionBars, Ext!ByProgram
  <1>13. RequestsAsExpected' /\ AppliedIsThere'
    BY <1>1, <1>2, <1>5 DEF ExtInv, RequestsAsExpected, AppliedIsThere
  <1>14. Ext!SubmittedOnce' /\ Ext!SentAsPreviewed'
    BY <1>1 DEF ExtInv, Ext!SubmittedOnce, Ext!SentAsPreviewed, Ext!ByProgram
  <1>15. Ext!SentIsNeverOverstated'
    <2>1. ASSUME NEW j \in Jobs, NEW r \in Ext!Rows, applications'[<<j, r>>].status = "applied",
                 applications'[<<j, r>>].transport
          PROVE  delivered[j] # <<>>
      <3>1. CASE applications'[<<j, r>>] = applications[<<j, r>>]
        BY <2>1, <3>1 DEF ExtInv, Ext!SentIsNeverOverstated
      <3>2. CASE <<j, r>> = t /\ applications'[t] = row
        <4>1. work[w].applied
          BY <2>1, <3>2, <1>4
        <4>2. delivered[plans[work[w].own].job] # <<>>
          BY <4>1, <1>1 DEF ExtInv, AppliedIsThere
        <4>3. j = plans[work[w].own].job
          BY <3>2
        <4> QED BY <4>2, <4>3
      <3> QED BY <1>8, <3>1, <3>2
    <2>2. UNCHANGED delivered
      BY <1>1
    <2> QED BY <2>1, <2>2 DEF Ext!SentIsNeverOverstated
  <1> QED BY <1>5, <1>9, <1>10, <1>12, <1>13, <1>14, <1>15 DEF ExtInv

\* What an outcome says: a submission is never recorded as harmless, and what
\* is recorded as applied is there.
LEMMA OutcomeTypes ==
    ASSUME NEW o \in Ext!Outcomes
    PROVE  /\ Ext!Recorded(o) \in Said /\ o.applied \in BOOLEAN /\ o.sent \in BOOLEAN
           /\ o.sent => Ext!Recorded(o) \in Ext!Spent
           /\ o.applied => o.sent \/ o.status = "already_applied"
  <1>1. CASE o = Ext!Outcome("applied", TRUE, TRUE)
    BY <1>1 DEF Ext!Outcome, Ext!Recorded, Said, Ext!Spent
  <1>2. CASE o = Ext!Outcome("already_applied", TRUE, FALSE)
    BY <1>2 DEF Ext!Outcome, Ext!Recorded, Said, Ext!Spent
  <1>3. CASE o \in [status : {"blocked", "needs_login", "needs_answers"}, applied : {FALSE}, sent : {FALSE}]
    BY <1>3 DEF Ext!Recorded, Said, Ext!Spent
  <1>4. CASE o \in [status : {"submission_unknown", "error", "raised"}, applied : {FALSE}, sent : BOOLEAN]
    BY <1>4 DEF Ext!Recorded, Said, Ext!Spent
  <1> QED BY <1>1, <1>2, <1>3, <1>4 DEF Ext!Outcomes

LEMMA ExtSends ==
    ASSUME ExtInv, NEW w \in Workers, Ext!Send(w) PROVE ExtInv'
  <1>0. PICK k : k = plans[work[w].own].job
    OBVIOUS
  <1>1. /\ work[w].step = "sending" /\ Owns(w) /\ Sends(w) /\ work[w] \in Errand /\ ExtTypes
        /\ UNCHANGED <<plans, applications, bundle>>
    BY DEF Ext!Send, Ext!At, Owns, Sends, ExtInv, ExtTypes
  <1> DEFINE d == [by |-> "program", expected |-> work[w].expected, request |-> work[w].request]
  <1>2. PICK o \in Ext!Outcomes :
          /\ o.status = "already_applied" => delivered[k] # <<>>
          /\ work' = [work EXCEPT ![w].step = "recording", ![w].answer = Ext!Recorded(o), ![w].applied = o.applied]
          /\ delivered' = IF o.sent THEN [delivered EXCEPT ![k] = Append(@, d)] ELSE delivered
    BY <1>0 DEF Ext!Send, Ext!Own
  <1>3. /\ Ext!Recorded(o) \in Said /\ o.applied \in BOOLEAN
        /\ o.sent => Ext!Recorded(o) \in Ext!Spent
        /\ o.applied => o.sent \/ delivered[k] # <<>>
    BY <1>2, OutcomeTypes
  <1> DEFINE e == [work[w] EXCEPT !.step = "recording", !.answer = Ext!Recorded(o), !.applied = o.applied]
  <1>4. work' = [work EXCEPT ![w] = e]
    BY <1>2
  <1>5. /\ e \in Errand /\ e.step = "recording" /\ e.own = work[w].own /\ e.stored = work[w].stored
        /\ e.answer = Ext!Recorded(o) /\ e.applied = o.applied
    BY <1>1, <1>3 DEF Errand
  <1>6. d \in Submission /\ d.by = "program" /\ d.expected \in {Ext!NoBundle, d.request}
    <2>1. work[w].expected \in {Ext!NoBundle, work[w].request}
      BY <1>1 DEF ExtInv, RequestsAsExpected
    <2> QED BY <1>1, <2>1, ErrandTypes DEF Submission
  <1> HIDE DEF e, d
  <1>7. PlansStay
    BY <1>1 DEF PlansStay
  <1>8. /\ work' \in [Workers -> Errand] /\ work'[w] = e /\ PlansAreOwned'
        /\ \A u \in Workers : u # w => work'[u] = work[u]
        /\ \A u \in Workers : Owns(u)' = Owns(u)
        /\ work[w].own \in DOMAIN plans /\ k \in Jobs
        /\ \A u \in Workers : Owns(u) /\ u # w => work[u].own # work[w].own
        /\ \A u \in Workers : work[u].stored # work[w].own
    BY <1>0, <1>1, <1>4, <1>5, <1>7, ErrandGoesOn
  <1>9. Ext!ByProgram(k) = {} /\ plans[work[w].own].status = "submitting"
    BY <1>0, <1>1 DEF ExtInv, ClaimedBeforeSent
  <1>10. \A j \in Jobs : delivered[j] \in Seq(Submission)
    BY <1>1 DEF ExtTypes
  <1>11. /\ delivered' \in [Jobs -> Seq(Submission)]
         /\ \A j \in Jobs : j # k \/ ~o.sent => delivered'[j] = delivered[j]
         /\ o.sent => delivered'[k] = Append(delivered[k], d)
    BY <1>1, <1>2, <1>6, <1>8 DEF ExtTypes
  <1>12. \A j \in Jobs : delivered[j] # <<>> => delivered'[j] # <<>>
    BY <1>6, <1>8, <1>10, <1>11
  <1>13. o.sent => delivered'[k] # <<>>
    BY <1>6, <1>8, <1>10, <1>11
  <1>14. \A j \in Jobs : j # k \/ ~o.sent => Ext!ByProgram(j)' = Ext!ByProgram(j)
    BY <1>11 DEF Ext!ByProgram
  <1>15. ASSUME o.sent, NEW i \in Ext!ByProgram(k)'
         PROVE  i = Len(delivered[k]) + 1 /\ delivered'[k][i] = d
    <2>1. \A n \in DOMAIN (delivered[k]) : delivered[k][n].by # "program"
      BY <1>9 DEF Ext!ByProgram
    <2>2. i \in DOMAIN (delivered'[k]) /\ delivered'[k][i].by = "program"
      BY <1>15 DEF Ext!ByProgram
    <2> QED BY <1>6, <1>8, <1>10, <1>11, <1>15, <2>1, <2>2
  <1>16. ExtTypes'
    BY <1>1, <1>8, <1>11 DEF ExtTypes
  <1>17. ClaimedBeforeSent'
    <2>1. \A u \in Workers : Sends(u)' => u # w /\ Sends(u) /\ Owns(u)
      BY <1>5, <1>8 DEF Sends, Owns
    <2>2. \A u \in Workers : Sends(u)' => plans[work[u].own].job # k /\ plans[work[u].own].job \in Jobs
      BY <2>1, <1>0, <1>1, PlanTypes DEF ExtInv, ClaimedBeforeSent, PlansAreOwned
    <2>3. \A u \in Workers : Sends(u)' => work'[u].own = work[u].own
      BY <1>5, <1>8
    <2> QED BY <1>1, <1>14, <2>1, <2>2, <2>3 DEF ExtInv, ClaimedBeforeSent
  <1>18. \A p \in DOMAIN plans : Bars(p) => Bars(p)'
    <2>1. \A p : Bars(p) => p # work[w].own /\ p # work[w].stored
      BY <1>1 DEF Bars
    <2> QED BY <2>1, <1>1, <1>5, <1>8, BarsStays
  <1>19. SubmissionBars'
    <2>1. ASSUME NEW j \in Jobs, j # k \/ ~o.sent, Ext!ByProgram(j)' # {}
          PROVE  \E p \in DOMAIN plans' : plans'[p].job = j /\ Bars(p)'
      BY <2>1, <1>1, <1>14, <1>18 DEF ExtInv, SubmissionBars
    <2>2. ASSUME o.sent PROVE \E p \in DOMAIN plans' : plans'[p].job = k /\ Bars(p)'
      <3>1. \A u \in Workers : work'[u].stored # work[w].own
        BY <1>5, <1>8
      <3>2. \A u \in Workers : Owns(u)' /\ work'[u].own = work[w].own => u = w
        BY <1>8
      <3>3. plans'[work[w].own].status \in Ext!Spent
        BY <1>1, <1>9 DEF Ext!Spent
      <3>4. work'[w].step = "recording" /\ work'[w].answer \in Ext!Spent
        BY <2>2, <1>3, <1>5, <1>8
      <3>5. \A p : p = work[w].own => Bars(p)'
        BY <3>1, <3>2, <3>3, <3>4 DEF Bars
      <3> QED BY <3>5, <1>0, <1>1, <1>8
    <2> QED BY <2>1, <2>2 DEF SubmissionBars
  <1>20. RequestsAsExpected'
    BY <1>1, <1>5, <1>8 DEF ExtInv, RequestsAsExpected
  <1>21. AppliedIsThere'
    <2>1. \A u \in Workers : work'[u].own = work[u].own
      BY <1>5, <1>8
    <2>2. ASSUME NEW u \in Workers, work'[u].step = "recording", work'[u].applied
          PROVE  delivered'[plans[work[u].own].job] # <<>>
      <3>1. CASE u = w
        <4>1. o.applied
          BY <2>2, <3>1, <1>5, <1>8
        <4> QED BY <4>1, <3>1, <1>3, <1>8, <1>12, <1>13, <1>0
      <3>2. CASE u # w
        <4>1. work[u].step = "recording" /\ work[u].applied
          BY <2>2, <3>2, <1>8
        <4>2. plans[work[u].own].job \in Jobs
          BY <4>1, <1>1, PlanTypes DEF ExtInv, PlansAreOwned, Owns
        <4> QED BY <4>1, <4>2, <1>12 DEF ExtInv, AppliedIsThere
      <3> QED BY <3>1, <3>2
    <2> QED BY <1>1, <2>1, <2>2 DEF AppliedIsThere
  <1>22. Ext!SubmittedOnce'
    <2>1. ASSUME NEW j \in Jobs, NEW i \in Ext!ByProgram(j)', NEW n \in Ext!ByProgram(j)' PROVE i = n
      <3>1. CASE j = k /\ o.sent
        BY <2>1, <3>1, <1>15
      <3>2. CASE j # k \/ ~o.sent
        BY <2>1, <3>2, <1>14 DEF ExtInv, Ext!SubmittedOnce
      <3> QED BY <3>1, <3>2
    <2> QED BY <2>1 DEF Ext!SubmittedOnce
  <1>23. Ext!SentAsPreviewed'
    <2>1. ASSUME NEW j \in Jobs, NEW i \in Ext!ByProgram(j)'
          PROVE  delivered'[j][i].expected \in {Ext!NoBundle, delivered'[j][i].request}
      <3>1. CASE j = k /\ o.sent
        <4>1. delivered'[j][i] = d
          BY <2>1, <3>1, <1>15
        <4> QED BY <4>1, <1>6
      <3>2. CASE j # k \/ ~o.sent
        <4>1. delivered'[j] = delivered[j] /\ i \in Ext!ByProgram(j)
          BY <2>1, <3>2, <1>11, <1>14
        <4> QED BY <4>1 DEF ExtInv, Ext!SentAsPreviewed
      <3> QED BY <3>1, <3>2
    <2> QED BY <2>1 DEF Ext!SentAsPreviewed
  <1>24. Ext!SentIsNeverOverstated'
    <2>1. UNCHANGED applications
      BY <1>1
    <2> QED BY <2>1, <1>12 DEF ExtInv, Ext!SentIsNeverOverstated
  <1> QED BY <1>8, <1>16, <1>17, <1>19, <1>20, <1>21, <1>22, <1>23, <1>24 DEF ExtInv

\* A worker is done: its answer goes to the plan that was previewed, and its
\* own plan is shown.
LEMMA ExtFinishes ==
    ASSUME ExtInv, NEW w \in Workers, Ext!Finish(w) PROVE ExtInv'
  <1>1. /\ work[w].step = "finishing" /\ Owns(w) /\ ExtTypes /\ work[w] \in Errand
        /\ UNCHANGED <<applications, bundle, delivered>> /\ work' = [work EXCEPT ![w] = Ext!Idle]
    BY DEF Ext!Finish, Ext!At, Owns, ExtInv, ExtTypes
  <1>2. plans' = [p \in DOMAIN plans |->
                   IF p = work[w].stored THEN [plans[p] EXCEPT !.status = work[w].answer]
                   ELSE IF p = work[w].own THEN [plans[p] EXCEPT !.shown = TRUE] ELSE plans[p]]
    BY DEF Ext!Finish
  <1>3. ASSUME NEW p \in DOMAIN plans
        PROVE  /\ plans'[p] \in PlanRow /\ plans'[p].job = plans[p].job /\ plans'[p].bundle = plans[p].bundle
               /\ plans[p].shown => plans'[p].shown
               /\ p # work[w].own => plans'[p].shown = plans[p].shown
               /\ p # work[w].stored => plans'[p].status = plans[p].status
    <2>1. plans[p] \in PlanRow /\ work[w].answer \in Said
      BY <1>1, ErrandTypes DEF ExtTypes
    <2>2. CASE p = work[w].stored
      BY <1>2, <2>1, <2>2 DEF PlanRow
    <2>3. CASE p # work[w].stored /\ p = work[w].own
      BY <1>2, <2>1, <2>3 DEF PlanRow
    <2>4. CASE p # work[w].stored /\ p # work[w].own
      BY <1>2, <2>1, <2>4
    <2> QED BY <2>2, <2>3, <2>4
  <1>4. DOMAIN plans' = DOMAIN plans /\ plans' \in Seq(PlanRow)
    <2>1. DOMAIN plans' = DOMAIN plans
      BY <1>2
    <2>2. Len(plans) \in Nat /\ DOMAIN plans = 1..Len(plans)
      BY <1>1 DEF ExtTypes
    <2>3. plans' = [p \in 1..Len(plans) |-> plans'[p]]
      BY <1>2, <2>2
    <2> QED BY <1>3, <2>1, <2>2, <2>3
  <1>5. Ext!Idle \in Errand /\ Ext!Idle.step = "idle" /\ Ext!Idle.stored = 0
    BY DEF Ext!Idle, Errand, Said, Ext!NoBundle
  <1>6. /\ work' \in [Workers -> Errand] /\ work'[w] = Ext!Idle
        /\ \A u \in Workers : u # w => work'[u] = work[u]
    BY <1>1, <1>5, ErrandChanges
  <1>7. ExtTypes'
    BY <1>1, <1>4, <1>6 DEF ExtTypes
  <1>8. \A u \in Workers : Owns(u)' => u # w /\ Owns(u)
    BY <1>5, <1>6 DEF Owns
  <1>9. \A u \in Workers : Owns(u)' =>
            /\ work[u].own \in DOMAIN plans /\ work[u].own # work[w].own /\ work[u].own # work[w].stored
    <2>1. 0 \notin DOMAIN plans
      BY <1>1 DEF ExtTypes
    <2> QED BY <2>1, <1>1, <1>8 DEF ExtInv, PlansAreOwned
  <1>10. PlansAreOwned'
    BY <1>3, <1>4, <1>5, <1>6, <1>8, <1>9 DEF ExtInv, PlansAreOwned
  <1>11. \A k : Ext!ByProgram(k)' = Ext!ByProgram(k)
    BY <1>1 DEF Ext!ByProgram
  <1>12. \A u \in Workers : Sends(u)' => u # w /\ Sends(u) /\ Owns(u)'
    BY <1>5, <1>6 DEF Sends, Owns
  <1>13. ClaimedBeforeSent'
    <2>1. \A u \in Workers : Sends(u)' =>
            /\ work'[u].own = work[u].own /\ Sends(u)
            /\ plans'[work[u].own].status = plans[work[u].own].status
            /\ plans'[work[u].own].job = plans[work[u].own].job
      BY <1>3, <1>6, <1>9, <1>12
    <2>2. /\ \A u \in Workers : Sends(u) =>
                plans[work[u].own].status = "submitting" /\ Ext!ByProgram(plans[work[u].own].job) = {}
          /\ \A u, v \in Workers :
                Sends(u) /\ Sends(v) /\ plans[work[u].own].job = plans[work[v].own].job => u = v
      BY DEF ExtInv, ClaimedBeforeSent
    <2> QED BY <2>1, <2>2, <1>11 DEF ClaimedBeforeSent
  <1>14. \A o \in DOMAIN plans : Bars(o) => Bars(o)'
    <2>1. \A o \in DOMAIN plans : Bars(o) => plans'[o].status = plans[o].status
      BY <1>3 DEF Bars
    <2>2. 0 \notin DOMAIN plans
      BY <1>1 DEF ExtTypes
    <2>3. ~Owns(w)'
      BY <1>8
    <2> QED BY <2>1, <2>2, <2>3, <1>5, <1>6, BarsStays
  <1>15. SubmissionBars'
    BY <1>1, <1>3, <1>4, <1>11, <1>14 DEF ExtInv, SubmissionBars
  <1>16. \A u \in Workers : Owns(u)' => work'[u] = work[u] /\ plans'[work[u].own].job = plans[work[u].own].job
                                         /\ plans'[work[u].own].bundle = plans[work[u].own].bundle
    BY <1>3, <1>6, <1>8, <1>9
  <1>17. RequestsAsExpected' /\ AppliedIsThere'
    BY <1>1, <1>16 DEF ExtInv, RequestsAsExpected, AppliedIsThere, Owns
  <1>18. Ext!SubmittedOnce' /\ Ext!SentAsPreviewed' /\ Ext!SentIsNeverOverstated'
    BY <1>1, ExtKeepsSubmissions DEF ExtInv
  <1> QED BY <1>7, <1>10, <1>13, <1>15, <1>17, <1>18 DEF ExtInv

LEMMA ExtStep ==
    ASSUME ExtInv, [Ext!Next]_(Ext!vars) PROVE ExtInv'
  <1>1. CASE UNCHANGED Ext!vars
    <2>1. UNCHANGED <<plans, applications, bundle, work, delivered>>
      BY <1>1 DEF Ext!vars
    <2>2. ExtTypes' /\ PlansAreOwned' /\ RequestsAsExpected' /\ AppliedIsThere'
      BY <2>1 DEF ExtInv, ExtTypes, PlansAreOwned, Owns, RequestsAsExpected, AppliedIsThere
    <2>3. ClaimedBeforeSent' /\ SubmissionBars'
      BY <2>1 DEF ExtInv, ClaimedBeforeSent, Sends, SubmissionBars, Bars, Owns, Ext!ByProgram
    <2> QED BY <2>1, <2>2, <2>3, ExtKeepsSubmissions DEF ExtInv
  <1>2. CASE Ext!Next
    <2>1. ASSUME NEW w \in Workers,
                 \/ Ext!Prepare(w) \/ Ext!Request(w) \/ Ext!Claim(w) \/ Ext!Refused(w) \/ Ext!Send(w)
                 \/ Ext!Record(w) \/ Ext!Update(w) \/ Ext!Finish(w) \/ Ext!Crash(w)
          PROVE  ExtInv'
      BY <2>1, ExtPrepares, ExtRequests, ExtClaims, ExtIsRefused, ExtSends, ExtRecords, ExtUpdates,
         ExtFinishes, ExtCrashes
    <2>2. ASSUME NEW j \in Jobs, NEW r \in Resumes, Ext!Preview(j, r) \/ \E w \in Workers : Ext!Confirm(w, j, r)
          PROVE  ExtInv'
      BY <2>2, ExtPreviews, ExtConfirms
    <2>3. ASSUME NEW j \in Jobs,
                 Ext!ApplyByHand(j) \/ \E s \in {"applied", "not_sent"} : Ext!Mark(j, s)
          PROVE  ExtInv'
      BY <2>3, ExtAppliesByHand, ExtMarks
    <2>4. ASSUME NEW w \in Workers, NEW p \in DOMAIN plans, Ext!ConfirmPlan(w, p) PROVE ExtInv'
      BY <2>4, ExtConfirmsPlan
    <2> QED BY <1>2, <2>1, <2>2, <2>3, <2>4, ExtEdits DEF Ext!Next
  <1> QED BY <1>1, <1>2

LEMMA ExtInductive == Ext!Spec => []ExtInv
  BY ExtStarts, ExtStep, PTL DEF Ext!Spec

\* Applications to other sites (claim_external_apply), for any number of
\* workers, resumes and edits of the profile: the program submits to a vacancy
\* once, and from then on something in the database bars another attempt.
THEOREM VacancyIsAppliedToOnce ==
    Ext!Spec => [](Ext!SubmittedOnce /\ Ext!SubmissionIsRemembered)
  <1>1. ExtInv => Ext!SubmittedOnce /\ Ext!SubmissionIsRemembered
    BY DEF ExtInv, SubmissionBars, Bars, Ext!SubmissionIsRemembered
  <1> QED BY <1>1, ExtInductive, PTL

\* What was confirmed is what is sent, and what the ledger shows as sent by
\* the program is there (confirm_apply, application_ledger).
THEOREM SubmissionIsAsPreviewed ==
    Ext!Spec => [](Ext!SentAsPreviewed /\ Ext!SentIsNeverOverstated)
  <1>1. ExtInv => Ext!SentAsPreviewed /\ Ext!SentIsNeverOverstated
    BY DEF ExtInv
  <1> QED BY <1>1, ExtInductive, PTL

-----------------------------------------------------------------------------
(* EmailOutreach.                                                          *)

Stages == {"research", "screened", "approved", "draft", "ready"} \cup Mail!InFlight
Lead == [status : Stages, eligible : BOOLEAN, email : Emails \cup {"none"}]
OnOneLead == {"approve", "ready", "payload", "record", "bounce", "print"}
Command == [cmd : {"idle", "screen", "draft"} \cup OnOneLead, todo : SUBSET Leads]
MailTypes ==
    /\ mailFile \in [Leads -> Lead] /\ copy \in [Procs -> [Leads -> Lead]]
    /\ mailRun \in [Procs -> Command]
    /\ released \subseteq Leads /\ handed \subseteq Leads
    /\ mailed \in [Leads -> Nat] /\ receipt \in [Leads -> {"none", "sent", "queued"}]

\* What a receipt, the file and every copy of it call sent was sent.
Sent(f, l) == f[l].status \in {"sent", "bounced"} => mailed[l] > 0
AllSentIsReal ==
    \A l \in Leads : /\ receipt[l] = "sent" => mailed[l] > 0
                     /\ Sent(mailFile, l) /\ \A u \in Procs : Sent(copy[u], l)

\* What a command makes of one lead of its copy and saves.
Moves(p, l, lead) ==
    \/ lead = copy[p][l]
    \/ /\ mailRun[p].cmd = "screen" /\ lead.status = "screened"
    \/ /\ mailRun[p].cmd = "draft" /\ lead = [copy[p][l] EXCEPT !.status = "draft"]
    \/ /\ copy[p][l].status = "screened" /\ copy[p][l].eligible
       /\ lead.status = "approved" /\ lead.eligible
    \/ /\ copy[p][l].status = "draft" /\ lead = [copy[p][l] EXCEPT !.status = "ready"]
       /\ l \in released'
    \/ /\ copy[p][l].status = "ready" /\ lead = [copy[p][l] EXCEPT !.status = "dispatching"]
       /\ ~Mail!Clash(copy[p], l)
    \/ /\ copy[p][l].status = "dispatching"
       /\ lead = [copy[p][l] EXCEPT !.status = Mail!OutcomeOf(receipt[l])]
    \/ /\ copy[p][l].status = "sent" /\ mailed[l] > 0
       /\ lead = [copy[p][l] EXCEPT !.status = "bounced"]
Saving(p) == Mail!Work(p) \/ Mail!Review(p) \/ Mail!Payload(p) \/ Mail!Record(p) \/ Mail!Bounce(p)

LEMMA MailStarts == Mail!Init => MailTypes /\ AllSentIsReal
  <1> SUFFICES ASSUME Mail!Init PROVE MailTypes /\ AllSentIsReal
    OBVIOUS
  <1>1. Mail!NewLead \in Lead
    BY DEF Mail!NewLead, Lead, Stages
  <1>2. MailTypes
    BY <1>1 DEF Mail!Init, MailTypes, Mail!Idle, Command
  <1>3. \A l \in Leads : receipt[l] = "none" /\ mailFile[l].status = "research"
    BY DEF Mail!Init, Mail!NewLead
  <1>4. \A u \in Procs, l \in Leads : copy[u][l].status = "research"
    BY <1>3 DEF Mail!Init
  <1> QED BY <1>2, <1>3, <1>4 DEF AllSentIsReal, Sent

\* A lead done with leaves the rest of the command's work as it was.
LEMMA WorkDone ==
    ASSUME MailTypes, NEW p \in Procs, NEW l \in Leads, Mail!Done(p, l)
    PROVE  \E c \in Command :
              /\ mailRun' = [mailRun EXCEPT ![p] = c]
              /\ c.cmd = "idle" \/ (c.cmd = mailRun[p].cmd /\ c.todo = mailRun[p].todo \ {l} /\ mailRun[p].todo # {l})
  <1>1. mailRun[p] \in Command
    BY DEF MailTypes
  <1>2. CASE mailRun[p].todo = {l}
    <2>1. Mail!Idle \in Command /\ Mail!Idle.cmd = "idle"
      BY DEF Mail!Idle, Command
    <2>2. mailRun' = [mailRun EXCEPT ![p] = Mail!Idle]
      BY <1>2 DEF Mail!Done
    <2> QED BY <2>1, <2>2
  <1>3. CASE mailRun[p].todo # {l}
    <2> DEFINE c == [cmd |-> mailRun[p].cmd, todo |-> mailRun[p].todo \ {l}]
    <2>1. c \in Command /\ c.cmd = mailRun[p].cmd /\ c.todo = mailRun[p].todo \ {l}
      BY <1>1 DEF Command
    <2>2. mailRun' = [mailRun EXCEPT ![p] = c]
      BY <1>3 DEF Mail!Done
    <2> QED BY <1>3, <2>1, <2>2
  <1> QED BY <1>2, <1>3

\* The five commands that change leads each save one lead.
LEMMA SavesOneLead ==
    ASSUME MailTypes, NEW p \in Procs, Saving(p)
    PROVE  \E l \in mailRun[p].todo, lead \in Lead :
              /\ Mail!Save(p, l, lead) /\ Moves(p, l, lead)
              /\ \/ Mail!Done(p, l)
                 \/ /\ mailRun' = [mailRun EXCEPT ![p].cmd = "print"] /\ mailRun[p].cmd = "payload"
                    /\ copy[p][l].status = "ready" /\ lead.status = "dispatching"
  <1>1. copy[p] \in [Leads -> Lead] /\ mailRun[p].todo \subseteq Leads
    BY DEF MailTypes, Command
  <1>2. \A l \in Leads, s \in Stages : [copy[p][l] EXCEPT !.status = s] \in Lead
    BY <1>1 DEF Lead
  <1>3. CASE Mail!Work(p)
    <2>1. PICK l \in mailRun[p].todo :
            /\ \/ mailRun[p].cmd = "screen" /\ \E e \in Emails, ok \in BOOLEAN :
                    Mail!Save(p, l, [status |-> "screened", eligible |-> ok, email |-> e])
               \/ mailRun[p].cmd = "draft" /\ Mail!Save(p, l, [copy[p][l] EXCEPT !.status = "draft"])
               \/ Mail!Save(p, l, copy[p][l])
            /\ Mail!Done(p, l)
      BY <1>3 DEF Mail!Work
    <2>2. l \in Leads
      BY <1>1
    <2>3. ASSUME mailRun[p].cmd = "screen", NEW e \in Emails, NEW ok \in BOOLEAN,
                 Mail!Save(p, l, [status |-> "screened", eligible |-> ok, email |-> e])
          PROVE  \E lead \in Lead : Mail!Save(p, l, lead) /\ Moves(p, l, lead)
      <3> DEFINE new == [status |-> "screened", eligible |-> ok, email |-> e]
      <3>1. new \in Lead
        BY DEF Lead, Stages
      <3>2. Moves(p, l, new)
        BY <2>3 DEF Moves
      <3> QED BY <2>3, <3>1, <3>2
    <2>4. ASSUME mailRun[p].cmd = "draft", Mail!Save(p, l, [copy[p][l] EXCEPT !.status = "draft"])
          PROVE  \E lead \in Lead : Mail!Save(p, l, lead) /\ Moves(p, l, lead)
      <3>1. [copy[p][l] EXCEPT !.status = "draft"] \in Lead
        BY <1>2, <2>2 DEF Stages
      <3> QED BY <2>4, <3>1 DEF Moves
    <2>5. ASSUME Mail!Save(p, l, copy[p][l])
          PROVE  \E lead \in Lead : Mail!Save(p, l, lead) /\ Moves(p, l, lead)
      BY <1>1, <2>2, <2>5 DEF Moves
    <2> QED BY <2>1, <2>3, <2>4, <2>5
  <1>4. CASE Mail!Review(p)
    <2>1. PICK l \in mailRun[p].todo :
            /\ \/ /\ Mail!MayApprove(copy[p][l])
                  /\ \E e \in Emails : Mail!Save(p, l, [copy[p][l] EXCEPT !.status = "approved", !.email = e])
               \/ /\ copy[p][l].status = "draft"
                  /\ Mail!Save(p, l, [copy[p][l] EXCEPT !.status = "ready"]) /\ l \in released'
            /\ Mail!Done(p, l)
      BY <1>4 DEF Mail!Review
    <2>2. l \in Leads /\ copy[p][l] \in Lead
      BY <1>1
    <2>3. ASSUME Mail!MayApprove(copy[p][l]), NEW e \in Emails,
                 Mail!Save(p, l, [copy[p][l] EXCEPT !.status = "approved", !.email = e])
          PROVE  \E lead \in Lead : Mail!Save(p, l, lead) /\ Moves(p, l, lead)
      <3> DEFINE new == [copy[p][l] EXCEPT !.status = "approved", !.email = e]
      <3>1. new \in Lead /\ new.status = "approved" /\ new.eligible = copy[p][l].eligible
        BY <2>2 DEF Lead, Stages
      <3>2. Moves(p, l, new)
        BY <2>3, <3>1 DEF Moves, Mail!MayApprove
      <3> QED BY <2>3, <3>1, <3>2
    <2>4. ASSUME copy[p][l].status = "draft", l \in released',
                 Mail!Save(p, l, [copy[p][l] EXCEPT !.status = "ready"])
          PROVE  \E lead \in Lead : Mail!Save(p, l, lead) /\ Moves(p, l, lead)
      <3>1. [copy[p][l] EXCEPT !.status = "ready"] \in Lead
        BY <1>2, <2>2 DEF Stages
      <3> QED BY <2>4, <3>1 DEF Moves
    <2> QED BY <2>1, <2>3, <2>4
  <1>5. CASE Mail!Payload(p)
    <2>1. PICK l \in mailRun[p].todo :
            /\ ~Mail!Clash(copy[p], l) /\ copy[p][l].status = "ready"
            /\ Mail!Save(p, l, [copy[p][l] EXCEPT !.status = "dispatching"])
            /\ mailRun' = [mailRun EXCEPT ![p].cmd = "print"]
      BY <1>5 DEF Mail!Payload, Mail!Sendable
    <2>4. copy[p][l] \in Lead
      BY <1>1
    <2>2. /\ [copy[p][l] EXCEPT !.status = "dispatching"] \in Lead
          /\ [copy[p][l] EXCEPT !.status = "dispatching"].status = "dispatching"
      BY <2>4 DEF Stages, Mail!InFlight, Lead
    <2>3. Moves(p, l, [copy[p][l] EXCEPT !.status = "dispatching"])
      BY <2>1 DEF Moves
    <2> QED BY <1>5, <2>1, <2>2, <2>3 DEF Mail!Payload
  <1>6. CASE Mail!Record(p)
    <2>1. PICK l \in mailRun[p].todo :
            /\ copy[p][l].status = "dispatching"
            /\ Mail!Save(p, l, [copy[p][l] EXCEPT !.status = Mail!OutcomeOf(receipt[l])])
            /\ Mail!Done(p, l)
      BY <1>6 DEF Mail!Record
    <2>2. Mail!OutcomeOf(receipt[l]) \in Stages
      BY DEF Mail!OutcomeOf, Stages, Mail!InFlight
    <2>3. [copy[p][l] EXCEPT !.status = Mail!OutcomeOf(receipt[l])] \in Lead
      BY <1>1, <1>2, <2>2
    <2>4. Moves(p, l, [copy[p][l] EXCEPT !.status = Mail!OutcomeOf(receipt[l])])
      BY <2>1 DEF Moves
    <2> QED BY <2>1, <2>3, <2>4
  <1>7. CASE Mail!Bounce(p)
    <2>1. PICK l \in mailRun[p].todo :
            /\ mailed[l] > 0
            /\ {o \in Leads : copy[p][o].email = copy[p][l].email /\ copy[p][o].status = "sent"} = {l}
            /\ Mail!Save(p, l, [copy[p][l] EXCEPT !.status = "bounced"])
            /\ Mail!Done(p, l)
      BY <1>7 DEF Mail!Bounce
    <2>2. copy[p][l].status = "sent"
      BY <2>1
    <2>3. [copy[p][l] EXCEPT !.status = "bounced"] \in Lead
      BY <1>1, <1>2 DEF Stages, Mail!InFlight
    <2>4. Moves(p, l, [copy[p][l] EXCEPT !.status = "bounced"])
      BY <2>1, <2>2 DEF Moves
    <2> QED BY <2>1, <2>3, <2>4
  <1> QED BY <1>3, <1>4, <1>5, <1>6, <1>7 DEF Saving

\* Those commands touch nothing that was mailed or handed over.
LEMMA SavingSpares ==
    ASSUME MailTypes, NEW p \in Procs, Saving(p)
    PROVE  /\ UNCHANGED <<handed, mailed, receipt>>
           /\ released \subseteq released' /\ released' \subseteq Leads
  <1>1. mailRun[p].todo \subseteq Leads
    BY DEF MailTypes, Command
  <1>2. CASE Mail!Review(p)
    BY <1>1, <1>2 DEF Mail!Review, MailTypes
  <1> QED BY <1>2 DEF Saving, Mail!Work, Mail!Payload, Mail!Record, Mail!Bounce, MailTypes

LEMMA SavingTypes ==
    ASSUME MailTypes, AllSentIsReal, NEW p \in Procs, Saving(p)
    PROVE  MailTypes' /\ AllSentIsReal'
  <1>1. PICK l \in mailRun[p].todo, lead \in Lead :
              /\ Mail!Save(p, l, lead) /\ Moves(p, l, lead)
              /\ \/ Mail!Done(p, l)
                 \/ mailRun' = [mailRun EXCEPT ![p].cmd = "print"]
    BY SavesOneLead
  <1>2. l \in Leads /\ copy[p] \in [Leads -> Lead]
    BY DEF MailTypes, Command
  <1>3. /\ UNCHANGED <<handed, mailed, receipt>>
        /\ released \subseteq released' /\ released' \subseteq Leads
    BY SavingSpares
  <1>4. /\ copy' = [copy EXCEPT ![p] = [copy[p] EXCEPT ![l] = lead]]
        /\ mailFile' = [copy[p] EXCEPT ![l] = lead]
    BY <1>1, <1>2 DEF Mail!Save, MailTypes
  <1>5. mailRun' \in [Procs -> Command]
    <2>1. mailRun[p] \in Command /\ Mail!Idle \in Command
      BY DEF MailTypes, Mail!Idle, Command
    <2>2. CASE Mail!Done(p, l)
      BY <2>2, <1>2, WorkDone DEF MailTypes
    <2>3. CASE mailRun' = [mailRun EXCEPT ![p].cmd = "print"]
      <3>1. [mailRun[p] EXCEPT !.cmd = "print"] \in Command
        BY <2>1 DEF Command, OnOneLead
      <3> QED BY <2>3, <3>1 DEF MailTypes
    <2> QED BY <1>1, <2>2, <2>3
  <1>6. MailTypes'
    BY <1>2, <1>3, <1>4, <1>5 DEF MailTypes
  <1>7. Sent(copy[p], l)
    BY <1>2 DEF AllSentIsReal
  <1>8. lead.status \in {"sent", "bounced"} => mailed[l] > 0
    <2>1. receipt[l] = "sent" => mailed[l] > 0
      BY <1>2 DEF AllSentIsReal
    <2>2. copy[p][l] \in Lead
      BY <1>2
    <2> QED BY <1>1, <1>7, <2>1, <2>2 DEF Moves, Sent, Mail!OutcomeOf, Lead
  <1>9. ASSUME NEW k \in Leads
        PROVE  Sent(copy[p], k) => (mailFile'[k].status \in {"sent", "bounced"} => mailed[k] > 0)
    BY <1>2, <1>4, <1>8, <1>9 DEF Sent
  <1>10. ASSUME NEW k \in Leads
         PROVE  /\ (receipt[k] = "sent" => mailed[k] > 0)'
                /\ Sent(mailFile, k)' /\ \A u \in Procs : Sent(copy[u], k)'
    <2>1. \A u \in Procs : Sent(copy[u], k)
      BY DEF AllSentIsReal
    <2>2. \A u \in Procs : copy'[u] = copy[u] \/ copy'[u] = mailFile'
      BY <1>4 DEF MailTypes
    <2>3. mailFile'[k].status \in {"sent", "bounced"} => mailed[k] > 0
      BY <1>9, <2>1
    <2> QED BY <1>3, <2>1, <2>2, <2>3 DEF AllSentIsReal, Sent
  <1> QED BY <1>6, <1>10 DEF AllSentIsReal

LEMMA MailInductive ==
    MailTypes /\ AllSentIsReal /\ [Mail!Next]_Mail!vars => (MailTypes /\ AllSentIsReal)'
  <1> SUFFICES ASSUME MailTypes, AllSentIsReal, [Mail!Next]_Mail!vars PROVE (MailTypes /\ AllSentIsReal)'
    OBVIOUS
  <1>1. ASSUME NEW p \in Procs, Mail!Begin(p) PROVE (MailTypes /\ AllSentIsReal)'
    <2>1. copy' = [copy EXCEPT ![p] = mailFile]
      BY <1>1 DEF Mail!Begin
    <2>2. PICK c \in {"screen", "draft"} \cup OnOneLead, t \in SUBSET Leads :
            mailRun' = [mailRun EXCEPT ![p] = [cmd |-> c, todo |-> t]]
      <3>1. \A c : Mail!Waiting(mailFile, c) \in SUBSET Leads
        BY DEF Mail!Waiting
      <3> QED BY <1>1, <3>1 DEF Mail!Begin, OnOneLead
    <2>3. UNCHANGED <<mailFile, released, handed, mailed, receipt>>
      BY <1>1 DEF Mail!Begin
    <2>4. MailTypes'
      <3>1. [cmd |-> c, todo |-> t] \in Command
        BY DEF Command, OnOneLead
      <3> QED BY <2>1, <2>2, <2>3, <3>1 DEF MailTypes
    <2> QED BY <2>1, <2>3, <2>4 DEF AllSentIsReal, Sent, MailTypes
  <1>2. ASSUME NEW p \in Procs, Saving(p) PROVE (MailTypes /\ AllSentIsReal)'
    BY <1>2, SavingTypes
  <1>3. ASSUME NEW p \in Procs, Mail!Nothing(p) \/ Mail!Stop(p) \/ Mail!HandOver(p)
        PROVE  (MailTypes /\ AllSentIsReal)'
    <2>1. Mail!Idle \in Command
      BY DEF Mail!Idle, Command
    <2>2. /\ mailRun' = [mailRun EXCEPT ![p] = Mail!Idle]
          /\ UNCHANGED <<mailFile, copy, released, mailed, receipt>>
      BY <1>3 DEF Mail!Nothing, Mail!Stop, Mail!HandOver
    <2>3. handed' \subseteq Leads
      <3>1. mailRun[p].todo \subseteq Leads
        BY DEF MailTypes, Command
      <3> QED BY <1>3, <3>1 DEF Mail!Nothing, Mail!Stop, Mail!HandOver, MailTypes
    <2>4. MailTypes'
      BY <2>1, <2>2, <2>3 DEF MailTypes
    <2> QED BY <2>2, <2>4 DEF AllSentIsReal, Sent
  <1>5. ASSUME NEW l \in Leads, Mail!Send(l) PROVE (MailTypes /\ AllSentIsReal)'
    <2>1. UNCHANGED <<mailFile, copy, mailRun, released>> /\ handed' \subseteq Leads
      BY <1>5 DEF Mail!Send, MailTypes
    <2>2. \/ mailed' = [mailed EXCEPT ![l] = @ + 1]
             /\ \E r \in {"sent", "queued", "none"} : receipt' = [receipt EXCEPT ![l] = r]
          \/ receipt' = [receipt EXCEPT ![l] = "queued"] /\ UNCHANGED mailed
      BY <1>5 DEF Mail!Send
    <2>3. \A k \in Leads : mailed'[k] \in Nat /\ mailed'[k] >= mailed[k]
      BY <2>2 DEF MailTypes
    <2>4. \A k \in Leads : receipt'[k] = "sent" => receipt[k] = "sent" \/ mailed'[k] > 0
      BY <2>2 DEF MailTypes
    <2>5. MailTypes'
      BY <2>1, <2>2 DEF MailTypes
    <2>6. \A k \in Leads : mailed[k] > 0 => mailed'[k] > 0
      BY <2>3 DEF MailTypes
    <2> QED BY <2>1, <2>4, <2>5, <2>6 DEF AllSentIsReal, Sent
  <1>6. CASE UNCHANGED Mail!vars
    BY <1>6 DEF Mail!vars, MailTypes, AllSentIsReal, Sent
  <1> QED BY <1>1, <1>2, <1>3, <1>5, <1>6 DEF Mail!Next, Saving

\* What the campaign file calls sent has been sent by the connector, whichever
\* commands run side by side on old copies of it (record_receipt).
THEOREM SentMailIsReal == Mail!Spec => []Mail!SentIsReal
  <1>1. MailTypes /\ AllSentIsReal => Mail!SentIsReal
    BY DEF AllSentIsReal, Sent, Mail!SentIsReal
  <1> QED BY MailStarts, MailInductive, <1>1, PTL DEF Mail!Spec

\* With one command at a time its copy is the file, it works on what it found
\* there, and a lead whose mail is printed or out stays in flight.
Alone == \A u, v \in Procs : u = v
AtWork(u) ==
    /\ mailRun[u].cmd # "idle" => copy[u] = mailFile
    /\ mailRun[u].cmd = "screen" => \A l \in mailRun[u].todo : mailFile[l].status = "research"
    /\ mailRun[u].cmd = "draft" => \A l \in mailRun[u].todo : mailFile[l].status = "approved"
    /\ mailRun[u].cmd \in OnOneLead => \E l \in Leads : mailRun[u].todo = {l}
    /\ mailRun[u].cmd = "print" => \A l \in mailRun[u].todo :
          mailFile[l].status = "dispatching" /\ l \notin handed /\ mailed[l] = 0
LeadIsInOrder(l) ==
    /\ l \in handed \/ mailed[l] > 0 => mailFile[l].status \in Mail!InFlight
    /\ mailed[l] <= 1 /\ (l \in handed => mailed[l] = 0)
    /\ mailFile[l].status \in {"approved", "draft", "ready"} \cup Mail!InFlight => mailFile[l].eligible
    /\ mailFile[l].status \in {"ready"} \cup Mail!InFlight => l \in released
OneInFlight ==
    \A l, o \in Leads : /\ mailFile[l].status \in Mail!InFlight
                        /\ mailFile[o].status \in Mail!InFlight
                        /\ mailFile[l].email = mailFile[o].email
                        => l = o
MailInv ==
    /\ MailTypes /\ AllSentIsReal /\ OneInFlight
    /\ \A u \in Procs : AtWork(u)
    /\ \A l \in Leads : LeadIsInOrder(l)

LEMMA MailSaving ==
    ASSUME Alone, MailInv, NEW p \in Procs, Saving(p) PROVE MailInv'
  <1>1. PICK l \in mailRun[p].todo, lead \in Lead :
              /\ Mail!Save(p, l, lead) /\ Moves(p, l, lead)
              /\ \/ Mail!Done(p, l)
                 \/ /\ mailRun' = [mailRun EXCEPT ![p].cmd = "print"] /\ mailRun[p].cmd = "payload"
                    /\ copy[p][l].status = "ready" /\ lead.status = "dispatching"
    BY SavesOneLead DEF MailInv
  <1>2. l \in Leads /\ mailFile \in [Leads -> Lead] /\ copy[p] \in [Leads -> Lead]
        /\ mailRun[p] \in Command /\ mailed \in [Leads -> Nat] /\ MailTypes /\ AtWork(p)
    BY DEF MailInv, MailTypes, Command
  <1>3. /\ UNCHANGED <<handed, mailed, receipt>> /\ MailTypes' /\ AllSentIsReal'
        /\ released \subseteq released'
    BY SavingSpares, SavingTypes DEF MailInv
  <1>4. copy[p] = mailFile
    <2>1. mailRun[p].cmd # "idle"
      BY DEF Saving, Mail!Work, Mail!Review, Mail!Payload, Mail!Record, Mail!Bounce
    <2> QED BY <1>2, <2>1 DEF AtWork
  <1>5. mailFile' = [mailFile EXCEPT ![l] = lead] /\ copy'[p] = mailFile'
    BY <1>1, <1>2, <1>4 DEF Mail!Save, MailTypes
  <1>6. mailFile[l] \in Lead /\ LeadIsInOrder(l)
    BY <1>2 DEF MailInv
  <1>7. /\ l \in handed \/ mailed[l] > 0 => lead.status \in Mail!InFlight
        /\ lead.status \in {"approved", "draft", "ready"} \cup Mail!InFlight => lead.eligible
        /\ lead.status \in {"ready"} \cup Mail!InFlight => l \in released'
        /\ lead.status \in Mail!InFlight =>
              /\ lead.email = mailFile[l].email
              /\ mailFile[l].status \in Mail!InFlight \/ ~Mail!Clash(mailFile, l)
    <2>1. \/ lead = mailFile[l]
          \/ /\ mailFile[l].status = "research" /\ lead.status = "screened"
          \/ /\ mailFile[l].status = "approved" /\ lead = [mailFile[l] EXCEPT !.status = "draft"]
          \/ /\ mailFile[l].status = "screened" /\ lead.status = "approved" /\ lead.eligible
          \/ /\ mailFile[l].status = "draft" /\ lead = [mailFile[l] EXCEPT !.status = "ready"]
             /\ l \in released'
          \/ /\ mailFile[l].status = "ready" /\ lead = [mailFile[l] EXCEPT !.status = "dispatching"]
             /\ ~Mail!Clash(mailFile, l)
          \/ /\ mailFile[l].status = "dispatching"
             /\ lead = [mailFile[l] EXCEPT !.status = Mail!OutcomeOf(receipt[l])]
          \/ /\ mailFile[l].status = "sent" /\ mailed[l] > 0
             /\ lead = [mailFile[l] EXCEPT !.status = "bounced"]
      BY <1>1, <1>2, <1>4 DEF Moves, AtWork
    <2>2. CASE lead = mailFile[l]
      BY <1>3, <1>6, <2>2 DEF LeadIsInOrder
    <2>3. CASE mailFile[l].status = "research" /\ lead.status = "screened"
      BY <1>6, <2>3 DEF LeadIsInOrder, Mail!InFlight
    <2>4. CASE mailFile[l].status = "approved" /\ lead = [mailFile[l] EXCEPT !.status = "draft"]
      BY <1>6, <2>4 DEF LeadIsInOrder, Mail!InFlight, Lead
    <2>5. CASE mailFile[l].status = "screened" /\ lead.status = "approved" /\ lead.eligible
      BY <1>6, <2>5 DEF LeadIsInOrder, Mail!InFlight
    <2>6. CASE /\ mailFile[l].status = "draft" /\ lead = [mailFile[l] EXCEPT !.status = "ready"]
               /\ l \in released'
      BY <1>6, <2>6 DEF LeadIsInOrder, Mail!InFlight, Lead
    <2>7. CASE /\ mailFile[l].status = "ready" /\ lead = [mailFile[l] EXCEPT !.status = "dispatching"]
               /\ ~Mail!Clash(mailFile, l)
      BY <1>3, <1>6, <2>7 DEF LeadIsInOrder, Mail!InFlight, Lead
    <2>8. CASE /\ mailFile[l].status = "dispatching"
               /\ lead = [mailFile[l] EXCEPT !.status = Mail!OutcomeOf(receipt[l])]
      BY <1>3, <1>6, <2>8 DEF LeadIsInOrder, Mail!InFlight, Mail!OutcomeOf, Lead
    <2>9. CASE /\ mailFile[l].status = "sent" /\ mailed[l] > 0
               /\ lead = [mailFile[l] EXCEPT !.status = "bounced"]
      BY <1>3, <1>6, <2>9 DEF LeadIsInOrder, Mail!InFlight, Lead
    <2> QED BY <2>1, <2>2, <2>3, <2>4, <2>5, <2>6, <2>7, <2>8, <2>9
  <1>8. ASSUME NEW k \in Leads PROVE LeadIsInOrder(k)'
    <2>1. LeadIsInOrder(k)
      BY DEF MailInv
    <2> QED BY <1>2, <1>3, <1>5, <1>7, <2>1 DEF LeadIsInOrder
  <1>9. OneInFlight'
    <2>1. ASSUME NEW k \in Leads, NEW o \in Leads, k # o,
                 mailFile'[k].status \in Mail!InFlight, mailFile'[o].status \in Mail!InFlight,
                 mailFile'[k].email = mailFile'[o].email
          PROVE  FALSE
      <3>1. ASSUME NEW m \in Leads, m # l, mailFile[m].status \in Mail!InFlight,
                   lead.status \in Mail!InFlight, lead.email = mailFile[m].email
            PROVE  FALSE
        BY <1>2, <1>7, <3>1 DEF MailInv, OneInFlight, Mail!Clash
      <3> QED BY <1>2, <1>5, <2>1, <3>1 DEF MailInv, OneInFlight
    <2> QED BY <2>1 DEF OneInFlight
  <1>10. AtWork(p)'
    <2>1. CASE Mail!Done(p, l)
      <3>1. PICK c \in Command :
              /\ mailRun' = [mailRun EXCEPT ![p] = c]
              /\ c.cmd = "idle" \/ (c.cmd = mailRun[p].cmd /\ c.todo = mailRun[p].todo \ {l} /\ mailRun[p].todo # {l})
        BY <1>2, <2>1, WorkDone
      <3>2. mailRun'[p] = c
        BY <1>2, <3>1 DEF MailTypes
      <3>3. \A k \in Leads \ {l} : mailFile'[k] = mailFile[k]
        BY <1>2, <1>5
      <3>4. mailRun[p].todo \subseteq Leads
        BY <1>2 DEF Command
      <3>5. c.cmd # "idle" => c.cmd \notin OnOneLead
        BY <1>1, <1>2, <3>1 DEF AtWork
      <3> QED BY <1>2, <1>3, <1>5, <3>1, <3>2, <3>3, <3>4, <3>5 DEF AtWork, OnOneLead
    <2>2. CASE /\ mailRun' = [mailRun EXCEPT ![p].cmd = "print"] /\ mailRun[p].cmd = "payload"
               /\ copy[p][l].status = "ready" /\ lead.status = "dispatching"
      <3>1. mailRun'[p].cmd = "print" /\ mailRun'[p].todo = mailRun[p].todo
        BY <1>2, <2>2 DEF MailTypes, Command
      <3>2. mailRun[p].todo = {l}
        BY <1>1, <1>2, <2>2 DEF AtWork, OnOneLead
      <3>3. l \notin handed /\ mailed[l] = 0
        <4>1. ~(mailed[l] > 0) /\ l \notin handed
          BY <1>4, <1>6, <2>2 DEF LeadIsInOrder, Mail!InFlight
        <4> QED BY <1>2, <4>1
      <3>4. mailFile'[l] = lead
        BY <1>2, <1>5
      <3> QED BY <1>2, <1>3, <1>5, <2>2, <3>1, <3>2, <3>3, <3>4 DEF AtWork
    <2> QED BY <1>1, <2>1, <2>2
  <1>11. \A u \in Procs : u = p
    BY DEF Alone
  <1> QED BY <1>3, <1>8, <1>9, <1>10, <1>11 DEF MailInv

LEMMA MailAlone == Alone /\ MailInv /\ [Mail!Next]_Mail!vars => MailInv'
  <1> SUFFICES ASSUME Alone, MailInv, [Mail!Next]_Mail!vars PROVE MailInv'
    OBVIOUS
  <1>0. MailTypes' /\ AllSentIsReal' /\ MailTypes
    BY MailInductive DEF MailInv
  <1>1. ASSUME NEW p \in Procs, Mail!Begin(p) PROVE MailInv'
    <2>1. /\ copy' = [copy EXCEPT ![p] = mailFile]
          /\ UNCHANGED <<mailFile, released, handed, mailed, receipt>>
      BY <1>1 DEF Mail!Begin
    <2>2. AtWork(p)'
      <3>1. copy'[p] = mailFile'
        BY <2>1, <1>0 DEF MailTypes
      <3>2. ASSUME NEW c \in {"screen", "draft"},
                   mailRun' = [mailRun EXCEPT ![p] = [cmd |-> c, todo |-> Mail!Waiting(mailFile, c)]]
            PROVE  AtWork(p)'
        <4>1. mailRun'[p].cmd = c /\ mailRun'[p].todo = Mail!Waiting(mailFile, c)
          BY <1>0, <3>2 DEF MailTypes
        <4> QED BY <2>1, <3>1, <4>1 DEF AtWork, OnOneLead, Mail!Waiting
      <3>3. ASSUME NEW c \in OnOneLead \ {"print"}, NEW l \in Leads,
                   mailRun' = [mailRun EXCEPT ![p] = [cmd |-> c, todo |-> {l}]]
            PROVE  AtWork(p)'
        <4>1. mailRun'[p].cmd = c /\ mailRun'[p].todo = {l}
          BY <1>0, <3>3 DEF MailTypes
        <4> QED BY <2>1, <3>1, <4>1 DEF AtWork, OnOneLead
      <3> QED BY <1>1, <3>2, <3>3 DEF Mail!Begin, OnOneLead
    <2>3. \A u \in Procs : u = p
      BY DEF Alone
    <2>4. \A l \in Leads : LeadIsInOrder(l)'
      BY <2>1 DEF MailInv, LeadIsInOrder
    <2>5. OneInFlight'
      BY <2>1 DEF MailInv, OneInFlight
    <2> QED BY <1>0, <2>2, <2>3, <2>4, <2>5 DEF MailInv
  <1>2. ASSUME NEW p \in Procs, Saving(p) PROVE MailInv'
    BY <1>2, MailSaving
  <1>3. ASSUME NEW p \in Procs, Mail!Nothing(p) \/ Mail!Stop(p) \/ Mail!HandOver(p) PROVE MailInv'
    <2>1. /\ mailRun' = [mailRun EXCEPT ![p] = Mail!Idle]
          /\ UNCHANGED <<mailFile, copy, released, mailed, receipt>>
      BY <1>3 DEF Mail!Nothing, Mail!Stop, Mail!HandOver
    <2>2. mailRun'[p].cmd = "idle"
      BY <1>0, <2>1 DEF MailTypes, Mail!Idle
    <2>3. \A u \in Procs : AtWork(u)'
      BY <2>2 DEF Alone, AtWork, OnOneLead
    <2>4. handed' = handed \/ (mailRun[p].cmd = "print" /\ handed' = handed \cup mailRun[p].todo)
      BY <1>3 DEF Mail!Nothing, Mail!Stop, Mail!HandOver
    <2>5. \A l \in handed' \ handed : mailFile[l].status = "dispatching" /\ mailed[l] = 0
      <3>1. AtWork(p)
        BY DEF MailInv
      <3> QED BY <2>4, <3>1 DEF AtWork
    <2>6. ASSUME NEW l \in Leads PROVE LeadIsInOrder(l)'
      <3>1. LeadIsInOrder(l)
        BY DEF MailInv
      <3> QED BY <2>1, <2>5, <3>1 DEF LeadIsInOrder, Mail!InFlight
    <2>7. OneInFlight'
      BY <2>1 DEF MailInv, OneInFlight
    <2> QED BY <1>0, <2>3, <2>6, <2>7 DEF MailInv
  <1>4. ASSUME NEW l \in Leads, Mail!Send(l) PROVE MailInv'
    <2>1. /\ UNCHANGED <<mailFile, copy, mailRun, released>> /\ l \in handed /\ handed' = handed \ {l}
          /\ mailed' = [mailed EXCEPT ![l] = @ + 1] \/ UNCHANGED mailed
      BY <1>4 DEF Mail!Send
    <2>2. LeadIsInOrder(l) /\ mailed \in [Leads -> Nat]
      BY <1>0 DEF MailInv, MailTypes
    <2>3. \A k \in Leads \ {l} : mailed'[k] = mailed[k] /\ (k \in handed' <=> k \in handed)
      BY <2>1, <2>2
    <2>4. mailed'[l] \in {0, 1} /\ l \notin handed'
      BY <2>1, <2>2 DEF LeadIsInOrder
    <2>5. ASSUME NEW k \in Leads PROVE LeadIsInOrder(k)'
      <3>1. LeadIsInOrder(k)
        BY DEF MailInv
      <3>2. CASE k = l
        BY <2>1, <2>2, <2>4, <3>2 DEF LeadIsInOrder
      <3>3. CASE k # l
        BY <2>1, <2>3, <3>1, <3>3 DEF LeadIsInOrder
      <3> QED BY <3>2, <3>3
    <2>6. ASSUME NEW u \in Procs PROVE AtWork(u)'
      <3>1. AtWork(u) /\ mailRun[u].todo \subseteq Leads
        BY <1>0 DEF MailInv, MailTypes, Command
      <3>2. mailRun[u].cmd = "print" => \A k \in mailRun[u].todo : k # l
        BY <2>1, <3>1 DEF AtWork
      <3> QED BY <2>1, <2>3, <3>1, <3>2 DEF AtWork
    <2>7. OneInFlight'
      BY <2>1 DEF MailInv, OneInFlight
    <2> QED BY <1>0, <2>5, <2>6, <2>7 DEF MailInv
  <1>5. CASE UNCHANGED Mail!vars
    <2>1. \A u \in Procs : AtWork(u)'
      BY <1>5 DEF Mail!vars, MailInv, AtWork
    <2>2. \A l \in Leads : LeadIsInOrder(l)'
      BY <1>5 DEF Mail!vars, MailInv, LeadIsInOrder
    <2>3. OneInFlight'
      BY <1>5 DEF Mail!vars, MailInv, OneInFlight
    <2> QED BY <1>0, <2>1, <2>2, <2>3 DEF MailInv
  <1> QED BY <1>1, <1>2, <1>3, <1>4, <1>5 DEF Mail!Next, Saving

\* With one command at a time, killed wherever it may be, one mail goes to
\* each address as the file spells it, and only for a lead the operator
\* approved and whose draft the operator released (payload, apply_review).
THEOREM MailsGoOutOnce ==
    ASSUME Alone
    PROVE  Mail!Spec => [](Mail!OneMailPerSpelling /\ Mail!MailedWasReleased)
  <1>1. Mail!Init => MailInv
    <2> SUFFICES ASSUME Mail!Init PROVE MailInv
      OBVIOUS
    <2>1. MailTypes /\ AllSentIsReal
      BY MailStarts
    <2>2. /\ \A l \in Leads : mailFile[l].status = "research" /\ mailed[l] = 0 /\ l \notin handed
          /\ \A u \in Procs : mailRun[u].cmd = "idle"
      BY DEF Mail!Init, Mail!NewLead, Mail!Idle
    <2>3. \A l \in Leads : LeadIsInOrder(l)
      BY <2>2 DEF LeadIsInOrder, Mail!InFlight
    <2>4. \A u \in Procs : AtWork(u)
      BY <2>2 DEF AtWork, OnOneLead
    <2>5. OneInFlight
      BY <2>2 DEF OneInFlight, Mail!InFlight
    <2> QED BY <2>1, <2>3, <2>4, <2>5 DEF MailInv
  <1>2. MailInv => Mail!OneMailPerSpelling /\ Mail!MailedWasReleased
    <2> SUFFICES ASSUME MailInv PROVE Mail!OneMailPerSpelling /\ Mail!MailedWasReleased
      OBVIOUS
    <2>1. \A l \in Leads : LeadIsInOrder(l) /\ mailed[l] \in Nat
      BY DEF MailInv, MailTypes
    <2>2. \A l \in Leads : Mail!Sendings(l) <= 1
      BY <2>1 DEF LeadIsInOrder, Mail!Sendings
    <2>3. \A l \in Leads : Mail!Sendings(l) = 1 => mailFile[l].status \in Mail!InFlight
      BY <2>1 DEF LeadIsInOrder, Mail!Sendings
    <2>4. Mail!OneMailPerSpelling
      <3>1. \A e : \A l, o \in Mail!To(e) : l \in Leads /\ o \in Leads /\ mailFile[l].email = mailFile[o].email
        BY DEF Mail!To
      <3>2. \A e : \A l, o \in Mail!To(e) :
              Mail!Sendings(l) <= 1 /\ (Mail!Sendings(l) = 1 /\ Mail!Sendings(o) = 1 => l = o)
        BY <2>2, <2>3, <3>1 DEF MailInv, OneInFlight
      <3> QED BY <3>2 DEF Mail!OneMailPerSpelling, Mail!MailedOnce
    <2>5. Mail!MailedWasReleased
      BY <2>1 DEF LeadIsInOrder, Mail!MailedWasReleased
    <2> QED BY <2>4, <2>5
  <1>3. MailInv /\ [Mail!Next]_Mail!vars => MailInv'
    BY MailAlone
  <1> QED BY <1>1, <1>2, <1>3, PTL DEF Mail!Spec

-----------------------------------------------------------------------------
(* Replies.                                                                *)

Ways == {"auto", "chatik", "plan"}
Texts == {"draft", "answer", "edited", "none"}
Message == [by : {"me"}, ch : Ways, for : Nat, text : Texts, approval : Nat]
             \cup [by : {"employer"}, text : Reply!Questions]
OutRow == [ch : Ways, for : Nat, text : Texts, approval : Nat,
           status : {"planned", "scheduled", "pending_approval", "sent", "error", "cancelled"}]
ApprovalRow == [kind : {"question", "reply"}, key : Texts \cup Reply!Questions, text : Texts,
                status : {"pending", "approved", "rejected", "modified", "flagged"}]
Sending == [pc : {"send", "sent", "error"}, ch : Ways, for : Nat, text : Texts, row : Nat]
Holding == [pc : {"hold"}, for : Nat, text : Texts, approval : Nat]
Activity == {Reply!Idle} \cup Sending \cup Holding
ReplyTypes ==
    /\ thread \in Seq(Message) /\ outbox \in Seq(OutRow) /\ approvals \in Seq(ApprovalRow)
    /\ replyRun \in [Procs -> Activity] /\ keys \subseteq Nat

InChat(c, ch, f) ==
    \E i \in DOMAIN c : c[i].by = "me" /\ c[i].ch = ch /\ c[i].for = f
\* A text may go out under this approval.
Cleared(g, r, a, t) == a = 0 \/ a \in r \/ <<a, t>> \in g

ChatIsInOrder ==
    /\ \A i \in DOMAIN thread : thread[i].by = "me" =>
          /\ thread[i].ch = "plan" => Cleared(granted, refused, thread[i].approval, thread[i].text)
          /\ thread[i].ch = "chatik" => thread[i].for \in keys
    /\ \A f \in keys : InChat(thread, "chatik", f)
    /\ Reply!ChatikOnce
RowIsInOrder(k) ==
    /\ outbox[k].status = "sent" => InChat(thread, outbox[k].ch, outbox[k].for)
    /\ outbox[k].ch = "plan" /\ outbox[k].status # "pending_approval" =>
          Cleared(granted, refused, outbox[k].approval, outbox[k].text)
SendingIsInOrder(p) ==
    replyRun[p] \in Sending =>
      /\ replyRun[p].row = 0 => replyRun[p].ch # "plan"
      /\ replyRun[p].row # 0 =>
            /\ replyRun[p].row \in DOMAIN outbox /\ replyRun[p].ch = "plan"
            /\ outbox[replyRun[p].row].ch = "plan" /\ outbox[replyRun[p].row].for = replyRun[p].for
            /\ Cleared(granted, refused, outbox[replyRun[p].row].approval, replyRun[p].text)
      /\ replyRun[p].pc = "sent" => InChat(thread, replyRun[p].ch, replyRun[p].for)
ReplyInv ==
    /\ ReplyTypes /\ ChatIsInOrder
    /\ \A k \in DOMAIN outbox : RowIsInOrder(k)
    /\ \A p \in Procs : SendingIsInOrder(p)

LEMMA ReplyStarts == Reply!Init => ReplyInv
  <1> SUFFICES ASSUME Reply!Init PROVE ReplyInv
    OBVIOUS
  <1>1. ReplyTypes
    BY DEF Reply!Init, ReplyTypes, Activity
  <1>2. \A p \in Procs : replyRun[p].pc = "idle"
    BY DEF Reply!Init, Reply!Idle
  <1>3. DOMAIN thread = {} /\ DOMAIN outbox = {} /\ keys = {}
    BY DEF Reply!Init
  <1> QED BY <1>1, <1>2, <1>3
       DEF ReplyInv, ChatIsInOrder, SendingIsInOrder, Sending, Reply!ChatikOnce, Reply!Ours

\* Rows and commands that a step leaves alone stay in order: the chat only
\* grows, as do the approvals given and refused, and a row keeps its message.
Grows ==
    /\ \A i \in DOMAIN thread : i \in DOMAIN thread' /\ thread'[i] = thread[i]
    /\ granted \subseteq granted' /\ refused \subseteq refused'
    /\ \A k \in DOMAIN outbox : /\ k \in DOMAIN outbox' /\ outbox'[k].ch = outbox[k].ch
                                /\ outbox'[k].for = outbox[k].for
                                /\ outbox'[k].approval = outbox[k].approval
LEMMA ReplyRests ==
    ASSUME ReplyInv, Grows
    PROVE  /\ \A ch, f : InChat(thread, ch, f) => InChat(thread', ch, f)
           /\ \A a, t : Cleared(granted, refused, a, t) => Cleared(granted', refused', a, t)
           /\ \A k \in DOMAIN outbox : outbox'[k] = outbox[k] => RowIsInOrder(k)'
           /\ \A p \in Procs : replyRun'[p] = replyRun[p] => SendingIsInOrder(p)'
           /\ UNCHANGED <<thread, keys>> => ChatIsInOrder'
  <1>1. \A ch, f : InChat(thread, ch, f) => InChat(thread', ch, f)
    BY DEF InChat, Grows
  <1>2. \A a, t : Cleared(granted, refused, a, t) => Cleared(granted', refused', a, t)
    BY DEF Cleared, Grows
  <1>3. ASSUME NEW k \in DOMAIN outbox, outbox'[k] = outbox[k] PROVE RowIsInOrder(k)'
    BY <1>1, <1>2, <1>3 DEF ReplyInv, RowIsInOrder
  <1>4. ASSUME NEW p \in Procs, replyRun'[p] = replyRun[p] PROVE SendingIsInOrder(p)'
    BY <1>1, <1>2, <1>4 DEF ReplyInv, SendingIsInOrder, Grows
  <1>5. ASSUME UNCHANGED <<thread, keys>> PROVE ChatIsInOrder'
    BY <1>1, <1>2, <1>5 DEF ReplyInv, ChatIsInOrder, Reply!ChatikOnce, Reply!Ours
  <1> QED BY <1>1, <1>2, <1>3, <1>4, <1>5

\* A step of a command that leaves chat, outbox and decisions alone.
LEMMA CommandMoves ==
    ASSUME ReplyInv, NEW p \in Procs, UNCHANGED <<thread, keys, outbox, granted, refused>>,
           approvals' \in Seq(ApprovalRow), NEW r \in Activity, replyRun' = [replyRun EXCEPT ![p] = r],
           r \in Sending => SendingIsInOrder(p)'
    PROVE  ReplyInv'
  <1>1. Grows
    BY DEF Grows
  <1>2. ReplyTypes'
    BY DEF ReplyInv, ReplyTypes
  <1>3. replyRun'[p] = r /\ \A u \in Procs \ {p} : replyRun'[u] = replyRun[u]
    BY DEF ReplyInv, ReplyTypes
  <1>4. \A u \in Procs : SendingIsInOrder(u)'
    BY <1>1, <1>3, ReplyRests DEF SendingIsInOrder
  <1>5. \A k \in DOMAIN outbox' : RowIsInOrder(k)'
    BY <1>1, ReplyRests
  <1> QED BY <1>1, <1>2, <1>4, <1>5, ReplyRests DEF ReplyInv

LEMMA ReplyDrafts ==
    ASSUME ReplyInv, NEW p \in Procs, Reply!PlanAuto(p) \/ Reply!PlanChatik(p) PROVE ReplyInv'
  <1>1. PICK ch \in {"auto", "chatik"} : Reply!Draft(p, ch) /\ thread # <<>>
    BY DEF Reply!PlanAuto, Reply!PlanChatik, Reply!AutoWants, Reply!ChatikWants, Reply!Awaiting
  <1>2. UNCHANGED <<thread, seen, keys, outbox, granted, refused, closed>>
    BY DEF Reply!PlanAuto, Reply!PlanChatik
  <1>3. Len(thread) \in Nat /\ Reply!Last \in Message
    BY <1>1 DEF ReplyInv, ReplyTypes, Reply!Last, Reply!Fingerprint
  <1>4. CASE UNCHANGED approvals /\ \E t \in {"answer", "draft"} : replyRun' =
               [replyRun EXCEPT ![p] = [pc |-> "send", ch |-> ch, for |-> Len(thread), text |-> t, row |-> 0]]
    <2>1. PICK t \in {"answer", "draft"} : replyRun' =
               [replyRun EXCEPT ![p] = [pc |-> "send", ch |-> ch, for |-> Len(thread), text |-> t, row |-> 0]]
      BY <1>4
    <2> DEFINE r == [pc |-> "send", ch |-> ch, for |-> Len(thread), text |-> t, row |-> 0]
    <2>2. r \in Sending /\ r \in Activity
      BY <1>3 DEF Sending, Activity, Ways, Texts
    <2>3. replyRun'[p] = r
      BY <2>1 DEF ReplyInv, ReplyTypes
    <2>4. SendingIsInOrder(p)'
      BY <2>3 DEF SendingIsInOrder
    <2>5. approvals' \in Seq(ApprovalRow)
      BY <1>4 DEF ReplyInv, ReplyTypes
    <2> QED BY <1>2, <2>1, <2>2, <2>4, <2>5, CommandMoves
  <1>5. CASE Reply!QueueQuestion(Reply!Last.text) /\ UNCHANGED replyRun
    <2>1. Reply!Last.text \in Texts \cup Reply!Questions
      BY <1>3 DEF Message
    <2> DEFINE a == [kind |-> "question", key |-> Reply!Last.text, status |-> "pending", text |-> "none"]
    <2>5. a \in ApprovalRow
      BY <2>1 DEF ApprovalRow, Texts
    <2>6. approvals' = approvals \/ approvals' = Append(approvals, a)
      BY <1>5 DEF Reply!QueueQuestion
    <2> HIDE DEF a
    <2>2. approvals' \in Seq(ApprovalRow)
      BY SMTT(30), <2>5, <2>6 DEF ReplyInv, ReplyTypes
    <2>3. Grows
      BY <1>2 DEF Grows
    <2>4. ReplyTypes'
      BY <1>2, <1>5, <2>2 DEF ReplyInv, ReplyTypes
    <2> QED BY <1>2, <1>5, <2>3, <2>4, ReplyRests DEF ReplyInv
  <1> QED BY <1>1, <1>4, <1>5 DEF Reply!Draft, Reply!Fingerprint

\* A row more, in order, and the command idle or as it was.
LEMMA RowAdded ==
    ASSUME ReplyInv, NEW p \in Procs, UNCHANGED <<thread, keys, approvals, granted, refused>>,
           NEW row \in OutRow, outbox' = Append(outbox, row),
           replyRun' = replyRun \/ replyRun' = [replyRun EXCEPT ![p] = Reply!Idle],
           row.status = "sent" => InChat(thread, row.ch, row.for),
           row.ch = "plan" /\ row.status # "pending_approval" => Cleared(granted, refused, row.approval, row.text)
    PROVE  ReplyInv'
  <1>1. /\ outbox' \in Seq(OutRow) /\ \A k \in DOMAIN outbox : k \in DOMAIN outbox' /\ outbox'[k] = outbox[k]
        /\ \A k \in DOMAIN outbox' : k \in DOMAIN outbox \/ outbox'[k] = row
    BY DEF ReplyInv, ReplyTypes
  <1>2. Grows
    BY <1>1 DEF Grows
  <1>3. ReplyTypes'
    BY <1>1 DEF ReplyInv, ReplyTypes, Activity
  <1>4. \A u \in Procs : replyRun'[u] = replyRun[u] \/ replyRun'[u] = Reply!Idle
    BY DEF ReplyInv, ReplyTypes
  <1>5. Reply!Idle \notin Sending
    BY DEF Reply!Idle, Sending
  <1>6. \A u \in Procs : SendingIsInOrder(u)'
    BY <1>2, <1>4, <1>5, ReplyRests DEF SendingIsInOrder
  <1>7. ASSUME NEW k \in DOMAIN outbox' PROVE RowIsInOrder(k)'
    <2>1. CASE k \in DOMAIN outbox
      BY <1>1, <1>2, <2>1, ReplyRests
    <2>2. CASE outbox'[k] = row
      BY <1>2, <2>2, ReplyRests DEF RowIsInOrder
    <2> QED BY <1>1, <2>1, <2>2
  <1> QED BY <1>2, <1>3, <1>6, <1>7, ReplyRests DEF ReplyInv

LEMMA ReplyPlans ==
    ASSUME ReplyInv, NEW p \in Procs, Reply!PlanReply(p) PROVE ReplyInv'
  <1>1. PICK t \in {"draft", "none"} :
         IF Reply!Escalates(t)
         THEN /\ approvals' = Append(approvals, [kind |-> "reply", key |-> Reply!Last.text, status |-> "pending", text |-> t])
              /\ replyRun' = [replyRun EXCEPT ![p] =
                   [pc |-> "hold", for |-> Len(thread), text |-> t, approval |-> Len(approvals')]]
              /\ UNCHANGED outbox
         ELSE /\ \E s \in {"planned", "scheduled"} : outbox' = Append(outbox, Reply!PlanRow(Len(thread), s, t, 0))
              /\ UNCHANGED <<approvals, replyRun>>
    BY DEF Reply!PlanReply, Reply!Fingerprint
  <1>2. UNCHANGED <<thread, seen, keys, granted, refused, closed>> /\ thread # <<>>
    BY DEF Reply!PlanReply, Reply!Awaiting
  <1>3. Len(thread) \in Nat /\ Reply!Last \in Message
    BY <1>2 DEF ReplyInv, ReplyTypes, Reply!Last, Reply!Fingerprint
  <1>4. CASE Reply!Escalates(t)
    <2> DEFINE a == [kind |-> "reply", key |-> Reply!Last.text, status |-> "pending", text |-> t]
    <2>1. a \in ApprovalRow
      BY <1>3 DEF ApprovalRow, Message, Texts
    <2>4. approvals' = Append(approvals, a)
      BY <1>1, <1>4
    <2> HIDE DEF a
    <2>2. approvals' \in Seq(ApprovalRow) /\ Len(approvals') \in Nat
      BY <2>1, <2>4 DEF ReplyInv, ReplyTypes
    <2> DEFINE r == [pc |-> "hold", for |-> Len(thread), text |-> t, approval |-> Len(approvals')]
    <2>3. r \in Activity /\ r \notin Sending
      BY <1>3, <2>2 DEF Activity, Holding, Sending, Texts
    <2> QED BY <1>1, <1>2, <1>4, <2>2, <2>3, CommandMoves
  <1>5. CASE ~Reply!Escalates(t)
    <2>1. PICK s \in {"planned", "scheduled"} : outbox' = Append(outbox, Reply!PlanRow(Len(thread), s, t, 0))
      BY <1>1, <1>5
    <2> DEFINE row == Reply!PlanRow(Len(thread), s, t, 0)
    <2>2. row \in OutRow /\ row.approval = 0 /\ row.status # "sent"
      BY <1>3 DEF OutRow, Reply!PlanRow, Ways, Texts
    <2> QED BY <1>1, <1>2, <1>5, <2>1, <2>2, RowAdded DEF Cleared
  <1> QED BY <1>4, <1>5

LEMMA ReplyHolds ==
    ASSUME ReplyInv, NEW p \in Procs, Reply!HoldPlan(p) PROVE ReplyInv'
  <1>1. replyRun[p] \in Holding
    <2>1. replyRun[p] \in Activity /\ replyRun[p].pc = "hold"
      BY DEF Reply!HoldPlan, ReplyInv, ReplyTypes
    <2> QED BY <2>1 DEF Activity, Reply!Idle, Sending
  <1> DEFINE row == Reply!PlanRow(replyRun[p].for, "pending_approval", replyRun[p].text, replyRun[p].approval)
  <1>2. row \in OutRow /\ row.status = "pending_approval"
    BY <1>1 DEF OutRow, Reply!PlanRow, Ways, Holding
  <1>3. /\ outbox' = Append(outbox, row) /\ replyRun' = [replyRun EXCEPT ![p] = Reply!Idle]
        /\ UNCHANGED <<thread, keys, approvals, granted, refused>>
    BY DEF Reply!HoldPlan
  <1> QED BY <1>2, <1>3, RowAdded

LEMMA ReplyConfirms ==
    ASSUME ReplyInv, NEW p \in Procs, Reply!Confirm(p) PROVE ReplyInv'
  <1>1. PICK i \in DOMAIN outbox :
         /\ Reply!Confirmable(outbox[i])
         /\ replyRun' = [replyRun EXCEPT ![p] = [pc |-> "send", ch |-> "plan", for |-> outbox[i].for,
                                                 text |-> outbox[i].text, row |-> i]]
    BY DEF Reply!Confirm
  <1>2. UNCHANGED <<thread, keys, outbox, approvals, granted, refused>>
    BY DEF Reply!Confirm
  <1>3. outbox[i] \in OutRow /\ i \in Nat /\ RowIsInOrder(i)
    BY DEF ReplyInv, ReplyTypes
  <1> DEFINE r == [pc |-> "send", ch |-> "plan", for |-> outbox[i].for, text |-> outbox[i].text, row |-> i]
  <1>4. r \in Sending /\ r \in Activity
    BY <1>3 DEF Sending, Activity, OutRow, Ways
  <1>5. replyRun'[p] = r
    BY <1>1 DEF ReplyInv, ReplyTypes
  <1>6. i # 0 /\ outbox[i].ch = "plan" /\ Cleared(granted, refused, outbox[i].approval, outbox[i].text)
    BY <1>1, <1>3 DEF Reply!Confirmable, RowIsInOrder, ReplyInv, ReplyTypes
  <1>7. SendingIsInOrder(p)'
    BY <1>2, <1>5, <1>6 DEF SendingIsInOrder, Cleared
  <1>8. approvals' \in Seq(ApprovalRow)
    BY <1>2 DEF ReplyInv, ReplyTypes
  <1> QED BY <1>1, <1>2, <1>4, <1>7, <1>8, CommandMoves

LEMMA ReplySends ==
    ASSUME ReplyInv, NEW p \in Procs, Reply!Send(p) PROVE ReplyInv'
  <1> DEFINE r == replyRun[p]
  <1>1. r \in Sending /\ r.pc = "send" /\ SendingIsInOrder(p)
    BY DEF Reply!Send, ReplyInv, ReplyTypes, Activity, Reply!Idle, Holding
  <1>2. UNCHANGED <<outbox, approvals, granted, refused, closed>>
    BY DEF Reply!Send
  <1>3. approvals' \in Seq(ApprovalRow)
    BY <1>2 DEF ReplyInv, ReplyTypes
  <1>4. PICK pc \in {"sent", "error"} :
          /\ replyRun' = [replyRun EXCEPT ![p].pc = pc]
          /\ \/ UNCHANGED <<thread, keys>> /\ (pc = "sent" => Reply!Key(r) # {} /\ Reply!Key(r) \subseteq keys)
             \/ /\ ~(Reply!Key(r) # {} /\ Reply!Key(r) \subseteq keys)
                /\ thread' = Append(thread, Reply!Mine(r.ch, r.for, r.text, Reply!Approval(r)))
                /\ keys' = keys \cup Reply!Key(r)
    BY DEF Reply!Send
  <1> DEFINE e == [r EXCEPT !.pc = pc]
  <1>5. /\ e \in Sending /\ e \in Activity /\ e.pc = pc /\ e.ch = r.ch /\ e.for = r.for
        /\ e.text = r.text /\ e.row = r.row
    BY <1>1 DEF Sending, Activity
  <1>6. replyRun' = [replyRun EXCEPT ![p] = e] /\ replyRun'[p] = e
    BY <1>4 DEF ReplyInv, ReplyTypes
  <1> HIDE DEF e
  <1>7. CASE UNCHANGED <<thread, keys>> /\ (pc = "sent" => Reply!Key(r) # {} /\ Reply!Key(r) \subseteq keys)
    <2>1. pc = "sent" => InChat(thread, r.ch, r.for)
      BY <1>7 DEF Reply!Key, ReplyInv, ChatIsInOrder
    <2>2. SendingIsInOrder(p)'
      BY <1>1, <1>2, <1>5, <1>6, <1>7, <2>1 DEF SendingIsInOrder, Cleared, InChat
    <2> QED BY <1>2, <1>3, <1>5, <1>6, <1>7, <2>2, CommandMoves
  <1>8. CASE /\ ~(Reply!Key(r) # {} /\ Reply!Key(r) \subseteq keys)
             /\ thread' = Append(thread, Reply!Mine(r.ch, r.for, r.text, Reply!Approval(r)))
             /\ keys' = keys \cup Reply!Key(r)
    <2> DEFINE m == Reply!Mine(r.ch, r.for, r.text, Reply!Approval(r))
    <2>1. Reply!Approval(r) \in Nat /\ (r.ch = "plan" => Cleared(granted, refused, Reply!Approval(r), r.text))
      <3>1. CASE r.row = 0
        BY <1>1, <3>1 DEF Reply!Approval, SendingIsInOrder
      <3>2. CASE r.row # 0
        <4>1. r.row \in DOMAIN outbox /\ Cleared(granted, refused, outbox[r.row].approval, r.text)
          BY <1>1, <3>2 DEF SendingIsInOrder
        <4>2. outbox[r.row] \in OutRow
          BY <4>1 DEF ReplyInv, ReplyTypes
        <4> QED BY <3>2, <4>1, <4>2 DEF Reply!Approval, OutRow
      <3> QED BY <3>1, <3>2
    <2>2. /\ m \in Message /\ m.by = "me" /\ m.ch = r.ch /\ m.for = r.for /\ m.text = r.text
          /\ m.approval = Reply!Approval(r)
      BY <1>1, <2>1 DEF Reply!Mine, Message, Sending
    <2> HIDE DEF m
    <2>3. thread' = Append(thread, m) /\ thread \in Seq(Message)
      BY <1>8 DEF m, ReplyInv, ReplyTypes
    <2>14. keys' = keys \cup Reply!Key(r) /\ ~(Reply!Key(r) # {} /\ Reply!Key(r) \subseteq keys)
      BY <1>8
    <2>15. /\ r.ch = "chatik" => Reply!Key(r) = {r.for}
           /\ r.ch # "chatik" => Reply!Key(r) = {}
      BY DEF Reply!Key
    <2>4. /\ thread' \in Seq(Message)
          /\ \A i \in DOMAIN thread : i \in DOMAIN thread' /\ thread'[i] = thread[i]
      BY <2>2, <2>3
    <2>5. PICK n \in DOMAIN thread' : thread'[n] = m /\ \A i \in DOMAIN thread' : i \in DOMAIN thread \/ i = n
      <3>1. Len(thread) + 1 \in DOMAIN thread' /\ thread'[Len(thread) + 1] = m
        BY <2>2, <2>3
      <3>2. \A i \in DOMAIN thread' : i \in DOMAIN thread \/ i = Len(thread) + 1
        BY <2>2, <2>3
      <3> QED BY <3>1, <3>2
    <2>6. Grows
      BY <1>2, <2>4 DEF Grows
    <2>7. Reply!Key(r) \subseteq Nat /\ \A f \in Reply!Key(r) : r.ch = "chatik" /\ f = r.for
      BY <1>1 DEF Reply!Key, Sending
    <2>8. ReplyTypes'
      <3>1. keys' \subseteq Nat
        BY <2>7, <2>14 DEF ReplyInv, ReplyTypes
      <3>2. replyRun' \in [Procs -> Activity]
        BY <1>5, <1>6 DEF ReplyInv, ReplyTypes
      <3> QED BY <1>2, <1>3, <2>4, <3>1, <3>2 DEF ReplyInv, ReplyTypes
    <2>9. InChat(thread', r.ch, r.for)
      BY <2>2, <2>5 DEF InChat
    <2>10. SendingIsInOrder(p)'
      BY <1>1, <1>2, <1>5, <1>6, <2>9 DEF SendingIsInOrder, Cleared
    <2>11. \A u \in Procs : SendingIsInOrder(u)'
      <3>1. \A u \in Procs \ {p} : replyRun'[u] = replyRun[u]
        BY <1>6 DEF ReplyInv, ReplyTypes
      <3> QED BY <2>6, <2>10, <3>1, ReplyRests
    <2>12. \A k \in DOMAIN outbox' : RowIsInOrder(k)'
      BY <1>2, <2>6, ReplyRests
    <2>13. ChatIsInOrder'
      <3>1. \A i \in DOMAIN thread' : thread'[i].by = "me" =>
              /\ thread'[i].ch = "plan" => Cleared(granted', refused', thread'[i].approval, thread'[i].text)
              /\ thread'[i].ch = "chatik" => thread'[i].for \in keys'
        <4>1. ASSUME NEW i \in DOMAIN thread, thread[i].by = "me"
              PROVE  /\ thread[i].ch = "plan" => Cleared(granted, refused, thread[i].approval, thread[i].text)
                     /\ thread[i].ch = "chatik" => thread[i].for \in keys
          BY <4>1 DEF ReplyInv, ChatIsInOrder
        <4>2. /\ m.ch = "plan" => Cleared(granted, refused, m.approval, m.text)
              /\ m.ch = "chatik" => m.for \in keys'
          BY <2>1, <2>2, <2>14, <2>15
        <4>3. keys \subseteq keys'
          BY <2>14
        <4> QED BY <1>2, <2>4, <2>5, <4>1, <4>2, <4>3 DEF Cleared
      <3>2. \A f \in keys' : InChat(thread', "chatik", f)
        <4>1. \A f \in keys : InChat(thread', "chatik", f)
          BY <2>6, ReplyRests DEF ReplyInv, ChatIsInOrder
        <4> QED BY <2>7, <2>9, <2>14, <4>1
      <3>3. ASSUME m.ch = "chatik", NEW i \in DOMAIN thread, thread[i].by = "me", thread[i].ch = "chatik"
            PROVE  thread[i].for # m.for
        BY <2>2, <2>14, <2>15, <3>3 DEF ReplyInv, ChatIsInOrder
      <3>4. Reply!ChatikOnce'
        <4>1. \A i \in Reply!Ours("chatik")' : i = n \/ i \in Reply!Ours("chatik")
          BY <2>4, <2>5 DEF Reply!Ours
        <4>2. \A i \in Reply!Ours("chatik")' : i = n => m.ch = "chatik"
          BY <2>5 DEF Reply!Ours
        <4>3. \A i \in Reply!Ours("chatik") : i \in DOMAIN thread /\ thread'[i] = thread[i]
                                                /\ thread[i].by = "me" /\ thread[i].ch = "chatik"
          BY <2>4 DEF Reply!Ours
        <4>4. ASSUME NEW i \in Reply!Ours("chatik")', NEW j \in Reply!Ours("chatik")',
                     thread'[i].for = thread'[j].for
              PROVE  i = j
          <5>1. \A u, v \in Reply!Ours("chatik") : thread[u].for = thread[v].for => u = v
            BY DEF ReplyInv, ChatIsInOrder, Reply!ChatikOnce
          <5> QED BY <2>5, <3>3, <4>1, <4>2, <4>3, <4>4, <5>1
        <4> QED BY <4>4 DEF Reply!ChatikOnce
      <3> QED BY <3>1, <3>2, <3>4 DEF ChatIsInOrder
    <2> QED BY <2>8, <2>11, <2>12, <2>13 DEF ReplyInv
  <1> QED BY <1>4, <1>7, <1>8

LEMMA ReplyRecords ==
    ASSUME ReplyInv, NEW p \in Procs, Reply!Record(p) PROVE ReplyInv'
  <1> DEFINE r == replyRun[p]
  <1>1. r \in Sending /\ r.pc \in {"sent", "error"} /\ SendingIsInOrder(p)
    BY DEF Reply!Record, ReplyInv, ReplyTypes, Activity, Reply!Idle, Holding
  <1>2. UNCHANGED <<thread, seen, keys, approvals, granted, refused, closed>>
        /\ replyRun' = [replyRun EXCEPT ![p] = Reply!Idle]
    BY DEF Reply!Record
  <1>3. Reply!Idle \in Activity /\ Reply!Idle \notin Sending
    BY DEF Activity, Reply!Idle, Sending
  <1>4. CASE UNCHANGED outbox
    <2>1. approvals' \in Seq(ApprovalRow)
      BY <1>2 DEF ReplyInv, ReplyTypes
    <2> QED BY <1>2, <1>3, <1>4, <2>1, CommandMoves
  <1>5. CASE r.row = 0 /\ r.pc = "sent" /\ outbox' = Append(outbox, Reply!Row(r, r.pc))
    <2> DEFINE row == Reply!Row(r, r.pc)
    <2>1. row \in OutRow /\ row.ch = r.ch /\ row.for = r.for /\ row.approval = 0
      BY <1>1, <1>5 DEF Reply!Row, OutRow, Sending, Texts
    <2>2. InChat(thread, r.ch, r.for)
      BY <1>1, <1>5 DEF SendingIsInOrder
    <2> QED BY <1>2, <1>5, <2>1, <2>2, RowAdded DEF Cleared
  <1>6. CASE r.row # 0 /\ outbox' = [outbox EXCEPT ![r.row].status = r.pc, ![r.row].text = r.text]
    <2>1. /\ r.row \in DOMAIN outbox /\ r.ch = "plan" /\ outbox[r.row].for = r.for
          /\ outbox[r.row].ch = "plan" /\ Cleared(granted, refused, outbox[r.row].approval, r.text)
          /\ r.pc = "sent" => InChat(thread, "plan", r.for)
      BY <1>1, <1>6 DEF SendingIsInOrder
    <2>2. outbox[r.row] \in OutRow
      BY <2>1 DEF ReplyInv, ReplyTypes
    <2> DEFINE row == [outbox[r.row] EXCEPT !.status = r.pc, !.text = r.text]
    <2>3. /\ row \in OutRow /\ row.ch = "plan" /\ row.for = r.for /\ row.text = r.text /\ row.status = r.pc
          /\ row.approval = outbox[r.row].approval
      BY <1>1, <2>1, <2>2 DEF OutRow, Sending
    <2>4. outbox' = [outbox EXCEPT ![r.row] = row]
      BY <1>6
    <2> HIDE DEF row
    <2>5. /\ outbox' \in Seq(OutRow) /\ DOMAIN outbox' = DOMAIN outbox /\ outbox'[r.row] = row
          /\ \A k \in DOMAIN outbox \ {r.row} : outbox'[k] = outbox[k]
      BY <2>1, <2>3, <2>4 DEF ReplyInv, ReplyTypes
    <2>6. Grows
      BY <1>2, <2>1, <2>3, <2>5 DEF Grows
    <2>12. InChat(thread, "plan", r.for) => InChat(thread', "plan", r.for)
      BY <2>6, ReplyRests
    <2>13. Cleared(granted', refused', row.approval, row.text)
      <3>1. Cleared(granted, refused, row.approval, row.text)
        BY <2>1, <2>3
      <3> QED BY <1>2, <3>1 DEF Cleared, row
    <2>7. PICK n : n = r.row
      OBVIOUS
    <2>14. RowIsInOrder(n)'
      BY <2>1, <2>3, <2>5, <2>7, <2>12, <2>13 DEF RowIsInOrder
    <2>8. \A k \in DOMAIN outbox' : RowIsInOrder(k)'
      <3>1. \A k \in DOMAIN outbox : k # n => RowIsInOrder(k)'
        BY <2>5, <2>6, <2>7, ReplyRests
      <3> QED BY <2>5, <2>14, <3>1
    <2>9. \A u \in Procs : replyRun'[u] = replyRun[u] \/ replyRun'[u] = Reply!Idle
      BY <1>2 DEF ReplyInv, ReplyTypes
    <2>10. \A u \in Procs : SendingIsInOrder(u)'
      BY <1>3, <2>6, <2>9, ReplyRests DEF SendingIsInOrder
    <2>11. ReplyTypes'
      BY <1>2, <1>3, <2>5 DEF ReplyInv, ReplyTypes
    <2> QED BY <1>2, <2>6, <2>8, <2>10, <2>11, ReplyRests DEF ReplyInv
  <1> QED BY <1>1, <1>4, <1>5, <1>6 DEF Reply!Record

\* The operator decides: only rows that wait for approval change, and what
\* leaves the queue is cleared.
LEMMA RowsDecided ==
    ASSUME ReplyInv, UNCHANGED <<thread, keys, replyRun>>,
           granted \subseteq granted', refused \subseteq refused', approvals' \in Seq(ApprovalRow),
           outbox' \in Seq(OutRow), DOMAIN outbox' = DOMAIN outbox,
           \A k \in DOMAIN outbox : \/ outbox'[k] = outbox[k]
                                    \/ /\ outbox'[k].ch = outbox[k].ch /\ outbox'[k].for = outbox[k].for
                                       /\ outbox'[k].approval = outbox[k].approval
                                       /\ outbox'[k].status # "sent"
                                       /\ Cleared(granted', refused', outbox'[k].approval, outbox'[k].text)
    PROVE  ReplyInv'
  <1>1. Grows
    BY DEF Grows
  <1>2. ASSUME NEW k \in DOMAIN outbox' PROVE RowIsInOrder(k)'
    BY <1>1, ReplyRests DEF RowIsInOrder
  <1>3. ReplyTypes'
    BY DEF ReplyInv, ReplyTypes
  <1>4. \A u \in Procs : SendingIsInOrder(u)'
    BY <1>1, ReplyRests
  <1>5. ChatIsInOrder'
    BY <1>1, ReplyRests
  <1> QED BY <1>2, <1>3, <1>4, <1>5 DEF ReplyInv

LEMMA PlaceWritten ==
    ASSUME NEW S, NEW s \in Seq(S), NEW i \in DOMAIN s, NEW e \in S
    PROVE  [s EXCEPT ![i] = e] \in Seq(S)
  OBVIOUS

\* A decision writes the status of one approval.
LEMMA StatusDecided ==
    ASSUME ReplyTypes, NEW a \in DOMAIN approvals, NEW s \in {"approved", "rejected", "flagged"},
           approvals' = [approvals EXCEPT ![a].status = s]
    PROVE  approvals' \in Seq(ApprovalRow)
  <1> DEFINE e == [approvals[a] EXCEPT !.status = s]
  <1>1. approvals' = [approvals EXCEPT ![a] = e] /\ approvals[a] \in ApprovalRow
    BY DEF ReplyTypes
  <1>2. e \in ApprovalRow
    BY <1>1 DEF ApprovalRow
  <1>3. approvals \in Seq(ApprovalRow)
    BY DEF ReplyTypes
  <1> HIDE DEF e
  <1> QED BY <1>1, <1>2, <1>3, PlaceWritten

LEMMA ReplyApproved ==
    ASSUME ReplyInv, NEW a \in DOMAIN approvals, Reply!Approve(a) PROVE ReplyInv'
  <1>1. UNCHANGED <<thread, keys, replyRun, refused>> /\ granted' = granted \cup {<<a, approvals[a].text>>}
    BY DEF Reply!Approve
  <1>2. approvals' \in Seq(ApprovalRow)
    BY StatusDecided DEF Reply!Approve, ReplyInv
  <1>3. approvals[a] \in ApprovalRow /\ outbox \in Seq(OutRow)
    BY DEF ReplyInv, ReplyTypes
  <1>4. CASE UNCHANGED outbox
    BY <1>1, <1>2, <1>3, <1>4, RowsDecided
  <1>5. CASE outbox' = [i \in DOMAIN outbox |-> IF i \in Reply!Linked(a) THEN Reply!TakesOver(a, i) ELSE outbox[i]]
    <2>1. ASSUME NEW i \in Reply!Linked(a)
          PROVE  /\ i \in DOMAIN outbox /\ Reply!TakesOver(a, i) \in OutRow
                 /\ Reply!TakesOver(a, i).ch = outbox[i].ch /\ Reply!TakesOver(a, i).for = outbox[i].for
                 /\ Reply!TakesOver(a, i).approval = a /\ outbox[i].approval = a
                 /\ Reply!TakesOver(a, i).text = approvals[a].text
                 /\ Reply!TakesOver(a, i).status = "planned"
      <3>1. i \in DOMAIN outbox /\ outbox[i] \in OutRow /\ outbox[i].approval = a
        BY <1>3 DEF Reply!Linked
      <3> QED BY <1>3, <3>1 DEF Reply!TakesOver, OutRow, ApprovalRow
    <2>2. outbox' \in Seq(OutRow) /\ DOMAIN outbox' = DOMAIN outbox
      BY <1>3, <1>5, <2>1
    <2>4. ASSUME NEW k \in DOMAIN outbox
          PROVE  \/ outbox'[k] = outbox[k]
                 \/ /\ outbox'[k].ch = outbox[k].ch /\ outbox'[k].for = outbox[k].for
                    /\ outbox'[k].approval = outbox[k].approval
                    /\ outbox'[k].status # "sent"
                    /\ Cleared(granted', refused', outbox'[k].approval, outbox'[k].text)
      <3>1. CASE k \in Reply!Linked(a)
        <4>1. outbox'[k] = Reply!TakesOver(a, k)
          BY <1>5, <3>1
        <4>2. <<outbox'[k].approval, outbox'[k].text>> \in granted'
          BY <1>1, <2>1, <3>1, <4>1
        <4> QED BY <2>1, <3>1, <4>1, <4>2 DEF Cleared
      <3>2. CASE k \notin Reply!Linked(a)
        BY <1>5, <3>2
      <3> QED BY <3>1, <3>2
    <2> QED BY <1>1, <1>2, <2>2, <2>4, RowsDecided
  <1> QED BY <1>4, <1>5 DEF Reply!Approve

LEMMA ReplyRejected ==
    ASSUME ReplyInv, NEW a \in DOMAIN approvals, Reply!Reject(a) PROVE ReplyInv'
  <1>1. UNCHANGED <<thread, keys, replyRun, granted>> /\ refused' = refused \cup {a}
        /\ outbox' = [i \in DOMAIN outbox |->
                       IF i \in Reply!Linked(a) THEN [outbox[i] EXCEPT !.status = "cancelled"] ELSE outbox[i]]
    BY DEF Reply!Reject
  <1>2. approvals' \in Seq(ApprovalRow)
    BY StatusDecided DEF Reply!Reject, ReplyInv
  <1>3. outbox \in Seq(OutRow)
    BY DEF ReplyInv, ReplyTypes
  <1>4. ASSUME NEW i \in Reply!Linked(a), NEW e, e = [outbox[i] EXCEPT !.status = "cancelled"]
        PROVE  /\ i \in DOMAIN outbox /\ e \in OutRow /\ e.ch = outbox[i].ch /\ e.for = outbox[i].for
               /\ e.approval = a /\ outbox[i].approval = a /\ e.status = "cancelled"
    <2>1. i \in DOMAIN outbox /\ outbox[i] \in OutRow /\ outbox[i].approval = a
      BY <1>3 DEF Reply!Linked
    <2> QED BY <1>4, <2>1 DEF OutRow
  <1>5. outbox' \in Seq(OutRow) /\ DOMAIN outbox' = DOMAIN outbox
    BY <1>1, <1>3, <1>4
  <1>6. ASSUME NEW k \in DOMAIN outbox
        PROVE  \/ outbox'[k] = outbox[k]
               \/ /\ outbox'[k].ch = outbox[k].ch /\ outbox'[k].for = outbox[k].for
                  /\ outbox'[k].approval = outbox[k].approval
                  /\ outbox'[k].status # "sent"
                  /\ Cleared(granted', refused', outbox'[k].approval, outbox'[k].text)
    <2>1. CASE k \in Reply!Linked(a)
      <3>1. outbox'[k] = [outbox[k] EXCEPT !.status = "cancelled"]
        BY <1>1, <2>1
      <3>2. outbox'[k].approval \in refused'
        BY <1>1, <1>4, <2>1, <3>1
      <3> QED BY <1>4, <2>1, <3>1, <3>2 DEF Cleared
    <2>2. CASE k \notin Reply!Linked(a)
      BY <1>1, <2>2
    <2> QED BY <2>1, <2>2
  <1> QED BY <1>1, <1>2, <1>5, <1>6, RowsDecided

LEMMA ReplyInductive == ReplyInv /\ [Reply!Next]_Reply!vars => ReplyInv'
  <1> SUFFICES ASSUME ReplyInv, [Reply!Next]_Reply!vars PROVE ReplyInv'
    OBVIOUS
  <1>1. ASSUME NEW p \in Procs, Reply!Killed(p) PROVE ReplyInv'
    <2>1. Reply!Idle \in Activity /\ Reply!Idle \notin Sending
      BY DEF Activity, Reply!Idle, Sending
    <2>2. approvals' \in Seq(ApprovalRow)
      BY <1>1 DEF ReplyInv, ReplyTypes, Reply!Killed
    <2> QED BY <1>1, <2>1, <2>2, CommandMoves DEF Reply!Killed
  <1>2. ASSUME NEW a \in DOMAIN approvals, Reply!Modify(a) PROVE ReplyInv'
    <2>1. approvals[a] \in ApprovalRow
      BY DEF ReplyInv, ReplyTypes
    <2> DEFINE e == [approvals[a] EXCEPT !.status = "modified", !.text = "edited"]
    <2>2. e \in ApprovalRow
      BY <2>1 DEF ApprovalRow, Texts
    <2>5. approvals \in Seq(ApprovalRow) /\ ReplyTypes
      BY DEF ReplyInv, ReplyTypes
    <2>6. approvals' = [approvals EXCEPT ![a] = e] \/ approvals' = [approvals EXCEPT ![a].status = "flagged"]
      BY <1>2 DEF Reply!Modify
    <2> HIDE DEF e
    <2>3. approvals' \in Seq(ApprovalRow)
      BY <2>2, <2>5, <2>6, PlaceWritten, StatusDecided
    <2>4. outbox \in Seq(OutRow)
      BY DEF ReplyInv, ReplyTypes
    <2> QED BY <1>2, <2>3, <2>4, RowsDecided DEF Reply!Modify
  <1>3. ASSUME Reply!Leave \/ UNCHANGED Reply!vars PROVE ReplyInv'
    <2>1. outbox' \in Seq(OutRow) /\ approvals' \in Seq(ApprovalRow)
      BY <1>3 DEF ReplyInv, ReplyTypes, Reply!Leave, Reply!vars
    <2> QED BY <1>3, <2>1, RowsDecided DEF Reply!Leave, Reply!vars
  <1>4. ASSUME Reply!Employer PROVE ReplyInv'
    <2>1. UNCHANGED <<keys, outbox, approvals, replyRun, granted, refused, closed>>
      BY <1>4 DEF Reply!Employer
    <2>2. CASE UNCHANGED thread
      <3>1. outbox' \in Seq(OutRow) /\ approvals' \in Seq(ApprovalRow)
        BY <2>1 DEF ReplyInv, ReplyTypes
      <3> QED BY <2>1, <2>2, <3>1, RowsDecided
    <2>3. ASSUME NEW q \in Reply!Questions, thread' = Append(thread, Reply!Theirs(q)) PROVE ReplyInv'
      <3> DEFINE m == Reply!Theirs(q)
      <3>1. m \in Message /\ m.by = "employer"
        BY DEF Reply!Theirs, Message
      <3>2. thread \in Seq(Message) /\ thread' = Append(thread, m)
        BY <2>3 DEF ReplyInv, ReplyTypes
      <3> HIDE DEF m
      <3>3. /\ thread' \in Seq(Message)
            /\ \A i \in DOMAIN thread : i \in DOMAIN thread' /\ thread'[i] = thread[i]
            /\ \A i \in DOMAIN thread' : i \in DOMAIN thread \/ thread'[i].by = "employer"
        BY <3>1, <3>2
      <3>4. Grows
        BY <2>1, <3>3 DEF Grows
      <3>5. ReplyTypes'
        BY <2>1, <3>3 DEF ReplyInv, ReplyTypes
      <3>6. \A i \in DOMAIN thread' : thread'[i].by = "me" => i \in DOMAIN thread /\ thread'[i] = thread[i]
        BY <3>3
      <3>7. \A i \in DOMAIN thread' : thread'[i].by = "me" =>
              /\ thread'[i].ch = "plan" => Cleared(granted', refused', thread'[i].approval, thread'[i].text)
              /\ thread'[i].ch = "chatik" => thread'[i].for \in keys'
        BY <2>1, <3>6 DEF ReplyInv, ChatIsInOrder, Cleared
      <3>8. \A f \in keys' : InChat(thread', "chatik", f)
        BY <2>1, <3>4, ReplyRests DEF ReplyInv, ChatIsInOrder
      <3>9. Reply!ChatikOnce'
        BY <3>6 DEF ReplyInv, ChatIsInOrder, Reply!ChatikOnce, Reply!Ours
      <3>10. ChatIsInOrder'
        BY <3>7, <3>8, <3>9 DEF ChatIsInOrder
      <3>11. \A k \in DOMAIN outbox' : RowIsInOrder(k)'
        BY <2>1, <3>4, ReplyRests
      <3>12. \A u \in Procs : SendingIsInOrder(u)'
        BY <2>1, <3>4, ReplyRests
      <3> QED BY <3>5, <3>10, <3>11, <3>12 DEF ReplyInv
    <2> QED BY <1>4, <2>2, <2>3 DEF Reply!Employer
  <1> QED BY <1>1, <1>2, <1>3, <1>4, ReplyDrafts, ReplyPlans, ReplyHolds, ReplyConfirms, ReplySends,
             ReplyRecords, ReplyApproved, ReplyRejected DEF Reply!Next

\* However many commands answer one chat side by side, are killed or lose the
\* answer of the site: the employer reads one Chatik reply to a message, a
\* held plan goes out with a text the operator approved, and a reply that the
\* outbox calls sent is in the chat (reply_hh_chatik, confirm_hh_reply).
THEOREM RepliesAreInOrder ==
    Reply!Spec => [](Reply!ChatikOnce /\ Reply!SentRowIsReal /\ Reply!HeldUntilApproved)
  <1>1. ReplyInv => Reply!ChatikOnce /\ Reply!SentRowIsReal /\ Reply!HeldUntilApproved
    <2> SUFFICES ASSUME ReplyInv PROVE Reply!ChatikOnce /\ Reply!SentRowIsReal /\ Reply!HeldUntilApproved
      OBVIOUS
    <2>1. Reply!ChatikOnce
      BY DEF ReplyInv, ChatIsInOrder
    <2>2. Reply!SentRowIsReal
      BY DEF ReplyInv, RowIsInOrder, InChat, Reply!SentRowIsReal, Reply!Ours
    <2>3. Reply!HeldUntilApproved
      BY DEF ReplyInv, ChatIsInOrder, Cleared, Reply!HeldUntilApproved, Reply!Ours
    <2> QED BY <2>1, <2>2, <2>3
  <1> QED BY ReplyStarts, ReplyInductive, <1>1, PTL DEF Reply!Spec

-----------------------------------------------------------------------------
(* Manual.                                                                 *)

Bodies == Own \cup {"drafted", "none"}
LetterRow == [by : {"none", "draft", "autopilot", "manual-confirmation"}, r : Resume \cup {"none"}, body : Bodies]
ItemStates == {"none", "skipped", "applying", "reconciling", "applied", "manual_challenge", "absent"}
Reports == {"busy", "completed", "applied", "manual_challenge", "reconciling"}
Statuses == ItemStates \cup Reports \cup {"ready", "error", "planned", "run_limit"}
TableRow == [v : Vacancy \cup {"none"}, r : Resume \cup {"none"}, letter : Bodies, status : Statuses]
Aim == [v : Vacancy, r : Resume, letter : Bodies, status : Statuses]
HandCommand ==
    [is : {"idle", "campaign", "plan", "file"}, ref : Campaign \cup Plan \cup {"none"},
     list : Seq(Vacancy), r : Resume \cup {"none"},
     pc : {"idle", "letters", "run", "held", "posting", "posted", "row"}, body : Bodies,
     targets : Seq(Aim), reports : Seq(Reports), row : Nat, count : Nat, made : Nat]

\* HH has an application for this vacancy with this resume.
Reached(H, v, r) == \E d \in H : d.v = v /\ d.r = r

ItemsInOrder ==
    /\ item \in [Vacancy \X Resume -> ItemStates]
    /\ \A v \in Vacancy, r \in Resume : item[<<v, r>>] = "applied" => Reached(hh, v, r)
CampaignsInOrder ==
    /\ campaign \in [Campaign -> [status : {"none", "planned", "confirmed"}, rows : [Vacancy -> TableRow]]]
    /\ \A c \in Campaign, v \in Vacancy : LET row == campaign[c].rows[v] IN
         /\ row.status = "ready" => row \in Aim /\ row.v = v
         /\ row.status = "applied" => Reached(hh, v, row.r)
PlansInOrder ==
    /\ plan \in [Plan -> TableRow]
    /\ \A k \in Plan : /\ plan[k].status = "ready" => plan[k] \in Aim
                       /\ plan[k].status = "applied" => Reached(hh, plan[k].v, plan[k].r)
StateInOrder ==
    /\ state \in [Hand!Rows -> TableRow] /\ listFile \in Lists
    /\ \A k \in Hand!Rows : state[k].status = "applied" => Reached(hh, state[k].v, state[k].r)
LettersTyped == latest \in [Vacancy -> LetterRow]

\* A command c names rows that campaign C, plan P and the file keep, and what
\* it reports as applied has reached HH.
InOrder(C, P, H, c) ==
    /\ c.is = "campaign" =>
          /\ c.ref \in Campaign /\ C[c.ref].status # "none"
          /\ \A i \in DOMAIN c.targets : C[c.ref].rows[c.targets[i].v].r = c.targets[i].r
    /\ c.is = "plan" =>
          /\ c.ref \in Plan /\ P[c.ref].status # "none" /\ Len(c.targets) = 1
          /\ P[c.ref].v = c.targets[1].v /\ P[c.ref].r = c.targets[1].r
    /\ c.is = "file" =>
          /\ c.list \in Lists /\ c.r \in Resume
          /\ c.pc # "row" => Len(c.targets) = 1 /\ c.row \in DOMAIN c.list
                             /\ c.targets[1].v = c.list[c.row]
    /\ Len(c.reports) <= Len(c.targets)
    /\ \A i \in DOMAIN c.reports : c.reports[i] = "applied" => Reached(H, c.targets[i].v, c.targets[i].r)
    /\ c.pc \in {"held", "posting", "posted"} => Len(c.reports) < Len(c.targets)
    /\ c.pc = "posted" =>
          Reached(H, c.targets[Len(c.reports) + 1].v, c.targets[Len(c.reports) + 1].r)
    /\ c.pc = "idle" => c = Hand!Idle
    /\ c.pc = "row" => c.is = "file"
CommandsInOrder ==
    /\ cmd \in [Proc -> HandCommand]
    /\ \A p \in Proc : InOrder(campaign, plan, hh, cmd[p])
HandInv ==
    /\ ItemsInOrder /\ CampaignsInOrder /\ PlansInOrder /\ StateInOrder /\ LettersTyped
    /\ CommandsInOrder

LEMMA SeqPlaces ==
    ASSUME NEW S, NEW s \in Seq(S), NEW i \in DOMAIN s PROVE s[i] \in S
  OBVIOUS

LEMMA IdleInOrder ==
    /\ Hand!Idle \in HandCommand
    /\ \A C, P, H : InOrder(C, P, H, Hand!Idle)
  <1>1. Hand!Idle.targets = <<>> /\ Hand!Idle.reports = <<>> /\ Hand!Idle.pc = "idle" /\ Hand!Idle.is = "idle"
    BY DEF Hand!Idle, Hand!None
  <1>2. Hand!Idle \in HandCommand
    BY DEF Hand!Idle, Hand!None, HandCommand, Bodies
  <1> QED BY <1>1, <1>2 DEF InOrder

Begun(is, ref, pc, ts) == [Hand!Idle EXCEPT !.is = is, !.ref = ref, !.pc = pc, !.targets = ts]
BegunFile(l, r) == [Hand!Idle EXCEPT !.is = "file", !.list = l, !.r = r, !.pc = "row", !.row = 1]
LEMMA CommandBegun ==
    ASSUME NEW is \in {"idle", "campaign", "plan", "file"}, NEW pc \in {"letters", "row"},
           NEW ref \in Campaign \cup Plan \cup {"none"}, NEW ts \in Seq(Aim)
    PROVE  LET c == Begun(is, ref, pc, ts) IN
           /\ c \in HandCommand /\ c.is = is /\ c.ref = ref /\ c.pc = pc /\ c.targets = ts
           /\ c.reports = <<>>
  <1> DEFINE b == [Hand!Idle EXCEPT !.is = is, !.ref = ref]
  <1>1. Hand!Idle \in HandCommand /\ Hand!Idle.reports = <<>>
    BY IdleInOrder DEF Hand!Idle
  <1>2. b \in HandCommand /\ b.is = is /\ b.ref = ref /\ b.reports = <<>>
    BY <1>1 DEF HandCommand
  <1>3. Begun(is, ref, pc, ts) = [b EXCEPT !.pc = pc, !.targets = ts]
    BY DEF Begun
  <1> HIDE DEF b
  <1>4. LET c == [b EXCEPT !.pc = pc, !.targets = ts] IN
        /\ c \in HandCommand /\ c.is = is /\ c.ref = ref /\ c.pc = pc /\ c.targets = ts /\ c.reports = <<>>
    BY <1>2 DEF HandCommand
  <1> QED BY <1>3, <1>4
LEMMA FileBegun ==
    ASSUME NEW l \in Seq(Vacancy), NEW r \in Resume
    PROVE  LET c == BegunFile(l, r) IN
           /\ c \in HandCommand /\ c.is = "file" /\ c.list = l /\ c.r = r /\ c.pc = "row"
           /\ c.targets = <<>> /\ c.reports = <<>>
  <1> DEFINE b == [Hand!Idle EXCEPT !.is = "file", !.list = l, !.r = r]
  <1>1. Hand!Idle \in HandCommand /\ Hand!Idle.reports = <<>> /\ Hand!Idle.targets = <<>>
    BY IdleInOrder DEF Hand!Idle
  <1>2. b \in HandCommand /\ b.is = "file" /\ b.list = l /\ b.r = r /\ b.reports = <<>> /\ b.targets = <<>>
    BY <1>1 DEF HandCommand
  <1>3. BegunFile(l, r) = [b EXCEPT !.pc = "row", !.row = 1]
    BY DEF BegunFile
  <1> HIDE DEF b
  <1>5. PICK one \in Nat : one = 1
    OBVIOUS
  <1>4. LET c == [b EXCEPT !.pc = "row", !.row = one] IN
        /\ c \in HandCommand /\ c.is = "file" /\ c.list = l /\ c.r = r /\ c.pc = "row"
        /\ c.targets = <<>> /\ c.reports = <<>>
    BY <1>2 DEF HandCommand
  <1> QED BY <1>3, <1>4, <1>5

LEMMA HandStarts == Hand!Init => HandInv
  <1> SUFFICES ASSUME Hand!Init PROVE HandInv
    OBVIOUS
  <1>1. Hand!Nothing \in TableRow /\ Hand!Nothing.status = "none"
    BY DEF Hand!Nothing, Hand!None, TableRow, Bodies, Statuses, ItemStates
  <1>2. Hand!NoLetter \in LetterRow
    BY DEF Hand!NoLetter, Hand!None, LetterRow, Bodies
  <1>3. ItemsInOrder /\ LettersTyped
    BY <1>2 DEF Hand!Init, ItemsInOrder, LettersTyped, Hand!None, ItemStates
  <1>4. CampaignsInOrder
    BY <1>1 DEF Hand!Init, CampaignsInOrder, Hand!None
  <1>5. PlansInOrder /\ StateInOrder
    BY <1>1 DEF Hand!Init, PlansInOrder, StateInOrder
  <1>6. CommandsInOrder
    BY IdleInOrder DEF Hand!Init, CommandsInOrder
  <1> QED BY <1>3, <1>4, <1>5, <1>6 DEF HandInv

\* What a step leaves in order: HH forgets nothing, and a campaign or a plan
\* that was planned keeps the resumes of its rows.
Keeps ==
    /\ hh \subseteq hh'
    /\ \A c \in Campaign : campaign[c].status # "none" =>
         /\ campaign'[c].status # "none"
         /\ \A v \in Vacancy : campaign'[c].rows[v].r = campaign[c].rows[v].r
    /\ \A k \in Plan : plan[k].status # "none" =>
         plan'[k].status # "none" /\ plan'[k].v = plan[k].v /\ plan'[k].r = plan[k].r
LEMMA HandRests ==
    ASSUME HandInv, Keeps
    PROVE  /\ \A v, r : Reached(hh, v, r) => Reached(hh', v, r)
           /\ UNCHANGED item => ItemsInOrder'
           /\ UNCHANGED campaign => CampaignsInOrder'
           /\ UNCHANGED plan => PlansInOrder'
           /\ UNCHANGED <<state, listFile>> => StateInOrder'
           /\ UNCHANGED latest => LettersTyped'
           /\ \A c \in HandCommand : InOrder(campaign, plan, hh, c) => InOrder(campaign', plan', hh', c)
  <1>1. \A v, r : Reached(hh, v, r) => Reached(hh', v, r)
    BY DEF Keeps, Reached
  <1>2. UNCHANGED item => ItemsInOrder'
    BY <1>1 DEF HandInv, ItemsInOrder
  <1>3. UNCHANGED campaign => CampaignsInOrder'
    BY <1>1 DEF HandInv, CampaignsInOrder
  <1>4. UNCHANGED plan => PlansInOrder'
    BY <1>1 DEF HandInv, PlansInOrder
  <1>5. UNCHANGED <<state, listFile>> => StateInOrder'
    BY <1>1 DEF HandInv, StateInOrder
  <1>6. UNCHANGED latest => LettersTyped'
    BY DEF HandInv, LettersTyped
  <1>7. ASSUME NEW c \in HandCommand, InOrder(campaign, plan, hh, c)
        PROVE  InOrder(campaign', plan', hh', c)
    <2>1. \A i \in DOMAIN c.targets : c.targets[i].v \in Vacancy
      <3>1. c.targets \in Seq(Aim)
        BY DEF HandCommand
      <3>2. \A a \in Aim : a.v \in Vacancy
        BY DEF Aim
      <3> QED BY <3>1, <3>2, SeqPlaces
    <2> QED BY <1>1, <1>7, <2>1 DEF InOrder, Keeps
  <1> QED BY <1>1, <1>2, <1>3, <1>4, <1>5, <1>6, <1>7

\* A step of one command, in order before and after.
LEMMA HandSteps ==
    ASSUME HandInv, Keeps, NEW p \in Proc, NEW c \in HandCommand,
           cmd' = [cmd EXCEPT ![p] = c], InOrder(campaign', plan', hh', c)
    PROVE  CommandsInOrder'
  <1>1. cmd' \in [Proc -> HandCommand] /\ \A u \in Proc : cmd'[u] = c \/ cmd'[u] = cmd[u]
    BY DEF HandInv, CommandsInOrder
  <1>2. \A u \in Proc : InOrder(campaign', plan', hh', cmd[u])
    BY HandRests DEF HandInv, CommandsInOrder
  <1>3. \A u \in Proc : InOrder(campaign', plan', hh', cmd'[u])
    BY <1>1, <1>2
  <1> QED BY <1>1, <1>3 DEF CommandsInOrder
LEMMA HandWaits ==
    ASSUME HandInv, Keeps, UNCHANGED cmd PROVE CommandsInOrder'
  BY HandRests DEF HandInv, CommandsInOrder

\* Letters are written, and nothing else that the invariant is about.
LEMMA LettersWritten ==
    ASSUME LettersTyped
    PROVE  /\ \A V : Hand!WithLetters(V) \in [Vacancy -> LetterRow]
           /\ \A v \in Vacancy : Hand!Letter(v) \in Bodies
           /\ \A ts \in Seq(Aim) : Hand!SavedLetters(ts) \in [Vacancy -> LetterRow]
           /\ \A t \in Vacancy \X Resume : Hand!Rendered(t) => LettersTyped' /\ Hand!LetterOf(t) \in Bodies
  <1>1. \A V : Hand!WithLetters(V) \in [Vacancy -> LetterRow]
    BY DEF LettersTyped, Hand!WithLetters, LetterRow, Hand!None, Bodies
  <1>2. \A v \in Vacancy : Hand!Letter(v) \in Bodies /\ latest[v].body \in Bodies
    BY DEF LettersTyped, Hand!Letter, LetterRow, Bodies
  <1>3. ASSUME NEW ts \in Seq(Aim) PROVE Hand!SavedLetters(ts) \in [Vacancy -> LetterRow]
    <2>1. ASSUME NEW v \in Vacancy, \E i \in DOMAIN ts : ts[i].v = v /\ ts[i].letter # Hand!None
          PROVE  LET i == CHOOSE j \in DOMAIN ts : ts[j].v = v
                 IN  [by |-> "manual-confirmation", r |-> ts[i].r, body |-> ts[i].letter] \in LetterRow
      <3>1. PICK i : i = CHOOSE j \in DOMAIN ts : ts[j].v = v
        OBVIOUS
      <3>2. i \in DOMAIN ts
        BY <2>1, <3>1
      <3>3. ts[i] \in Aim
        BY <3>2
      <3> QED BY <3>1, <3>3 DEF LetterRow, Aim
    <2> QED BY <2>1 DEF Hand!SavedLetters, LettersTyped
  <1>4. ASSUME NEW t \in Vacancy \X Resume, Hand!Rendered(t) PROVE LettersTyped' /\ Hand!LetterOf(t) \in Bodies
    <2>1. t[1] \in Vacancy
      OBVIOUS
    <2>2. [by |-> "autopilot", r |-> Hand!None, body |-> "drafted"] \in LetterRow
      BY DEF LetterRow, Hand!None, Bodies
    <2>3. LettersTyped'
      BY <1>4, <2>2 DEF Hand!Rendered, LettersTyped
    <2>4. Hand!LetterOf(t) \in Bodies
      BY <1>2, <2>1 DEF Hand!LetterOf, Bodies
    <2> QED BY <2>3, <2>4
  <1> QED BY <1>1, <1>2, <1>3, <1>4

LEMMA HandPlans ==
    ASSUME Hand!ManualAssumption, HandInv,
           Hand!Draft \/ Hand!PlanCampaign \/ Hand!PreparePlan \/ Hand!EditFile \/ Hand!DryRun
    PROVE  HandInv'
  <1>1. CASE Hand!Draft
    <2>1. Keeps
      BY <1>1 DEF Hand!Draft, Keeps
    <2>2. LettersTyped'
      BY <1>1 DEF Hand!Draft, HandInv, LettersTyped, LetterRow, Hand!None, Bodies
    <2> QED BY <1>1, <2>1, <2>2, HandRests, HandWaits DEF Hand!Draft, HandInv
  <1>2. CASE Hand!PlanCampaign
    <2>1. PICK c \in Campaign, r \in Resume, ready \in SUBSET Vacancy :
            /\ campaign[c].status = Hand!None
            /\ campaign' = [campaign EXCEPT ![c] =
                 [status |-> "planned", rows |-> [v \in Vacancy |-> Hand!PlannedRow(v, r, ready)]]]
            /\ latest' = Hand!WithLetters(ready)
      BY <1>2 DEF Hand!PlanCampaign
    <2>2. UNCHANGED <<cached, item, plan, listFile, state, lease, cmd, hh, skipped, used>>
      BY <1>2 DEF Hand!PlanCampaign
    <2>3. LettersTyped' /\ \A v \in Vacancy : Hand!Letter(v) \in Bodies
      BY <2>1, LettersWritten DEF HandInv, LettersTyped
    <2>4. \A v \in Vacancy :
            /\ Hand!PlannedRow(v, r, ready) \in TableRow
            /\ Hand!PlannedRow(v, r, ready).status = "ready" =>
                 Hand!PlannedRow(v, r, ready) \in Aim /\ Hand!PlannedRow(v, r, ready).v = v
            /\ Hand!PlannedRow(v, r, ready).status # "applied"
      BY <2>3 DEF Hand!PlannedRow, TableRow, Aim, Statuses, ItemStates, Hand!None, Bodies
    <2> DEFINE new == [status |-> "planned", rows |-> [v \in Vacancy |-> Hand!PlannedRow(v, r, ready)]]
    <2>5. /\ new \in [status : {"none", "planned", "confirmed"}, rows : [Vacancy -> TableRow]]
          /\ \A v \in Vacancy : new.rows[v] = Hand!PlannedRow(v, r, ready)
      BY <2>4
    <2>6. campaign' = [campaign EXCEPT ![c] = new]
      BY <2>1
    <2> HIDE DEF new
    <2>7. Keeps
      BY <2>1, <2>2, <2>6 DEF Keeps, HandInv, CampaignsInOrder, Hand!None
    <2>8. CampaignsInOrder'
      <3>1. campaign' \in [Campaign -> [status : {"none", "planned", "confirmed"}, rows : [Vacancy -> TableRow]]]
        BY <2>5, <2>6 DEF HandInv, CampaignsInOrder
      <3>2. ASSUME NEW u \in Campaign, NEW v \in Vacancy
            PROVE  /\ campaign'[u].rows[v].status = "ready" =>
                        campaign'[u].rows[v] \in Aim /\ campaign'[u].rows[v].v = v
                   /\ campaign'[u].rows[v].status = "applied" => Reached(hh', v, campaign'[u].rows[v].r)
        <4>1. CASE u = c
          <5>1. campaign'[u] = new
            BY <2>6, <4>1 DEF HandInv, CampaignsInOrder
          <5> QED BY <2>4, <2>5, <5>1
        <4>2. CASE u # c
          <5>1. campaign'[u] = campaign[u]
            BY <2>6, <4>2 DEF HandInv, CampaignsInOrder
          <5> QED BY <2>2, <5>1 DEF HandInv, CampaignsInOrder
        <4> QED BY <4>1, <4>2
      <3> QED BY <3>1, <3>2 DEF CampaignsInOrder
    <2> QED BY <2>2, <2>3, <2>7, <2>8, HandRests, HandWaits DEF HandInv
  <1>3. CASE Hand!PreparePlan
    <2>1. PICK k \in Plan, v \in Vacancy, r \in Resume, b \in Own \cup {Hand!None} :
            /\ plan[k].status = Hand!None
            /\ plan' = [plan EXCEPT ![k] = Hand!SavedPlan(v, r, b)]
            /\ latest' = IF b = Hand!None THEN Hand!WithLetters({v}) ELSE latest
      BY <1>3 DEF Hand!PreparePlan
    <2>2. UNCHANGED <<cached, item, campaign, listFile, state, lease, cmd, hh, skipped, used>>
      BY <1>3 DEF Hand!PreparePlan
    <2>3. LettersTyped' /\ Hand!Letter(v) \in Bodies
      BY <2>1, LettersWritten DEF HandInv, LettersTyped
    <2> DEFINE new == Hand!SavedPlan(v, r, b)
    <2>4. new \in Aim /\ new \in TableRow /\ new.status = "ready"
      BY <2>3 DEF Hand!SavedPlan, Aim, TableRow, Statuses, Bodies, Hand!None
    <2>5. plan' = [plan EXCEPT ![k] = new]
      BY <2>1
    <2> HIDE DEF new
    <2>6. Keeps
      BY <2>1, <2>2, <2>5 DEF Keeps, HandInv, PlansInOrder, Hand!None
    <2>7. PlansInOrder'
      BY <2>2, <2>4, <2>5 DEF HandInv, PlansInOrder
    <2> QED BY <2>2, <2>3, <2>6, <2>7, HandRests, HandWaits DEF HandInv
  <1>4. CASE Hand!EditFile
    <2>1. Keeps
      BY <1>4 DEF Hand!EditFile, Keeps
    <2>2. StateInOrder'
      BY <1>4 DEF Hand!EditFile, HandInv, StateInOrder
    <2> QED BY <1>4, <2>1, <2>2, HandRests, HandWaits DEF Hand!EditFile, HandInv
  <1>5. CASE Hand!DryRun
    <2>1. Keeps
      BY <1>5 DEF Hand!DryRun, Keeps
    <2>2. PICK r \in Resume :
            state' = [k \in Hand!Rows |-> IF k \in DOMAIN listFile /\ k <= FileLimit
                        THEN [v |-> listFile[k], r |-> r, letter |-> Hand!None, status |-> "planned"] ELSE state[k]]
      BY <1>5 DEF Hand!DryRun
    <2>3. UNCHANGED <<latest, cached, item, campaign, plan, listFile, lease, cmd, hh, skipped, used>>
      BY <1>5 DEF Hand!DryRun
    <2>4. \A k \in DOMAIN listFile :
            [v |-> listFile[k], r |-> r, letter |-> Hand!None, status |-> "planned"] \in TableRow
      <3>1. \A k \in DOMAIN listFile : listFile[k] \in Vacancy
        BY DEF HandInv, StateInOrder, Hand!ManualAssumption
      <3> QED BY <3>1 DEF TableRow, Statuses, Bodies, Hand!None
    <2>5. StateInOrder'
      BY <2>2, <2>3, <2>4 DEF HandInv, StateInOrder
    <2> QED BY <2>1, <2>3, <2>5, HandRests, HandWaits DEF HandInv
  <1> QED BY <1>1, <1>2, <1>3, <1>4, <1>5

\* The targets of a campaign are its ready rows, each once.
LEMMA ReadyRowsAreAims ==
    ASSUME Hand!ManualAssumption, HandInv, NEW c \in Campaign
    PROVE  /\ Hand!ReadyRows(c) \in Seq(Aim)
           /\ \A i \in DOMAIN Hand!ReadyRows(c) : LET t == Hand!ReadyRows(c)[i] IN
                t = campaign[c].rows[t.v] /\ t.v \in Vacancy
           /\ \A i, j \in DOMAIN Hand!ReadyRows(c) :
                Hand!ReadyRows(c)[i].v = Hand!ReadyRows(c)[j].v => i = j
  <1> DEFINE R == campaign[c].rows
             V == {x \in Vacancy : R[x].status = "ready"}
             S == {R[v] : v \in V}
             f == [v \in V |-> R[v]]
             T == Hand!ReadyRows(c)
  <1>1. \A v \in V : R[v] \in Aim /\ R[v].v = v
    BY DEF HandInv, CampaignsInOrder
  <1>2. IsFiniteSet(V)
    <2>1. IsFiniteSet(Vacancy)
      BY DEF Hand!ManualAssumption, Hand!IsFiniteSet, IsFiniteSet
    <2> QED BY <2>1, FS_Subset
  <1>3. f \in Surjection(V, S)
    BY DEF Surjection
  <1>4. IsFiniteSet(S)
    BY <1>2, <1>3, FS_Surjection
  <1>5. Cardinality(S) \in Nat /\ ExistsBijection(1..Cardinality(S), S)
    BY <1>4, FS_CardinalityType
  <1>13. Hand!Cardinality(S) = Cardinality(S)
    BY DEF Hand!Cardinality, Cardinality
  <1>6. \E g \in [1..Hand!Cardinality(S) -> S] : Hand!IsInjective(g)
    BY <1>5, <1>13 DEF ExistsBijection, Bijection, Injection, IsInjective, Hand!IsInjective
  <1>7. T = Hand!SetToSeq(S)
    BY DEF Hand!ReadyRows
  <1>8. T \in [1..Cardinality(S) -> S] /\ Hand!IsInjective(T)
    <2> HIDE DEF T, S
    <2>1. Hand!SetToSeq(S) \in [1..Hand!Cardinality(S) -> S] /\ Hand!IsInjective(Hand!SetToSeq(S))
      BY <1>6 DEF Hand!SetToSeq
    <2> QED BY <1>7, <1>13, <2>1
  <1>9. \A s \in S : s \in Aim /\ s.v \in Vacancy /\ s = R[s.v]
    BY <1>1
  <1> HIDE DEF T, S
  <1>10. T \in Seq(Aim) /\ \A i \in DOMAIN T : T[i] \in S
    BY <1>5, <1>8, <1>9
  <1>11. \A i, j \in DOMAIN T : T[i].v = T[j].v => i = j
    BY <1>8, <1>9, <1>10 DEF Hand!IsInjective
  <1>12. \A i \in DOMAIN T : T[i] = campaign[c].rows[T[i].v] /\ T[i].v \in Vacancy
    BY <1>9, <1>10
  <1> QED BY <1>10, <1>11, <1>12 DEF T

\* A command begins with its targets, or at the first row of the file.
LEMMA HandBegins ==
    ASSUME Hand!ManualAssumption, HandInv, NEW p \in Proc,
           Hand!ConfirmCampaign(p) \/ Hand!ConfirmPlan(p) \/ Hand!RunFile(p)
    PROVE  HandInv'
  <1>1. UNCHANGED <<latest, cached, item, campaign, plan, listFile, state, lease, hh, skipped>>
    BY DEF Hand!ConfirmCampaign, Hand!ConfirmPlan, Hand!RunFile
  <1>2. Keeps
    BY <1>1 DEF Keeps
  <1>3. Hand!Idle \in HandCommand
    BY IdleInOrder
  <1>4. PICK c \in HandCommand : cmd' = [cmd EXCEPT ![p] = c] /\ InOrder(campaign, plan, hh, c)
    <2>1. CASE Hand!ConfirmCampaign(p)
      <3>1. PICK k \in Campaign :
              /\ campaign[k].status # Hand!None
              /\ cmd' = [cmd EXCEPT ![p] = Begun("campaign", k, "letters", Hand!ReadyRows(k))]
        BY <2>1 DEF Hand!ConfirmCampaign, Hand!Begin, Begun
      <3> DEFINE c == Begun("campaign", k, "letters", Hand!ReadyRows(k))
      <3>2. PICK T \in Seq(Aim) :
              /\ T = Hand!ReadyRows(k)
              /\ \A i \in DOMAIN T : T[i] = campaign[k].rows[T[i].v]
        BY ReadyRowsAreAims
      <3>3. /\ c \in HandCommand /\ c.is = "campaign" /\ c.ref = k /\ c.pc = "letters"
            /\ c.targets = T /\ c.reports = <<>>
        BY <3>2, CommandBegun
      <3> HIDE DEF c
      <3>4. Len(c.reports) = 0 /\ Len(c.targets) \in Nat /\ DOMAIN c.reports = {}
        BY <3>3
      <3>5. InOrder(campaign, plan, hh, c)
        BY <3>1, <3>2, <3>3, <3>4 DEF InOrder, Hand!None
      <3> QED BY <3>1, <3>3, <3>5 DEF c
    <2>2. CASE Hand!ConfirmPlan(p)
      <3>1. PICK k \in Plan :
              /\ plan[k].status = "ready"
              /\ cmd' = [cmd EXCEPT ![p] = Begun("plan", k, "letters", <<plan[k]>>)]
        BY <2>2 DEF Hand!ConfirmPlan, Hand!Begin, Begun
      <3>2. PICK T \in Seq(Aim) : T = <<plan[k]>>
        <4>1. plan[k] \in Aim
          BY <3>1 DEF HandInv, PlansInOrder
        <4>2. <<plan[k]>> \in Seq(Aim)
          BY <4>1
        <4> QED BY <4>2, Zenon
      <3> DEFINE c == Begun("plan", k, "letters", T)
      <3>3. /\ c \in HandCommand /\ c.is = "plan" /\ c.ref = k /\ c.pc = "letters"
            /\ c.targets = T /\ c.reports = <<>>
        BY CommandBegun
      <3> HIDE DEF c
      <3>4. Len(c.reports) = 0 /\ Len(c.targets) = 1 /\ DOMAIN c.reports = {} /\ c.targets[1] = plan[k]
        BY <3>2, <3>3
      <3>5. InOrder(campaign, plan, hh, c)
        BY <3>1, <3>3, <3>4 DEF InOrder, Hand!None
      <3> QED BY <3>1, <3>2, <3>3, <3>5 DEF c
    <2>3. CASE Hand!RunFile(p)
      <3>1. PICK r \in Resume :
cmd' = [cmd EXCEPT ![p] = BegunFile(listFile, r)]
        BY <2>3 DEF Hand!RunFile, Hand!Begin, BegunFile
      <3> DEFINE c == BegunFile(listFile, r)
      <3>2. listFile \in Lists /\ listFile \in Seq(Vacancy)
        BY DEF HandInv, StateInOrder, Hand!ManualAssumption
      <3>3. /\ c \in HandCommand /\ c.is = "file" /\ c.pc = "row" /\ c.list = listFile /\ c.r = r
            /\ c.targets = <<>> /\ c.reports = <<>>
        BY <3>2, FileBegun
      <3> HIDE DEF c
      <3>4. Len(c.reports) = 0 /\ Len(c.targets) = 0 /\ DOMAIN c.reports = {}
        BY <3>3
      <3>5. InOrder(campaign, plan, hh, c)
        BY <3>2, <3>3, <3>4 DEF InOrder
      <3> QED BY <3>1, <3>3, <3>5 DEF c
    <2> QED BY <2>1, <2>2, <2>3
  <1>5. InOrder(campaign', plan', hh', c)
    BY <1>1, <1>4
  <1>6. CommandsInOrder'
    BY <1>2, <1>4, <1>5, HandSteps
  <1> QED BY <1>1, <1>2, <1>6, HandRests DEF HandInv

\* The rows of the file one by one, the end of a command and its death.
LEMMA HandRows ==
    ASSUME Hand!ManualAssumption, HandInv, NEW p \in Proc,
           Hand!FileRow(p) \/ Hand!EndFile(p) \/ Hand!Die(p) \/ Hand!SaveLetters(p)
    PROVE  HandInv'
  <1>1. UNCHANGED <<item, campaign, plan, listFile, state, hh>>
    BY DEF Hand!FileRow, Hand!EndFile, Hand!Die, Hand!SaveLetters
  <1>2. Keeps
    BY <1>1 DEF Keeps
  <1> DEFINE o == cmd[p]
  <1>3. o \in HandCommand /\ InOrder(campaign, plan, hh, o)
    BY DEF HandInv, CommandsInOrder
  <1>4. LettersTyped'
    <2>1. CASE Hand!SaveLetters(p)
      BY <1>3, <2>1, LettersWritten DEF Hand!SaveLetters, HandInv, HandCommand, LettersTyped
    <2>2. CASE UNCHANGED latest
      BY <2>2 DEF HandInv, LettersTyped
    <2> QED BY <2>1, <2>2 DEF Hand!FileRow, Hand!EndFile, Hand!Die
  <1>5. PICK c \in HandCommand : cmd' = [cmd EXCEPT ![p] = c] /\ InOrder(campaign, plan, hh, c)
    <2>1. CASE Hand!EndFile(p) \/ Hand!Die(p)
      BY <2>1, IdleInOrder DEF Hand!EndFile, Hand!Die
    <2>2. CASE Hand!SaveLetters(p)
      <3> DEFINE c == [o EXCEPT !.pc = "run"]
      <3>1. /\ c \in HandCommand /\ c.pc = "run" /\ c.is = o.is /\ c.ref = o.ref /\ c.list = o.list /\ c.r = o.r
            /\ c.targets = o.targets /\ c.reports = o.reports /\ c.row = o.row
        BY <1>3 DEF HandCommand
      <3>2. cmd' = [cmd EXCEPT ![p] = c] /\ o.pc = "letters"
        BY <2>2 DEF Hand!SaveLetters
      <3> HIDE DEF c
      <3>3. InOrder(campaign, plan, hh, c)
        BY <1>3, <3>1, <3>2 DEF InOrder
      <3> QED BY <3>1, <3>2, <3>3
    <2>3. CASE Hand!FileRow(p)
      <3>1. /\ o.pc = "row" /\ o.row \in DOMAIN o.list
            /\ \/ cmd' = [cmd EXCEPT ![p].row = @ + 1]
               \/ \E b \in Own \cup {Hand!None} :
                    cmd' = [cmd EXCEPT ![p].pc = "letters", ![p].reports = <<>>,
                              ![p].targets = <<[v |-> o.list[o.row], r |-> o.r, letter |-> b, status |-> "ready"]>>]
        BY <2>3 DEF Hand!FileRow, Hand!Rest
      <3>2. CASE cmd' = [cmd EXCEPT ![p].row = @ + 1]
        <4>4. PICK n \in Nat : n = o.row + 1
          <5>1. o.row \in Nat
            BY <1>3 DEF HandCommand
          <5> QED BY <5>1
        <4> DEFINE c == [o EXCEPT !.row = n]
        <4>1. /\ c \in HandCommand /\ c.pc = o.pc /\ c.is = o.is /\ c.ref = o.ref /\ c.list = o.list /\ c.r = o.r
              /\ c.targets = o.targets /\ c.reports = o.reports
          BY <1>3 DEF HandCommand
        <4>2. cmd' = [cmd EXCEPT ![p] = c]
          BY <3>2, <4>4
        <4> HIDE DEF c
        <4>3. InOrder(campaign, plan, hh, c)
          BY <1>3, <3>1, <4>1 DEF InOrder
        <4> QED BY <4>1, <4>2, <4>3
      <3>3. CASE \E b \in Own \cup {Hand!None} :
                    cmd' = [cmd EXCEPT ![p].pc = "letters", ![p].reports = <<>>,
                              ![p].targets = <<[v |-> o.list[o.row], r |-> o.r, letter |-> b, status |-> "ready"]>>]
        <4>1. PICK b \in Own \cup {Hand!None} :
                    cmd' = [cmd EXCEPT ![p].pc = "letters", ![p].reports = <<>>,
                              ![p].targets = <<[v |-> o.list[o.row], r |-> o.r, letter |-> b, status |-> "ready"]>>]
          BY <3>3
        <4> DEFINE t == [v |-> o.list[o.row], r |-> o.r, letter |-> b, status |-> "ready"]
        <4>2. o.is = "file"
          BY <1>3, <3>1 DEF InOrder, Hand!Idle
        <4>3. t \in Aim /\ t.v = o.list[o.row]
          <5>1. o.list \in Seq(Vacancy) /\ o.r \in Resume
            BY <1>3, <4>2 DEF HandCommand, InOrder
          <5> QED BY <3>1, <5>1 DEF Aim, Statuses, Bodies, Hand!None
        <4> HIDE DEF t
        <4>8. PICK ts \in Seq(Aim), rs \in Seq(Reports) : ts = <<t>> /\ rs = <<>>
          <5>1. <<t>> \in Seq(Aim)
            BY <4>3
          <5>2. <<>> \in Seq(Reports)
            OBVIOUS
          <5> QED BY <5>1, <5>2, Zenon
        <4> DEFINE c == [o EXCEPT !.pc = "letters", !.reports = rs, !.targets = ts]
        <4>4. /\ c \in HandCommand /\ c.pc = "letters" /\ c.is = o.is /\ c.ref = o.ref /\ c.list = o.list /\ c.r = o.r
              /\ c.targets = ts /\ c.reports = rs /\ c.row = o.row
          BY <1>3 DEF HandCommand
        <4>5. cmd' = [cmd EXCEPT ![p] = c]
          BY <4>1, <4>8 DEF t
        <4> HIDE DEF c
        <4>6. Len(c.reports) = 0 /\ Len(c.targets) = 1 /\ DOMAIN c.reports = {} /\ c.targets[1] = t
          BY <4>4, <4>8
        <4>7. InOrder(campaign, plan, hh, c)
          BY <1>3, <3>1, <4>2, <4>3, <4>4, <4>6 DEF InOrder
        <4> QED BY <4>4, <4>5, <4>7
      <3> QED BY <3>1, <3>2, <3>3
    <2> QED BY <2>1, <2>2, <2>3
  <1>6. InOrder(campaign', plan', hh', c)
    BY <1>1, <1>5
  <1>7. CommandsInOrder'
    BY <1>2, <1>5, <1>6, HandSteps
  <1> QED BY <1>1, <1>2, <1>4, <1>7, HandRests DEF HandInv

\* The target a command is at, while a run of the engine works on it.
LEMMA AtTarget ==
    ASSUME HandInv, NEW p \in Proc, cmd[p].pc \in {"held", "posting", "posted"}
    PROVE  /\ Hand!Target(p) \in Aim /\ Hand!Key(p) = <<Hand!Target(p).v, Hand!Target(p).r>>
           /\ Hand!Key(p) \in Vacancy \X Resume
           /\ Hand!Target(p) = cmd[p].targets[Len(cmd[p].reports) + 1]
  <1>1. cmd[p] \in HandCommand /\ Len(cmd[p].reports) < Len(cmd[p].targets)
    BY DEF HandInv, CommandsInOrder, InOrder
  <1>2. cmd[p].targets \in Seq(Aim) /\ cmd[p].reports \in Seq(Reports)
    BY <1>1 DEF HandCommand
  <1>3. Len(cmd[p].reports) + 1 \in DOMAIN cmd[p].targets
    BY <1>1, <1>2
  <1>4. cmd[p].targets[Len(cmd[p].reports) + 1] \in Aim
    BY <1>2, <1>3, SeqPlaces
  <1>5. Hand!Target(p) = cmd[p].targets[Len(cmd[p].reports) + 1]
    BY DEF Hand!Target, Hand!Ran
  <1>6. \A a \in Aim : a.v \in Vacancy /\ a.r \in Resume
    BY DEF Aim
  <1> QED BY <1>4, <1>5, <1>6 DEF Hand!Key

\* A report about the next target keeps a command in order.
LEMMA Reported ==
    ASSUME NEW C, NEW P, NEW H, NEW o \in HandCommand, InOrder(C, P, H, o), NEW r \in Reports,
           Len(o.reports) < Len(o.targets), o.pc \notin {"idle", "row"},
           r = "applied" => Reached(H, o.targets[Len(o.reports) + 1].v, o.targets[Len(o.reports) + 1].r)
    PROVE  LET c == [o EXCEPT !.reports = Append(@, r), !.pc = "run"] IN
           c \in HandCommand /\ InOrder(C, P, H, c)
  <1>1. o.reports \in Seq(Reports) /\ o.targets \in Seq(Aim)
    BY DEF HandCommand
  <1>2. PICK rs \in Seq(Reports) :
          /\ rs = Append(o.reports, r) /\ Len(rs) = Len(o.reports) + 1 /\ rs[Len(o.reports) + 1] = r
          /\ \A i \in DOMAIN rs : i = Len(o.reports) + 1 \/ (i \in DOMAIN o.reports /\ rs[i] = o.reports[i])
    <2>1. PICK s \in Seq(Reports) : s = o.reports
      BY <1>1
    <2>2. Append(s, r) \in Seq(Reports) /\ Len(Append(s, r)) = Len(s) + 1 /\ Append(s, r)[Len(s) + 1] = r
      OBVIOUS
    <2>3. \A i \in DOMAIN Append(s, r) : i = Len(s) + 1 \/ (i \in DOMAIN s /\ Append(s, r)[i] = s[i])
      OBVIOUS
    <2> QED BY <2>1, <2>2, <2>3, Zenon
  <1>3. Len(rs) <= Len(o.targets)
    BY <1>1, <1>2
  <1> DEFINE c == [o EXCEPT !.reports = rs, !.pc = "run"]
  <1>4. /\ c \in HandCommand /\ c.pc = "run" /\ c.is = o.is /\ c.ref = o.ref /\ c.list = o.list /\ c.r = o.r
        /\ c.targets = o.targets /\ c.reports = rs /\ c.row = o.row
    BY DEF HandCommand
  <1>5. c = [o EXCEPT !.reports = Append(@, r), !.pc = "run"]
    BY <1>2
  <1> HIDE DEF c
  <1>6. \A i \in DOMAIN rs : rs[i] = "applied" => Reached(H, o.targets[i].v, o.targets[i].r)
    BY <1>2 DEF InOrder
  <1>7. InOrder(C, P, H, c)
    BY <1>3, <1>4, <1>6 DEF InOrder
  <1> QED BY <1>4, <1>5, <1>7

\* One item changes, and an item becomes applied only where HH was reached.
LEMMA ItemWritten ==
    ASSUME HandInv, Keeps, NEW t \in Vacancy \X Resume, NEW a \in ItemStates,
           item' = [item EXCEPT ![t] = a], a = "applied" => Reached(hh', t[1], t[2])
    PROVE  ItemsInOrder'
  <1>1. item' \in [Vacancy \X Resume -> ItemStates]
    BY DEF HandInv, ItemsInOrder
  <1>2. ASSUME NEW v \in Vacancy, NEW r \in Resume, item'[<<v, r>>] = "applied"
        PROVE  Reached(hh', v, r)
    <2>1. CASE t = <<v, r>>
      BY <1>2, <2>1 DEF HandInv, ItemsInOrder
    <2>2. CASE t # <<v, r>>
      BY <1>2, <2>2, HandRests DEF HandInv, ItemsInOrder
    <2> QED BY <2>1, <2>2
  <1> QED BY <1>1, <1>2 DEF ItemsInOrder

\* A run of the engine begins, is refused, or is answered.
LEMMA HandReports ==
    ASSUME HandInv, NEW p \in Proc, Hand!StartRun(p) \/ Hand!Refuse(p) \/ Hand!Answer(p)
    PROVE  HandInv'
  <1>1. UNCHANGED <<latest, cached, campaign, plan, listFile, state, hh>>
    BY DEF Hand!StartRun, Hand!Refuse, Hand!Answer
  <1>2. Keeps
    BY <1>1 DEF Keeps
  <1> DEFINE o == cmd[p]
  <1>3. o \in HandCommand /\ InOrder(campaign, plan, hh, o)
    BY DEF HandInv, CommandsInOrder
  <1>4. o.reports \in Seq(Reports) /\ o.targets \in Seq(Aim)
    BY <1>3 DEF HandCommand
  <1>5. /\ ItemsInOrder'
        /\ \E c \in HandCommand : cmd' = [cmd EXCEPT ![p] = c] /\ InOrder(campaign, plan, hh, c)
    <2>1. CASE Hand!StartRun(p)
      <3>1. o.pc = "run" /\ Len(o.reports) < Len(o.targets)
        BY <2>1 DEF Hand!StartRun, Hand!More, Hand!Ran
      <3>2. CASE lease = Hand!None
        <4>1. /\ item' = [t \in DOMAIN item |-> IF item[t] = "applying" THEN "reconciling" ELSE item[t]]
              /\ cmd' = [cmd EXCEPT ![p].pc = "held"]
          BY <2>1, <3>2 DEF Hand!StartRun
        <4>2. ItemsInOrder'
          BY <1>1, <4>1 DEF HandInv, ItemsInOrder, ItemStates
        <4> DEFINE c == [o EXCEPT !.pc = "held"]
        <4>3. /\ c \in HandCommand /\ c.pc = "held" /\ c.is = o.is /\ c.ref = o.ref /\ c.list = o.list
              /\ c.r = o.r /\ c.targets = o.targets /\ c.reports = o.reports /\ c.row = o.row
          BY <1>3 DEF HandCommand
        <4>4. cmd' = [cmd EXCEPT ![p] = c]
          BY <4>1
        <4> HIDE DEF c
        <4>5. InOrder(campaign, plan, hh, c)
          BY <1>3, <3>1, <4>3 DEF InOrder
        <4> QED BY <4>2, <4>3, <4>4, <4>5
      <3>3. CASE lease # Hand!None
        <4>1. UNCHANGED item /\ cmd' = [cmd EXCEPT ![p].reports = Append(@, "busy"), ![p].pc = "run"]
          BY <2>1, <3>3 DEF Hand!StartRun, Hand!Report
        <4>2. PICK r \in Reports : r = "busy"
          BY DEF Reports
        <4> DEFINE c == [o EXCEPT !.reports = Append(@, r), !.pc = "run"]
        <4>3. c \in HandCommand /\ InOrder(campaign, plan, hh, c)
          BY <1>3, <3>1, <4>2, Reported
        <4>4. cmd' = [cmd EXCEPT ![p] = c]
          BY <4>1, <4>2
        <4> HIDE DEF c
        <4> QED BY <1>2, <4>1, <4>3, <4>4, HandRests
      <3> QED BY <3>2, <3>3
    <2>2. CASE Hand!Refuse(p) \/ Hand!Answer(p)
      <3>1. o.pc \in {"held", "posting", "posted"}
        BY <2>2 DEF Hand!Refuse, Hand!Answer
      <3>2. /\ Hand!Key(p) \in Vacancy \X Resume /\ Hand!Target(p) = o.targets[Len(o.reports) + 1]
            /\ Hand!Key(p)[1] = Hand!Target(p).v /\ Hand!Key(p)[2] = Hand!Target(p).r
        BY <3>1, AtTarget
      <3>3. Len(o.reports) < Len(o.targets)
        BY <1>3, <3>1 DEF InOrder
      <3>4. PICK r \in Reports, a \in ItemStates :
              /\ item' = item \/ item' = [item EXCEPT ![Hand!Key(p)] = a]
              /\ r = "applied" \/ a = "applied" => o.pc = "posted"
              /\ cmd' = [cmd EXCEPT ![p].reports = Append(@, r), ![p].pc = "run"]
        <4>1. CASE Hand!Refuse(p)
          <5>1. /\ item' = item \/ item' = [item EXCEPT ![Hand!Key(p)] = "skipped"]
                /\ cmd' = [cmd EXCEPT ![p].reports = Append(@, "completed"), ![p].pc = "run"]
            BY <4>1 DEF Hand!Refuse, Hand!Report
          <5>2. "completed" \in Reports /\ "skipped" \in ItemStates
            BY DEF Reports, ItemStates
          <5> QED BY <5>1, <5>2
        <4>2. CASE Hand!Answer(p)
          <5>1. PICK a \in {"applied", "skipped", "manual_challenge", "reconciling"} :
                  /\ a = "applied" => o.pc = "posted"
                  /\ item' = [item EXCEPT ![Hand!Key(p)] = a]
                  /\ cmd' = [cmd EXCEPT ![p].reports = Append(@, IF a = "skipped" THEN "completed" ELSE a),
                                        ![p].pc = "run"]
            BY <4>2 DEF Hand!Answer, Hand!Report
          <5>2. PICK r \in Reports : r = IF a = "skipped" THEN "completed" ELSE a
            BY DEF Reports
          <5>3. a \in ItemStates
            BY DEF ItemStates
          <5>4. r = "applied" => a = "applied"
            BY <5>2
          <5> QED BY <5>1, <5>2, <5>3, <5>4
        <4> QED BY <2>2, <4>1, <4>2
      <3>5. r = "applied" \/ a = "applied" => Reached(hh, Hand!Target(p).v, Hand!Target(p).r)
        BY <1>3, <3>2, <3>4 DEF InOrder
      <3>6. ItemsInOrder'
        <4>1. CASE item' = item
          BY <1>2, <4>1, HandRests
        <4>2. CASE item' = [item EXCEPT ![Hand!Key(p)] = a]
          <5>1. a = "applied" => Reached(hh', Hand!Key(p)[1], Hand!Key(p)[2])
            BY <1>1, <3>2, <3>5
          <5> QED BY <1>2, <3>2, <4>2, <5>1, ItemWritten
        <4> QED BY <3>4, <4>1, <4>2
      <3> DEFINE c == [o EXCEPT !.reports = Append(@, r), !.pc = "run"]
      <3>7. c \in HandCommand /\ InOrder(campaign, plan, hh, c)
        BY <1>3, <3>1, <3>2, <3>3, <3>5, Reported
      <3>8. cmd' = [cmd EXCEPT ![p] = c]
        BY <3>4
      <3> HIDE DEF c
      <3> QED BY <3>6, <3>7, <3>8
    <2> QED BY <2>1, <2>2
  <1>6. PICK c \in HandCommand : cmd' = [cmd EXCEPT ![p] = c] /\ InOrder(campaign, plan, hh, c)
    BY <1>5
  <1>7. InOrder(campaign', plan', hh', c)
    BY <1>1, <1>6
  <1>8. CommandsInOrder'
    BY <1>2, <1>6, <1>7, HandSteps
  <1> QED BY <1>1, <1>2, <1>5, <1>8, HandRests DEF HandInv

\* The letter goes out, and reaches HH.
LEMMA HandSends ==
    ASSUME HandInv, NEW p \in Proc, Hand!Dispatch(p) \/ Hand!Deliver(p)
    PROVE  HandInv'
  <1> DEFINE o == cmd[p]
  <1>1. UNCHANGED <<campaign, plan, listFile, state>>
    BY DEF Hand!Dispatch, Hand!Deliver
  <1>2. o \in HandCommand /\ InOrder(campaign, plan, hh, o)
    BY DEF HandInv, CommandsInOrder
  <1>3. o.pc \in {"held", "posting", "posted"}
    BY DEF Hand!Dispatch, Hand!Deliver
  <1>4. /\ Hand!Key(p) \in Vacancy \X Resume /\ Hand!Target(p) = o.targets[Len(o.reports) + 1]
        /\ Len(o.reports) < Len(o.targets)
    BY <1>2, <1>3, AtTarget DEF InOrder
  <1>5. CASE Hand!Dispatch(p)
    <2>1. hh' = hh
      BY <1>5 DEF Hand!Dispatch
    <2>2. Keeps
      BY <1>1, <2>1 DEF Keeps
    <2>3. LettersTyped' /\ Hand!LetterOf(Hand!Key(p)) \in Bodies
      BY <1>4, <1>5, LettersWritten DEF Hand!Dispatch, HandInv
    <2>4. PICK b \in Bodies : b = Hand!LetterOf(Hand!Key(p))
      BY <2>3
    <2>5. ItemsInOrder'
      <3>1. PICK a \in ItemStates : a = "applying"
        BY DEF ItemStates
      <3>2. item' = [item EXCEPT ![Hand!Key(p)] = a]
        BY <1>5, <3>1 DEF Hand!Dispatch
      <3> QED BY <1>4, <2>2, <3>1, <3>2, ItemWritten
    <2> DEFINE c == [o EXCEPT !.pc = "posting", !.body = b]
    <2>6. /\ c \in HandCommand /\ c.pc = "posting" /\ c.is = o.is /\ c.ref = o.ref /\ c.list = o.list
          /\ c.r = o.r /\ c.targets = o.targets /\ c.reports = o.reports /\ c.row = o.row
      BY <1>2 DEF HandCommand
    <2>7. cmd' = [cmd EXCEPT ![p] = c] /\ o.pc = "held"
      BY <1>5, <2>4 DEF Hand!Dispatch
    <2> HIDE DEF c
    <2>8. InOrder(campaign', plan', hh', c)
      BY <1>1, <1>2, <1>4, <2>1, <2>6, <2>7 DEF InOrder
    <2>9. CommandsInOrder'
      BY <2>2, <2>6, <2>7, <2>8, HandSteps
    <2> QED BY <1>1, <2>2, <2>3, <2>5, <2>9, HandRests DEF HandInv
  <1>6. CASE Hand!Deliver(p)
    <2>1. UNCHANGED <<item, latest>> /\ o.pc = "posting"
      BY <1>6 DEF Hand!Deliver
    <2>2. /\ hh \subseteq hh'
          /\ Reached(hh', Hand!Target(p).v, Hand!Target(p).r)
      <3> DEFINE d == [v |-> Hand!Target(p).v, r |-> Hand!Target(p).r, body |-> o.body, wanted |-> Hand!Target(p).letter]
      <3>1. hh' = hh \cup {d}
        BY <1>6 DEF Hand!Deliver
      <3>2. d.v = Hand!Target(p).v /\ d.r = Hand!Target(p).r
        OBVIOUS
      <3> HIDE DEF d
      <3> QED BY <3>1, <3>2 DEF Reached
    <2>3. Keeps
      BY <1>1, <2>2 DEF Keeps
    <2>4. PICK n \in Nat : n = o.made + 1
      <3>1. o.made \in Nat
        BY <1>2 DEF HandCommand
      <3> QED BY <3>1
    <2> DEFINE c == [o EXCEPT !.pc = "posted", !.made = n]
    <2>5. /\ c \in HandCommand /\ c.pc = "posted" /\ c.is = o.is /\ c.ref = o.ref /\ c.list = o.list
          /\ c.r = o.r /\ c.targets = o.targets /\ c.reports = o.reports /\ c.row = o.row
      BY <1>2 DEF HandCommand
    <2>6. cmd' = [cmd EXCEPT ![p] = c]
      BY <1>6, <2>4 DEF Hand!Deliver
    <2> HIDE DEF c
    <2>7. InOrder(campaign', plan', hh', o)
      BY <1>2, <2>3, HandRests
    <2>8. InOrder(campaign', plan', hh', c)
      BY <1>4, <2>1, <2>2, <2>5, <2>7 DEF InOrder
    <2>9. CommandsInOrder'
      BY <2>3, <2>5, <2>6, <2>8, HandSteps
    <2> QED BY <1>1, <2>1, <2>3, <2>9, HandRests DEF HandInv
  <1> QED BY <1>5, <1>6

\* What a command writes down of a target is never "ready", and "applied" only
\* when HH was reached, by this command or by whoever decided the item since.
LEMMA StatusIsSound ==
    ASSUME HandInv, NEW p \in Proc, NEW i \in DOMAIN cmd[p].targets
    PROVE  /\ Hand!Status(p, i) \in Statuses \ {"none", "ready"}
           /\ Hand!Status(p, i) = "applied" => Reached(hh, cmd[p].targets[i].v, cmd[p].targets[i].r)
  <1> DEFINE o == cmd[p]
             t == o.targets[i]
  <1>1. o \in HandCommand /\ InOrder(campaign, plan, hh, o)
    BY DEF HandInv, CommandsInOrder
  <1>2. o.reports \in Seq(Reports) /\ o.targets \in Seq(Aim)
    BY <1>1 DEF HandCommand
  <1>3. t \in Aim
    BY <1>2, SeqPlaces
  <1>4. \A a \in Aim : a.v \in Vacancy /\ a.r \in Resume
    BY DEF Aim
  <1> HIDE DEF t
  <1>5. /\ item[<<t.v, t.r>>] \in ItemStates
        /\ item[<<t.v, t.r>>] = "applied" => Reached(hh, t.v, t.r)
    BY <1>3, <1>4 DEF HandInv, ItemsInOrder
  <1>6. CASE i <= Hand!Ran(p)
    <2>1. i \in DOMAIN o.reports
      BY <1>2, <1>6 DEF Hand!Ran
    <2>2. PICK r \in Reports : r = o.reports[i]
      BY <1>2, <2>1, SeqPlaces
    <2>3. r = "applied" => Reached(hh, t.v, t.r)
      BY <1>1, <2>1, <2>2 DEF InOrder, t
    <2>4. Hand!Status(p, i) = Hand!Legacy(t, r)
      BY <1>6, <2>2 DEF Hand!Status, t
    <2>5. Hand!Legacy(t, r) \in Statuses \ {"none", "ready"}
      BY <1>5 DEF Hand!Legacy, Statuses, Reports, ItemStates, Hand!None
    <2>6. Hand!Legacy(t, r) = "applied" => Reached(hh, t.v, t.r)
      BY <1>5, <2>3 DEF Hand!Legacy, Reports, Hand!None
    <2> QED BY <2>4, <2>5, <2>6 DEF t
  <1>7. CASE ~(i <= Hand!Ran(p))
    BY <1>7 DEF Hand!Status, Statuses
  <1> QED BY <1>6, <1>7

\* A command writes down what became of its targets.
LEMMA HandWrites ==
    ASSUME HandInv, NEW p \in Proc, Hand!WriteCampaign(p) \/ Hand!WritePlan(p) \/ Hand!WriteFileRow(p)
    PROVE  HandInv'
  <1> DEFINE o == cmd[p]
  <1>1. UNCHANGED <<latest, cached, item, listFile, hh>>
    BY DEF Hand!WriteCampaign, Hand!WritePlan, Hand!WriteFileRow
  <1>2. o \in HandCommand /\ InOrder(campaign, plan, hh, o)
    BY DEF HandInv, CommandsInOrder
  <1>3. o.targets \in Seq(Aim)
    BY <1>2 DEF HandCommand
  <1>4. CASE Hand!WriteCampaign(p)
    <2> DEFINE k == o.ref
               T == o.targets
               R == campaign[k].rows
               At(v) == CHOOSE i \in DOMAIN T : T[i].v = v
               row(v) == IF \E i \in DOMAIN T : T[i].v = v
                           THEN [R[v] EXCEPT !.status = IF Hand!Status(p, At(v)) = "applied" THEN "applied" ELSE "error"]
                           ELSE R[v]
               new == [status |-> "confirmed", rows |-> [v \in Vacancy |-> row(v)]]
    <2>1. campaign' = [campaign EXCEPT ![k] = new] /\ cmd' = [cmd EXCEPT ![p] = Hand!Idle]
      BY <1>4 DEF Hand!WriteCampaign
    <2>2. UNCHANGED <<plan, state>> /\ o.is = "campaign"
      BY <1>4 DEF Hand!WriteCampaign
    <2>3. /\ k \in Campaign /\ campaign[k].status # "none"
          /\ \A i \in DOMAIN T : R[T[i].v].r = T[i].r
      BY <1>2, <2>2 DEF InOrder
    <2>4. ASSUME NEW v \in Vacancy
          PROVE  /\ row(v) \in TableRow /\ row(v).r = R[v].r
                 /\ row(v).status = "ready" => row(v) \in Aim /\ row(v).v = v
                 /\ row(v).status = "applied" => Reached(hh, v, row(v).r)
      <3>1. /\ R[v] \in TableRow
            /\ R[v].status = "ready" => R[v] \in Aim /\ R[v].v = v
            /\ R[v].status = "applied" => Reached(hh, v, R[v].r)
        BY <2>3 DEF HandInv, CampaignsInOrder
      <3>2. CASE \E i \in DOMAIN T : T[i].v = v
        <4>1. PICK i : i = At(v)
          OBVIOUS
        <4>2. i \in DOMAIN T /\ T[i].v = v
          BY <3>2, <4>1
        <4>3. PICK s \in {"applied", "error"} : s = IF Hand!Status(p, i) = "applied" THEN "applied" ELSE "error"
          OBVIOUS
        <4>4. s = "applied" => Reached(hh, v, R[v].r)
          BY <2>3, <4>2, <4>3, StatusIsSound
        <4>5. row(v) = [R[v] EXCEPT !.status = s]
          BY <3>2, <4>1, <4>3
        <4>6. /\ [R[v] EXCEPT !.status = s] \in TableRow
              /\ [R[v] EXCEPT !.status = s].r = R[v].r /\ [R[v] EXCEPT !.status = s].status = s
          <5>1. PICK x \in TableRow : x = R[v]
            BY <3>1
          <5>2. s \in Statuses
            BY DEF Statuses, ItemStates
          <5>3. /\ [x EXCEPT !.status = s] \in TableRow
                /\ [x EXCEPT !.status = s].r = x.r /\ [x EXCEPT !.status = s].status = s
            BY <5>2 DEF TableRow
          <5> QED BY <5>1, <5>3
        <4> HIDE DEF row
        <4> QED BY <4>4, <4>5, <4>6
      <3>3. CASE ~ \E i \in DOMAIN T : T[i].v = v
        BY <3>1, <3>3
      <3> QED BY <3>2, <3>3
    <2> HIDE DEF row, R
    <2>5. /\ new \in [status : {"none", "planned", "confirmed"}, rows : [Vacancy -> TableRow]]
          /\ new.status = "confirmed" /\ \A v \in Vacancy : new.rows[v] = row(v)
      BY <2>4
    <2> HIDE DEF new
    <2>6. campaign' \in [Campaign -> [status : {"none", "planned", "confirmed"}, rows : [Vacancy -> TableRow]]]
      BY <2>1, <2>5 DEF HandInv, CampaignsInOrder
    <2>7. /\ campaign'[k] = new
          /\ \A u \in Campaign : u # k => campaign'[u] = campaign[u]
      BY <2>1, <2>3 DEF HandInv, CampaignsInOrder
    <2>8. Keeps
      <3>1. \A u \in Campaign : campaign[u].status # "none" =>
              /\ campaign'[u].status # "none"
              /\ \A v \in Vacancy : campaign'[u].rows[v].r = campaign[u].rows[v].r
        BY <2>4, <2>5, <2>7 DEF R
      <3> QED BY <1>1, <2>2, <3>1 DEF Keeps
    <2>9. CampaignsInOrder'
      <3>1. ASSUME NEW u \in Campaign, NEW v \in Vacancy
            PROVE  /\ campaign'[u].rows[v].status = "ready" =>
                        campaign'[u].rows[v] \in Aim /\ campaign'[u].rows[v].v = v
                   /\ campaign'[u].rows[v].status = "applied" => Reached(hh', v, campaign'[u].rows[v].r)
        <4>1. CASE u = k
          BY <1>1, <2>4, <2>5, <2>7, <4>1
        <4>2. CASE u # k
          BY <1>1, <2>7, <4>2 DEF HandInv, CampaignsInOrder
        <4> QED BY <4>1, <4>2
      <3> QED BY <2>6, <3>1 DEF CampaignsInOrder
    <2>10. CommandsInOrder'
      BY <2>1, <2>8, IdleInOrder, HandSteps
    <2> QED BY <1>1, <2>2, <2>8, <2>9, <2>10, HandRests DEF HandInv
  <1>5. CASE Hand!WritePlan(p)
    <2>1. UNCHANGED <<campaign, state>> /\ o.is = "plan"
      BY <1>5 DEF Hand!WritePlan
    <2>2. /\ o.ref \in Plan /\ plan[o.ref].status # "none" /\ 1 \in DOMAIN o.targets
          /\ plan[o.ref].v = o.targets[1].v /\ plan[o.ref].r = o.targets[1].r
      BY <1>2, <1>3, <2>1 DEF InOrder
    <2>3. PICK s \in Statuses \ {"none", "ready"} : s = Hand!Status(p, 1)
      BY <2>2, StatusIsSound
    <2>4. s = "applied" => Reached(hh, plan[o.ref].v, plan[o.ref].r)
      BY <2>2, <2>3, StatusIsSound
    <2>5. plan' = [plan EXCEPT ![o.ref].status = s] /\ cmd' = [cmd EXCEPT ![p] = Hand!Idle]
      BY <1>5, <2>3 DEF Hand!WritePlan
    <2>6. /\ plan' \in [Plan -> TableRow]
          /\ \A k \in Plan : /\ plan'[k].v = plan[k].v /\ plan'[k].r = plan[k].r
                             /\ k = o.ref => plan'[k].status = s
                             /\ k # o.ref => plan'[k] = plan[k]
      BY <2>3, <2>5 DEF HandInv, PlansInOrder, TableRow
    <2>7. Keeps
      BY <1>1, <2>1, <2>3, <2>6 DEF Keeps
    <2>8. PlansInOrder'
      BY <1>1, <2>3, <2>4, <2>6 DEF HandInv, PlansInOrder
    <2>9. CommandsInOrder'
      BY <2>5, <2>7, IdleInOrder, HandSteps
    <2> QED BY <1>1, <2>1, <2>7, <2>8, <2>9, HandRests DEF HandInv
  <1>6. CASE Hand!WriteFileRow(p)
    <2>1. UNCHANGED <<campaign, plan>> /\ o.is = "file" /\ o.pc = "run"
      BY <1>6 DEF Hand!WriteFileRow
    <2>2. 1 \in DOMAIN o.targets /\ o.targets[1] \in Aim
      <3>1. Len(o.targets) = 1
        BY <1>2, <2>1 DEF InOrder
      <3> QED BY <1>3, <3>1, SeqPlaces
    <2>3. PICK s \in Statuses : s = Hand!Status(p, 1)
      BY <2>2, StatusIsSound
    <2> DEFINE w == [o.targets[1] EXCEPT !.status = s]
    <2>4. w \in TableRow /\ w.status = s /\ w.v = o.targets[1].v /\ w.r = o.targets[1].r
      BY <2>2 DEF TableRow, Aim
    <2>5. state' = [state EXCEPT ![o.row] = w]
      BY <1>6, <2>3 DEF Hand!WriteFileRow
    <2> HIDE DEF w
    <2>6. s = "applied" => Reached(hh, o.targets[1].v, o.targets[1].r)
      BY <2>2, <2>3, StatusIsSound
    <2>7. StateInOrder'
      BY <1>1, <2>4, <2>5, <2>6 DEF HandInv, StateInOrder
    <2>8. Keeps
      BY <1>1, <2>1 DEF Keeps
    <2>9. PICK m \in Nat, n \in Nat : m = o.row + 1 /\ n = IF s = "applied" THEN o.count + 1 ELSE o.count
      <3>1. o.row \in Nat /\ o.count \in Nat
        BY <1>2 DEF HandCommand
      <3> QED BY <3>1
    <2> DEFINE c == [o EXCEPT !.row = m, !.pc = "row", !.count = n]
    <2>10. /\ c \in HandCommand /\ c.pc = "row" /\ c.is = o.is /\ c.ref = o.ref /\ c.list = o.list
           /\ c.r = o.r /\ c.targets = o.targets /\ c.reports = o.reports
      BY <1>2 DEF HandCommand
    <2>11. cmd' = [cmd EXCEPT ![p] = c]
      BY <1>6, <2>3, <2>9 DEF Hand!WriteFileRow
    <2> HIDE DEF c
    <2>12. InOrder(campaign', plan', hh', c)
      BY <1>1, <1>2, <2>1, <2>10 DEF InOrder
    <2>13. CommandsInOrder'
      BY <2>8, <2>10, <2>11, <2>12, HandSteps
    <2> QED BY <1>1, <2>1, <2>7, <2>8, <2>13, HandRests DEF HandInv
  <1> QED BY <1>4, <1>5, <1>6

\* The autopilot works on its own.
LEMMA HandAlone ==
    ASSUME HandInv, Hand!Autopilot PROVE HandInv'
  <1>1. UNCHANGED <<campaign, plan, listFile, state, cmd>> /\ hh \subseteq hh'
    BY DEF Hand!Autopilot
  <1>2. Keeps
    BY <1>1 DEF Keeps
  <1>3. PICK t \in Vacancy \X Resume :
          /\ Hand!Rendered(t) \/ UNCHANGED latest
          /\ \/ UNCHANGED item
             \/ \E a \in ItemStates : item' = [item EXCEPT ![t] = a] /\ (a = "applied" => Reached(hh', t[1], t[2]))
    <2>1. DOMAIN item = Vacancy \X Resume
      BY DEF HandInv, ItemsInOrder
    <2>2. PICK t \in Vacancy \X Resume :
         \/ Hand!Rendered(t) /\ UNCHANGED <<item, hh>>
         \/ /\ Hand!Rendered(t)
            /\ hh' = hh \cup {[v |-> t[1], r |-> t[2], body |-> Hand!LetterOf(t), wanted |-> Hand!None]}
            /\ \E a \in {"applied", "reconciling"} : item' = [item EXCEPT ![t] = a]
         \/ /\ item' = [item EXCEPT ![t] = IF Hand!Delivered(t[1], t[2]) THEN "applied" ELSE "absent"]
            /\ UNCHANGED <<latest, hh>>
      BY <2>1 DEF Hand!Autopilot
    <2>3. CASE Hand!Rendered(t) /\ UNCHANGED <<item, hh>>
      BY <2>3
    <2>4. CASE /\ Hand!Rendered(t)
               /\ hh' = hh \cup {[v |-> t[1], r |-> t[2], body |-> Hand!LetterOf(t), wanted |-> Hand!None]}
               /\ \E a \in {"applied", "reconciling"} : item' = [item EXCEPT ![t] = a]
      <3> DEFINE d == [v |-> t[1], r |-> t[2], body |-> Hand!LetterOf(t), wanted |-> Hand!None]
      <3>1. d.v = t[1] /\ d.r = t[2] /\ hh' = hh \cup {d}
        BY <2>4
      <3> HIDE DEF d
      <3>2. Reached(hh', t[1], t[2])
        BY <3>1 DEF Reached
      <3>3. \A a \in {"applied", "reconciling"} : a \in ItemStates
        BY DEF ItemStates
      <3> QED BY <2>4, <3>2, <3>3
    <2>5. CASE /\ item' = [item EXCEPT ![t] = IF Hand!Delivered(t[1], t[2]) THEN "applied" ELSE "absent"]
               /\ UNCHANGED <<latest, hh>>
      <3>1. PICK a \in ItemStates : a = IF Hand!Delivered(t[1], t[2]) THEN "applied" ELSE "absent"
        BY DEF ItemStates
      <3>2. a = "applied" => Reached(hh', t[1], t[2])
        BY <2>5, <3>1 DEF Hand!Delivered, Reached
      <3> QED BY <2>5, <3>1, <3>2
    <2> QED BY <2>2, <2>3, <2>4, <2>5
  <1>4. LettersTyped'
    BY <1>3, LettersWritten DEF HandInv, LettersTyped
  <1>5. ItemsInOrder'
    BY <1>2, <1>3, HandRests, ItemWritten
  <1> QED BY <1>1, <1>2, <1>4, <1>5, HandRests, HandWaits DEF HandInv

LEMMA HandInductive ==
    ASSUME Hand!ManualAssumption, HandInv, [Hand!Next]_Hand!vars PROVE HandInv'
  <1>1. CASE UNCHANGED Hand!vars
    <2>1. UNCHANGED <<latest, item, campaign, plan, listFile, state, cmd, hh>>
      BY <1>1 DEF Hand!vars
    <2>2. Keeps
      BY <2>1 DEF Keeps
    <2> QED BY <2>1, <2>2, HandRests, HandWaits DEF HandInv
  <1>2. CASE \E p \in Proc : Hand!Command(p)
    BY <1>2, HandBegins, HandRows, HandReports, HandSends, HandWrites DEF Hand!Command
  <1> QED BY <1>1, <1>2, HandPlans, HandAlone DEF Hand!Next

\* What the operator's commands record as applied (services.py, apply plans,
\* campaigns and lists in a file) HH has an application for, with that resume,
\* whatever dies, is lost or is decided by other runs in between.
THEOREM ConfirmedApplicationsAreReal ==
    ASSUME Hand!ManualAssumption PROVE Hand!Spec => []Hand!AppliedIsReal
  <1>1. HandInv /\ [Hand!Next]_Hand!vars => HandInv'
    BY HandInductive
  <1>2. HandInv => Hand!AppliedIsReal
    BY DEF HandInv, CampaignsInOrder, PlansInOrder, StateInOrder, Hand!AppliedIsReal, Hand!Delivered, Reached
  <1> QED BY <1>1, <1>2, HandStarts, PTL DEF Hand!Spec

\* While the file is not edited, a row that was applied has the vacancy that
\* the file has there, and what was passed over had been applied to.
RowsInOrder ==
    /\ \A k \in Hand!Rows : state[k].status = "applied" =>
         state[k].r \in Resume /\ state[k].v = listFile[k]
    /\ Hand!ProcessedRowIsSent
LEMMA RowsKept ==
    ASSUME Hand!ManualAssumption, \A l, m \in Lists : l = m, HandInv, RowsInOrder, [Hand!Next]_Hand!vars
    PROVE  RowsInOrder'
  <1>1. hh \subseteq hh'
    BY DEF Hand!Next, Hand!vars, Hand!Draft, Hand!PlanCampaign, Hand!PreparePlan, Hand!EditFile, Hand!DryRun,
           Hand!Autopilot, Hand!Command, Hand!ConfirmCampaign, Hand!ConfirmPlan, Hand!RunFile, Hand!FileRow,
           Hand!EndFile, Hand!SaveLetters, Hand!StartRun, Hand!Refuse, Hand!Dispatch, Hand!Deliver, Hand!Answer,
           Hand!WriteCampaign, Hand!WritePlan, Hand!WriteFileRow, Hand!Die
  <1>2. listFile \in Lists /\ listFile' \in Lists /\ listFile' = listFile
    <2>1. HandInv'
      BY HandInductive
    <2> QED BY <2>1 DEF HandInv, StateInOrder
  <1>3. \A v \in skipped : \E r \in Resume : Reached(hh', v, r)
    BY <1>1 DEF RowsInOrder, Hand!ProcessedRowIsSent, Hand!Delivered, Reached
  <1>4. CASE UNCHANGED <<state, skipped>>
    BY <1>2, <1>3, <1>4 DEF RowsInOrder, Hand!ProcessedRowIsSent, Hand!Delivered, Reached
  <1>5. CASE Hand!DryRun
    <2>1. UNCHANGED skipped /\ \A k \in Hand!Rows : state'[k].status = "applied" => state'[k] = state[k]
      <3>1. PICK r \in Resume :
              state' = [k \in Hand!Rows |-> IF k \in DOMAIN listFile /\ k <= FileLimit
                          THEN [v |-> listFile[k], r |-> r, letter |-> Hand!None, status |-> "planned"] ELSE state[k]]
        BY <1>5 DEF Hand!DryRun
      <3> QED BY <1>5, <3>1 DEF Hand!DryRun
    <2> QED BY <1>2, <1>3, <2>1 DEF RowsInOrder, Hand!ProcessedRowIsSent, Hand!Delivered, Reached
  <1>6. ASSUME NEW p \in Proc, Hand!FileRow(p) PROVE RowsInOrder'
    <2> DEFINE o == cmd[p]
               k == o.row
    <2>1. UNCHANGED state
      BY <1>6 DEF Hand!FileRow
    <2>2. /\ k \in DOMAIN o.list /\ o.pc = "row"
          /\ UNCHANGED skipped \/ (state[k].status = "applied" /\ skipped' = skipped \cup {o.list[k]})
      BY <1>6 DEF Hand!FileRow, Hand!Rest, Hand!Processed
    <2>3. o.list \in Lists
      BY <2>2 DEF HandInv, CommandsInOrder, InOrder
    <2>4. o.list = listFile /\ k \in Hand!Rows
      BY <1>2, <2>2, <2>3 DEF Hand!ManualAssumption
    <2>5. state[k].status = "applied" => Reached(hh, o.list[k], state[k].r) /\ state[k].r \in Resume
      BY <2>4 DEF RowsInOrder, HandInv, StateInOrder
    <2>6. \A v \in skipped' : \E r \in Resume : Reached(hh', v, r)
      BY <1>1, <1>3, <2>2, <2>5 DEF Reached
    <2> QED BY <1>2, <2>1, <2>6 DEF RowsInOrder, Hand!ProcessedRowIsSent, Hand!Delivered, Reached
  <1>7. ASSUME NEW p \in Proc, Hand!WriteFileRow(p) PROVE RowsInOrder'
    <2> DEFINE o == cmd[p]
    <2>1. UNCHANGED skipped /\ o.is = "file" /\ o.pc = "run"
      BY <1>7 DEF Hand!WriteFileRow
    <2>2. o \in HandCommand /\ InOrder(campaign, plan, hh, o)
      BY DEF HandInv, CommandsInOrder
    <2>3. o.list \in Lists /\ Len(o.targets) = 1 /\ o.targets[1].v = o.list[o.row]
      BY <2>1, <2>2 DEF InOrder
    <2>4. o.targets[1] \in Aim
      <3>1. o.targets \in Seq(Aim)
        BY <2>2 DEF HandCommand
      <3> QED BY <2>3, <3>1, SeqPlaces
    <2> DEFINE w == [o.targets[1] EXCEPT !.status = Hand!Status(p, 1)]
    <2>5. w.v = listFile[o.row] /\ w.r \in Resume
      BY <1>2, <2>3, <2>4 DEF Aim
    <2>6. state' = [state EXCEPT ![o.row] = w]
      BY <1>7 DEF Hand!WriteFileRow
    <2> HIDE DEF w
    <2>7. \A j \in Hand!Rows : state'[j] = state[j] \/ (j = o.row /\ state'[j] = w)
      BY <2>6 DEF HandInv, StateInOrder
    <2> QED BY <1>2, <1>3, <2>1, <2>5, <2>7 DEF RowsInOrder, Hand!ProcessedRowIsSent, Hand!Delivered, Reached
  <1>8. UNCHANGED <<state, skipped>> \/ Hand!DryRun \/ \E p \in Proc : Hand!FileRow(p) \/ Hand!WriteFileRow(p)
    BY DEF Hand!Next, Hand!vars, Hand!Draft, Hand!PlanCampaign, Hand!PreparePlan, Hand!EditFile,
           Hand!Autopilot, Hand!Command, Hand!ConfirmCampaign, Hand!ConfirmPlan, Hand!RunFile,
           Hand!EndFile, Hand!SaveLetters, Hand!StartRun, Hand!Refuse, Hand!Dispatch, Hand!Deliver, Hand!Answer,
           Hand!WriteCampaign, Hand!WritePlan, Hand!Die
  <1> QED BY <1>4, <1>5, <1>6, <1>7, <1>8

\* As long as the file stays as it is, a row that is passed over as processed
\* (_apply_hh_from_file_row) names a vacancy that was applied to.
THEOREM PassedOverWasSent ==
    ASSUME Hand!ManualAssumption, \A l, m \in Lists : l = m
    PROVE  Hand!Spec => []Hand!ProcessedRowIsSent
  <1>1. Hand!Init => RowsInOrder
    BY DEF Hand!Init, RowsInOrder, Hand!ProcessedRowIsSent, Hand!Nothing, Hand!None
  <1>2. HandInv /\ [Hand!Next]_Hand!vars => HandInv'
    BY HandInductive
  <1>3. HandInv /\ RowsInOrder /\ [Hand!Next]_Hand!vars => RowsInOrder'
    BY RowsKept
  <1>4. RowsInOrder => Hand!ProcessedRowIsSent
    BY DEF RowsInOrder
  <1> QED BY <1>1, <1>2, <1>3, <1>4, HandStarts, PTL DEF Hand!Spec

\* A command names a vacancy in one target only.
Distinct(c) == \A i, j \in DOMAIN c.targets : c.targets[i].v = c.targets[j].v => i = j
DistinctTargets == \A p \in Proc : Distinct(cmd[p])

\* A command c that has saved its letters finds them in L as it saved them,
\* and the one on its way is the one that was confirmed.
Told(L, c) ==
    /\ c.pc \in {"run", "held", "posting", "posted"} =>
         \A i \in DOMAIN c.targets : c.targets[i].letter # "none" =>
            L[c.targets[i].v] = [by |-> "manual-confirmation", r |-> c.targets[i].r, body |-> c.targets[i].letter]
    /\ c.pc \in {"posting", "posted"} =>
         LET t == c.targets[Len(c.reports) + 1] IN t.letter # "none" => c.body = t.letter

\* A step of p, which is at c afterwards, sends the letter that was confirmed
\* and leaves the letters of its other targets alone.
StepTells(p, c) ==
    /\ cmd' = [cmd EXCEPT ![p] = c] /\ Told(latest', c)
    /\ cmd[p].pc # "idle" \/ Hand!Quiet
    /\ \A d \in hh' \ hh : d.wanted # "none" => d.body = d.wanted

LEMMA IdleIsTold == Distinct(Hand!Idle) /\ \A L : Told(L, Hand!Idle)
  BY DEF Distinct, Told, Hand!Idle, Hand!None

LEMMA CommandTells ==
    ASSUME Hand!ManualAssumption, HandInv, NEW p \in Proc, Hand!Command(p),
           Distinct(cmd[p]), Told(latest, cmd[p])
    PROVE  \E c : StepTells(p, c)
  <1> DEFINE o == cmd[p]
  <1>1. o \in HandCommand /\ InOrder(campaign, plan, hh, o) /\ Told(latest, o)
    BY DEF HandInv, CommandsInOrder
  <1>2. o.targets \in Seq(Aim) /\ o.reports \in Seq(Reports) /\ \A a \in Aim : a.v \in Vacancy /\ a.r \in Resume
    BY <1>1 DEF HandCommand, Aim
  <1>3. CASE Hand!ConfirmCampaign(p) \/ Hand!ConfirmPlan(p) \/ Hand!RunFile(p)
    <2>1. Hand!Quiet /\ UNCHANGED hh
      BY <1>3 DEF Hand!ConfirmCampaign, Hand!ConfirmPlan, Hand!RunFile, Hand!Begin
    <2>2. PICK c : cmd' = [cmd EXCEPT ![p] = c] /\ Told(latest', c)
      <3>1. CASE Hand!ConfirmCampaign(p)
        <4>1. PICK k \in Campaign : cmd' = [cmd EXCEPT ![p] = Begun("campaign", k, "letters", Hand!ReadyRows(k))]
          BY <3>1 DEF Hand!ConfirmCampaign, Hand!Begin, Begun
        <4>2. PICK T \in Seq(Aim) :
                T = Hand!ReadyRows(k) /\ \A i, j \in DOMAIN T : T[i].v = T[j].v => i = j
          BY ReadyRowsAreAims
        <4> DEFINE c == Begun("campaign", k, "letters", T)
        <4>3. c.pc = "letters" /\ c.targets = T
          BY CommandBegun
        <4> HIDE DEF c
        <4>4. Told(latest', c)
          BY <4>2, <4>3 DEF Told
        <4> QED BY <4>1, <4>2, <4>4 DEF c
      <3>2. CASE Hand!ConfirmPlan(p)
        <4>1. PICK k \in Plan : plan[k].status = "ready" /\ cmd' = [cmd EXCEPT ![p] = Begun("plan", k, "letters", <<plan[k]>>)]
          BY <3>2 DEF Hand!ConfirmPlan, Hand!Begin, Begun
        <4>2. PICK T \in Seq(Aim) : T = <<plan[k]>>
          <5>1. plan[k] \in Aim
            BY <4>1 DEF HandInv, PlansInOrder
          <5>2. <<plan[k]>> \in Seq(Aim)
            BY <5>1
          <5> QED BY <5>2, Zenon
        <4> DEFINE c == Begun("plan", k, "letters", T)
        <4>3. c.pc = "letters" /\ c.targets = T
          BY CommandBegun
        <4>4. \A i, j \in DOMAIN T : i = j
          BY <4>2
        <4> HIDE DEF c
        <4>5. Told(latest', c)
          BY <4>3, <4>4 DEF Told
        <4> QED BY <4>1, <4>2, <4>5 DEF c
      <3>3. CASE Hand!RunFile(p)
        <4>1. PICK r \in Resume : cmd' = [cmd EXCEPT ![p] = BegunFile(listFile, r)]
          BY <3>3 DEF Hand!RunFile, Hand!Begin, BegunFile
        <4>2. listFile \in Seq(Vacancy)
          BY DEF HandInv, StateInOrder, Hand!ManualAssumption
        <4> DEFINE c == BegunFile(listFile, r)
        <4>3. c.pc = "row" /\ c.targets = <<>>
          BY <4>2, FileBegun
        <4> HIDE DEF c
        <4>4. Told(latest', c)
          BY <4>3 DEF Told
        <4> QED BY <4>1, <4>4 DEF c
      <3> QED BY <1>3, <3>1, <3>2, <3>3
    <2> QED BY <2>1, <2>2 DEF StepTells
  <1>4. CASE Hand!EndFile(p) \/ Hand!Die(p) \/ Hand!WriteCampaign(p) \/ Hand!WritePlan(p)
    <2>1. cmd' = [cmd EXCEPT ![p] = Hand!Idle] /\ UNCHANGED hh
      BY <1>4 DEF Hand!EndFile, Hand!Die, Hand!WriteCampaign, Hand!WritePlan
    <2>2. o.pc # "idle"
      BY <1>1, <1>4 DEF Hand!EndFile, Hand!Die, Hand!WriteCampaign, Hand!WritePlan, InOrder
    <2> QED BY <2>1, <2>2, IdleIsTold DEF StepTells
  <1>5. CASE Hand!FileRow(p) \/ Hand!WriteFileRow(p)
    <2>1. UNCHANGED hh /\ o.pc \in {"row", "run"}
      BY <1>5 DEF Hand!FileRow, Hand!WriteFileRow
    <2>2. PICK c : /\ cmd' = [cmd EXCEPT ![p] = c] /\ c.pc \in {"row", "letters"}
                   /\ c.targets = o.targets \/ DOMAIN c.targets = {1}
      <3>1. CASE Hand!WriteFileRow(p)
        <4>1. PICK m, n : cmd' = [cmd EXCEPT ![p].row = m, ![p].pc = "row", ![p].count = n]
          BY <3>1 DEF Hand!WriteFileRow
        <4> DEFINE c == [o EXCEPT !.row = m, !.pc = "row", !.count = n]
        <4>2. cmd' = [cmd EXCEPT ![p] = c]
          BY <4>1
        <4>3. c.pc = "row" /\ c.targets = o.targets
          BY <1>1 DEF HandCommand
        <4> HIDE DEF c
        <4> QED BY <4>2, <4>3
      <3>2. CASE Hand!FileRow(p) /\ \E m : cmd' = [cmd EXCEPT ![p].row = m]
        <4>1. PICK m : cmd' = [cmd EXCEPT ![p].row = m]
          BY <3>2
        <4> DEFINE c == [o EXCEPT !.row = m]
        <4>2. cmd' = [cmd EXCEPT ![p] = c]
          BY <4>1
        <4>3. c.pc = "row" /\ c.targets = o.targets
          BY <1>1, <3>2 DEF HandCommand, Hand!FileRow
        <4> HIDE DEF c
        <4> QED BY <4>2, <4>3
      <3>3. CASE \E t, rs : cmd' = [cmd EXCEPT ![p].pc = "letters", ![p].reports = rs, ![p].targets = <<t>>]
        <4>1. PICK t, rs : cmd' = [cmd EXCEPT ![p].pc = "letters", ![p].reports = rs, ![p].targets = <<t>>]
          BY <3>3
        <4>2. PICK T : T = <<t>>
          OBVIOUS
        <4>3. DOMAIN T = {1}
          BY <4>2
        <4> DEFINE c == [o EXCEPT !.pc = "letters", !.reports = rs, !.targets = T]
        <4>4. cmd' = [cmd EXCEPT ![p] = c]
          BY <4>1, <4>2
        <4>5. c.pc = "letters" /\ c.targets = T
          BY <1>1 DEF HandCommand
        <4> HIDE DEF c
        <4> QED BY <4>3, <4>4, <4>5
      <3> QED BY <1>5, <3>1, <3>2, <3>3 DEF Hand!FileRow
    <2>3. Told(latest', c)
      BY <1>1, <2>2 DEF Told
    <2> QED BY <2>1, <2>2, <2>3 DEF StepTells
  <1>6. CASE Hand!SaveLetters(p)
    <2> DEFINE T == o.targets
    <2>1. o.pc = "letters" /\ latest' = Hand!SavedLetters(T) /\ UNCHANGED hh
      BY <1>6 DEF Hand!SaveLetters
    <2>2. \A i, j \in DOMAIN T : T[i].v = T[j].v => i = j
      BY DEF Distinct
    <2>3. ASSUME NEW i \in DOMAIN T, T[i].letter # "none"
          PROVE  latest'[T[i].v] = [by |-> "manual-confirmation", r |-> T[i].r, body |-> T[i].letter]
      <3>1. PICK j : j = CHOOSE m \in DOMAIN T : T[m].v = T[i].v
        OBVIOUS
      <3>2. j = i
        BY <2>2, <3>1
      <3>3. T[i].v \in Vacancy
        BY <1>2, SeqPlaces
      <3> QED BY <2>1, <2>3, <3>1, <3>2, <3>3 DEF Hand!SavedLetters, Hand!None
    <2> DEFINE c == [o EXCEPT !.pc = "run"]
    <2>4. cmd' = [cmd EXCEPT ![p] = c]
      BY <1>6 DEF Hand!SaveLetters
    <2>5. c.pc = "run" /\ c.targets = T
      BY <1>1 DEF HandCommand
    <2> HIDE DEF c
    <2>6. Told(latest', c)
      BY <2>2, <2>3, <2>5 DEF Told
    <2> QED BY <2>1, <2>4, <2>6 DEF StepTells
  <1>7. CASE Hand!StartRun(p) \/ Hand!Refuse(p) \/ Hand!Answer(p)
    <2>1. UNCHANGED <<latest, hh>> /\ o.pc \in {"run", "held", "posting", "posted"}
      BY <1>7 DEF Hand!StartRun, Hand!Refuse, Hand!Answer
    <2>2. PICK c : cmd' = [cmd EXCEPT ![p] = c] /\ c.pc \in {"run", "held"} /\ c.targets = o.targets
      <3>1. CASE \E r : Hand!Report(p, r)
        <4>1. PICK r : cmd' = [cmd EXCEPT ![p].reports = Append(@, r), ![p].pc = "run"]
          BY <3>1 DEF Hand!Report
        <4>2. PICK rs : rs = Append(o.reports, r)
          OBVIOUS
        <4> DEFINE c == [o EXCEPT !.reports = rs, !.pc = "run"]
        <4>3. cmd' = [cmd EXCEPT ![p] = c]
          BY <4>1, <4>2
        <4>4. c.pc = "run" /\ c.targets = o.targets
          BY <1>1 DEF HandCommand
        <4> HIDE DEF c
        <4> QED BY <4>3, <4>4
      <3>2. CASE cmd' = [cmd EXCEPT ![p].pc = "held"]
        <4> DEFINE c == [o EXCEPT !.pc = "held"]
        <4>1. cmd' = [cmd EXCEPT ![p] = c]
          BY <3>2
        <4>2. c.pc = "held" /\ c.targets = o.targets
          BY <1>1 DEF HandCommand
        <4> HIDE DEF c
        <4> QED BY <4>1, <4>2
      <3> QED BY <1>7, <3>1, <3>2 DEF Hand!StartRun, Hand!Refuse, Hand!Answer
    <2>3. Told(latest', c)
      BY <1>1, <2>1, <2>2 DEF Told
    <2> QED BY <2>1, <2>2, <2>3 DEF StepTells
  <1>8. CASE Hand!Dispatch(p)
    <2> DEFINE T == o.targets
               n == Len(o.reports) + 1
    <2>1. o.pc = "held" /\ UNCHANGED hh /\ Hand!Rendered(Hand!Key(p))
      BY <1>8 DEF Hand!Dispatch
    <2>2. n \in DOMAIN T /\ T[n] \in Aim
      <3>1. Len(o.reports) < Len(o.targets)
        BY <1>1, <2>1 DEF InOrder
      <3>2. n \in DOMAIN T
        BY <1>2, <3>1
      <3> QED BY <1>2, <3>2, SeqPlaces
    <2> HIDE DEF n
    <2>3. Hand!Key(p) = <<T[n].v, T[n].r>>
      BY <2>1, AtTarget DEF n
    <2>4. T[n].letter # "none" => Hand!LetterOf(Hand!Key(p)) = T[n].letter /\ UNCHANGED latest
      <3> SUFFICES ASSUME T[n].letter # "none" PROVE Hand!LetterOf(Hand!Key(p)) = T[n].letter /\ UNCHANGED latest
        OBVIOUS
      <3>1. latest[T[n].v] = [by |-> "manual-confirmation", r |-> T[n].r, body |-> T[n].letter]
        BY <1>1, <2>1, <2>2 DEF Told
      <3>2. /\ latest[T[n].v].by = "manual-confirmation" /\ latest[T[n].v].r = T[n].r
            /\ latest[T[n].v].body = T[n].letter
        BY <3>1
      <3>3. Hand!Key(p)[1] = T[n].v /\ Hand!Key(p)[2] = T[n].r
        BY <2>3
      <3>4. Hand!TakesLatest(Hand!Key(p))
        BY <3>2, <3>3 DEF Hand!TakesLatest
      <3> QED BY <2>1, <3>2, <3>3, <3>4 DEF Hand!LetterOf, Hand!Rendered
    <2>5. \A v \in Vacancy : v # T[n].v => latest'[v] = latest[v]
      BY <2>1, <2>3 DEF Hand!Rendered, HandInv, LettersTyped
    <2>6. ASSUME NEW i \in DOMAIN T, T[i].letter # "none"
          PROVE  latest'[T[i].v] = [by |-> "manual-confirmation", r |-> T[i].r, body |-> T[i].letter]
      <3>1. latest[T[i].v] = [by |-> "manual-confirmation", r |-> T[i].r, body |-> T[i].letter]
        BY <1>1, <2>1, <2>6 DEF Told
      <3>2. T[i].v \in Vacancy
        BY <1>2, SeqPlaces
      <3>3. CASE T[i].v = T[n].v
        <4>1. i = n
          BY <2>2, <3>3 DEF Distinct
        <4> QED BY <2>4, <2>6, <3>1, <4>1
      <3>4. CASE T[i].v # T[n].v
        BY <2>5, <3>1, <3>2, <3>4
      <3> QED BY <3>3, <3>4
    <2> DEFINE c == [o EXCEPT !.pc = "posting", !.body = Hand!LetterOf(Hand!Key(p))]
    <2>7. cmd' = [cmd EXCEPT ![p] = c]
      BY <1>8 DEF Hand!Dispatch
    <2>8. /\ c.pc = "posting" /\ c.targets = T /\ c.reports = o.reports
          /\ c.body = Hand!LetterOf(Hand!Key(p))
      BY <1>1 DEF HandCommand
    <2> HIDE DEF c
    <2>9. \A i, j \in DOMAIN T : T[i].v = T[j].v => i = j
      BY DEF Distinct
    <2>10. Told(latest', c)
      <3>1. T[Len(c.reports) + 1].letter # "none" => c.body = T[Len(c.reports) + 1].letter
        BY <2>4, <2>8 DEF n
      <3> QED BY <2>6, <2>8, <2>9, <3>1 DEF Told
    <2> QED BY <2>1, <2>7, <2>10 DEF StepTells
  <1>9. CASE Hand!Deliver(p)
    <2> DEFINE d == [v |-> Hand!Target(p).v, r |-> Hand!Target(p).r, body |-> o.body, wanted |-> Hand!Target(p).letter]
    <2>1. o.pc = "posting" /\ UNCHANGED latest /\ hh' = hh \cup {d}
      BY <1>9 DEF Hand!Deliver
    <2>2. Hand!Target(p) = o.targets[Len(o.reports) + 1]
      BY <2>1, AtTarget
    <2>3. d.wanted # "none" => d.body = d.wanted
      BY <1>1, <2>1, <2>2 DEF Told
    <2> HIDE DEF d
    <2>4. PICK m : cmd' = [cmd EXCEPT ![p].pc = "posted", ![p].made = m]
      BY <1>9 DEF Hand!Deliver
    <2> DEFINE c == [o EXCEPT !.pc = "posted", !.made = m]
    <2>5. cmd' = [cmd EXCEPT ![p] = c]
      BY <2>4
    <2>6. c.pc = "posted" /\ c.targets = o.targets /\ c.reports = o.reports /\ c.body = o.body
      BY <1>1 DEF HandCommand
    <2> HIDE DEF c
    <2>7. Told(latest', c)
      BY <1>1, <2>1, <2>6 DEF Told
    <2> QED BY <2>1, <2>3, <2>5, <2>7 DEF StepTells
  <1> QED BY <1>3, <1>4, <1>5, <1>6, <1>7, <1>8, <1>9 DEF Hand!Command

LEMMA DistinctKept ==
    ASSUME Hand!ManualAssumption, HandInv, DistinctTargets, [Hand!Next]_Hand!vars
    PROVE  DistinctTargets'
  <1>1. SUFFICES ASSUME NEW u \in Proc, cmd'[u].targets # cmd[u].targets PROVE Distinct(cmd'[u])
    BY DEF DistinctTargets, Distinct
  <1>2. cmd' # cmd
    BY <1>1
  <1>3. PICK p \in Proc : Hand!Command(p)
    BY <1>2 DEF Hand!Next, Hand!vars, Hand!Draft, Hand!PlanCampaign, Hand!PreparePlan, Hand!EditFile,
           Hand!DryRun, Hand!Autopilot
  <1>4. \A c : cmd' = [cmd EXCEPT ![p] = c] => cmd'[u] = c
    BY <1>1 DEF HandInv, CommandsInOrder
  <1>5. cmd[p] \in HandCommand
    BY DEF HandInv, CommandsInOrder
  <1>6. CASE Hand!ConfirmCampaign(p)
    <2>1. PICK k \in Campaign : cmd' = [cmd EXCEPT ![p] = Begun("campaign", k, "letters", Hand!ReadyRows(k))]
      BY <1>6 DEF Hand!ConfirmCampaign, Hand!Begin, Begun
    <2>2. PICK T \in Seq(Aim) :
            T = Hand!ReadyRows(k) /\ \A i, j \in DOMAIN T : T[i].v = T[j].v => i = j
      BY ReadyRowsAreAims
    <2>3. Begun("campaign", k, "letters", T).targets = T
      BY CommandBegun
    <2>4. cmd'[u] = Begun("campaign", k, "letters", T)
      BY <1>4, <2>1, <2>2
    <2>5. cmd'[u].targets = T
      BY <2>3, <2>4
    <2> QED BY <2>2, <2>5 DEF Distinct
  <1>7. CASE Hand!ConfirmPlan(p)
    <2>1. PICK k \in Plan : plan[k].status = "ready" /\ cmd' = [cmd EXCEPT ![p] = Begun("plan", k, "letters", <<plan[k]>>)]
      BY <1>7 DEF Hand!ConfirmPlan, Hand!Begin, Begun
    <2>2. PICK T \in Seq(Aim) : T = <<plan[k]>>
      <3>1. <<plan[k]>> \in Seq(Aim)
        BY <2>1 DEF HandInv, PlansInOrder
      <3> QED BY <3>1, Zenon
    <2>3. Begun("plan", k, "letters", T).targets = T
      BY CommandBegun
    <2>4. \A i, j \in DOMAIN T : i = j
      BY <2>2
    <2> QED BY <1>4, <2>1, <2>2, <2>3, <2>4 DEF Distinct
  <1>8. CASE Hand!RunFile(p)
    <2>1. PICK r \in Resume : cmd' = [cmd EXCEPT ![p] = BegunFile(listFile, r)]
      BY <1>8 DEF Hand!RunFile, Hand!Begin, BegunFile
    <2>2. listFile \in Seq(Vacancy)
      BY DEF HandInv, StateInOrder, Hand!ManualAssumption
    <2>3. BegunFile(listFile, r).targets = <<>>
      BY <2>2, FileBegun
    <2>4. cmd'[u].targets = <<>>
      BY <1>4, <2>1, <2>3
    <2> QED BY <2>4 DEF Distinct
  <1>9. CASE Hand!FileRow(p)
    <2>1. CASE \E m : cmd' = [cmd EXCEPT ![p].row = m]
      <3>1. PICK m : cmd' = [cmd EXCEPT ![p].row = m]
        BY <2>1
      <3>2. cmd'[u].targets = cmd[u].targets
        BY <1>5, <3>1 DEF HandInv, CommandsInOrder, HandCommand
      <3> QED BY <1>1, <3>2
    <2>2. CASE \E t, rs : cmd' = [cmd EXCEPT ![p].pc = "letters", ![p].reports = rs, ![p].targets = <<t>>]
      <3>1. PICK t, rs : cmd' = [cmd EXCEPT ![p].pc = "letters", ![p].reports = rs, ![p].targets = <<t>>]
        BY <2>2
      <3>2. PICK T : T = <<t>>
        OBVIOUS
      <3>3. \A i, j \in DOMAIN T : i = j
        BY <3>2
      <3> DEFINE c == [cmd[p] EXCEPT !.pc = "letters", !.reports = rs, !.targets = T]
      <3>4. cmd' = [cmd EXCEPT ![p] = c]
        BY <3>1, <3>2
      <3>5. c.targets = T
        BY <1>5 DEF HandCommand
      <3> HIDE DEF c
      <3>6. cmd'[u].targets = T
        BY <1>4, <3>4, <3>5
      <3> QED BY <3>3, <3>6 DEF Distinct
    <2> QED BY <1>9, <2>1, <2>2 DEF Hand!FileRow
  <1>10. CASE cmd' = [cmd EXCEPT ![p] = Hand!Idle]
    BY <1>4, <1>10, IdleIsTold
  <1>11. CASE \/ Hand!SaveLetters(p) \/ Hand!StartRun(p) \/ Hand!Refuse(p) \/ Hand!Dispatch(p)
              \/ Hand!Deliver(p) \/ Hand!Answer(p) \/ Hand!WriteFileRow(p)
    <2>1. PICK c : cmd' = [cmd EXCEPT ![p] = c] /\ c.targets = cmd[p].targets
      <3>1. CASE \E r : Hand!Report(p, r)
        <4>1. PICK r : cmd' = [cmd EXCEPT ![p].reports = Append(@, r), ![p].pc = "run"]
          BY <3>1 DEF Hand!Report
        <4>2. PICK rs : rs = Append(cmd[p].reports, r)
          OBVIOUS
        <4> DEFINE c == [cmd[p] EXCEPT !.reports = rs, !.pc = "run"]
        <4>3. cmd' = [cmd EXCEPT ![p] = c] /\ c.targets = cmd[p].targets
          BY <1>5, <4>1, <4>2 DEF HandCommand
        <4> QED BY <4>3
      <3>2. CASE \E m, n : cmd' = [cmd EXCEPT ![p].row = m, ![p].pc = "row", ![p].count = n]
        <4>1. PICK m, n : cmd' = [cmd EXCEPT ![p].row = m, ![p].pc = "row", ![p].count = n]
          BY <3>2
        <4> DEFINE c == [cmd[p] EXCEPT !.row = m, !.pc = "row", !.count = n]
        <4>2. cmd' = [cmd EXCEPT ![p] = c] /\ c.targets = cmd[p].targets
          BY <1>5, <4>1 DEF HandCommand
        <4> QED BY <4>2
      <3>3. CASE \E s : cmd' = [cmd EXCEPT ![p].pc = s]
        <4>1. PICK s : cmd' = [cmd EXCEPT ![p].pc = s]
          BY <3>3
        <4> DEFINE c == [cmd[p] EXCEPT !.pc = s]
        <4>2. cmd' = [cmd EXCEPT ![p] = c] /\ c.targets = cmd[p].targets
          BY <1>5, <4>1 DEF HandCommand
        <4> QED BY <4>2
      <3>4. CASE \E b : cmd' = [cmd EXCEPT ![p].pc = "posting", ![p].body = b]
        <4>1. PICK b : cmd' = [cmd EXCEPT ![p].pc = "posting", ![p].body = b]
          BY <3>4
        <4> DEFINE c == [cmd[p] EXCEPT !.pc = "posting", !.body = b]
        <4>2. cmd' = [cmd EXCEPT ![p] = c] /\ c.targets = cmd[p].targets
          BY <1>5, <4>1 DEF HandCommand
        <4> QED BY <4>2
      <3>5. CASE \E m : cmd' = [cmd EXCEPT ![p].pc = "posted", ![p].made = m]
        <4>1. PICK m : cmd' = [cmd EXCEPT ![p].pc = "posted", ![p].made = m]
          BY <3>5
        <4> DEFINE c == [cmd[p] EXCEPT !.pc = "posted", !.made = m]
        <4>2. cmd' = [cmd EXCEPT ![p] = c] /\ c.targets = cmd[p].targets
          BY <1>5, <4>1 DEF HandCommand
        <4> QED BY <4>2
      <3>6. CASE Hand!StartRun(p) \/ Hand!Refuse(p) \/ Hand!Answer(p) \/ Hand!SaveLetters(p)
        <4>1. (\E r : Hand!Report(p, r)) \/ (\E s : cmd' = [cmd EXCEPT ![p].pc = s])
          BY <3>6 DEF Hand!StartRun, Hand!Refuse, Hand!Answer, Hand!SaveLetters
        <4> QED BY <3>1, <3>3, <4>1
      <3>7. CASE Hand!WriteFileRow(p)
        BY <3>2, <3>7 DEF Hand!WriteFileRow
      <3>8. CASE Hand!Dispatch(p) \/ Hand!Deliver(p)
        BY <3>4, <3>5, <3>8 DEF Hand!Dispatch, Hand!Deliver
      <3> QED BY <1>11, <3>6, <3>7, <3>8
    <2>2. cmd'[u].targets = cmd[u].targets
      BY <1>4, <2>1 DEF HandInv, CommandsInOrder
    <2> QED BY <1>1, <2>2
  <1> QED BY <1>3, <1>6, <1>7, <1>8, <1>9, <1>10, <1>11
          DEF Hand!Command, Hand!EndFile, Hand!Die, Hand!WriteCampaign, Hand!WritePlan

LEMMA HandCommandIsOne ==
    ASSUME NEW u \in Proc, HandInv, Hand!Command(u), NEW p \in Proc, p # u
    PROVE  cmd'[p] = cmd[p]
  BY DEF HandInv, CommandsInOrder, Hand!Command, Hand!ConfirmCampaign, Hand!ConfirmPlan, Hand!RunFile,
         Hand!Begin, Hand!FileRow, Hand!EndFile, Hand!SaveLetters, Hand!StartRun, Hand!Refuse,
         Hand!Dispatch, Hand!Deliver, Hand!Answer, Hand!WriteCampaign, Hand!WritePlan,
         Hand!WriteFileRow, Hand!Die, Hand!Report

\* A command confirmed with letters (confirm_hh_campaign, confirm_apply_plan, a
\* row of the file) keeps them through every step of its own: it loses one only
\* to a letter that somebody else writes while it waits, and only then does an
\* application leave without the letter it was confirmed with.
THEOREM LettersYieldToOthersOnly ==
    ASSUME Hand!ManualAssumption PROVE Hand!Spec => [][Hand!OnlyOthersReplace]_Hand!vars
  <1> DEFINE Kept == \A p \in Proc : Hand!KeepsLetters(p) => Hand!KeepsLetters(p)' \/ cmd'[p] = cmd[p]
             Posted == \A d \in hh' \ hh : d.wanted # Hand!None /\ d.body # d.wanted =>
                         \E p \in Proc : cmd[p].pc = "posting" /\ ~Hand!KeepsLetters(p)
  <1>1. Hand!Init => DistinctTargets
    BY IdleIsTold DEF Hand!Init, DistinctTargets
  <1>2. HandInv /\ [Hand!Next]_Hand!vars => HandInv'
    BY HandInductive
  <1>3. HandInv /\ DistinctTargets /\ [Hand!Next]_Hand!vars => DistinctTargets'
    BY DistinctKept
  <1>4. \A p \in Proc : /\ Hand!KeepsLetters(p) <=> Told(latest, cmd[p])
                        /\ Hand!KeepsLetters(p)' <=> Told(latest', cmd'[p])
    BY DEF Hand!KeepsLetters, Told, Hand!Target, Hand!Ran, Hand!None
  <1>5. ASSUME HandInv, DistinctTargets, [Hand!Next]_Hand!vars PROVE Kept /\ Posted
    <2>1. CASE UNCHANGED <<cmd, hh>>
      BY <2>1
    <2>2. CASE Hand!Autopilot
      <3>1. PICK t : UNCHANGED hh \/ hh' = hh \cup {[v |-> t[1], r |-> t[2], body |-> Hand!LetterOf(t), wanted |-> Hand!None]}
        BY <2>2 DEF Hand!Autopilot
      <3> QED BY <2>2, <3>1 DEF Hand!Autopilot
    <2>3. ASSUME NEW u \in Proc, Hand!Command(u) PROVE Kept /\ Posted
      <3>1. Told(latest, cmd[u]) => \E c : StepTells(u, c)
        BY <1>5, <2>3, CommandTells DEF DistinctTargets
      <3>2. Kept
        <4> SUFFICES ASSUME NEW p \in Proc, Told(latest, cmd[p]), cmd'[p] # cmd[p] PROVE Told(latest', cmd'[p])
          BY <1>4
        <4>1. p = u
          BY <1>5, <2>3, HandCommandIsOne
        <4> QED BY <1>5, <3>1, <4>1 DEF StepTells, HandInv, CommandsInOrder
      <3>3. Posted
        <4> SUFFICES ASSUME NEW d \in hh' \ hh, d.wanted # "none", d.body # d.wanted
                     PROVE  cmd[u].pc = "posting" /\ ~Told(latest, cmd[u])
          BY <1>4 DEF Hand!None
        <4>1. cmd[u].pc = "posting"
          BY <2>3 DEF Hand!Command, Hand!ConfirmCampaign, Hand!ConfirmPlan, Hand!RunFile, Hand!FileRow,
                 Hand!EndFile, Hand!SaveLetters, Hand!StartRun, Hand!Refuse, Hand!Dispatch, Hand!Deliver,
                 Hand!Answer, Hand!WriteCampaign, Hand!WritePlan, Hand!WriteFileRow, Hand!Die
        <4> QED BY <3>1, <4>1 DEF StepTells
      <3> QED BY <3>2, <3>3
    <2> QED BY <1>5, <2>1, <2>2, <2>3
            DEF Hand!Next, Hand!vars, Hand!Draft, Hand!PlanCampaign, Hand!PreparePlan, Hand!EditFile, Hand!DryRun
  <1>6. HandInv /\ DistinctTargets /\ [Hand!Next]_Hand!vars => [Hand!OnlyOthersReplace]_Hand!vars
    BY <1>5 DEF Hand!OnlyOthersReplace
  <1> QED BY <1>1, <1>2, <1>3, <1>6, HandStarts, PTL DEF Hand!Spec

\* One command at a time, and what HH has received of confirmed letters.
LettersInOrder ==
    /\ \A p, u \in Proc : cmd[p].pc # "idle" /\ cmd[u].pc # "idle" => p = u
    /\ \A p \in Proc : Distinct(cmd[p]) /\ Told(latest, cmd[p])
    /\ Hand!ConfirmedLetterIsSent

\* The letters of a command that works alone, before and after its step.
LEMMA LettersStep ==
    ASSUME ~Together, HandInv, LettersInOrder, NEW p \in Proc, NEW c,
           StepTells(p, c), DistinctTargets'
    PROVE  LettersInOrder'
  <1>1. ASSUME NEW u \in Proc, u # p PROVE cmd'[u] = Hand!Idle
    <2>1. cmd'[u] = cmd[u]
      BY <1>1 DEF HandInv, CommandsInOrder, StepTells
    <2>2. cmd[u].pc = "idle" => cmd[u] = Hand!Idle
      BY DEF HandInv, CommandsInOrder, InOrder
    <2> QED BY <1>1, <2>1, <2>2 DEF LettersInOrder, Hand!Quiet, StepTells
  <1>2. cmd'[p] = c
    BY DEF HandInv, CommandsInOrder, StepTells
  <1>3. \A u \in Proc : Told(latest', cmd'[u])
    BY <1>1, <1>2, IdleIsTold DEF StepTells
  <1>4. Hand!Idle.pc = "idle"
    BY DEF Hand!Idle
  <1>5. \A u, w \in Proc : cmd'[u].pc # "idle" /\ cmd'[w].pc # "idle" => u = w
    BY <1>1, <1>4
  <1>6. \A d \in hh' : d.wanted # "none" => d.body = d.wanted
    BY DEF LettersInOrder, Hand!ConfirmedLetterIsSent, Hand!None, StepTells
  <1> QED BY <1>3, <1>5, <1>6 DEF LettersInOrder, DistinctTargets, Hand!ConfirmedLetterIsSent, Hand!None

\* Steps outside the commands: nobody is at a command then.
LEMMA LettersOutside ==
    ASSUME ~Together, HandInv, LettersInOrder,
           Hand!Draft \/ Hand!PlanCampaign \/ Hand!PreparePlan \/ Hand!EditFile \/ Hand!DryRun \/ Hand!Autopilot
    PROVE  LettersInOrder'
  <1>1. Hand!Quiet /\ UNCHANGED cmd
    BY DEF Hand!Draft, Hand!PlanCampaign, Hand!PreparePlan, Hand!EditFile, Hand!DryRun, Hand!Autopilot
  <1>2. \A u \in Proc : cmd'[u] = Hand!Idle
    BY <1>1 DEF Hand!Quiet
  <1>3. \A d \in hh' \ hh : d.wanted = "none"
    <2>1. CASE UNCHANGED hh
      BY <2>1
    <2>2. CASE Hand!Autopilot
      <3>1. PICK t : UNCHANGED hh \/ hh' = hh \cup {[v |-> t[1], r |-> t[2], body |-> Hand!LetterOf(t), wanted |-> Hand!None]}
        BY <2>2 DEF Hand!Autopilot
      <3> QED BY <3>1 DEF Hand!None
    <2> QED BY <2>1, <2>2 DEF Hand!Draft, Hand!PlanCampaign, Hand!PreparePlan, Hand!EditFile, Hand!DryRun
  <1>4. \A u \in Proc : Distinct(cmd'[u]) /\ Told(latest', cmd'[u]) /\ cmd'[u].pc = "idle"
    BY <1>2, IdleIsTold DEF Hand!Idle
  <1>5. \A d \in hh' : d.wanted # "none" => d.body = d.wanted
    BY <1>3 DEF LettersInOrder, Hand!ConfirmedLetterIsSent, Hand!None
  <1> QED BY <1>4, <1>5 DEF LettersInOrder, Hand!ConfirmedLetterIsSent, Hand!None

\* With one command at a time, an application that was confirmed with a letter
\* (confirm_hh_campaign, confirm_apply_plan, a row of the file) carries it.
THEOREM LettersAreAsConfirmed ==
    ASSUME Hand!ManualAssumption, ~Together PROVE Hand!Spec => []Hand!ConfirmedLetterIsSent
  <1>1. Hand!Init => LettersInOrder
    <2>1. Hand!Idle.pc = "idle"
      BY DEF Hand!Idle
    <2> QED BY <2>1, IdleIsTold DEF Hand!Init, LettersInOrder, Hand!ConfirmedLetterIsSent
  <1>2. HandInv /\ [Hand!Next]_Hand!vars => HandInv'
    BY HandInductive
  <1>3. HandInv /\ LettersInOrder /\ [Hand!Next]_Hand!vars => LettersInOrder'
    <2> SUFFICES ASSUME HandInv, LettersInOrder, [Hand!Next]_Hand!vars PROVE LettersInOrder'
      OBVIOUS
    <2>1. CASE UNCHANGED Hand!vars
      BY <2>1 DEF Hand!vars, LettersInOrder, Hand!ConfirmedLetterIsSent
    <2>2. ASSUME NEW p \in Proc, Hand!Command(p) PROVE LettersInOrder'
      <3>1. DistinctTargets /\ Told(latest, cmd[p])
        BY DEF LettersInOrder, DistinctTargets
      <3>2. DistinctTargets'
        BY <3>1, DistinctKept
      <3>3. PICK c : StepTells(p, c)
        BY <2>2, <3>1, CommandTells DEF DistinctTargets
      <3> QED BY <3>2, <3>3, LettersStep
    <2> QED BY <2>1, <2>2, LettersOutside DEF Hand!Next
  <1>4. LettersInOrder => Hand!ConfirmedLetterIsSent
    BY DEF LettersInOrder
  <1> QED BY <1>1, <1>2, <1>3, <1>4, HandStarts, PTL DEF Hand!Spec
==============================================================================
