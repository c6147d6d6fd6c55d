----------------------------- MODULE MCChannels ------------------------------
(***************************************************************************)
(* The ways an application, a mail or a reply leaves the program.  They    *)
(* share no state, so one behaviour runs one of them: part says which.     *)
(* Replies and Manual run alone, with two commands side by side, and       *)
(* Manual over a file.                                                     *)
(***************************************************************************)
EXTENDS Naturals, FiniteSets, Sequences, TLC

CONSTANTS p, q, x, y, z

Symmetry == Permutations({p, q}) \union Permutations({x, y})

\* Forms of up to two screens of up to two fields, on the sites of four sources.
Blank == [kind |-> "contact", required |-> TRUE, given |-> "", decision |-> "none", known |-> TRUE, defect |-> FALSE]
Contacts == [kind : {"contact"}, required : BOOLEAN, given : {"", "yes"}, decision : {"none", "legacy", "expired"}, known : BOOLEAN, defect : {FALSE}]
Choices == {[Blank EXCEPT !.kind = k, !.required = r, !.given = g, !.decision = d, !.known = FALSE] :
              k \in {"checkbox", "radio"}, r \in BOOLEAN, g \in {"", "yes"}, d \in {"none", "yes", "no", "expired"}}
Others == {[Blank EXCEPT !.kind = "select", !.known = k] : k \in BOOLEAN} \union {[Blank EXCEPT !.kind = "letter"]}
            \union {[Blank EXCEPT !.kind = "file", !.known = k, !.defect = d, !.required = r] : k, d, r \in BOOLEAN}
AllFields == Contacts \union Choices \union Others
Consent == [Blank EXCEPT !.kind = "checkbox", !.given = "yes", !.decision = "yes"]
Screens(fields, actions) == [scope : {TRUE}, fields : fields, action : actions] \union {[scope |-> FALSE, fields |-> {}, action |-> "none"]}
Forms == {<<s>> : s \in Screens({{f} : f \in AllFields}, {"submit", "none", "next"})}
           \union {<<s, t>> : s \in Screens({{f} : f \in Choices \union Others}, {"next"}), t \in Screens({{f, Consent} : f \in Choices}, {"submit"})}
Sites ==
    {[source |-> s, login |-> "no", applied |-> a, start |-> TRUE, screens |-> f, receipt |-> r] :
       s \in {"linkedin", "lever", "other"}, a, r \in BOOLEAN, f \in Forms}
      \union [source : {"habr"}, login : {"no", "never"}, applied : BOOLEAN, start : BOOLEAN, screens : {<<>>}, receipt : BOOLEAN]

\* Every combination of the settings of the native transport.
Modes == [screening : {"off", "profile_grounded", "ai"}, form : {"off", "profile_grounded", "ai"},
          captcha : {"manual_handoff", "vision_then_manual"}]

\* What a mail server makes of an address.
Mailboxes == [e \in {"a", "b"} |-> e]

VARIABLES
    part,
    plans, applications, bundle, work, delivered,
    site, letter, formPc, screen, steps, entered, formClicks, took, status,
    mode, nativePc, round, from, url, nativeClicks, made, last, asked, solved,
    jars, wire, outcome,
    mailFile, copy, mailRun, released, handed, mailed, receipt,
    thread, seen, keys, outbox, approvals, replyRun, granted, refused, closed,
    latest, cached, item, campaign, plan, manual1File, state, lease, cmd, hh,
    skipped, used

ExtVars == <<plans, applications, bundle, work, delivered>>
FormVars == <<site, letter, formPc, screen, steps, entered, formClicks, took,
    status>>
NativeVars == <<mode, nativePc, round, from, url, nativeClicks, made, last, asked,
    solved, jars, wire, outcome>>
MailVars == <<mailFile, copy, mailRun, released, handed, mailed, receipt>>
ReplyVars == <<thread, seen, keys, outbox, approvals, replyRun, granted, refused,
    closed>>
Manual1Vars == <<latest, cached, item, campaign, plan, manual1File, state, lease, cmd,
    hh, skipped, used>>

Ext == INSTANCE ExternalApply WITH
    Workers <- {p, q}, Jobs <- {"j"}, Resumes <- {x, y}, Versions <- 2,
    MaxPlans <- 2
Ext3 == INSTANCE ExternalApply WITH
    Workers <- {p, q}, Jobs <- {"j"}, Resumes <- {x, y}, Versions <- 1,
    MaxPlans <- 3
Form == INSTANCE BrowserForm WITH
    Sites <- Sites, Letters <- BOOLEAN, MaxSteps <- 3, pc <- formPc,
    clicks <- formClicks
Native == INSTANCE NativeTransport WITH
    Modes <- Modes, Selectors <- 3, pc <- nativePc, clicks <- nativeClicks
Mail == INSTANCE EmailOutreach WITH
    Leads <- {x, y, z}, Recipient <- Mailboxes, MaxMails <- 2, Procs <- {p},
    Emails <- {"a", "b"}, file <- mailFile, run <- mailRun
Reply == INSTANCE Replies WITH
    Procs <- {p}, MaxThread <- 2, MaxRows <- 2, MaxApprovals <- 1,
    run <- replyRun
Replies2 == INSTANCE Replies WITH
    Procs <- {p, q}, MaxThread <- 3, MaxRows <- 2, MaxApprovals <- 0,
    run <- replyRun
Manual1 == INSTANCE Manual WITH
    Resume <- {x, y}, Campaign <- {"c1"}, Plan <- {"k1"}, Own <- {"L1"},
    Lists <- {<<"v1">>}, Most <- 1, FileLimit <- 2, Reuse <- FALSE,
    MaxCommands <- 2, Vacancy <- {"v1"}, Proc <- {p}, Together <- FALSE,
    file <- manual1File
Manual2 == INSTANCE Manual WITH
    Resume <- {x, y}, Campaign <- {"c1"}, Plan <- {}, Own <- {"L1"},
    Lists <- {<<"v1">>}, Most <- 1, FileLimit <- 1, Reuse <- FALSE,
    MaxCommands <- 2, Vacancy <- {"v1"}, Proc <- {p, q}, Together <- TRUE,
    file <- manual1File
File == INSTANCE Manual WITH
    Resume <- {x}, Campaign <- {"c1"}, Plan <- {}, Own <- {},
    Lists <- {<<"v1">>, <<"v2", "v1">>}, Most <- 1, FileLimit <- 1,
    Reuse <- FALSE, MaxCommands <- 2, Vacancy <- {"v1", "v2"}, Proc <- {p},
    Together <- FALSE, file <- manual1File

ASSUME Assumptions ==
    /\ Ext!ExternalApplyAssumption
    /\ Ext3!ExternalApplyAssumption
    /\ Form!BrowserFormAssumption
    /\ Native!NativeTransportAssumption
    /\ Mail!EmailOutreachAssumption
    /\ Reply!RepliesAssumption
    /\ Replies2!RepliesAssumption
    /\ Manual1!ManualAssumption
    /\ Manual2!ManualAssumption
    /\ File!ManualAssumption

\* The variables of a part that does not run.
Unused == "unused"
ExtRests ==
    /\ plans = Unused /\ applications = Unused /\ bundle = Unused
    /\ work = Unused /\ delivered = Unused
FormRests ==
    /\ site = Unused /\ letter = Unused /\ formPc = Unused /\ screen = Unused
    /\ steps = Unused /\ entered = Unused /\ formClicks = Unused
    /\ took = Unused /\ status = Unused
NativeRests ==
    /\ mode = Unused /\ nativePc = Unused /\ round = Unused /\ from = Unused
    /\ url = Unused /\ nativeClicks = Unused /\ made = Unused
    /\ last = Unused /\ asked = Unused /\ outcome = Unused
    /\ solved = Unused /\ jars = Unused /\ wire = Unused
MailRests ==
    /\ mailFile = Unused /\ copy = Unused /\ mailRun = Unused
    /\ released = Unused /\ handed = Unused /\ mailed = Unused
    /\ receipt = Unused
ReplyRests ==
    /\ thread = Unused /\ seen = Unused /\ keys = Unused /\ outbox = Unused
    /\ approvals = Unused /\ replyRun = Unused /\ granted = Unused
    /\ refused = Unused /\ closed = Unused
Manual1Rests ==
    /\ latest = Unused /\ cached = Unused /\ item = Unused
    /\ campaign = Unused /\ plan = Unused /\ manual1File = Unused
    /\ state = Unused /\ lease = Unused /\ cmd = Unused /\ hh = Unused
    /\ skipped = Unused /\ used = Unused

Init ==
    /\ part \in {"external", "three plans", "form", "native", "mail", "reply",
                 "two replies", "manual", "two manual", "file"}
    /\ IF part = "external" THEN Ext!Init
       ELSE IF part = "three plans" THEN Ext3!Init
       ELSE ExtRests
    /\ IF part = "form" THEN Form!Init ELSE FormRests
    /\ IF part = "native" THEN Native!Init ELSE NativeRests
    /\ IF part = "mail" THEN Mail!Init ELSE MailRests
    /\ IF part = "reply" THEN Reply!Init
       ELSE IF part = "two replies" THEN Replies2!Init
       ELSE ReplyRests
    /\ IF part = "manual" THEN Manual1!Init
       ELSE IF part = "two manual" THEN Manual2!Init
       ELSE IF part = "file" THEN File!Init
       ELSE Manual1Rests

\* The part of this name goes on, alone.
Only(name) ==
    /\ part = name /\ UNCHANGED part
    /\ IF name \in {"external", "three plans"} THEN TRUE ELSE UNCHANGED ExtVars
    /\ IF name = "form" THEN TRUE ELSE UNCHANGED FormVars
    /\ IF name = "native" THEN TRUE ELSE UNCHANGED NativeVars
    /\ IF name = "mail" THEN TRUE ELSE UNCHANGED MailVars
    /\ IF name \in {"reply", "two replies"} THEN TRUE ELSE UNCHANGED ReplyVars
    /\ IF name \in {"manual", "two manual", "file"} THEN TRUE ELSE UNCHANGED Manual1Vars

Next ==
    \/ Only("external") /\ Ext!Next
    \/ Only("three plans") /\ Ext3!Next
    \/ Only("form") /\ Form!Next
    \/ Only("native") /\ Native!Next
    \/ Only("mail") /\ Mail!Next
    \/ Only("reply") /\ Reply!Next
    \/ Only("two replies") /\ Replies2!Next
    \/ Only("manual") /\ Manual1!Next
    \/ Only("two manual") /\ Manual2!Next
    \/ Only("file") /\ File!Next

vars == <<part, ExtVars, FormVars, NativeVars, MailVars, ReplyVars, Manual1Vars>>
Spec == Init /\ [][Next]_vars
-----------------------------------------------------------------------------
(* Properties *)

\* Nothing is sent twice for one purpose: a vacancy of another site is applied
\* to once and the attempt is remembered from the click on, with workers side by
\* side and after crashes; a spelling of an address is mailed once in a plan,
\* where one command of the plan works at a time; and Chatik takes one message
\* per key, which leans on the server's own comparison of keys (external).
SentOnce ==
    /\ part \in {"external", "three plans"} =>
          Ext!SubmittedOnce /\ Ext!SubmissionIsRemembered
    /\ part = "mail" => Mail!OneMailPerSpelling
    /\ part = "two replies" => Replies2!ChatikOnce

\* What is recorded or answered of a delivery is true: applied, sent and
\* processed only where the other side has it, and a refusal that allows
\* another try only where it has not.  Of the HH transport this leaves out what
\* it cannot know: a refusal after a second click (browser.py:307) and an answer
\* of 5xx, and "applied" read off the page after a click (browser.py:193).
RecordsAreReal ==
    /\ part \in {"external", "three plans"} => Ext!SentIsNeverOverstated
    /\ part = "form" => Form!AppliedIsReal /\ Form!RetryableMeansUntouched
    /\ part = "native" => Native!RefusalIsTrue /\ Native!AppliedIsReal
    /\ part = "mail" => Mail!SentIsReal
    /\ part = "reply" => Reply!SentRowIsReal
    /\ part = "two replies" => Replies2!SentRowIsReal
    /\ part = "manual" => Manual1!AppliedIsReal /\ Manual1!ProcessedRowIsSent
    /\ part = "two manual" => Manual2!AppliedIsReal
    /\ part = "file" => File!AppliedIsReal

\* What leaves the program is what the user saw and confirmed: the previewed
\* bundle, the answered form, the printed e-mail, the approved reply and the
\* confirmed letter, although profile, files and queues change in between.  The
\* letter is the confirmed one where one command works at a time; with others
\* beside it, it is lost only to a newer letter they write for the vacancy.
SentAsConfirmed ==
    /\ [](/\ part \in {"external", "three plans"} => Ext!SentAsPreviewed
          /\ part = "form" => Form!RequiredIsAnswered
          /\ part = "mail" => Mail!MailedWasReleased
          /\ part = "reply" => Reply!HeldUntilApproved
          /\ part = "manual" => Manual1!ConfirmedLetterIsSent)
    /\ [][part = "two manual" => Manual2!OnlyOthersReplace]_vars

\* A request of the API or of a test goes out again only after HH asked for
\* something instead of taking the one before, a button is clicked first only
\* after it asked for a form or a test, and all of them carry the cookies of the
\* last CAPTCHA solved (HHApiSession.apply, _sync_api_cookies).  Clicks after a
\* click that raised are not covered: HH may have taken that one.
RequestsFollowAnswers ==
    part = "native" => Native!AskedBeforeAgain /\ Native!SolutionIsCarried
=============================================================================
