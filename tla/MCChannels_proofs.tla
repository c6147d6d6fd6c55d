-------------------------- MODULE MCChannels_proofs --------------------------
(***************************************************************************)
(* The suite of the ways an application, a mail or a reply leaves the      *)
(* program.  Channels_proofs is instantiated as the suite instantiates the *)
(* components, and its theorems become the properties of the suite.        *)
(***************************************************************************)
EXTENDS MCChannels, TLAPS

Ch1 == INSTANCE Channels_proofs WITH
    Workers <- {p, q}, Jobs <- {"j"}, Resumes <- {x, y}, Versions <- 2, MaxPlans <- 2,
    Letters <- BOOLEAN, MaxSteps <- 3, Selectors <- 3,
    Leads <- {x, y, z}, Emails <- {"a", "b"}, Recipient <- Mailboxes, MaxMails <- 2,
    Procs <- {p}, MaxThread <- 2, MaxRows <- 2, MaxApprovals <- 1,
    Resume <- {x, y}, Campaign <- {"c1"}, Plan <- {"k1"}, Own <- {"L1"},
    Lists <- {<<"v1">>}, Most <- 1, FileLimit <- 2, Reuse <- FALSE,
    MaxCommands <- 2, Vacancy <- {"v1"}, Proc <- {p}, Together <- FALSE,
    listFile <- manual1File
\* Three plans, two replies and two commands side by side.
Ch2 == INSTANCE Channels_proofs WITH
    Workers <- {p, q}, Jobs <- {"j"}, Resumes <- {x, y}, Versions <- 1, MaxPlans <- 3,
    Letters <- BOOLEAN, MaxSteps <- 3, Selectors <- 3,
    Leads <- {x, y, z}, Emails <- {"a", "b"}, Recipient <- Mailboxes, MaxMails <- 2,
    Procs <- {p, q}, MaxThread <- 3, MaxRows <- 2, MaxApprovals <- 0,
    Resume <- {x, y}, Campaign <- {"c1"}, Plan <- {}, Own <- {"L1"},
    Lists <- {<<"v1">>}, Most <- 1, FileLimit <- 1, Reuse <- FALSE,
    MaxCommands <- 2, Vacancy <- {"v1"}, Proc <- {p, q}, Together <- TRUE,
    listFile <- manual1File
\* Manual over a file.
Ch3 == INSTANCE Channels_proofs WITH
    Workers <- {p, q}, Jobs <- {"j"}, Resumes <- {x, y}, Versions <- 1, MaxPlans <- 3,
    Letters <- BOOLEAN, MaxSteps <- 3, Selectors <- 3,
    Leads <- {x, y, z}, Emails <- {"a", "b"}, Recipient <- Mailboxes, MaxMails <- 2,
    Procs <- {p}, MaxThread <- 2, MaxRows <- 2, MaxApprovals <- 1,
    Resume <- {x}, Campaign <- {"c1"}, Plan <- {}, Own <- {},
    Lists <- {<<"v1">>, <<"v2", "v1">>}, Most <- 1, FileLimit <- 1, Reuse <- FALSE,
    MaxCommands <- 2, Vacancy <- {"v1", "v2"}, Proc <- {p}, Together <- FALSE,
    listFile <- manual1File
------------------------------------------------------------------------------
(* One part runs in one behaviour, as the component that was proved about: *)
(* the two have the same definitions, so that each expands to the other.   *)

LEMMA PartStays == [Next]_vars => part' = part
  BY DEF Next, vars, Only

\* Applications to other sites, with two workers.
LEMMA ExtRuns == Spec /\ part = "external" => Ch1!Ext!Init /\ [][Ch1!Ext!Next]_(Ch1!Ext!vars)
  <1>1. ASSUME Ext!Init PROVE Ch1!Ext!Init
    BY <1>1 DEF
        Ext!NoBundle, Ext!ByHand, Ext!Rows, Ext!NoRow, Ext!Idle, Ext!Init,
        Ch1!Ext!NoBundle, Ch1!Ext!ByHand, Ch1!Ext!Rows, Ch1!Ext!NoRow, Ch1!Ext!Idle,
        Ch1!Ext!Init
  <1>2. ASSUME Ext!Next PROVE Ch1!Ext!Next
    BY <1>2 DEF
        Ext!NoBundle, Ext!ByHand, Ext!Rows, Ext!Idle, Ext!At, Ext!Goto, Ext!Answer,
        Ext!SetStatus, Ext!Own, Ext!NewPlan, Ext!Preview, Ext!Edit, Ext!ConfirmPlan,
        Ext!Confirm, Ext!Changed, Ext!Prepare, Ext!SameRequest, Ext!Request, Ext!Spent,
        Ext!Harmless, Ext!Previous, Ext!Claim, Ext!Refused, Ext!Outcome, Ext!Outcomes,
        Ext!Recorded, Ext!Send, Ext!ApplyByHand, Ext!RowStatus, Ext!Recordable,
        Ext!Record, Ext!Update, Ext!Finish, Ext!Crash, Ext!Mark, Ext!Next,
        Ch1!Ext!NoBundle, Ch1!Ext!ByHand, Ch1!Ext!Rows, Ch1!Ext!Idle, Ch1!Ext!At,
        Ch1!Ext!Goto, Ch1!Ext!Answer, Ch1!Ext!SetStatus, Ch1!Ext!Own, Ch1!Ext!NewPlan,
        Ch1!Ext!Preview, Ch1!Ext!Edit, Ch1!Ext!ConfirmPlan, Ch1!Ext!Confirm,
        Ch1!Ext!Changed, Ch1!Ext!Prepare, Ch1!Ext!SameRequest, Ch1!Ext!Request,
        Ch1!Ext!Spent, Ch1!Ext!Harmless, Ch1!Ext!Previous, Ch1!Ext!Claim,
        Ch1!Ext!Refused, Ch1!Ext!Outcome, Ch1!Ext!Outcomes, Ch1!Ext!Recorded,
        Ch1!Ext!Send, Ch1!Ext!ApplyByHand, Ch1!Ext!RowStatus, Ch1!Ext!Recordable,
        Ch1!Ext!Record, Ch1!Ext!Update, Ch1!Ext!Finish, Ch1!Ext!Crash, Ch1!Ext!Mark,
        Ch1!Ext!Next
  <1>3. Init /\ part = "external" => Ext!Init
    BY DEF Init
  <1>4. part = "external" /\ [Next]_vars => [Ext!Next]_(Ext!vars)
    BY DEF Next, vars, Only, ExtVars, Ext!vars
  <1>5. [Ext!Next]_(Ext!vars) => [Ch1!Ext!Next]_(Ch1!Ext!vars)
    BY <1>2 DEF
        Ext!vars, Ch1!Ext!vars
  <1>6. part = "external" /\ [Next]_vars => (part = "external")'
    BY PartStays
  <1> QED BY <1>1, <1>3, <1>4, <1>5, <1>6, PTL DEF Spec

\* The same with three plans.
LEMMA Ext3Runs == Spec /\ part = "three plans" => Ch2!Ext!Init /\ [][Ch2!Ext!Next]_(Ch2!Ext!vars)
  <1>1. ASSUME Ext3!Init PROVE Ch2!Ext!Init
    BY <1>1 DEF
        Ext3!NoBundle, Ext3!ByHand, Ext3!Rows, Ext3!NoRow, Ext3!Idle, Ext3!Init,
        Ch2!Ext!NoBundle, Ch2!Ext!ByHand, Ch2!Ext!Rows, Ch2!Ext!NoRow, Ch2!Ext!Idle,
        Ch2!Ext!Init
  <1>2. ASSUME Ext3!Next PROVE Ch2!Ext!Next
    BY <1>2 DEF
        Ext3!NoBundle, Ext3!ByHand, Ext3!Rows, Ext3!Idle, Ext3!At, Ext3!Goto,
        Ext3!Answer, Ext3!SetStatus, Ext3!Own, Ext3!NewPlan, Ext3!Preview, Ext3!Edit,
        Ext3!ConfirmPlan, Ext3!Confirm, Ext3!Changed, Ext3!Prepare, Ext3!SameRequest,
        Ext3!Request, Ext3!Spent, Ext3!Harmless, Ext3!Previous, Ext3!Claim,
        Ext3!Refused, Ext3!Outcome, Ext3!Outcomes, Ext3!Recorded, Ext3!Send,
        Ext3!ApplyByHand, Ext3!RowStatus, Ext3!Recordable, Ext3!Record, Ext3!Update,
        Ext3!Finish, Ext3!Crash, Ext3!Mark, Ext3!Next, Ch2!Ext!NoBundle,
        Ch2!Ext!ByHand, Ch2!Ext!Rows, Ch2!Ext!Idle, Ch2!Ext!At, Ch2!Ext!Goto,
        Ch2!Ext!Answer, Ch2!Ext!SetStatus, Ch2!Ext!Own, Ch2!Ext!NewPlan,
        Ch2!Ext!Preview, Ch2!Ext!Edit, Ch2!Ext!ConfirmPlan, Ch2!Ext!Confirm,
        Ch2!Ext!Changed, Ch2!Ext!Prepare, Ch2!Ext!SameRequest, Ch2!Ext!Request,
        Ch2!Ext!Spent, Ch2!Ext!Harmless, Ch2!Ext!Previous, Ch2!Ext!Claim,
        Ch2!Ext!Refused, Ch2!Ext!Outcome, Ch2!Ext!Outcomes, Ch2!Ext!Recorded,
        Ch2!Ext!Send, Ch2!Ext!ApplyByHand, Ch2!Ext!RowStatus, Ch2!Ext!Recordable,
        Ch2!Ext!Record, Ch2!Ext!Update, Ch2!Ext!Finish, Ch2!Ext!Crash, Ch2!Ext!Mark,
        Ch2!Ext!Next
  <1>3. Init /\ part = "three plans" => Ext3!Init
    BY DEF Init
  <1>4. part = "three plans" /\ [Next]_vars => [Ext3!Next]_(Ext3!vars)
    BY DEF Next, vars, Only, ExtVars, Ext3!vars
  <1>5. [Ext3!Next]_(Ext3!vars) => [Ch2!Ext!Next]_(Ch2!Ext!vars)
    BY <1>2 DEF
        Ext3!vars, Ch2!Ext!vars
  <1>6. part = "three plans" /\ [Next]_vars => (part = "three plans")'
    BY PartStays
  <1> QED BY <1>1, <1>3, <1>4, <1>5, <1>6, PTL DEF Spec

\* The form of another site.
LEMMA FormRuns == Spec /\ part = "form" => Ch1!Form!Init /\ [][Ch1!Form!Next]_(Ch1!Form!vars)
  <1>1. ASSUME Form!Init PROVE Ch1!Form!Init
    BY <1>1 DEF
        Form!Untouched, Form!Init, Ch1!Form!Untouched, Ch1!Form!Init
  <1>2. ASSUME Form!Next PROVE Ch1!Form!Next
    BY <1>2 DEF
        Form!Untouched, Form!Still, Form!Form, Form!Answer, Form!Open, Form!Receipt,
        Form!AlreadyApplied, Form!Look, Form!Current, Form!None, Form!Resolved,
        Form!Filled, Form!Blocks, Form!StepsTaken, Form!Shown, Form!Step, Form!Click,
        Form!Success, Form!Verify, Form!SaveLetter, Form!Raised, Form!Raise,
        Form!Progress, Form!Next, Ch1!Form!Untouched, Ch1!Form!Still, Ch1!Form!Form,
        Ch1!Form!Answer, Ch1!Form!Open, Ch1!Form!Receipt, Ch1!Form!AlreadyApplied,
        Ch1!Form!Look, Ch1!Form!Current, Ch1!Form!None, Ch1!Form!Resolved,
        Ch1!Form!Filled, Ch1!Form!Blocks, Ch1!Form!StepsTaken, Ch1!Form!Shown,
        Ch1!Form!Step, Ch1!Form!Click, Ch1!Form!Success, Ch1!Form!Verify,
        Ch1!Form!SaveLetter, Ch1!Form!Raised, Ch1!Form!Raise, Ch1!Form!Progress,
        Ch1!Form!Next
  <1>3. Init /\ part = "form" => Form!Init
    BY DEF Init
  <1>4. part = "form" /\ [Next]_vars => [Form!Next]_(Form!vars)
    BY DEF Next, vars, Only, FormVars, Form!vars
  <1>5. [Form!Next]_(Form!vars) => [Ch1!Form!Next]_(Ch1!Form!vars)
    BY <1>2 DEF
        Form!vars, Ch1!Form!vars
  <1>6. part = "form" /\ [Next]_vars => (part = "form")'
    BY PartStays
  <1> QED BY <1>1, <1>3, <1>4, <1>5, <1>6, PTL DEF Spec

\* The native transport.
LEMMA NativeRuns == Spec /\ part = "native" => Ch1!Native!Init /\ [][Ch1!Native!Next]_(Ch1!Native!vars)
  <1>1. ASSUME Native!Init PROVE Ch1!Native!Init
    BY <1>1 DEF
        Native!Pending, Native!Init, Ch1!Native!Pending, Ch1!Native!Init
  <1>2. ASSUME Native!Next PROVE Ch1!Native!Next
    BY <1>2 DEF
        Native!vars, Native!Unsent, Native!Maybe, Native!Definite, Native!Return,
        Native!Go, Native!Solving, Native!Vision, Native!Cookies, Native!Site,
        Native!Read, Native!Test, Native!Answers, Native!TestAnswers, Native!MayApply,
        Native!CertaintyOf, Native!CodeOf, Native!Answered, Native!Sends, Native!Sync,
        Native!SyncBack, Native!Again, Native!NextRound, Native!Post, Native!TestRead,
        Native!TestPost, Native!Solve, Native!Inspect, Native!Fields, Native!Fill,
        Native!Raised, Native!Click, Native!Pages, Native!LandedOn, Native!Landed,
        Native!Ended, Native!Steps, Native!Next, Ch1!Native!vars, Ch1!Native!Unsent,
        Ch1!Native!Maybe, Ch1!Native!Definite, Ch1!Native!Return, Ch1!Native!Go,
        Ch1!Native!Solving, Ch1!Native!Vision, Ch1!Native!Cookies, Ch1!Native!Site,
        Ch1!Native!Read, Ch1!Native!Test, Ch1!Native!Answers, Ch1!Native!TestAnswers,
        Ch1!Native!MayApply, Ch1!Native!CertaintyOf, Ch1!Native!CodeOf,
        Ch1!Native!Answered, Ch1!Native!Sends, Ch1!Native!Sync, Ch1!Native!SyncBack,
        Ch1!Native!Again, Ch1!Native!NextRound, Ch1!Native!Post, Ch1!Native!TestRead,
        Ch1!Native!TestPost, Ch1!Native!Solve, Ch1!Native!Inspect, Ch1!Native!Fields,
        Ch1!Native!Fill, Ch1!Native!Raised, Ch1!Native!Click, Ch1!Native!Pages,
        Ch1!Native!LandedOn, Ch1!Native!Landed, Ch1!Native!Ended, Ch1!Native!Steps,
        Ch1!Native!Next
  <1>3. Init /\ part = "native" => Native!Init
    BY DEF Init
  <1>4. part = "native" /\ [Next]_vars => [Native!Next]_(Native!vars)
    BY DEF Next, vars, Only, NativeVars, Native!vars
  <1>5. [Native!Next]_(Native!vars) => [Ch1!Native!Next]_(Ch1!Native!vars)
    BY <1>2 DEF
        Native!vars, Ch1!Native!vars
  <1>6. part = "native" /\ [Next]_vars => (part = "native")'
    BY PartStays
  <1> QED BY <1>1, <1>3, <1>4, <1>5, <1>6, PTL DEF Spec

\* Mails to leads.
LEMMA MailRuns == Spec /\ part = "mail" => Ch1!Mail!Init /\ [][Ch1!Mail!Next]_(Ch1!Mail!vars)
  <1>1. ASSUME Mail!Init PROVE Ch1!Mail!Init
    BY <1>1 DEF
        Mail!NewLead, Mail!Idle, Mail!Init, Ch1!Mail!NewLead, Ch1!Mail!Idle,
        Ch1!Mail!Init
  <1>2. ASSUME Mail!Next PROVE Ch1!Mail!Next
    BY <1>2 DEF
        Mail!Idle, Mail!Waiting, Mail!Begin, Mail!Save, Mail!Done, Mail!Work,
        Mail!Nothing, Mail!MayApprove, Mail!Review, Mail!InFlight, Mail!Clash,
        Mail!Sendable, Mail!Payload, Mail!HandOver, Mail!OutcomeOf, Mail!Record,
        Mail!Bounce, Mail!Stop, Mail!Send, Mail!Next, Ch1!Mail!Idle, Ch1!Mail!Waiting,
        Ch1!Mail!Begin, Ch1!Mail!Save, Ch1!Mail!Done, Ch1!Mail!Work, Ch1!Mail!Nothing,
        Ch1!Mail!MayApprove, Ch1!Mail!Review, Ch1!Mail!InFlight, Ch1!Mail!Clash,
        Ch1!Mail!Sendable, Ch1!Mail!Payload, Ch1!Mail!HandOver, Ch1!Mail!OutcomeOf,
        Ch1!Mail!Record, Ch1!Mail!Bounce, Ch1!Mail!Stop, Ch1!Mail!Send, Ch1!Mail!Next
  <1>3. Init /\ part = "mail" => Mail!Init
    BY DEF Init
  <1>4. part = "mail" /\ [Next]_vars => [Mail!Next]_(Mail!vars)
    BY DEF Next, vars, Only, MailVars, Mail!vars
  <1>5. [Mail!Next]_(Mail!vars) => [Ch1!Mail!Next]_(Ch1!Mail!vars)
    BY <1>2 DEF
        Mail!vars, Ch1!Mail!vars
  <1>6. part = "mail" /\ [Next]_vars => (part = "mail")'
    BY PartStays
  <1> QED BY <1>1, <1>3, <1>4, <1>5, <1>6, PTL DEF Spec

\* Replies to employers.
LEMMA ReplyRuns == Spec /\ part = "reply" => Ch1!Reply!Init /\ [][Ch1!Reply!Next]_(Ch1!Reply!vars)
  <1>1. ASSUME Reply!Init PROVE Ch1!Reply!Init
    BY <1>1 DEF
        Reply!Idle, Reply!Init, Ch1!Reply!Idle, Ch1!Reply!Init
  <1>2. ASSUME Reply!Next PROVE Ch1!Reply!Next
    BY <1>2 DEF
        Reply!Questions, Reply!Idle, Reply!Mine, Reply!Theirs, Reply!Fingerprint,
        Reply!Last, Reply!Awaiting, Reply!SentFor, Reply!Answered, Reply!QueueQuestion,
        Reply!AutoWants, Reply!ChatikWants, Reply!Draft, Reply!PlanAuto,
        Reply!PlanChatik, Reply!Planned, Reply!PlanRow, Reply!Escalates,
        Reply!PlanReply, Reply!HoldPlan, Reply!Confirmable, Reply!Confirm, Reply!Key,
        Reply!Approval, Reply!Send, Reply!Row, Reply!Record, Reply!Killed, Reply!Leave,
        Reply!Linked, Reply!TakesOver, Reply!Approve, Reply!Reject, Reply!Modify,
        Reply!Employer, Reply!Next, Ch1!Reply!Questions, Ch1!Reply!Idle,
        Ch1!Reply!Mine, Ch1!Reply!Theirs, Ch1!Reply!Fingerprint, Ch1!Reply!Last,
        Ch1!Reply!Awaiting, Ch1!Reply!SentFor, Ch1!Reply!Answered,
        Ch1!Reply!QueueQuestion, Ch1!Reply!AutoWants, Ch1!Reply!ChatikWants,
        Ch1!Reply!Draft, Ch1!Reply!PlanAuto, Ch1!Reply!PlanChatik, Ch1!Reply!Planned,
        Ch1!Reply!PlanRow, Ch1!Reply!Escalates, Ch1!Reply!PlanReply,
        Ch1!Reply!HoldPlan, Ch1!Reply!Confirmable, Ch1!Reply!Confirm, Ch1!Reply!Key,
        Ch1!Reply!Approval, Ch1!Reply!Send, Ch1!Reply!Row, Ch1!Reply!Record,
        Ch1!Reply!Killed, Ch1!Reply!Leave, Ch1!Reply!Linked, Ch1!Reply!TakesOver,
        Ch1!Reply!Approve, Ch1!Reply!Reject, Ch1!Reply!Modify, Ch1!Reply!Employer,
        Ch1!Reply!Next
  <1>3. Init /\ part = "reply" => Reply!Init
    BY DEF Init
  <1>4. part = "reply" /\ [Next]_vars => [Reply!Next]_(Reply!vars)
    BY DEF Next, vars, Only, ReplyVars, Reply!vars
  <1>5. [Reply!Next]_(Reply!vars) => [Ch1!Reply!Next]_(Ch1!Reply!vars)
    BY <1>2 DEF
        Reply!vars, Ch1!Reply!vars
  <1>6. part = "reply" /\ [Next]_vars => (part = "reply")'
    BY PartStays
  <1> QED BY <1>1, <1>3, <1>4, <1>5, <1>6, PTL DEF Spec

\* Two commands that reply.
LEMMA Replies2Runs == Spec /\ part = "two replies" => Ch2!Reply!Init /\ [][Ch2!Reply!Next]_(Ch2!Reply!vars)
  <1>1. ASSUME Replies2!Init PROVE Ch2!Reply!Init
    BY <1>1 DEF
        Replies2!Idle, Replies2!Init, Ch2!Reply!Idle, Ch2!Reply!Init
  <1>2. ASSUME Replies2!Next PROVE Ch2!Reply!Next
    BY <1>2 DEF
        Replies2!Questions, Replies2!Idle, Replies2!Mine, Replies2!Theirs,
        Replies2!Fingerprint, Replies2!Last, Replies2!Awaiting, Replies2!SentFor,
        Replies2!Answered, Replies2!QueueQuestion, Replies2!AutoWants,
        Replies2!ChatikWants, Replies2!Draft, Replies2!PlanAuto, Replies2!PlanChatik,
        Replies2!Planned, Replies2!PlanRow, Replies2!Escalates, Replies2!PlanReply,
        Replies2!HoldPlan, Replies2!Confirmable, Replies2!Confirm, Replies2!Key,
        Replies2!Approval, Replies2!Send, Replies2!Row, Replies2!Record,
        Replies2!Killed, Replies2!Leave, Replies2!Linked, Replies2!TakesOver,
        Replies2!Approve, Replies2!Reject, Replies2!Modify, Replies2!Employer,
        Replies2!Next, Ch2!Reply!Questions, Ch2!Reply!Idle, Ch2!Reply!Mine,
        Ch2!Reply!Theirs, Ch2!Reply!Fingerprint, Ch2!Reply!Last, Ch2!Reply!Awaiting,
        Ch2!Reply!SentFor, Ch2!Reply!Answered, Ch2!Reply!QueueQuestion,
        Ch2!Reply!AutoWants, Ch2!Reply!ChatikWants, Ch2!Reply!Draft,
        Ch2!Reply!PlanAuto, Ch2!Reply!PlanChatik, Ch2!Reply!Planned, Ch2!Reply!PlanRow,
        Ch2!Reply!Escalates, Ch2!Reply!PlanReply, Ch2!Reply!HoldPlan,
        Ch2!Reply!Confirmable, Ch2!Reply!Confirm, Ch2!Reply!Key, Ch2!Reply!Approval,
        Ch2!Reply!Send, Ch2!Reply!Row, Ch2!Reply!Record, Ch2!Reply!Killed,
        Ch2!Reply!Leave, Ch2!Reply!Linked, Ch2!Reply!TakesOver, Ch2!Reply!Approve,
        Ch2!Reply!Reject, Ch2!Reply!Modify, Ch2!Reply!Employer, Ch2!Reply!Next
  <1>3. Init /\ part = "two replies" => Replies2!Init
    BY DEF Init
  <1>4. part = "two replies" /\ [Next]_vars => [Replies2!Next]_(Replies2!vars)
    BY DEF Next, vars, Only, ReplyVars, Replies2!vars
  <1>5. [Replies2!Next]_(Replies2!vars) => [Ch2!Reply!Next]_(Ch2!Reply!vars)
    BY <1>2 DEF
        Replies2!vars, Ch2!Reply!vars
  <1>6. part = "two replies" /\ [Next]_vars => (part = "two replies")'
    BY PartStays
  <1> QED BY <1>1, <1>3, <1>4, <1>5, <1>6, PTL DEF Spec

\* Applications that the operator confirms.
LEMMA Manual1Runs == Spec /\ part = "manual" => Ch1!Hand!Init /\ [][Ch1!Hand!Next]_(Ch1!Hand!vars)
  <1>1. ASSUME Manual1!Init PROVE Ch1!Hand!Init
    BY <1>1 DEF
        Manual1!Rows, Manual1!None, Manual1!Nothing, Manual1!NoLetter, Manual1!Idle,
        Manual1!Init, Ch1!Hand!Rows, Ch1!Hand!None, Ch1!Hand!Nothing,
        Ch1!Hand!NoLetter, Ch1!Hand!Idle, Ch1!Hand!Init
  <1>2. \A c : Manual1!ReadyRows(c) = Ch1!Hand!ReadyRows(c)
    <2>1. \A S : Manual1!Cardinality(S) = Ch1!Hand!Cardinality(S)
      BY DEF Manual1!Cardinality, Ch1!Hand!Cardinality
    <2>2. \A f : Manual1!IsInjective(f) = Ch1!Hand!IsInjective(f)
      BY DEF Manual1!IsInjective, Ch1!Hand!IsInjective
    <2>3. \A S : Manual1!SetToSeq(S) = Ch1!Hand!SetToSeq(S)
      BY <2>1, <2>2 DEF Manual1!SetToSeq, Ch1!Hand!SetToSeq
    <2> QED BY <2>3 DEF Manual1!ReadyRows, Ch1!Hand!ReadyRows
  <1>3. ASSUME NEW w, Manual1!ConfirmCampaign(w) PROVE Ch1!Hand!ConfirmCampaign(w)
    BY <1>2, <1>3 DEF
        Manual1!None, Manual1!Idle, Manual1!Quiet, Manual1!Begin,
        Manual1!ConfirmCampaign, Ch1!Hand!None, Ch1!Hand!Idle, Ch1!Hand!Quiet,
        Ch1!Hand!Begin, Ch1!Hand!ConfirmCampaign
  <1>4. ASSUME NEW w,
           \/ Manual1!ConfirmPlan(w) \/ Manual1!RunFile(w) \/ Manual1!FileRow(w)
           \/ Manual1!EndFile(w) \/ Manual1!SaveLetters(w) \/ Manual1!StartRun(w)
           \/ Manual1!Refuse(w) \/ Manual1!Dispatch(w) \/ Manual1!Deliver(w)
           \/ Manual1!Answer(w) \/ Manual1!WriteCampaign(w) \/ Manual1!WritePlan(w)
           \/ Manual1!WriteFileRow(w) \/ Manual1!Die(w)
        PROVE \/ Ch1!Hand!ConfirmPlan(w) \/ Ch1!Hand!RunFile(w) \/ Ch1!Hand!FileRow(w)
              \/ Ch1!Hand!EndFile(w) \/ Ch1!Hand!SaveLetters(w) \/ Ch1!Hand!StartRun(w)
              \/ Ch1!Hand!Refuse(w) \/ Ch1!Hand!Dispatch(w) \/ Ch1!Hand!Deliver(w)
              \/ Ch1!Hand!Answer(w) \/ Ch1!Hand!WriteCampaign(w)
              \/ Ch1!Hand!WritePlan(w) \/ Ch1!Hand!WriteFileRow(w) \/ Ch1!Hand!Die(w)
    BY <1>4 DEF
        Manual1!None, Manual1!NoLetter, Manual1!Idle, Manual1!Quiet, Manual1!Begin,
        Manual1!ConfirmPlan, Manual1!RunFile, Manual1!Processed, Manual1!Rest,
        Manual1!FileRow, Manual1!EndFile, Manual1!SavedLetters, Manual1!SaveLetters,
        Manual1!Ran, Manual1!Target, Manual1!Key, Manual1!More, Manual1!Report,
        Manual1!StartRun, Manual1!Settled, Manual1!Refuse, Manual1!TakesLatest,
        Manual1!LetterOf, Manual1!Rendered, Manual1!Dispatch, Manual1!Deliver,
        Manual1!Answer, Manual1!Legacy, Manual1!Status, Manual1!WriteCampaign,
        Manual1!WritePlan, Manual1!WriteFileRow, Manual1!Die, Ch1!Hand!None,
        Ch1!Hand!NoLetter, Ch1!Hand!Idle, Ch1!Hand!Quiet, Ch1!Hand!Begin,
        Ch1!Hand!ConfirmPlan, Ch1!Hand!RunFile, Ch1!Hand!Processed, Ch1!Hand!Rest,
        Ch1!Hand!FileRow, Ch1!Hand!EndFile, Ch1!Hand!SavedLetters,
        Ch1!Hand!SaveLetters, Ch1!Hand!Ran, Ch1!Hand!Target, Ch1!Hand!Key,
        Ch1!Hand!More, Ch1!Hand!Report, Ch1!Hand!StartRun, Ch1!Hand!Settled,
        Ch1!Hand!Refuse, Ch1!Hand!TakesLatest, Ch1!Hand!LetterOf, Ch1!Hand!Rendered,
        Ch1!Hand!Dispatch, Ch1!Hand!Deliver, Ch1!Hand!Answer, Ch1!Hand!Legacy,
        Ch1!Hand!Status, Ch1!Hand!WriteCampaign, Ch1!Hand!WritePlan,
        Ch1!Hand!WriteFileRow, Ch1!Hand!Die
  <1>5. ASSUME \/ Manual1!Draft \/ Manual1!PlanCampaign \/ Manual1!PreparePlan
                \/ Manual1!EditFile \/ Manual1!DryRun \/ Manual1!Autopilot
         PROVE \/ Ch1!Hand!Draft \/ Ch1!Hand!PlanCampaign \/ Ch1!Hand!PreparePlan
               \/ Ch1!Hand!EditFile \/ Ch1!Hand!DryRun \/ Ch1!Hand!Autopilot
    BY <1>5 DEF
        Manual1!Rows, Manual1!None, Manual1!NoLetter, Manual1!Idle, Manual1!Delivered,
        Manual1!Quiet, Manual1!Draft, Manual1!Letter, Manual1!WithLetters,
        Manual1!Applied, Manual1!PlannedRow, Manual1!PlanCampaign, Manual1!SavedPlan,
        Manual1!PreparePlan, Manual1!EditFile, Manual1!DryRun, Manual1!Settled,
        Manual1!TakesLatest, Manual1!LetterOf, Manual1!Rendered, Manual1!Autopilot,
        Ch1!Hand!Rows, Ch1!Hand!None, Ch1!Hand!NoLetter, Ch1!Hand!Idle,
        Ch1!Hand!Delivered, Ch1!Hand!Quiet, Ch1!Hand!Draft, Ch1!Hand!Letter,
        Ch1!Hand!WithLetters, Ch1!Hand!Applied, Ch1!Hand!PlannedRow,
        Ch1!Hand!PlanCampaign, Ch1!Hand!SavedPlan, Ch1!Hand!PreparePlan,
        Ch1!Hand!EditFile, Ch1!Hand!DryRun, Ch1!Hand!Settled, Ch1!Hand!TakesLatest,
        Ch1!Hand!LetterOf, Ch1!Hand!Rendered, Ch1!Hand!Autopilot
  <1>6. ASSUME Manual1!Next PROVE Ch1!Hand!Next
    <2>1. \A w : Manual1!Command(w) => Ch1!Hand!Command(w)
      BY <1>3, <1>4 DEF Manual1!Command, Ch1!Hand!Command
    <2> QED BY <1>6, <1>5, <2>1 DEF Manual1!Next, Ch1!Hand!Next
  <1>7. Init /\ part = "manual" => Manual1!Init
    BY DEF Init
  <1>8. part = "manual" /\ [Next]_vars => [Manual1!Next]_(Manual1!vars)
    BY DEF Next, vars, Only, Manual1Vars, Manual1!vars
  <1>9. [Manual1!Next]_(Manual1!vars) => [Ch1!Hand!Next]_(Ch1!Hand!vars)
    BY <1>6 DEF
        Manual1!vars, Ch1!Hand!vars
  <1>10. part = "manual" /\ [Next]_vars => (part = "manual")'
    BY PartStays
  <1> QED BY <1>1, <1>7, <1>8, <1>9, <1>10, PTL DEF Spec

\* The same with two commands side by side.
LEMMA Manual2Runs == Spec /\ part = "two manual" => Ch2!Hand!Init /\ [][Ch2!Hand!Next]_(Ch2!Hand!vars)
  <1>1. ASSUME Manual2!Init PROVE Ch2!Hand!Init
    BY <1>1 DEF
        Manual2!Rows, Manual2!None, Manual2!Nothing, Manual2!NoLetter, Manual2!Idle,
        Manual2!Init, Ch2!Hand!Rows, Ch2!Hand!None, Ch2!Hand!Nothing,
        Ch2!Hand!NoLetter, Ch2!Hand!Idle, Ch2!Hand!Init
  <1>2. \A c : Manual2!ReadyRows(c) = Ch2!Hand!ReadyRows(c)
    <2>1. \A S : Manual2!Cardinality(S) = Ch2!Hand!Cardinality(S)
      BY DEF Manual2!Cardinality, Ch2!Hand!Cardinality
    <2>2. \A f : Manual2!IsInjective(f) = Ch2!Hand!IsInjective(f)
      BY DEF Manual2!IsInjective, Ch2!Hand!IsInjective
    <2>3. \A S : Manual2!SetToSeq(S) = Ch2!Hand!SetToSeq(S)
      BY <2>1, <2>2 DEF Manual2!SetToSeq, Ch2!Hand!SetToSeq
    <2> QED BY <2>3 DEF Manual2!ReadyRows, Ch2!Hand!ReadyRows
  <1>3. ASSUME NEW w, Manual2!ConfirmCampaign(w) PROVE Ch2!Hand!ConfirmCampaign(w)
    BY <1>2, <1>3 DEF
        Manual2!None, Manual2!Idle, Manual2!Quiet, Manual2!Begin,
        Manual2!ConfirmCampaign, Ch2!Hand!None, Ch2!Hand!Idle, Ch2!Hand!Quiet,
        Ch2!Hand!Begin, Ch2!Hand!ConfirmCampaign
  <1>4. ASSUME NEW w,
           \/ Manual2!ConfirmPlan(w) \/ Manual2!RunFile(w) \/ Manual2!FileRow(w)
           \/ Manual2!EndFile(w) \/ Manual2!SaveLetters(w) \/ Manual2!StartRun(w)
           \/ Manual2!Refuse(w) \/ Manual2!Dispatch(w) \/ Manual2!Deliver(w)
           \/ Manual2!Answer(w) \/ Manual2!WriteCampaign(w) \/ Manual2!WritePlan(w)
           \/ Manual2!WriteFileRow(w) \/ Manual2!Die(w)
        PROVE \/ Ch2!Hand!ConfirmPlan(w) \/ Ch2!Hand!RunFile(w) \/ Ch2!Hand!FileRow(w)
              \/ Ch2!Hand!EndFile(w) \/ Ch2!Hand!SaveLetters(w) \/ Ch2!Hand!StartRun(w)
              \/ Ch2!Hand!Refuse(w) \/ Ch2!Hand!Dispatch(w) \/ Ch2!Hand!Deliver(w)
              \/ Ch2!Hand!Answer(w) \/ Ch2!Hand!WriteCampaign(w)
              \/ Ch2!Hand!WritePlan(w) \/ Ch2!Hand!WriteFileRow(w) \/ Ch2!Hand!Die(w)
    BY <1>4 DEF
        Manual2!None, Manual2!NoLetter, Manual2!Idle, Manual2!Quiet, Manual2!Begin,
        Manual2!ConfirmPlan, Manual2!RunFile, Manual2!Processed, Manual2!Rest,
        Manual2!FileRow, Manual2!EndFile, Manual2!SavedLetters, Manual2!SaveLetters,
        Manual2!Ran, Manual2!Target, Manual2!Key, Manual2!More, Manual2!Report,
        Manual2!StartRun, Manual2!Settled, Manual2!Refuse, Manual2!TakesLatest,
        Manual2!LetterOf, Manual2!Rendered, Manual2!Dispatch, Manual2!Deliver,
        Manual2!Answer, Manual2!Legacy, Manual2!Status, Manual2!WriteCampaign,
        Manual2!WritePlan, Manual2!WriteFileRow, Manual2!Die, Ch2!Hand!None,
        Ch2!Hand!NoLetter, Ch2!Hand!Idle, Ch2!Hand!Quiet, Ch2!Hand!Begin,
        Ch2!Hand!ConfirmPlan, Ch2!Hand!RunFile, Ch2!Hand!Processed, Ch2!Hand!Rest,
        Ch2!Hand!FileRow, Ch2!Hand!EndFile, Ch2!Hand!SavedLetters,
        Ch2!Hand!SaveLetters, Ch2!Hand!Ran, Ch2!Hand!Target, Ch2!Hand!Key,
        Ch2!Hand!More, Ch2!Hand!Report, Ch2!Hand!StartRun, Ch2!Hand!Settled,
        Ch2!Hand!Refuse, Ch2!Hand!TakesLatest, Ch2!Hand!LetterOf, Ch2!Hand!Rendered,
        Ch2!Hand!Dispatch, Ch2!Hand!Deliver, Ch2!Hand!Answer, Ch2!Hand!Legacy,
        Ch2!Hand!Status, Ch2!Hand!WriteCampaign, Ch2!Hand!WritePlan,
        Ch2!Hand!WriteFileRow, Ch2!Hand!Die
  <1>5. ASSUME \/ Manual2!Draft \/ Manual2!PlanCampaign \/ Manual2!PreparePlan
                \/ Manual2!EditFile \/ Manual2!DryRun \/ Manual2!Autopilot
         PROVE \/ Ch2!Hand!Draft \/ Ch2!Hand!PlanCampaign \/ Ch2!Hand!PreparePlan
               \/ Ch2!Hand!EditFile \/ Ch2!Hand!DryRun \/ Ch2!Hand!Autopilot
    BY <1>5 DEF
        Manual2!Rows, Manual2!None, Manual2!NoLetter, Manual2!Idle, Manual2!Delivered,
        Manual2!Quiet, Manual2!Draft, Manual2!Letter, Manual2!WithLetters,
        Manual2!Applied, Manual2!PlannedRow, Manual2!PlanCampaign, Manual2!SavedPlan,
        Manual2!PreparePlan, Manual2!EditFile, Manual2!DryRun, Manual2!Settled,
        Manual2!TakesLatest, Manual2!LetterOf, Manual2!Rendered, Manual2!Autopilot,
        Ch2!Hand!Rows, Ch2!Hand!None, Ch2!Hand!NoLetter, Ch2!Hand!Idle,
        Ch2!Hand!Delivered, Ch2!Hand!Quiet, Ch2!Hand!Draft, Ch2!Hand!Letter,
        Ch2!Hand!WithLetters, Ch2!Hand!Applied, Ch2!Hand!PlannedRow,
        Ch2!Hand!PlanCampaign, Ch2!Hand!SavedPlan, Ch2!Hand!PreparePlan,
        Ch2!Hand!EditFile, Ch2!Hand!DryRun, Ch2!Hand!Settled, Ch2!Hand!TakesLatest,
        Ch2!Hand!LetterOf, Ch2!Hand!Rendered, Ch2!Hand!Autopilot
  <1>6. ASSUME Manual2!Next PROVE Ch2!Hand!Next
    <2>1. \A w : Manual2!Command(w) => Ch2!Hand!Command(w)
      BY <1>3, <1>4 DEF Manual2!Command, Ch2!Hand!Command
    <2> QED BY <1>6, <1>5, <2>1 DEF Manual2!Next, Ch2!Hand!Next
  <1>7. Init /\ part = "two manual" => Manual2!Init
    BY DEF Init
  <1>8. part = "two manual" /\ [Next]_vars => [Manual2!Next]_(Manual2!vars)
    BY DEF Next, vars, Only, Manual1Vars, Manual2!vars
  <1>9. [Manual2!Next]_(Manual2!vars) => [Ch2!Hand!Next]_(Ch2!Hand!vars)
    BY <1>6 DEF
        Manual2!vars, Ch2!Hand!vars
  <1>10. part = "two manual" /\ [Next]_vars => (part = "two manual")'
    BY PartStays
  <1> QED BY <1>1, <1>7, <1>8, <1>9, <1>10, PTL DEF Spec

\* The same with a list in a file.
LEMMA FileRuns == Spec /\ part = "file" => Ch3!Hand!Init /\ [][Ch3!Hand!Next]_(Ch3!Hand!vars)
  <1>1. ASSUME File!Init PROVE Ch3!Hand!Init
    BY <1>1 DEF
        File!Rows, File!None, File!Nothing, File!NoLetter, File!Idle, File!Init,
        Ch3!Hand!Rows, Ch3!Hand!None, Ch3!Hand!Nothing, Ch3!Hand!NoLetter,
        Ch3!Hand!Idle, Ch3!Hand!Init
  <1>2. \A c : File!ReadyRows(c) = Ch3!Hand!ReadyRows(c)
    <2>1. \A S : File!Cardinality(S) = Ch3!Hand!Cardinality(S)
      BY DEF File!Cardinality, Ch3!Hand!Cardinality
    <2>2. \A f : File!IsInjective(f) = Ch3!Hand!IsInjective(f)
      BY DEF File!IsInjective, Ch3!Hand!IsInjective
    <2>3. \A S : File!SetToSeq(S) = Ch3!Hand!SetToSeq(S)
      BY <2>1, <2>2 DEF File!SetToSeq, Ch3!Hand!SetToSeq
    <2> QED BY <2>3 DEF File!ReadyRows, Ch3!Hand!ReadyRows
  <1>3. ASSUME NEW w, File!ConfirmCampaign(w) PROVE Ch3!Hand!ConfirmCampaign(w)
    BY <1>2, <1>3 DEF
        File!None, File!Idle, File!Quiet, File!Begin, File!ConfirmCampaign,
        Ch3!Hand!None, Ch3!Hand!Idle, Ch3!Hand!Quiet, Ch3!Hand!Begin,
        Ch3!Hand!ConfirmCampaign
  <1>4. ASSUME NEW w,
           \/ File!ConfirmPlan(w) \/ File!RunFile(w) \/ File!FileRow(w)
           \/ File!EndFile(w) \/ File!SaveLetters(w) \/ File!StartRun(w)
           \/ File!Refuse(w) \/ File!Dispatch(w) \/ File!Deliver(w) \/ File!Answer(w)
           \/ File!WriteCampaign(w) \/ File!WritePlan(w) \/ File!WriteFileRow(w)
           \/ File!Die(w)
        PROVE \/ Ch3!Hand!ConfirmPlan(w) \/ Ch3!Hand!RunFile(w) \/ Ch3!Hand!FileRow(w)
              \/ Ch3!Hand!EndFile(w) \/ Ch3!Hand!SaveLetters(w) \/ Ch3!Hand!StartRun(w)
              \/ Ch3!Hand!Refuse(w) \/ Ch3!Hand!Dispatch(w) \/ Ch3!Hand!Deliver(w)
              \/ Ch3!Hand!Answer(w) \/ Ch3!Hand!WriteCampaign(w)
              \/ Ch3!Hand!WritePlan(w) \/ Ch3!Hand!WriteFileRow(w) \/ Ch3!Hand!Die(w)
    BY <1>4 DEF
        File!None, File!NoLetter, File!Idle, File!Quiet, File!Begin, File!ConfirmPlan,
        File!RunFile, File!Processed, File!Rest, File!FileRow, File!EndFile,
        File!SavedLetters, File!SaveLetters, File!Ran, File!Target, File!Key,
        File!More, File!Report, File!StartRun, File!Settled, File!Refuse,
        File!TakesLatest, File!LetterOf, File!Rendered, File!Dispatch, File!Deliver,
        File!Answer, File!Legacy, File!Status, File!WriteCampaign, File!WritePlan,
        File!WriteFileRow, File!Die, Ch3!Hand!None, Ch3!Hand!NoLetter, Ch3!Hand!Idle,
        Ch3!Hand!Quiet, Ch3!Hand!Begin, Ch3!Hand!ConfirmPlan, Ch3!Hand!RunFile,
        Ch3!Hand!Processed, Ch3!Hand!Rest, Ch3!Hand!FileRow, Ch3!Hand!EndFile,
        Ch3!Hand!SavedLetters, Ch3!Hand!SaveLetters, Ch3!Hand!Ran, Ch3!Hand!Target,
        Ch3!Hand!Key, Ch3!Hand!More, Ch3!Hand!Report, Ch3!Hand!StartRun,
        Ch3!Hand!Settled, Ch3!Hand!Refuse, Ch3!Hand!TakesLatest, Ch3!Hand!LetterOf,
        Ch3!Hand!Rendered, Ch3!Hand!Dispatch, Ch3!Hand!Deliver, Ch3!Hand!Answer,
        Ch3!Hand!Legacy, Ch3!Hand!Status, Ch3!Hand!WriteCampaign, Ch3!Hand!WritePlan,
        Ch3!Hand!WriteFileRow, Ch3!Hand!Die
  <1>5. ASSUME \/ File!Draft \/ File!PlanCampaign \/ File!PreparePlan \/ File!EditFile
                \/ File!DryRun \/ File!Autopilot
         PROVE \/ Ch3!Hand!Draft \/ Ch3!Hand!PlanCampaign \/ Ch3!Hand!PreparePlan
               \/ Ch3!Hand!EditFile \/ Ch3!Hand!DryRun \/ Ch3!Hand!Autopilot
    BY <1>5 DEF
        File!Rows, File!None, File!NoLetter, File!Idle, File!Delivered, File!Quiet,
        File!Draft, File!Letter, File!WithLetters, File!Applied, File!PlannedRow,
        File!PlanCampaign, File!SavedPlan, File!PreparePlan, File!EditFile,
        File!DryRun, File!Settled, File!TakesLatest, File!LetterOf, File!Rendered,
        File!Autopilot, Ch3!Hand!Rows, Ch3!Hand!None, Ch3!Hand!NoLetter, Ch3!Hand!Idle,
        Ch3!Hand!Delivered, Ch3!Hand!Quiet, Ch3!Hand!Draft, Ch3!Hand!Letter,
        Ch3!Hand!WithLetters, Ch3!Hand!Applied, Ch3!Hand!PlannedRow,
        Ch3!Hand!PlanCampaign, Ch3!Hand!SavedPlan, Ch3!Hand!PreparePlan,
        Ch3!Hand!EditFile, Ch3!Hand!DryRun, Ch3!Hand!Settled, Ch3!Hand!TakesLatest,
        Ch3!Hand!LetterOf, Ch3!Hand!Rendered, Ch3!Hand!Autopilot
  <1>6. ASSUME File!Next PROVE Ch3!Hand!Next
    <2>1. \A w : File!Command(w) => Ch3!Hand!Command(w)
      BY <1>3, <1>4 DEF File!Command, Ch3!Hand!Command
    <2> QED BY <1>6, <1>5, <2>1 DEF File!Next, Ch3!Hand!Next
  <1>7. Init /\ part = "file" => File!Init
    BY DEF Init
  <1>8. part = "file" /\ [Next]_vars => [File!Next]_(File!vars)
    BY DEF Next, vars, Only, Manual1Vars, File!vars
  <1>9. [File!Next]_(File!vars) => [Ch3!Hand!Next]_(Ch3!Hand!vars)
    BY <1>6 DEF
        File!vars, Ch3!Hand!vars
  <1>10. part = "file" /\ [Next]_vars => (part = "file")'
    BY PartStays
  <1> QED BY <1>1, <1>7, <1>8, <1>9, <1>10, PTL DEF Spec
------------------------------------------------------------------------------
\* The constants of the suite are what the proofs assume of them.
LEMMA ConstantsFit ==
    /\ Ch1!Form!BrowserFormAssumption /\ Ch1!Alone /\ \A l, m \in {<<"v1">>} : l = m
    /\ Ch1!Hand!ManualAssumption /\ Ch2!Hand!ManualAssumption /\ Ch3!Hand!ManualAssumption
  <1>1. Ch1!Form!BrowserFormAssumption
    BY Assumptions DEF Assumptions, Form!BrowserFormAssumption, Ch1!Form!BrowserFormAssumption
  <1>2. Ch1!Alone
    BY DEF Ch1!Alone
  <1>3. Ch1!Hand!ManualAssumption
    BY Assumptions DEF Assumptions, Manual1!ManualAssumption, Ch1!Hand!ManualAssumption,
       Manual1!Rows, Ch1!Hand!Rows, Manual1!IsFiniteSet, Ch1!Hand!IsFiniteSet
  <1>4. Ch2!Hand!ManualAssumption
    BY Assumptions DEF Assumptions, Manual2!ManualAssumption, Ch2!Hand!ManualAssumption,
       Manual2!Rows, Ch2!Hand!Rows, Manual2!IsFiniteSet, Ch2!Hand!IsFiniteSet
  <1>5. Ch3!Hand!ManualAssumption
    BY Assumptions DEF Assumptions, File!ManualAssumption, Ch3!Hand!ManualAssumption,
       File!Rows, Ch3!Hand!Rows, File!IsFiniteSet, Ch3!Hand!IsFiniteSet
  <1> QED BY <1>1, <1>2, <1>3, <1>4, <1>5
------------------------------------------------------------------------------
\* A request of the API or of a test goes out again only after HH asked for
\* something, a button is clicked first only after it asked for a form or a
\* test, and all of them carry the cookies of the last solved CAPTCHA
\* (HHApiSession.apply, _sync_api_cookies); clicks after a click that raised
\* are not covered.
THEOREM RequestsFollow == Spec => []RequestsFollowAnswers
  <1>1. Spec /\ part = "native" => []RequestsFollowAnswers
    <2>1. Ch1!Native!Init /\ [][Ch1!Native!Next]_(Ch1!Native!vars)
            => [](Ch1!Native!AskedBeforeAgain /\ Ch1!Native!SolutionIsCarried)
      BY Ch1!NativeRequestsFollowAnswers, PTL DEF Ch1!Native!Spec
    <2>2. Ch1!Native!AskedBeforeAgain /\ Ch1!Native!SolutionIsCarried => RequestsFollowAnswers
      BY DEF RequestsFollowAnswers, Native!AskedBeforeAgain, Native!SolutionIsCarried,
         Ch1!Native!AskedBeforeAgain, Ch1!Native!SolutionIsCarried
    <2> QED BY <2>1, <2>2, NativeRuns, PTL
  <1>2. Spec /\ ~(part = "native") => []RequestsFollowAnswers
    <2>1. ~(part = "native") => RequestsFollowAnswers
      BY DEF RequestsFollowAnswers
    <2>2. ~(part = "native") /\ [Next]_vars => (~(part = "native"))'
      BY PartStays
    <2> QED BY <2>1, <2>2, PTL DEF Spec
  <1> QED BY <1>1, <1>2, PTL

\* Nothing is sent twice for one purpose: to another site (confirm_apply with
\* its claim), with workers side by side and after crashes; to an address of a
\* plan, where one command of the plan works at a time; and to Chatik under one
\* key, as the server drops a key it has seen.
THEOREM NothingIsSentTwice == Spec => []SentOnce
  <1>1. Spec /\ part = "external" => []SentOnce
    <2>1. Ch1!Ext!Init /\ [][Ch1!Ext!Next]_(Ch1!Ext!vars) => [](Ch1!Ext!SubmittedOnce /\ Ch1!Ext!SubmissionIsRemembered)
      BY Ch1!VacancyIsAppliedToOnce, PTL DEF Ch1!Ext!Spec
    <2>2. part = "external" /\ Ch1!Ext!SubmittedOnce /\ Ch1!Ext!SubmissionIsRemembered => SentOnce
      BY DEF SentOnce,
         Ext!ByHand, Ext!Rows, Ext!Spent, Ext!Harmless, Ext!ByProgram,
         Ext!SubmittedOnce, Ext!SubmissionIsRemembered, Ch1!Ext!ByHand, Ch1!Ext!Rows,
         Ch1!Ext!Spent, Ch1!Ext!Harmless, Ch1!Ext!ByProgram, Ch1!Ext!SubmittedOnce,
         Ch1!Ext!SubmissionIsRemembered
    <2>3. part = "external" /\ [Next]_vars => (part = "external")'
      BY PartStays
    <2> QED BY <2>1, <2>2, <2>3, ExtRuns, PTL DEF Spec
  <1>2. Spec /\ part = "three plans" => []SentOnce
    <2>1. Ch2!Ext!Init /\ [][Ch2!Ext!Next]_(Ch2!Ext!vars) => [](Ch2!Ext!SubmittedOnce /\ Ch2!Ext!SubmissionIsRemembered)
      BY Ch2!VacancyIsAppliedToOnce, PTL DEF Ch2!Ext!Spec
    <2>2. part = "three plans" /\ Ch2!Ext!SubmittedOnce /\ Ch2!Ext!SubmissionIsRemembered => SentOnce
      BY DEF SentOnce,
         Ext!ByHand, Ext!Rows, Ext!Spent, Ext!Harmless, Ext!ByProgram,
         Ext!SubmittedOnce, Ext!SubmissionIsRemembered, Ch2!Ext!ByHand, Ch2!Ext!Rows,
         Ch2!Ext!Spent, Ch2!Ext!Harmless, Ch2!Ext!ByProgram, Ch2!Ext!SubmittedOnce,
         Ch2!Ext!SubmissionIsRemembered
    <2>3. part = "three plans" /\ [Next]_vars => (part = "three plans")'
      BY PartStays
    <2> QED BY <2>1, <2>2, <2>3, Ext3Runs, PTL DEF Spec
  <1>3. Spec /\ part = "mail" => []SentOnce
    <2>1. Ch1!Mail!Init /\ [][Ch1!Mail!Next]_(Ch1!Mail!vars) => [](Ch1!Mail!OneMailPerSpelling)
      BY ConstantsFit, Ch1!MailsGoOutOnce, PTL DEF Ch1!Mail!Spec
    <2>2. part = "mail" /\ Ch1!Mail!OneMailPerSpelling => SentOnce
      BY DEF SentOnce,
         Mail!Sendings, Mail!MailedOnce, Mail!To, Mail!OneMailPerSpelling,
         Ch1!Mail!Sendings, Ch1!Mail!MailedOnce, Ch1!Mail!To,
         Ch1!Mail!OneMailPerSpelling
    <2>3. part = "mail" /\ [Next]_vars => (part = "mail")'
      BY PartStays
    <2> QED BY <2>1, <2>2, <2>3, MailRuns, PTL DEF Spec
  <1>4. Spec /\ part = "two replies" => []SentOnce
    <2>1. Ch2!Reply!Init /\ [][Ch2!Reply!Next]_(Ch2!Reply!vars) => [](Ch2!Reply!ChatikOnce)
      BY Ch2!RepliesAreInOrder, PTL DEF Ch2!Reply!Spec
    <2>2. part = "two replies" /\ Ch2!Reply!ChatikOnce => SentOnce
      BY DEF SentOnce,
         Replies2!Ours, Replies2!ChatikOnce, Ch2!Reply!Ours, Ch2!Reply!ChatikOnce
    <2>3. part = "two replies" /\ [Next]_vars => (part = "two replies")'
      BY PartStays
    <2> QED BY <2>1, <2>2, <2>3, Replies2Runs, PTL DEF Spec
  <1>5. Spec
        /\ ~(part = "external")
        /\ ~(part = "three plans")
        /\ ~(part = "mail")
        /\ ~(part = "two replies")
        => []SentOnce
    <2>1. /\ ~(part = "external")
          /\ ~(part = "three plans")
          /\ ~(part = "mail")
          /\ ~(part = "two replies")
          => SentOnce
      BY DEF SentOnce
    <2>2. /\ ~(part = "external") /\ [Next]_vars => (~(part = "external"))'
          /\ ~(part = "three plans") /\ [Next]_vars => (~(part = "three plans"))'
          /\ ~(part = "mail") /\ [Next]_vars => (~(part = "mail"))'
          /\ ~(part = "two replies") /\ [Next]_vars => (~(part = "two replies"))'
      BY PartStays
    <2> QED BY <2>1, <2>2, PTL DEF Spec
  <1> QED BY <1>1, <1>2, <1>3, <1>4, <1>5, PTL

\* What the program records or answers of a delivery is true, whichever way
\* the delivery went and whoever died, answered late or decided meanwhile; of
\* the HH transport, with the exceptions of RefusalIsTrue (a refusal after
\* several clicks or by an error of the server) and AppliedIsReal (a form).
THEOREM RecordsTellTheTruth == Spec => []RecordsAreReal
  <1>1. Spec /\ part = "external" => []RecordsAreReal
    <2>1. Ch1!Ext!Init /\ [][Ch1!Ext!Next]_(Ch1!Ext!vars) => [](Ch1!Ext!SentIsNeverOverstated)
      BY Ch1!SubmissionIsAsPreviewed, PTL DEF Ch1!Ext!Spec
    <2>2. part = "external" /\ Ch1!Ext!SentIsNeverOverstated => RecordsAreReal
      BY DEF RecordsAreReal,
         Ext!ByHand, Ext!Rows, Ext!SentIsNeverOverstated, Ch1!Ext!ByHand, Ch1!Ext!Rows,
         Ch1!Ext!SentIsNeverOverstated
    <2>3. part = "external" /\ [Next]_vars => (part = "external")'
      BY PartStays
    <2> QED BY <2>1, <2>2, <2>3, ExtRuns, PTL DEF Spec
  <1>2. Spec /\ part = "three plans" => []RecordsAreReal
    <2>1. Ch2!Ext!Init /\ [][Ch2!Ext!Next]_(Ch2!Ext!vars) => [](Ch2!Ext!SentIsNeverOverstated)
      BY Ch2!SubmissionIsAsPreviewed, PTL DEF Ch2!Ext!Spec
    <2>2. part = "three plans" /\ Ch2!Ext!SentIsNeverOverstated => RecordsAreReal
      BY DEF RecordsAreReal,
         Ext!ByHand, Ext!Rows, Ext!SentIsNeverOverstated, Ch2!Ext!ByHand, Ch2!Ext!Rows,
         Ch2!Ext!SentIsNeverOverstated
    <2>3. part = "three plans" /\ [Next]_vars => (part = "three plans")'
      BY PartStays
    <2> QED BY <2>1, <2>2, <2>3, Ext3Runs, PTL DEF Spec
  <1>3. Spec /\ part = "form" => []RecordsAreReal
    <2>1. Ch1!Form!Init /\ [][Ch1!Form!Next]_(Ch1!Form!vars) => [](Ch1!Form!AppliedIsReal /\ Ch1!Form!RetryableMeansUntouched)
      BY ConstantsFit, Ch1!FormAnswersAreTrue, PTL DEF Ch1!Form!Spec
    <2>2. part = "form" /\ Ch1!Form!AppliedIsReal /\ Ch1!Form!RetryableMeansUntouched => RecordsAreReal
      BY DEF RecordsAreReal,
         Form!RetryableMeansUntouched, Form!AppliedIsReal,
         Ch1!Form!RetryableMeansUntouched, Ch1!Form!AppliedIsReal
    <2>3. part = "form" /\ [Next]_vars => (part = "form")'
      BY PartStays
    <2> QED BY <2>1, <2>2, <2>3, FormRuns, PTL DEF Spec
  <1>4. Spec /\ part = "native" => []RecordsAreReal
    <2>1. Ch1!Native!Init /\ [][Ch1!Native!Next]_(Ch1!Native!vars) => [](Ch1!Native!RefusalIsTrue /\ Ch1!Native!AppliedIsReal)
      BY Ch1!NativeAnswersAreTrue, PTL DEF Ch1!Native!Spec
    <2>2. part = "native" /\ Ch1!Native!RefusalIsTrue /\ Ch1!Native!AppliedIsReal => RecordsAreReal
      BY DEF RecordsAreReal,
         Native!Unsent, Native!Definite, Native!Refuses, Native!RefusalIsTrue,
         Native!AppliedIsReal, Ch1!Native!Unsent, Ch1!Native!Definite,
         Ch1!Native!Refuses, Ch1!Native!RefusalIsTrue, Ch1!Native!AppliedIsReal
    <2>3. part = "native" /\ [Next]_vars => (part = "native")'
      BY PartStays
    <2> QED BY <2>1, <2>2, <2>3, NativeRuns, PTL DEF Spec
  <1>5. Spec /\ part = "mail" => []RecordsAreReal
    <2>1. Ch1!Mail!Init /\ [][Ch1!Mail!Next]_(Ch1!Mail!vars) => [](Ch1!Mail!SentIsReal)
      BY Ch1!SentMailIsReal, PTL DEF Ch1!Mail!Spec
    <2>2. part = "mail" /\ Ch1!Mail!SentIsReal => RecordsAreReal
      BY DEF RecordsAreReal,
         Mail!SentIsReal, Ch1!Mail!SentIsReal
    <2>3. part = "mail" /\ [Next]_vars => (part = "mail")'
      BY PartStays
    <2> QED BY <2>1, <2>2, <2>3, MailRuns, PTL DEF Spec
  <1>6. Spec /\ part = "reply" => []RecordsAreReal
    <2>1. Ch1!Reply!Init /\ [][Ch1!Reply!Next]_(Ch1!Reply!vars) => [](Ch1!Reply!SentRowIsReal)
      BY Ch1!RepliesAreInOrder, PTL DEF Ch1!Reply!Spec
    <2>2. part = "reply" /\ Ch1!Reply!SentRowIsReal => RecordsAreReal
      BY DEF RecordsAreReal,
         Reply!Ours, Reply!SentRowIsReal, Ch1!Reply!Ours, Ch1!Reply!SentRowIsReal
    <2>3. part = "reply" /\ [Next]_vars => (part = "reply")'
      BY PartStays
    <2> QED BY <2>1, <2>2, <2>3, ReplyRuns, PTL DEF Spec
  <1>7. Spec /\ part = "two replies" => []RecordsAreReal
    <2>1. Ch2!Reply!Init /\ [][Ch2!Reply!Next]_(Ch2!Reply!vars) => [](Ch2!Reply!SentRowIsReal)
      BY Ch2!RepliesAreInOrder, PTL DEF Ch2!Reply!Spec
    <2>2. part = "two replies" /\ Ch2!Reply!SentRowIsReal => RecordsAreReal
      BY DEF RecordsAreReal,
         Replies2!Ours, Replies2!SentRowIsReal, Ch2!Reply!Ours, Ch2!Reply!SentRowIsReal
    <2>3. part = "two replies" /\ [Next]_vars => (part = "two replies")'
      BY PartStays
    <2> QED BY <2>1, <2>2, <2>3, Replies2Runs, PTL DEF Spec
  <1>8. Spec /\ part = "manual" => []RecordsAreReal
    <2>1. Ch1!Hand!Init /\ [][Ch1!Hand!Next]_(Ch1!Hand!vars) => [](Ch1!Hand!AppliedIsReal /\ Ch1!Hand!ProcessedRowIsSent)
      BY ConstantsFit, Ch1!ConfirmedApplicationsAreReal, Ch1!PassedOverWasSent, PTL DEF Ch1!Hand!Spec
    <2>2. part = "manual" /\ Ch1!Hand!AppliedIsReal /\ Ch1!Hand!ProcessedRowIsSent => RecordsAreReal
      BY DEF RecordsAreReal,
         Manual1!Rows, Manual1!Delivered, Manual1!AppliedIsReal,
         Manual1!ProcessedRowIsSent, Ch1!Hand!Rows, Ch1!Hand!Delivered,
         Ch1!Hand!AppliedIsReal, Ch1!Hand!ProcessedRowIsSent
    <2>3. part = "manual" /\ [Next]_vars => (part = "manual")'
      BY PartStays
    <2> QED BY <2>1, <2>2, <2>3, Manual1Runs, PTL DEF Spec
  <1>9. Spec /\ part = "two manual" => []RecordsAreReal
    <2>1. Ch2!Hand!Init /\ [][Ch2!Hand!Next]_(Ch2!Hand!vars) => [](Ch2!Hand!AppliedIsReal)
      BY ConstantsFit, Ch2!ConfirmedApplicationsAreReal, PTL DEF Ch2!Hand!Spec
    <2>2. part = "two manual" /\ Ch2!Hand!AppliedIsReal => RecordsAreReal
      BY DEF RecordsAreReal,
         Manual2!Rows, Manual2!Delivered, Manual2!AppliedIsReal, Ch2!Hand!Rows,
         Ch2!Hand!Delivered, Ch2!Hand!AppliedIsReal
    <2>3. part = "two manual" /\ [Next]_vars => (part = "two manual")'
      BY PartStays
    <2> QED BY <2>1, <2>2, <2>3, Manual2Runs, PTL DEF Spec
  <1>10. Spec /\ part = "file" => []RecordsAreReal
    <2>1. Ch3!Hand!Init /\ [][Ch3!Hand!Next]_(Ch3!Hand!vars) => [](Ch3!Hand!AppliedIsReal)
      BY ConstantsFit, Ch3!ConfirmedApplicationsAreReal, PTL DEF Ch3!Hand!Spec
    <2>2. part = "file" /\ Ch3!Hand!AppliedIsReal => RecordsAreReal
      BY DEF RecordsAreReal,
         File!Rows, File!Delivered, File!AppliedIsReal, Ch3!Hand!Rows,
         Ch3!Hand!Delivered, Ch3!Hand!AppliedIsReal
    <2>3. part = "file" /\ [Next]_vars => (part = "file")'
      BY PartStays
    <2> QED BY <2>1, <2>2, <2>3, FileRuns, PTL DEF Spec
  <1>11. Spec
        /\ ~(part = "external")
        /\ ~(part = "three plans")
        /\ ~(part = "form")
        /\ ~(part = "native")
        /\ ~(part = "mail")
        /\ ~(part = "reply")
        /\ ~(part = "two replies")
        /\ ~(part = "manual")
        /\ ~(part = "two manual")
        /\ ~(part = "file")
        => []RecordsAreReal
    <2>1. /\ ~(part = "external")
          /\ ~(part = "three plans")
          /\ ~(part = "form")
          /\ ~(part = "native")
          /\ ~(part = "mail")
          /\ ~(part = "reply")
          /\ ~(part = "two replies")
          /\ ~(part = "manual")
          /\ ~(part = "two manual")
          /\ ~(part = "file")
          => RecordsAreReal
      BY DEF RecordsAreReal
    <2>2. /\ ~(part = "external") /\ [Next]_vars => (~(part = "external"))'
          /\ ~(part = "three plans") /\ [Next]_vars => (~(part = "three plans"))'
          /\ ~(part = "form") /\ [Next]_vars => (~(part = "form"))'
          /\ ~(part = "native") /\ [Next]_vars => (~(part = "native"))'
          /\ ~(part = "mail") /\ [Next]_vars => (~(part = "mail"))'
          /\ ~(part = "reply") /\ [Next]_vars => (~(part = "reply"))'
          /\ ~(part = "two replies") /\ [Next]_vars => (~(part = "two replies"))'
          /\ ~(part = "manual") /\ [Next]_vars => (~(part = "manual"))'
          /\ ~(part = "two manual") /\ [Next]_vars => (~(part = "two manual"))'
          /\ ~(part = "file") /\ [Next]_vars => (~(part = "file"))'
      BY PartStays
    <2> QED BY <2>1, <2>2, PTL DEF Spec
  <1> QED BY <1>1, <1>2, <1>3, <1>4, <1>5, <1>6, <1>7, <1>8, <1>9, <1>10, <1>11, PTL

\* What has left is what was confirmed, part by part.
ConfirmedLeft ==
    /\ part \in {"external", "three plans"} => Ext!SentAsPreviewed
    /\ part = "form" => Form!RequiredIsAnswered
    /\ part = "mail" => Mail!MailedWasReleased
    /\ part = "reply" => Reply!HeldUntilApproved
    /\ part = "manual" => Manual1!ConfirmedLetterIsSent

LEMMA OnlyConfirmedLeft == Spec => []ConfirmedLeft
  <1>1. Spec /\ part = "external" => []ConfirmedLeft
    <2>1. Ch1!Ext!Init /\ [][Ch1!Ext!Next]_(Ch1!Ext!vars) => [](Ch1!Ext!SentAsPreviewed)
      BY Ch1!SubmissionIsAsPreviewed, PTL DEF Ch1!Ext!Spec
    <2>2. part = "external" /\ Ch1!Ext!SentAsPreviewed => ConfirmedLeft
      BY DEF ConfirmedLeft,
         Ext!NoBundle, Ext!ByProgram, Ext!SentAsPreviewed, Ch1!Ext!NoBundle,
         Ch1!Ext!ByProgram, Ch1!Ext!SentAsPreviewed
    <2>3. part = "external" /\ [Next]_vars => (part = "external")'
      BY PartStays
    <2> QED BY <2>1, <2>2, <2>3, ExtRuns, PTL DEF Spec
  <1>2. Spec /\ part = "three plans" => []ConfirmedLeft
    <2>1. Ch2!Ext!Init /\ [][Ch2!Ext!Next]_(Ch2!Ext!vars) => [](Ch2!Ext!SentAsPreviewed)
      BY Ch2!SubmissionIsAsPreviewed, PTL DEF Ch2!Ext!Spec
    <2>2. part = "three plans" /\ Ch2!Ext!SentAsPreviewed => ConfirmedLeft
      BY DEF ConfirmedLeft,
         Ext!NoBundle, Ext!ByProgram, Ext!SentAsPreviewed, Ch2!Ext!NoBundle,
         Ch2!Ext!ByProgram, Ch2!Ext!SentAsPreviewed
    <2>3. part = "three plans" /\ [Next]_vars => (part = "three plans")'
      BY PartStays
    <2> QED BY <2>1, <2>2, <2>3, Ext3Runs, PTL DEF Spec
  <1>3. Spec /\ part = "form" => []ConfirmedLeft
    <2>1. Ch1!Form!Init /\ [][Ch1!Form!Next]_(Ch1!Form!vars) => [](Ch1!Form!RequiredIsAnswered)
      BY ConstantsFit, Ch1!FormAnswersAreTrue, PTL DEF Ch1!Form!Spec
    <2>2. part = "form" /\ Ch1!Form!RequiredIsAnswered => ConfirmedLeft
      BY DEF ConfirmedLeft,
         Form!Shown, Form!RequiredIsAnswered, Ch1!Form!Shown,
         Ch1!Form!RequiredIsAnswered
    <2>3. part = "form" /\ [Next]_vars => (part = "form")'
      BY PartStays
    <2> QED BY <2>1, <2>2, <2>3, FormRuns, PTL DEF Spec
  <1>4. Spec /\ part = "mail" => []ConfirmedLeft
    <2>1. Ch1!Mail!Init /\ [][Ch1!Mail!Next]_(Ch1!Mail!vars) => [](Ch1!Mail!MailedWasReleased)
      BY ConstantsFit, Ch1!MailsGoOutOnce, PTL DEF Ch1!Mail!Spec
    <2>2. part = "mail" /\ Ch1!Mail!MailedWasReleased => ConfirmedLeft
      BY DEF ConfirmedLeft,
         Mail!MailedWasReleased, Ch1!Mail!MailedWasReleased
    <2>3. part = "mail" /\ [Next]_vars => (part = "mail")'
      BY PartStays
    <2> QED BY <2>1, <2>2, <2>3, MailRuns, PTL DEF Spec
  <1>5. Spec /\ part = "reply" => []ConfirmedLeft
    <2>1. Ch1!Reply!Init /\ [][Ch1!Reply!Next]_(Ch1!Reply!vars) => [](Ch1!Reply!HeldUntilApproved)
      BY Ch1!RepliesAreInOrder, PTL DEF Ch1!Reply!Spec
    <2>2. part = "reply" /\ Ch1!Reply!HeldUntilApproved => ConfirmedLeft
      BY DEF ConfirmedLeft,
         Reply!Ours, Reply!HeldUntilApproved, Ch1!Reply!Ours,
         Ch1!Reply!HeldUntilApproved
    <2>3. part = "reply" /\ [Next]_vars => (part = "reply")'
      BY PartStays
    <2> QED BY <2>1, <2>2, <2>3, ReplyRuns, PTL DEF Spec
  <1>6. Spec /\ part = "manual" => []ConfirmedLeft
    <2>1. Ch1!Hand!Init /\ [][Ch1!Hand!Next]_(Ch1!Hand!vars) => [](Ch1!Hand!ConfirmedLetterIsSent)
      BY ConstantsFit, Ch1!LettersAreAsConfirmed, PTL DEF Ch1!Hand!Spec
    <2>2. part = "manual" /\ Ch1!Hand!ConfirmedLetterIsSent => ConfirmedLeft
      BY DEF ConfirmedLeft,
         Manual1!None, Manual1!ConfirmedLetterIsSent, Ch1!Hand!None,
         Ch1!Hand!ConfirmedLetterIsSent
    <2>3. part = "manual" /\ [Next]_vars => (part = "manual")'
      BY PartStays
    <2> QED BY <2>1, <2>2, <2>3, Manual1Runs, PTL DEF Spec
  <1>7. Spec
        /\ ~(part = "external")
        /\ ~(part = "three plans")
        /\ ~(part = "form")
        /\ ~(part = "mail")
        /\ ~(part = "reply")
        /\ ~(part = "manual")
        => []ConfirmedLeft
    <2>1. /\ ~(part = "external")
          /\ ~(part = "three plans")
          /\ ~(part = "form")
          /\ ~(part = "mail")
          /\ ~(part = "reply")
          /\ ~(part = "manual")
          => ConfirmedLeft
      BY DEF ConfirmedLeft
    <2>2. /\ ~(part = "external") /\ [Next]_vars => (~(part = "external"))'
          /\ ~(part = "three plans") /\ [Next]_vars => (~(part = "three plans"))'
          /\ ~(part = "form") /\ [Next]_vars => (~(part = "form"))'
          /\ ~(part = "mail") /\ [Next]_vars => (~(part = "mail"))'
          /\ ~(part = "reply") /\ [Next]_vars => (~(part = "reply"))'
          /\ ~(part = "manual") /\ [Next]_vars => (~(part = "manual"))'
      BY PartStays
    <2> QED BY <2>1, <2>2, PTL DEF Spec
  <1> QED BY <1>1, <1>2, <1>3, <1>4, <1>5, <1>6, <1>7, PTL

\* What leaves the program is what the user saw and confirmed, although
\* profile, files, letters and queues change between preview and delivery: the
\* letter, too, where one command works at a time, and beside other commands
\* it is lost only to a newer letter they write for the vacancy.
THEOREM WhatLeavesWasConfirmed == Spec => SentAsConfirmed
  <1>1. Spec /\ part = "two manual" => [][part = "two manual" => Manual2!OnlyOthersReplace]_vars
    <2>1. Ch2!Hand!Init /\ [][Ch2!Hand!Next]_(Ch2!Hand!vars) => [][Ch2!Hand!OnlyOthersReplace]_(Ch2!Hand!vars)
      BY ConstantsFit, Ch2!LettersYieldToOthersOnly, PTL DEF Ch2!Hand!Spec
    <2>2. [Ch2!Hand!OnlyOthersReplace]_(Ch2!Hand!vars) => [part = "two manual" => Manual2!OnlyOthersReplace]_vars
      <3>1. Ch2!Hand!OnlyOthersReplace => Manual2!OnlyOthersReplace
        BY DEF Manual2!OnlyOthersReplace, Manual2!KeepsLetters, Manual2!Target, Manual2!Ran, Manual2!None,
               Ch2!Hand!OnlyOthersReplace, Ch2!Hand!KeepsLetters, Ch2!Hand!Target, Ch2!Hand!Ran,
               Ch2!Hand!None
      <3>2. UNCHANGED Ch2!Hand!vars => Manual2!OnlyOthersReplace
        BY DEF Ch2!Hand!vars, Manual2!OnlyOthersReplace, Manual2!KeepsLetters, Manual2!Target, Manual2!Ran, Manual2!None
      <3> QED BY <3>1, <3>2
    <2> QED BY <2>1, <2>2, Manual2Runs, PTL
  <1>2. Spec /\ ~(part = "two manual") => [][part = "two manual" => Manual2!OnlyOthersReplace]_vars
    <2>1. ~(part = "two manual") /\ [Next]_vars => (~(part = "two manual"))'
      BY PartStays
    <2> QED BY <2>1, PTL DEF Spec
  <1>3. ConfirmedLeft <=>
          /\ part \in {"external", "three plans"} => Ext!SentAsPreviewed
          /\ part = "form" => Form!RequiredIsAnswered
          /\ part = "mail" => Mail!MailedWasReleased
          /\ part = "reply" => Reply!HeldUntilApproved
          /\ part = "manual" => Manual1!ConfirmedLetterIsSent
    BY DEF ConfirmedLeft
  <1> QED BY <1>1, <1>2, <1>3, OnlyConfirmedLeft, PTL DEF SentAsConfirmed
==============================================================================
