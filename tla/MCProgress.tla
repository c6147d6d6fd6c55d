----------------------------- MODULE MCProgress ------------------------------
(***************************************************************************)
(* What must happen in the end. The parts share no state, so one behaviour *)
(* runs one of them, under its own fairness: part says which.              *)
(***************************************************************************)
EXTENDS Naturals, FiniteSets, Sequences, TLC

\* Forms of which a screen may show itself again.
Field == [kind |-> "checkbox", required |-> TRUE, given |-> "", decision |-> "yes", known |-> FALSE, defect |-> FALSE]
Page(a) == [scope |-> TRUE, fields |-> {Field}, action |-> a]
Sites == [source : {"linkedin", "lever", "other"}, login : {"no"}, applied : BOOLEAN, start : BOOLEAN, receipt : BOOLEAN,
          screens : {<<Page(a)>> : a \in {"next", "submit"}} \union {<<Page("next"), Page(a)>> : a \in {"next", "submit"}}]

VARIABLES
    part,
    pipeItem, fresh, queued, letters, queue, undone, seen, sent, current,
    stop, pipeAsked, lost, pipeStatus, sstatus, failed, mpc, spc, pass, row,
    open, enabled, rows, tick, fails, sends,
    selectItem, order, sealed, selectRun, raised, ends, curated,
    now, zone, quota1Run, exec, quota1Item, quota1Made, slot, blocked, told,
    applied, synced,
    site, letter, formPc, screen, steps, entered, formClicks, took,
    formStatus,
    mode, nativePc, round, from, url, nativeClicks, nativeMade, last,
    nativeAsked, solved, jars, wire, nativeOutcome,
    length, given, budget, promptOutcome

PipeVars == <<pipeItem, fresh, queued, letters, queue, undone, seen, sent, current,
    stop, pipeAsked, lost, pipeStatus, sstatus, failed, mpc, spc, pass,
    row>>
OutVars == <<open, enabled, rows, tick, fails, sends>>
SelectVars == <<selectItem, order, sealed, selectRun, raised, ends, curated>>
Quota1Vars == <<now, zone, quota1Run, exec, quota1Item, quota1Made, slot, blocked,
    told, applied, synced>>
FormVars == <<site, letter, formPc, screen, steps, entered, formClicks, took,
    formStatus>>
NativeVars == <<mode, nativePc, round, from, url, nativeClicks, nativeMade, last,
    nativeAsked, solved, jars, wire, nativeOutcome>>
PromptVars == <<length, given, budget, promptOutcome>>

Pipe == INSTANCE Pipeline WITH
    N <- 2, Limit <- 1, Cap <- 1, Passes <- 1, MayLoseLease <- TRUE,
    item <- pipeItem, asked <- pipeAsked, status <- pipeStatus
Out == INSTANCE Outbox WITH
    Challenges <- {"c1"}, Failures <- {"f1"}, Sinks <- {"s1"},
    Tickers <- {"t1"}, Batch <- 2, MaxDelay <- 2, SinkFailures <- 2,
    MayCrash <- FALSE
Select == INSTANCE Selection WITH
    Vacancies <- {1}, Resumes <- {1, 2}, Scores <- {1, 2}, BestOnly <- TRUE,
    MaxTries <- 2, Limit <- 2, Flaky <- FALSE, Steady <- TRUE, MaxEnds <- 2,
    item <- selectItem, run <- selectRun
Quota1 == INSTANCE Quota WITH
    Item <- {"i1", "i2"}, NoItem <- "noitem", Vacancy <- {"v1"},
    VacancyOf <- [i \in {"i1", "i2"} |-> "v1"], External <- {"i1"},
    DayLen <- 2, Zone <- {0}, DailyLimit <- 2, RunLimit <- 2, MaxTries <- 2,
    MaxChecks <- 1, Backoff <- 1, Wait <- {2}, Tolerance <- 0, MaxTime <- 3,
    MaxRun <- 1, MaxAttempt <- 2, run <- quota1Run, item <- quota1Item,
    made <- quota1Made
Form == INSTANCE BrowserForm WITH
    Sites <- Sites, Letters <- BOOLEAN, MaxSteps <- 3, pc <- formPc,
    clicks <- formClicks, status <- formStatus
Native == INSTANCE NativeTransport WITH
    Modes <- [screening : {"off", "profile_grounded", "ai"}, form : {"ai"}, captcha : {"vision_then_manual"}],
    Selectors <- 2, pc <- nativePc, clicks <- nativeClicks,
    made <- nativeMade, asked <- nativeAsked, outcome <- nativeOutcome
Prompt == INSTANCE PromptFit WITH
    Fields <- 1..3, Description <- 2, Lengths <- {0, 3, 7, 12},
    Budgets <- {4, 9, 16, 30}, Bytes <- 2, Frame <- 5,
    outcome <- promptOutcome

ASSUME Assumptions ==
    /\ Pipe!PipelineAssumption
    /\ Out!OutboxAssumption
    /\ Select!SelectionAssumption
    /\ Quota1!QuotaAssumption
    /\ Form!BrowserFormAssumption
    /\ Native!NativeTransportAssumption
    /\ Prompt!PromptFitAssumption

\* The variables of a part that does not run.
Unused == "unused"
PipeRests ==
    /\ pipeItem = Unused /\ fresh = Unused /\ queued = Unused
    /\ letters = Unused /\ queue = Unused /\ undone = Unused /\ seen = Unused
    /\ sent = Unused /\ current = Unused /\ stop = Unused
    /\ pipeAsked = Unused /\ lost = Unused /\ pipeStatus = Unused
    /\ sstatus = Unused /\ failed = Unused /\ mpc = Unused /\ spc = Unused
    /\ pass = Unused /\ row = Unused
OutRests ==
    /\ open = Unused /\ enabled = Unused /\ rows = Unused /\ tick = Unused
    /\ fails = Unused /\ sends = Unused
SelectRests ==
    /\ selectItem = Unused /\ order = Unused /\ sealed = Unused
    /\ selectRun = Unused /\ raised = Unused /\ ends = Unused
    /\ curated = Unused
Quota1Rests ==
    /\ now = Unused /\ zone = Unused /\ quota1Run = Unused /\ exec = Unused
    /\ quota1Item = Unused /\ quota1Made = Unused /\ slot = Unused
    /\ blocked = Unused /\ told = Unused /\ applied = Unused
    /\ synced = Unused
FormRests ==
    /\ site = Unused /\ letter = Unused /\ formPc = Unused /\ screen = Unused
    /\ steps = Unused /\ entered = Unused /\ formClicks = Unused
    /\ took = Unused /\ formStatus = Unused
NativeRests ==
    /\ mode = Unused /\ nativePc = Unused /\ round = Unused /\ from = Unused
    /\ url = Unused /\ nativeClicks = Unused /\ nativeMade = Unused
    /\ last = Unused /\ nativeAsked = Unused /\ solved = Unused
    /\ jars = Unused /\ wire = Unused
    /\ nativeOutcome = Unused
PromptRests ==
    /\ length = Unused /\ given = Unused /\ budget = Unused
    /\ promptOutcome = Unused

Init ==
    /\ part \in {"pipeline", "outbox", "selection", "quota", "form", "native",
                 "prompt"}
    /\ IF part = "pipeline" THEN Pipe!Init ELSE PipeRests
    /\ IF part = "outbox" THEN Out!Init ELSE OutRests
    /\ IF part = "selection" THEN Select!Init ELSE SelectRests
    /\ IF part = "quota" THEN Quota1!Init ELSE Quota1Rests
    /\ IF part = "form" THEN Form!Init ELSE FormRests
    /\ IF part = "native" THEN Native!Init ELSE NativeRests
    /\ IF part = "prompt" THEN Prompt!Init ELSE PromptRests

\* The part of this name goes on, alone.
Only(name) ==
    /\ part = name /\ UNCHANGED part
    /\ IF name = "pipeline" THEN TRUE ELSE UNCHANGED PipeVars
    /\ IF name = "outbox" THEN TRUE ELSE UNCHANGED OutVars
    /\ IF name = "selection" THEN TRUE ELSE UNCHANGED SelectVars
    /\ IF name = "quota" THEN TRUE ELSE UNCHANGED Quota1Vars
    /\ IF name = "form" THEN TRUE ELSE UNCHANGED FormVars
    /\ IF name = "native" THEN TRUE ELSE UNCHANGED NativeVars
    /\ IF name = "prompt" THEN TRUE ELSE UNCHANGED PromptVars

Next ==
    \/ Only("pipeline") /\ Pipe!Next
    \/ Only("outbox") /\ Out!Next
    \/ Only("selection") /\ Select!Next
    \/ Only("quota") /\ Quota1!Next
    \/ Only("form") /\ Form!Next
    \/ Only("native") /\ Native!Next
    \/ Only("prompt") /\ Prompt!Next

vars == <<part, PipeVars, OutVars, SelectVars, Quota1Vars, FormVars,
          NativeVars, PromptVars>>
Spec == Init /\ [][Next]_vars

\* The fairness of each part, as its module justifies it.  One part runs in a
\* behaviour, so each of these turns is one action of it.
Turn1 ==
    \/ Only("pipeline") /\ Pipe!Main
    \/ Only("outbox") /\ Out!TimePasses
    \/ Only("selection") /\ Select!StartRun
    \/ Only("quota") /\ Quota1!Tick
    \/ Only("form") /\ Form!Progress
    \/ Only("native") /\ Native!Steps
    \/ Only("prompt") /\ Prompt!Next
Turn2 ==
    \/ Only("pipeline") /\ Pipe!Sender
    \/ Only("outbox") /\ Out!Tick("t1")
    \/ Only("selection") /\ Select!Owner
    \/ Only("quota") /\ Quota1!StartRun
Turn3(i) ==
    \/ Only("pipeline") /\ Pipe!Letter(i)
    \/ Only("selection") /\ Select!Send(<<1, i>>)
    \/ Only("quota") /\ i = 1 /\ (Quota1!PrepareDispatch \/ Quota1!DispatchRefused)
    \/ Only("quota") /\ i = 2 /\ Quota1!Settling
FairSpec ==
    /\ Spec
    /\ WF_vars(Turn1) /\ WF_vars(Turn2) /\ WF_vars(Turn3(1)) /\ WF_vars(Turn3(2))
    /\ SF_vars(Only("quota") /\ Quota1!Recover)
    /\ SF_vars(Only("quota") /\ Quota1!Reconcile("i1"))
-----------------------------------------------------------------------------
(* Properties *)

\* What was started ends: a run of two threads, whatever fails in either; the
\* attempt at a form of which a screen shows itself again; the native call
\* between CAPTCHA, form and test; the trimming of a prompt.
WorkEnds ==
    <>( /\ part = "pipeline" => Pipe!BothEnded
        /\ part = "form" => Form!HasAnswer
        /\ part = "native" => Native!Done
        /\ part = "prompt" => Prompt!Decided )

\* No slot is lost: what a dead executor left is recovered, and a possibly sent
\* application is settled.
EverySlotIsSettled ==
    part = "quota" =>
        (part = "quota" /\ (Quota1!Applying("i1") \/ Quota1!InDoubt("i1")))
            ~> (part = "quota" /\ ~Quota1!Applying("i1") /\ (Quota1!InDoubt("i1") => Quota1!OutOfDoubt("i1")))

\* Every item that was found is decided, also when its run ended early and no
\* page lists it any more.
EveryItemIsDecided ==
    part = "selection" => \A x \in {1} \X {1, 2} :
        (part = "selection" /\ Select!Undecided(x)) ~> (part = "selection" /\ Select!IsDecided(x))

\* A delivery of a kind that is not turned off is sent in the end, however the
\* sink fails before.
EnabledIsDelivered ==
    part = "outbox" => \A e \in {"c1", "f1"} :
        []((part = "outbox" /\ Out!HasRow(e, "s1") /\ [](part = "outbox" /\ Out!KindOf(e) \in enabled))
              => <>(part = "outbox" /\ sends[e]["s1"] > 0))
=============================================================================
