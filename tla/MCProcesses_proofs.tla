------------------------- MODULE MCProcesses_proofs --------------------------
(***************************************************************************)
(* The suite of the processes that drive runs.  Its parts were proved      *)
(* about for every value of their constants; here that module is           *)
(* instantiated as the suite instantiates the parts, and its theorems      *)
(* become the properties of the suite.                                     *)
(***************************************************************************)
EXTENDS MCProcesses, TLAPS

\* Two processes that may die, and a command without a campaign.
BothP == INSTANCE Processes_proofs WITH
    N <- 3, Limit <- 2, Cap <- 2, Passes <- 2, MayLoseLease <- TRUE,
    pipeItem <- item, pipeSent <- sent,
    Challenges <- {"c1"}, Failures <- {"f1"}, Batch <- 2, MaxDelay <- 2,
    PerRun <- 3, Target <- 2, MaxSends <- 5, MaxFailures <- 7,
    Accounts <- 2, OpenFrom <- 1, OpenTo <- 2, Tickers <- {one, two}, Day <- 3,
    Days <- {0}, Span <- 1, Interval <- 2, MaxTime <- 4, MayRaise <- FALSE,
    Ports <- {"s1"}, SinkFailures <- 1, MayCrash <- TRUE, HasLedger <- FALSE
\* One process, a longer week, a second sink, and a command with a campaign.
AloneP == INSTANCE Processes_proofs WITH
    N <- 3, Limit <- 2, Cap <- 2, Passes <- 2, MayLoseLease <- TRUE,
    pipeItem <- item, pipeSent <- sent,
    Challenges <- {"c1"}, Failures <- {"f1"}, Batch <- 2, MaxDelay <- 2,
    PerRun <- 3, Target <- 2, MaxSends <- 5, MaxFailures <- 7,
    Accounts <- 2, OpenFrom <- 1, OpenTo <- 2, Tickers <- {one}, Day <- 4,
    Days <- {0, 2}, Span <- 3, Interval <- 1, MaxTime <- 10, MayRaise <- TRUE,
    Ports <- {"s1", "s2"}, SinkFailures <- 3, MayCrash <- FALSE, HasLedger <- TRUE
------------------------------------------------------------------------------
(* A part of the suite behaves as the instance that was proved about.  The *)
(* two have the same definitions, so that each expands to the other.       *)

\* The two threads of one run.
LEMMA PipeCarries == Pipe!Spec => BothP!Pipe!Spec
  <1>1. ASSUME Pipe!Init PROVE BothP!Pipe!Init
    BY <1>1 DEF
        Pipe!Items, Pipe!Close, Pipe!Ready, Pipe!Window, Pipe!Init, Pipe!Cardinality,
        BothP!Pipe!Items, BothP!Pipe!Close, BothP!Pipe!Ready, BothP!Pipe!Window,
        BothP!Pipe!Init, BothP!Pipe!Cardinality
  <1>2. ASSUME Pipe!Next PROVE BothP!Pipe!Next
    BY <1>2 DEF
        Pipe!Items, Pipe!Close, Pipe!rows, Pipe!hand, Pipe!sender, Pipe!world,
        Pipe!Ready, Pipe!Window, Pipe!StopRequested, Pipe!Find, Pipe!FindEnds,
        Pipe!Collected, Pipe!Room, Pipe!Offered, Pipe!Taken, Pipe!Enqueue, Pipe!Offer,
        Pipe!DrainOffer, Pipe!DrainSkipped, Pipe!Drained, Pipe!Passed,
        Pipe!BodyLosesLease, Pipe!FinishLosesLease, Pipe!Final, Pipe!CloseQueue,
        Pipe!Join, Pipe!JoinLosesLease, Pipe!Record, Pipe!LetterReady,
        Pipe!LetterFails, Pipe!SenderChecks, Pipe!SenderGets, Pipe!InWindow,
        Pipe!Outcomes, Pipe!Dispatched, Pipe!SenderRaises, Pipe!SenderFails,
        Pipe!SenderAfter, Pipe!Ask, Pipe!LoseLease, Pipe!Main, Pipe!Letter,
        Pipe!Sender, Pipe!Next, Pipe!Cardinality, BothP!Pipe!Items, BothP!Pipe!Close,
        BothP!Pipe!rows, BothP!Pipe!hand, BothP!Pipe!sender, BothP!Pipe!world,
        BothP!Pipe!Ready, BothP!Pipe!Window, BothP!Pipe!StopRequested, BothP!Pipe!Find,
        BothP!Pipe!FindEnds, BothP!Pipe!Collected, BothP!Pipe!Room, BothP!Pipe!Offered,
        BothP!Pipe!Taken, BothP!Pipe!Enqueue, BothP!Pipe!Offer, BothP!Pipe!DrainOffer,
        BothP!Pipe!DrainSkipped, BothP!Pipe!Drained, BothP!Pipe!Passed,
        BothP!Pipe!BodyLosesLease, BothP!Pipe!FinishLosesLease, BothP!Pipe!Final,
        BothP!Pipe!CloseQueue, BothP!Pipe!Join, BothP!Pipe!JoinLosesLease,
        BothP!Pipe!Record, BothP!Pipe!LetterReady, BothP!Pipe!LetterFails,
        BothP!Pipe!SenderChecks, BothP!Pipe!SenderGets, BothP!Pipe!InWindow,
        BothP!Pipe!Outcomes, BothP!Pipe!Dispatched, BothP!Pipe!SenderRaises,
        BothP!Pipe!SenderFails, BothP!Pipe!SenderAfter, BothP!Pipe!Ask,
        BothP!Pipe!LoseLease, BothP!Pipe!Main, BothP!Pipe!Letter, BothP!Pipe!Sender,
        BothP!Pipe!Next, BothP!Pipe!Cardinality
  <1>3. [Pipe!Next]_(Pipe!vars) => [BothP!Pipe!Next]_(BothP!Pipe!vars)
    BY <1>2 DEF
        Pipe!vars, BothP!Pipe!vars
  <1> QED BY <1>1, <1>3, PTL DEF Pipe!Spec, BothP!Pipe!Spec

\* The ticks of two processes.
LEMMA TicksCarries == Ticks!Spec => BothP!Ticks!Spec
  <1>1. ASSUME Ticks!Init PROVE BothP!Ticks!Init
    BY <1>1 DEF
        Ticks!Accs, Ticks!Never, Ticks!Idle, Ticks!Init, BothP!Ticks!Accs,
        BothP!Ticks!Never, BothP!Ticks!Idle, BothP!Ticks!Init
  <1>2. ASSUME Ticks!Next PROVE BothP!Ticks!Next
    BY <1>2 DEF
        Ticks!Accs, Ticks!Never, Ticks!Idle, Ticks!IsWindowOpen, Ticks!IsDue,
        Ticks!AdvanceToWindow, Ticks!NextDue, Ticks!Begin, Ticks!Look, Ticks!Refuses,
        Ticks!Claim, Ticks!Start, Ticks!RunEnds, Ticks!RunRaises, Ticks!End,
        Ticks!TurnOff, Ticks!WorkDue, Ticks!TimePasses, Ticks!Next, Ticks!Min,
        BothP!Ticks!Accs, BothP!Ticks!Never, BothP!Ticks!Idle,
        BothP!Ticks!IsWindowOpen, BothP!Ticks!IsDue, BothP!Ticks!AdvanceToWindow,
        BothP!Ticks!NextDue, BothP!Ticks!Begin, BothP!Ticks!Look, BothP!Ticks!Refuses,
        BothP!Ticks!Claim, BothP!Ticks!Start, BothP!Ticks!RunEnds,
        BothP!Ticks!RunRaises, BothP!Ticks!End, BothP!Ticks!TurnOff,
        BothP!Ticks!WorkDue, BothP!Ticks!TimePasses, BothP!Ticks!Next, BothP!Ticks!Min
  <1>3. [Ticks!Next]_(Ticks!vars) => [BothP!Ticks!Next]_(BothP!Ticks!vars)
    BY <1>2 DEF
        Ticks!vars, BothP!Ticks!vars
  <1> QED BY <1>1, <1>3, PTL DEF Ticks!Spec, BothP!Ticks!Spec

\* The ticks of one process over a longer week.
LEMMA WeekCarries == Week!Spec => AloneP!Ticks!Spec
  <1>1. ASSUME Week!Init PROVE AloneP!Ticks!Init
    BY <1>1 DEF
        Week!Accs, Week!Never, Week!Idle, Week!Init, AloneP!Ticks!Accs,
        AloneP!Ticks!Never, AloneP!Ticks!Idle, AloneP!Ticks!Init
  <1>2. ASSUME Week!Next PROVE AloneP!Ticks!Next
    BY <1>2 DEF
        Week!Accs, Week!Never, Week!Idle, Week!IsWindowOpen, Week!IsDue,
        Week!AdvanceToWindow, Week!NextDue, Week!Begin, Week!Look, Week!Refuses,
        Week!Claim, Week!Start, Week!RunEnds, Week!RunRaises, Week!End, Week!TurnOff,
        Week!WorkDue, Week!TimePasses, Week!Next, Week!Min, AloneP!Ticks!Accs,
        AloneP!Ticks!Never, AloneP!Ticks!Idle, AloneP!Ticks!IsWindowOpen,
        AloneP!Ticks!IsDue, AloneP!Ticks!AdvanceToWindow, AloneP!Ticks!NextDue,
        AloneP!Ticks!Begin, AloneP!Ticks!Look, AloneP!Ticks!Refuses,
        AloneP!Ticks!Claim, AloneP!Ticks!Start, AloneP!Ticks!RunEnds,
        AloneP!Ticks!RunRaises, AloneP!Ticks!End, AloneP!Ticks!TurnOff,
        AloneP!Ticks!WorkDue, AloneP!Ticks!TimePasses, AloneP!Ticks!Next,
        AloneP!Ticks!Min
  <1>3. [Week!Next]_(Week!vars) => [AloneP!Ticks!Next]_(AloneP!Ticks!vars)
    BY <1>2 DEF
        Week!vars, AloneP!Ticks!vars
  <1> QED BY <1>1, <1>3, PTL DEF Week!Spec, AloneP!Ticks!Spec

\* The outbox of two processes that may die.
LEMMA CrashesCarries == Crashes!Spec => BothP!Box!Spec
  <1>1. ASSUME Crashes!Init PROVE BothP!Box!Init
    BY <1>1 DEF
        Crashes!Events, Crashes!Kinds, Crashes!Idle, Crashes!Init, BothP!Box!Events,
        BothP!Box!Kinds, BothP!Box!Idle, BothP!Box!Init
  <1>2. ASSUME Crashes!Next PROVE BothP!Box!Next
    BY <1>2 DEF
        Crashes!Events, Crashes!Kinds, Crashes!KindOf, Crashes!Idle, Crashes!Appears,
        Crashes!Closes, Crashes!TurnOff, Crashes!TimePasses, Crashes!HasRow,
        Crashes!Scan, Crashes!Missing, Crashes!Insert, Crashes!Due, Crashes!Read,
        Crashes!Current, Crashes!Rest, Crashes!Pass, Crashes!Counted, Crashes!Send,
        Crashes!MarkSent, Crashes!Delays, Crashes!MarkFailed, Crashes!TickEnds,
        Crashes!Crash, Crashes!Tick, Crashes!Next, Crashes!Cardinality, Crashes!Min,
        Crashes!SetToSeq, Crashes!IsInjective, BothP!Box!Events, BothP!Box!Kinds,
        BothP!Box!KindOf, BothP!Box!Idle, BothP!Box!Appears, BothP!Box!Closes,
        BothP!Box!TurnOff, BothP!Box!TimePasses, BothP!Box!HasRow, BothP!Box!Scan,
        BothP!Box!Missing, BothP!Box!Insert, BothP!Box!Due, BothP!Box!Read,
        BothP!Box!Current, BothP!Box!Rest, BothP!Box!Pass, BothP!Box!Counted,
        BothP!Box!Send, BothP!Box!MarkSent, BothP!Box!Delays, BothP!Box!MarkFailed,
        BothP!Box!TickEnds, BothP!Box!Crash, BothP!Box!Tick, BothP!Box!Next,
        BothP!Box!Cardinality, BothP!Box!Min, BothP!Box!SetToSeq, BothP!Box!IsInjective
  <1>3. [Crashes!Next]_(Crashes!vars) => [BothP!Box!Next]_(BothP!Box!vars)
    BY <1>2 DEF
        Crashes!vars, BothP!Box!vars
  <1> QED BY <1>1, <1>3, PTL DEF Crashes!Spec, BothP!Box!Spec

\* The outbox of one process with two sinks.
LEMMA SinksCarries == Sinks!Spec => AloneP!Box!Spec
  <1>1. ASSUME Sinks!Init PROVE AloneP!Box!Init
    BY <1>1 DEF
        Sinks!Events, Sinks!Kinds, Sinks!Idle, Sinks!Init, AloneP!Box!Events,
        AloneP!Box!Kinds, AloneP!Box!Idle, AloneP!Box!Init
  <1>2. ASSUME Sinks!Next PROVE AloneP!Box!Next
    BY <1>2 DEF
        Sinks!Events, Sinks!Kinds, Sinks!KindOf, Sinks!Idle, Sinks!Appears,
        Sinks!Closes, Sinks!TurnOff, Sinks!TimePasses, Sinks!HasRow, Sinks!Scan,
        Sinks!Missing, Sinks!Insert, Sinks!Due, Sinks!Read, Sinks!Current, Sinks!Rest,
        Sinks!Pass, Sinks!Counted, Sinks!Send, Sinks!MarkSent, Sinks!Delays,
        Sinks!MarkFailed, Sinks!TickEnds, Sinks!Crash, Sinks!Tick, Sinks!Next,
        Sinks!Cardinality, Sinks!Min, Sinks!SetToSeq, Sinks!IsInjective,
        AloneP!Box!Events, AloneP!Box!Kinds, AloneP!Box!KindOf, AloneP!Box!Idle,
        AloneP!Box!Appears, AloneP!Box!Closes, AloneP!Box!TurnOff,
        AloneP!Box!TimePasses, AloneP!Box!HasRow, AloneP!Box!Scan, AloneP!Box!Missing,
        AloneP!Box!Insert, AloneP!Box!Due, AloneP!Box!Read, AloneP!Box!Current,
        AloneP!Box!Rest, AloneP!Box!Pass, AloneP!Box!Counted, AloneP!Box!Send,
        AloneP!Box!MarkSent, AloneP!Box!Delays, AloneP!Box!MarkFailed,
        AloneP!Box!TickEnds, AloneP!Box!Crash, AloneP!Box!Tick, AloneP!Box!Next,
        AloneP!Box!Cardinality, AloneP!Box!Min, AloneP!Box!SetToSeq,
        AloneP!Box!IsInjective
  <1>3. [Sinks!Next]_(Sinks!vars) => [AloneP!Box!Next]_(AloneP!Box!vars)
    BY <1>2 DEF
        Sinks!vars, AloneP!Box!vars
  <1> QED BY <1>1, <1>3, PTL DEF Sinks!Spec, AloneP!Box!Spec

\* The command without a campaign.
LEMMA NowCarries == Now!Spec => BothP!Again!Spec
  <1>1. ASSUME Now!Init PROVE BothP!Again!Init
    BY <1>1 DEF
        Now!Init, BothP!Again!Init
  <1>2. ASSUME Now!Next PROVE BothP!Again!Next
    BY <1>2 DEF
        Now!sends, Now!ctl, Now!Errors, Now!Top, Now!Recover, Now!CampaignRemaining,
        Now!Budget, Now!Start, Now!MaySend, Now!Send, Now!Finish, Now!Delay,
        Now!RateDelay, Now!Report, Now!Wait, Now!Pause, Now!Stop, Now!SentElsewhere,
        Now!Next, BothP!Again!sends, BothP!Again!ctl, BothP!Again!Errors,
        BothP!Again!Top, BothP!Again!Recover, BothP!Again!CampaignRemaining,
        BothP!Again!Budget, BothP!Again!Start, BothP!Again!MaySend, BothP!Again!Send,
        BothP!Again!Finish, BothP!Again!Delay, BothP!Again!RateDelay,
        BothP!Again!Report, BothP!Again!Wait, BothP!Again!Pause, BothP!Again!Stop,
        BothP!Again!SentElsewhere, BothP!Again!Next
  <1>3. [Now!Next]_(Now!vars) => [BothP!Again!Next]_(BothP!Again!vars)
    BY <1>2 DEF
        Now!vars, BothP!Again!vars
  <1> QED BY <1>1, <1>3, PTL DEF Now!Spec, BothP!Again!Spec

\* The command with a campaign ledger.
LEMMA LedgerCarries == Ledger!Spec => AloneP!Again!Spec
  <1>1. ASSUME Ledger!Init PROVE AloneP!Again!Init
    BY <1>1 DEF
        Ledger!Init, AloneP!Again!Init
  <1>2. ASSUME Ledger!Next PROVE AloneP!Again!Next
    BY <1>2 DEF
        Ledger!sends, Ledger!ctl, Ledger!Errors, Ledger!Top, Ledger!Recover,
        Ledger!CampaignRemaining, Ledger!Budget, Ledger!Start, Ledger!MaySend,
        Ledger!Send, Ledger!Finish, Ledger!Delay, Ledger!RateDelay, Ledger!Report,
        Ledger!Wait, Ledger!Pause, Ledger!Stop, Ledger!SentElsewhere, Ledger!Next,
        AloneP!Again!sends, AloneP!Again!ctl, AloneP!Again!Errors, AloneP!Again!Top,
        AloneP!Again!Recover, AloneP!Again!CampaignRemaining, AloneP!Again!Budget,
        AloneP!Again!Start, AloneP!Again!MaySend, AloneP!Again!Send,
        AloneP!Again!Finish, AloneP!Again!Delay, AloneP!Again!RateDelay,
        AloneP!Again!Report, AloneP!Again!Wait, AloneP!Again!Pause, AloneP!Again!Stop,
        AloneP!Again!SentElsewhere, AloneP!Again!Next
  <1>3. [Ledger!Next]_(Ledger!vars) => [AloneP!Again!Next]_(AloneP!Again!vars)
    BY <1>2 DEF
        Ledger!vars, AloneP!Again!vars
  <1> QED BY <1>1, <1>3, PTL DEF Ledger!Spec, AloneP!Again!Spec
------------------------------------------------------------------------------
(* One part runs in one behaviour. *)

LEMMA PartStays == [Next]_vars => part' = part
  BY DEF Next, vars, Only

LEMMA PipeRuns == Spec /\ part = "pipeline" => BothP!Pipe!Spec
  <1>1. Init /\ part = "pipeline" => Pipe!Init
    BY DEF Init
  <1>2. part = "pipeline" /\ [Next]_vars => [Pipe!Next]_(Pipe!vars)
    BY DEF Next, vars, Only, PipeVars,
        Pipe!vars
  <1>3. part = "pipeline" /\ [Next]_vars => (part = "pipeline")'
    BY PartStays
  <1> QED BY <1>1, <1>2, <1>3, PipeCarries, PTL DEF Spec, Pipe!Spec

LEMMA TicksRuns == Spec /\ part = "two ticks" => BothP!Ticks!Spec
  <1>1. Init /\ part = "two ticks" => Ticks!Init
    BY DEF Init
  <1>2. part = "two ticks" /\ [Next]_vars => [Ticks!Next]_(Ticks!vars)
    BY DEF Next, vars, Only, TicksVars,
        Ticks!vars
  <1>3. part = "two ticks" /\ [Next]_vars => (part = "two ticks")'
    BY PartStays
  <1> QED BY <1>1, <1>2, <1>3, TicksCarries, PTL DEF Spec, Ticks!Spec

LEMMA WeekRuns == Spec /\ part = "week" => AloneP!Ticks!Spec
  <1>1. Init /\ part = "week" => Week!Init
    BY DEF Init
  <1>2. part = "week" /\ [Next]_vars => [Week!Next]_(Week!vars)
    BY DEF Next, vars, Only, TicksVars,
        Week!vars
  <1>3. part = "week" /\ [Next]_vars => (part = "week")'
    BY PartStays
  <1> QED BY <1>1, <1>2, <1>3, WeekCarries, PTL DEF Spec, Week!Spec

LEMMA CrashesRuns == Spec /\ part = "crashes" => BothP!Box!Spec
  <1>1. Init /\ part = "crashes" => Crashes!Init
    BY DEF Init
  <1>2. part = "crashes" /\ [Next]_vars => [Crashes!Next]_(Crashes!vars)
    BY DEF Next, vars, Only, CrashesVars,
        Crashes!vars
  <1>3. part = "crashes" /\ [Next]_vars => (part = "crashes")'
    BY PartStays
  <1> QED BY <1>1, <1>2, <1>3, CrashesCarries, PTL DEF Spec, Crashes!Spec

LEMMA SinksRuns == Spec /\ part = "two sinks" => AloneP!Box!Spec
  <1>1. Init /\ part = "two sinks" => Sinks!Init
    BY DEF Init
  <1>2. part = "two sinks" /\ [Next]_vars => [Sinks!Next]_(Sinks!vars)
    BY DEF Next, vars, Only, CrashesVars,
        Sinks!vars
  <1>3. part = "two sinks" /\ [Next]_vars => (part = "two sinks")'
    BY PartStays
  <1> QED BY <1>1, <1>2, <1>3, SinksCarries, PTL DEF Spec, Sinks!Spec

LEMMA NowRuns == Spec /\ part = "run now" => BothP!Again!Spec
  <1>1. Init /\ part = "run now" => Now!Init
    BY DEF Init
  <1>2. part = "run now" /\ [Next]_vars => [Now!Next]_(Now!vars)
    BY DEF Next, vars, Only, NowVars,
        Now!vars
  <1>3. part = "run now" /\ [Next]_vars => (part = "run now")'
    BY PartStays
  <1> QED BY <1>1, <1>2, <1>3, NowCarries, PTL DEF Spec, Now!Spec

LEMMA LedgerRuns == Spec /\ part = "campaign" => AloneP!Again!Spec
  <1>1. Init /\ part = "campaign" => Ledger!Init
    BY DEF Init
  <1>2. part = "campaign" /\ [Next]_vars => [Ledger!Next]_(Ledger!vars)
    BY DEF Next, vars, Only, NowVars,
        Ledger!vars
  <1>3. part = "campaign" /\ [Next]_vars => (part = "campaign")'
    BY PartStays
  <1> QED BY <1>1, <1>2, <1>3, LedgerCarries, PTL DEF Spec, Ledger!Spec

\* The constants of the suite are what the proofs assume of them.
LEMMA ConstantsFit ==
    /\ BothP!Pipe!PipelineAssumption
    /\ BothP!Ticks!SchedulerAssumption
    /\ AloneP!Ticks!SchedulerAssumption
    /\ BothP!Box!OutboxAssumption
    /\ AloneP!Box!OutboxAssumption
    /\ BothP!Again!RunNowAssumption
    /\ AloneP!Again!RunNowAssumption
  <1>1. BothP!Pipe!PipelineAssumption
    BY Assumptions DEF Pipe!PipelineAssumption, BothP!Pipe!PipelineAssumption, Assumptions
  <1>2. BothP!Ticks!SchedulerAssumption
    BY Assumptions DEF Ticks!SchedulerAssumption, BothP!Ticks!SchedulerAssumption, Assumptions,
       Ticks!IsFiniteSet, BothP!Ticks!IsFiniteSet
  <1>3. AloneP!Ticks!SchedulerAssumption
    BY Assumptions DEF Week!SchedulerAssumption, AloneP!Ticks!SchedulerAssumption, Assumptions,
       Week!IsFiniteSet, AloneP!Ticks!IsFiniteSet
  <1>4. BothP!Box!OutboxAssumption
    BY Assumptions DEF Crashes!OutboxAssumption, BothP!Box!OutboxAssumption, Assumptions,
       Crashes!IsFiniteSet, BothP!Box!IsFiniteSet
  <1>5. AloneP!Box!OutboxAssumption
    BY Assumptions DEF Sinks!OutboxAssumption, AloneP!Box!OutboxAssumption, Assumptions,
       Sinks!IsFiniteSet, AloneP!Box!IsFiniteSet
  <1>6. BothP!Again!RunNowAssumption
    BY Assumptions DEF Now!RunNowAssumption, BothP!Again!RunNowAssumption, Assumptions
  <1>7. AloneP!Again!RunNowAssumption
    BY Assumptions DEF Ledger!RunNowAssumption, AloneP!Again!RunNowAssumption, Assumptions
  <1> QED BY <1>1, <1>2, <1>3, <1>4, <1>5, <1>6, <1>7
------------------------------------------------------------------------------
\* The handover between search and sender neither overflows nor takes an item
\* twice, and an ended run leaves nothing going (_DispatchPipeline, HHAutopilot.run).
THEOREM HandoverIsKept == Spec => []HandoverHolds
  <1>1. Spec /\ part = "pipeline" => [](part = "pipeline" /\ HandoverHolds)
    <2>1. BothP!Pipe!Spec => [](/\ BothP!Pipe!TypeOK /\ BothP!Pipe!BoundedHandover
                                /\ BothP!Pipe!NoItemTwice /\ BothP!Pipe!EndedRunIsQuiet)
      BY ConstantsFit, BothP!HandoverIsOrderly
    <2>2. /\ BothP!Pipe!TypeOK /\ BothP!Pipe!BoundedHandover
          /\ BothP!Pipe!NoItemTwice /\ BothP!Pipe!EndedRunIsQuiet
          => HandoverHolds
      BY DEF HandoverHolds,
          Pipe!Items, Pipe!Close, Pipe!Statuses, Pipe!Preparing, Pipe!TypeOK,
          Pipe!Members, Pipe!Waiting, Pipe!BoundedHandover, Pipe!NoItemTwice,
          Pipe!EndedRunIsQuiet, Pipe!Cardinality, BothP!Pipe!Items, BothP!Pipe!Close,
          BothP!Pipe!Statuses, BothP!Pipe!Preparing, BothP!Pipe!TypeOK,
          BothP!Pipe!Members, BothP!Pipe!Waiting, BothP!Pipe!BoundedHandover,
          BothP!Pipe!NoItemTwice, BothP!Pipe!EndedRunIsQuiet, BothP!Pipe!Cardinality
    <2>3. part = "pipeline" /\ [Next]_vars => (part = "pipeline")'
      BY PartStays
    <2> QED BY <2>1, <2>2, <2>3, PipeRuns, PTL DEF Spec
  <1>2. Spec /\ ~(part = "pipeline") => []HandoverHolds
    <2>1. ~(part = "pipeline") => HandoverHolds
      BY DEF HandoverHolds
    <2>2. ~(part = "pipeline") /\ [Next]_vars => (~(part = "pipeline"))'
      BY PartStays
    <2> QED BY <2>1, <2>2, PTL DEF Spec
  <1> QED BY <1>1, <1>2, PTL

\* What a tick owes is done once: nobody who is due is left behind, an event has
\* one delivery per sink and is sent when it is recorded as sent, a sink that works
\* gets it once, and the runs one after another stay within their limit
\* (HHAutopilotScheduler.tick, the outbox, _run_hh_with_restarts).
THEOREM WorkIsDone == Spec => []ProcessesDoTheirWork
  <1>1. Spec /\ part = "two ticks" => [](part = "two ticks" /\ Ticks!TypeOK /\ Ticks!NobodyLeftBehind)
    <2>1. BothP!Ticks!Spec => [](BothP!Ticks!TypeOK /\ BothP!Ticks!NobodyLeftBehind)
      BY ConstantsFit, BothP!TicksLeaveNobodyBehind
    <2>2. BothP!Ticks!TypeOK /\ BothP!Ticks!NobodyLeftBehind => Ticks!TypeOK /\ Ticks!NobodyLeftBehind
      BY DEF
          Ticks!Accs, Ticks!Never, Ticks!IsWindowOpen, Ticks!IsDue, Ticks!TypeOK,
          Ticks!NobodyLeftBehind, BothP!Ticks!Accs, BothP!Ticks!Never,
          BothP!Ticks!IsWindowOpen, BothP!Ticks!IsDue, BothP!Ticks!TypeOK,
          BothP!Ticks!NobodyLeftBehind
    <2>3. part = "two ticks" /\ [Next]_vars => (part = "two ticks")'
      BY PartStays
    <2> QED BY <2>1, <2>2, <2>3, TicksRuns, PTL DEF Spec
  <1>2. Spec /\ part = "crashes" =>
            [](part = "crashes" /\ Crashes!TypeOK /\ Crashes!OneRowPerSink /\ Crashes!SentIsReal)
    <2>1. BothP!Box!Spec => [](BothP!Box!TypeOK /\ BothP!Box!OneRowPerSink /\ BothP!Box!SentIsReal)
      BY ConstantsFit, BothP!OutboxKeepsItsBooks
    <2>2. BothP!Box!TypeOK /\ BothP!Box!OneRowPerSink /\ BothP!Box!SentIsReal
          => Crashes!TypeOK /\ Crashes!OneRowPerSink /\ Crashes!SentIsReal
      BY DEF
          Crashes!Events, Crashes!Kinds, Crashes!TypeOK, Crashes!OneRowPerSink,
          Crashes!SentIsReal, BothP!Box!Events, BothP!Box!Kinds, BothP!Box!TypeOK,
          BothP!Box!OneRowPerSink, BothP!Box!SentIsReal
    <2>3. part = "crashes" /\ [Next]_vars => (part = "crashes")'
      BY PartStays
    <2> QED BY <2>1, <2>2, <2>3, CrashesRuns, PTL DEF Spec
  <1>3. Spec /\ part = "two sinks" => [](part = "two sinks" /\ Sinks!DeliveredOnce)
    <2>1. AloneP!Box!Spec => []AloneP!Box!DeliveredOnce
      BY ConstantsFit, AloneP!OneTickerDeliversOnce
    <2>2. AloneP!Box!DeliveredOnce => Sinks!DeliveredOnce
      BY DEF
          Sinks!Events, Sinks!DeliveredOnce, AloneP!Box!Events,
          AloneP!Box!DeliveredOnce
    <2>3. part = "two sinks" /\ [Next]_vars => (part = "two sinks")'
      BY PartStays
    <2> QED BY <2>1, <2>2, <2>3, SinksRuns, PTL DEF Spec
  <1>4. Spec /\ part = "run now" => [](part = "run now" /\ Now!TypeOK /\ Now!ReportedWithinLimit)
    <2>1. BothP!Again!Spec => [](BothP!Again!TypeOK /\ BothP!Again!ReportedWithinLimit)
      BY ConstantsFit, BothP!RestartsShareTheLimit
    <2>2. BothP!Again!TypeOK /\ BothP!Again!ReportedWithinLimit => Now!TypeOK /\ Now!ReportedWithinLimit
      BY DEF
          Now!Errors, Now!TypeOK, Now!ReportedWithinLimit, BothP!Again!Errors,
          BothP!Again!TypeOK, BothP!Again!ReportedWithinLimit
    <2>3. part = "run now" /\ [Next]_vars => (part = "run now")'
      BY PartStays
    <2> QED BY <2>1, <2>2, <2>3, NowRuns, PTL DEF Spec
  <1>5. Spec /\ ~(part = "two ticks") /\ ~(part = "crashes") /\ ~(part = "two sinks")
             /\ ~(part = "run now") => []ProcessesDoTheirWork
    <2>1. ~(part = "two ticks") /\ ~(part = "crashes") /\ ~(part = "two sinks") /\ ~(part = "run now")
          => ProcessesDoTheirWork
      BY DEF ProcessesDoTheirWork
    <2>2. /\ ~(part = "two ticks") /\ [Next]_vars => (~(part = "two ticks"))'
          /\ ~(part = "crashes") /\ [Next]_vars => (~(part = "crashes"))'
          /\ ~(part = "two sinks") /\ [Next]_vars => (~(part = "two sinks"))'
          /\ ~(part = "run now") /\ [Next]_vars => (~(part = "run now"))'
      BY PartStays
    <2> QED BY <2>1, <2>2, PTL DEF Spec
  <1>6. /\ part = "two ticks" /\ Ticks!TypeOK /\ Ticks!NobodyLeftBehind => ProcessesDoTheirWork
        /\ part = "crashes" /\ Crashes!TypeOK /\ Crashes!OneRowPerSink /\ Crashes!SentIsReal
           => ProcessesDoTheirWork
        /\ part = "two sinks" /\ Sinks!DeliveredOnce => ProcessesDoTheirWork
        /\ part = "run now" /\ Now!TypeOK /\ Now!ReportedWithinLimit => ProcessesDoTheirWork
    BY DEF ProcessesDoTheirWork
  <1> QED BY <1>1, <1>2, <1>3, <1>4, <1>5, <1>6, PTL

\* Two starts of an account are an interval apart, whichever process ticks, and
\* the next start is the first instant the window allows (claim_schedule_slot,
\* SchedulePolicy._advance_to_window).
THEOREM SlotsKeepTheirDistance == Spec => SlotsAreKept
  <1> DEFINE Kept ==
        /\ (part = "two ticks") => Ticks!SlotsApart
        /\ (part = "week") => Week!NextSlotIsExact
  <1>1. Spec /\ part = "two ticks" => [][Kept]_vars
    <2>1. BothP!Ticks!Spec => [][BothP!Ticks!SlotsApart]_(BothP!Ticks!vars)
      BY ConstantsFit, BothP!SlotsNeverBunch
    <2>2. part = "two ticks" /\ [Next]_vars /\ [BothP!Ticks!SlotsApart]_(BothP!Ticks!vars)
          => [Kept]_vars
      BY DEF Next, vars, Only, TicksVars, BothP!Ticks!vars,
          Ticks!Accs, Ticks!Never, Ticks!SlotsApart, BothP!Ticks!Accs,
          BothP!Ticks!Never, BothP!Ticks!SlotsApart
    <2>3. part = "two ticks" /\ [Next]_vars => (part = "two ticks")'
      BY PartStays
    <2> QED BY <2>1, <2>2, <2>3, TicksRuns, PTL DEF Spec
  <1>2. Spec /\ part = "week" => [][Kept]_vars
    <2>1. AloneP!Ticks!Spec => [][AloneP!Ticks!NextSlotIsExact]_(AloneP!Ticks!vars)
      BY ConstantsFit, AloneP!AnnouncedSlotIsExact
    <2>2. part = "week" /\ [Next]_vars /\ [AloneP!Ticks!NextSlotIsExact]_(AloneP!Ticks!vars)
          => [Kept]_vars
      BY DEF Next, vars, Only, TicksVars, AloneP!Ticks!vars,
          Week!Accs, Week!IsWindowOpen, Week!NextSlotIsExact, AloneP!Ticks!Accs,
          AloneP!Ticks!IsWindowOpen, AloneP!Ticks!NextSlotIsExact
    <2>3. part = "week" /\ [Next]_vars => (part = "week")'
      BY PartStays
    <2> QED BY <2>1, <2>2, <2>3, WeekRuns, PTL DEF Spec
  <1>3. Spec /\ ~(part = "two ticks") /\ ~(part = "week") => [][Kept]_vars
    <2>1. ~(part = "two ticks") /\ ~(part = "week") => [Kept]_vars
      OBVIOUS
    <2>2. /\ ~(part = "two ticks") /\ [Next]_vars => (~(part = "two ticks"))'
          /\ ~(part = "week") /\ [Next]_vars => (~(part = "week"))'
      BY PartStays
    <2> QED BY <2>1, <2>2, PTL DEF Spec
  <1> QED BY <1>1, <1>2, <1>3, PTL DEF SlotsAreKept

\* A command that runs one run after another sends nothing once it was paused or
\* stopped, unless a run that fails writes over the request, and starts no run
\* that could take the campaign past its target
\* (_run_hh_with_restarts, _hh_campaign_remaining).
THEOREM OperatorIsObeyed == Spec => RunsRespectTheOperator
  <1> DEFINE Kept ==
        /\ (part = "run now") => Now!OnlyAFailureForgetsStop
        /\ (part = "campaign") => Ledger!StartsWithinTarget
  <1>1. Spec /\ part = "run now" => [][Kept]_vars
    <2>1. BothP!Again!Spec => [][BothP!Again!OnlyAFailureForgetsStop]_(BothP!Again!vars)
      BY ConstantsFit, BothP!StopIsKept
    <2>2. part = "run now" /\ [Next]_vars /\ [BothP!Again!OnlyAFailureForgetsStop]_(BothP!Again!vars)
          => [Kept]_vars
      BY DEF Next, vars, Only, NowVars, BothP!Again!vars, BothP!Again!sends, BothP!Again!ctl,
          Now!OnlyAFailureForgetsStop, BothP!Again!OnlyAFailureForgetsStop,
          Now!Sends, BothP!Again!Sends
    <2>3. part = "run now" /\ [Next]_vars => (part = "run now")'
      BY PartStays
    <2> QED BY <2>1, <2>2, <2>3, NowRuns, PTL DEF Spec
  <1>2. Spec /\ part = "campaign" => [][Kept]_vars
    <2>1. AloneP!Again!Spec => [][AloneP!Again!StartsWithinTarget]_(AloneP!Again!vars)
      BY ConstantsFit, AloneP!TargetBoundsTheStart
    <2>2. part = "campaign" /\ [Next]_vars /\ [AloneP!Again!StartsWithinTarget]_(AloneP!Again!vars)
          => [Kept]_vars
      BY DEF Next, vars, Only, NowVars, AloneP!Again!vars, AloneP!Again!sends, AloneP!Again!ctl,
          Ledger!StartsWithinTarget, AloneP!Again!StartsWithinTarget
    <2>3. part = "campaign" /\ [Next]_vars => (part = "campaign")'
      BY PartStays
    <2> QED BY <2>1, <2>2, <2>3, LedgerRuns, PTL DEF Spec
  <1>3. Spec /\ ~(part = "run now") /\ ~(part = "campaign") => [][Kept]_vars
    <2>1. ~(part = "run now") /\ ~(part = "campaign") => [Kept]_vars
      OBVIOUS
    <2>2. /\ ~(part = "run now") /\ [Next]_vars => (~(part = "run now"))'
          /\ ~(part = "campaign") /\ [Next]_vars => (~(part = "campaign"))'
      BY PartStays
    <2> QED BY <2>1, <2>2, PTL DEF Spec
  <1> QED BY <1>1, <1>2, <1>3, PTL DEF RunsRespectTheOperator
==============================================================================
