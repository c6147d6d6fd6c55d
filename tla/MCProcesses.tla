----------------------------- MODULE MCProcesses -----------------------------
(***************************************************************************)
(* The processes that drive runs: the threads of one run, the scheduler    *)
(* tick, the notification outbox, and the command that runs until it is    *)
(* stopped. They share no state, so one behaviour runs one of them: part   *)
(* says which. The scheduler, the outbox and the command run under two     *)
(* settings each.                                                          *)
(***************************************************************************)
EXTENDS Naturals, FiniteSets, Sequences, TLC

CONSTANTS one, two

Symmetry == Permutations({one, two})

VARIABLES
    part,
    item, fresh, queued, letters, queue, undone, seen, sent, current, stop,
    asked, lost, status, sstatus, failed, mpc, spc, pass, row,
    now, last, next, leased, blocked, allowed, work, ticksTick,
    open, enabled, rows, crashesTick, fails, sends,
    at, remaining, failures, delay, rowStatus, error, inRun, doubt, sure,
    others, reported, paused, stopped

PipeVars == <<item, fresh, queued, letters, queue, undone, seen, sent, current,
    stop, asked, lost, status, sstatus, failed, mpc, spc, pass, row>>
TicksVars == <<now, last, next, leased, blocked, allowed, work, ticksTick>>
CrashesVars == <<open, enabled, rows, crashesTick, fails, sends>>
NowVars == <<at, remaining, failures, delay, rowStatus, error, inRun, doubt, sure,
    others, reported, paused, stopped>>

Pipe == INSTANCE Pipeline WITH
    N <- 3, Limit <- 2, Cap <- 2, Passes <- 2, MayLoseLease <- TRUE
Ticks == INSTANCE Scheduler WITH
    Accounts <- 2, OpenFrom <- 1, OpenTo <- 2, Tickers <- {one, two},
    Day <- 3, Days <- {0}, Week <- 1, Interval <- 2, MaxTime <- 4,
    MayRaise <- FALSE, tick <- ticksTick
Week == INSTANCE Scheduler WITH
    Accounts <- 2, OpenFrom <- 1, OpenTo <- 2, Tickers <- {one}, Day <- 4,
    Days <- {0, 2}, Week <- 3, Interval <- 1, MaxTime <- 10,
    MayRaise <- TRUE, tick <- ticksTick
Crashes == INSTANCE Outbox WITH
    Challenges <- {"c1"}, Failures <- {"f1"}, Batch <- 2, MaxDelay <- 2,
    Sinks <- {"s1"}, Tickers <- {one, two}, SinkFailures <- 1,
    MayCrash <- TRUE, tick <- crashesTick
Sinks == INSTANCE Outbox WITH
    Challenges <- {"c1"}, Failures <- {"f1"}, Batch <- 2, MaxDelay <- 2,
    Sinks <- {"s1", "s2"}, Tickers <- {one}, SinkFailures <- 3,
    MayCrash <- FALSE, tick <- crashesTick
Now == INSTANCE RunNow WITH
    PerRun <- 3, Target <- 2, MaxSends <- 5, MaxFailures <- 7,
    HasLedger <- FALSE
Ledger == INSTANCE RunNow WITH
    PerRun <- 3, Target <- 2, MaxSends <- 5, MaxFailures <- 7,
    HasLedger <- TRUE

ASSUME Assumptions ==
    /\ Pipe!PipelineAssumption
    /\ Ticks!SchedulerAssumption
    /\ Week!SchedulerAssumption
    /\ Crashes!OutboxAssumption
    /\ Sinks!OutboxAssumption
    /\ Now!RunNowAssumption
    /\ Ledger!RunNowAssumption

\* The variables of a part that does not run.
Unused == "unused"
PipeRests ==
    /\ item = Unused /\ fresh = Unused /\ queued = Unused /\ letters = Unused
    /\ queue = Unused /\ undone = Unused /\ seen = Unused /\ sent = Unused
    /\ current = Unused /\ stop = Unused /\ asked = Unused /\ lost = Unused
    /\ status = Unused /\ sstatus = Unused /\ failed = Unused /\ mpc = Unused
    /\ spc = Unused /\ pass = Unused /\ row = Unused
TicksRests ==
    /\ now = Unused /\ last = Unused /\ next = Unused /\ leased = Unused
    /\ blocked = Unused /\ allowed = Unused /\ work = Unused
    /\ ticksTick = Unused
CrashesRests ==
    /\ open = Unused /\ enabled = Unused /\ rows = Unused
    /\ crashesTick = Unused /\ fails = Unused /\ sends = Unused
NowRests ==
    /\ at = Unused /\ remaining = Unused /\ failures = Unused
    /\ delay = Unused /\ rowStatus = Unused /\ error = Unused
    /\ inRun = Unused /\ doubt = Unused /\ sure = Unused /\ others = Unused
    /\ reported = Unused /\ paused = Unused /\ stopped = Unused

Init ==
    /\ part \in {"pipeline", "two ticks", "week", "crashes", "two sinks",
                 "run now", "campaign"}
    /\ IF part = "pipeline" THEN Pipe!Init ELSE PipeRests
    /\ IF part = "two ticks" THEN Ticks!Init
       ELSE IF part = "week" THEN Week!Init
       ELSE TicksRests
    /\ IF part = "crashes" THEN Crashes!Init
       ELSE IF part = "two sinks" THEN Sinks!Init
       ELSE CrashesRests
    /\ IF part = "run now" THEN Now!Init
       ELSE IF part = "campaign" THEN Ledger!Init
       ELSE NowRests

\* The part of this name goes on, alone.
Only(name) ==
    /\ part = name /\ UNCHANGED part
    /\ IF name = "pipeline" THEN TRUE ELSE UNCHANGED PipeVars
    /\ IF name \in {"two ticks", "week"} THEN TRUE ELSE UNCHANGED TicksVars
    /\ IF name \in {"crashes", "two sinks"} THEN TRUE ELSE UNCHANGED CrashesVars
    /\ IF name \in {"run now", "campaign"} THEN TRUE ELSE UNCHANGED NowVars

Next ==
    \/ Only("pipeline") /\ Pipe!Next
    \/ Only("two ticks") /\ Ticks!Next
    \/ Only("week") /\ Week!Next
    \/ Only("crashes") /\ Crashes!Next
    \/ Only("two sinks") /\ Sinks!Next
    \/ Only("run now") /\ Now!Next
    \/ Only("campaign") /\ Ledger!Next

vars == <<part, PipeVars, TicksVars, CrashesVars, NowVars>>
Spec == Init /\ [][Next]_vars
-----------------------------------------------------------------------------
(* Properties *)

\* The handover between search and sender neither overflows nor takes an item
\* twice, and an ended run leaves nothing going.
HandoverHolds ==
    part = "pipeline" => /\ Pipe!TypeOK /\ Pipe!BoundedHandover
                         /\ Pipe!NoItemTwice /\ Pipe!EndedRunIsQuiet

\* Two starts of an account are an interval apart, whichever process ticks, and
\* the next start is the first instant the window allows.
SlotsAreKept ==
    [][/\ (part = "two ticks") => Ticks!SlotsApart
       /\ (part = "week") => Week!NextSlotIsExact]_vars

\* What a tick owes is done once: no account that is due is left behind, an event
\* has one delivery per sink and sent means accepted, also where processes die; a
\* sink that works gets an event once although the other one fails, where none
\* dies; and what runs one after another report stays within the limit.
ProcessesDoTheirWork ==
    /\ part = "two ticks" => Ticks!TypeOK /\ Ticks!NobodyLeftBehind
    /\ part = "crashes" => Crashes!TypeOK /\ Crashes!OneRowPerSink /\ Crashes!SentIsReal
    /\ part = "two sinks" => Sinks!DeliveredOnce
    /\ part = "run now" => Now!TypeOK /\ Now!ReportedWithinLimit

\* A process of runs one after another sends nothing once it was paused or
\* stopped, wherever the Stop meets it, unless a run that fails writes over the
\* request; and it starts no run that could take the campaign past its target.
RunsRespectTheOperator ==
    [][/\ (part = "run now") => Now!OnlyAFailureForgetsStop
       /\ (part = "campaign") => Ledger!StartsWithinTarget]_vars
=============================================================================
