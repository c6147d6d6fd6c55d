-------------------------- MODULE Processes_proofs ---------------------------
(***************************************************************************)
(* Proofs about the processes that drive runs, for every value of their    *)
(* constants: the threads of one run, the ticks of the scheduler, the      *)
(* outbox, and the command that runs until it is stopped.                  *)
(***************************************************************************)
EXTENDS Integers, FiniteSets, Sequences, FiniteSetTheorems, WellFoundedInduction, TLAPS

CONSTANTS
    N, Limit, Cap, Passes, MayLoseLease,                        \* Pipeline
    Accounts, Tickers, Day, OpenFrom, OpenTo, Days, Span,       \* Scheduler
    Interval, MaxTime, MayRaise,
    Challenges, Failures, Ports, Batch, MaxDelay,               \* Outbox
    SinkFailures, MayCrash,
    PerRun, Target, MaxSends, MaxFailures, HasLedger            \* RunNow

VARIABLES
    pipeItem, fresh, queued, letters, queue, undone, seen, pipeSent, current,
    stop, asked, lost, status, sstatus, failed, mpc, spc, pass, row,
    now, last, next, leased, blocked, allowed, work, ticksTick,
    open, enabled, rows, crashesTick, fails, sends,
    at, remaining, failures, delay, rowStatus, error, inRun, doubt, sure,
    others, reported, paused, stopped

Pipe == INSTANCE Pipeline WITH item <- pipeItem, sent <- pipeSent
Ticks == INSTANCE Scheduler WITH Week <- Span, tick <- ticksTick
Box == INSTANCE Outbox WITH Sinks <- Ports, tick <- crashesTick
Again == INSTANCE RunNow
------------------------------------------------------------------------------
(* RunNow: the command that runs the engine until it is stopped.           *)

AgainTypes ==
    /\ at \in {"top", "recover", "budget", "start", "run", "report", "wait", "done"}
    /\ remaining \in 0..PerRun /\ failures \in 0..MaxFailures /\ delay \in 0..30
    /\ rowStatus \in {"none", "running", "stop_requested", "completed", "interrupted", "failed"}
    /\ error \in Again!Errors /\ inRun \in 0..PerRun
    /\ doubt \in 0..MaxSends /\ sure \in 0..MaxSends /\ others \in 0..1
    /\ reported \in Nat

Flags == paused \in BOOLEAN /\ stopped \in {"no", "yes", "lost"}

\* What the runs may still apply is within the limit, and what the current run
\* counted is within its own and is counted nowhere else.
BudgetIsShared ==
    /\ reported + remaining <= PerRun /\ inRun <= remaining
    /\ at \notin {"run", "report"} => inRun = 0

\* The sends are bounded together, not one by one.
SendsAreBounded == sure + doubt <= MaxSends

AgainInv == AgainTypes /\ BudgetIsShared /\ SendsAreBounded

LEMMA AgainTyped == Again!TypeOK <=> AgainTypes /\ Flags
  BY DEF Again!TypeOK, AgainTypes, Flags

LEMMA AgainStarts == ASSUME Again!RunNowAssumption, Again!Init PROVE AgainInv /\ Flags
  <1>1. AgainInv
    BY DEF Again!RunNowAssumption, Again!Init, AgainInv, AgainTypes, BudgetIsShared,
           SendsAreBounded, Again!Errors
  <1>2. Flags
    BY DEF Again!Init, Flags
  <1> QED BY <1>1, <1>2

\* The table of waits stays within 900 seconds.
LEMMA Delays ==
    \A n \in Nat \ {0} : Again!Delay(n) \in 0..30 /\ Again!RateDelay(n) \in 0..30
  <1> SUFFICES ASSUME NEW n \in Nat \ {0}
               PROVE  Again!Delay(n) \in 0..30 /\ Again!RateDelay(n) \in 0..30
    OBVIOUS
  <1>1. n < 6 => n = 1 \/ n = 2 \/ n = 3 \/ n = 4 \/ n = 5
    OBVIOUS
  <1>2. Again!Delay(n) \in 0..30
    BY <1>1 DEF Again!Delay
  <1> QED BY <1>2 DEF Again!RateDelay

LEMMA AgainStep ==
    ASSUME Again!RunNowAssumption, AgainInv, [Again!Next]_(Again!vars) PROVE AgainInv'
  <1> USE DEF AgainInv, AgainTypes, BudgetIsShared, SendsAreBounded,
              Again!RunNowAssumption, Again!Errors, Again!sends, Again!ctl
  <1>1. CASE Again!Top
    BY <1>1 DEF Again!Top
  <1>2. CASE Again!Recover
    BY <1>2 DEF Again!Recover
  <1>3. CASE Again!Budget
    BY <1>3 DEF Again!Budget, Again!CampaignRemaining
  <1>4. CASE Again!Start
    BY <1>4 DEF Again!Start
  <1>5. CASE Again!Send
    BY <1>5 DEF Again!Send, Again!MaySend
  <1>6. CASE Again!Finish
    BY <1>6 DEF Again!Finish
  <1>7. CASE Again!Report
    BY <1>7, Delays DEF Again!Report
  <1>8. CASE Again!Wait
    BY <1>8 DEF Again!Wait
  <1>9. CASE Again!Pause \/ Again!Stop \/ Again!SentElsewhere
    BY <1>9 DEF Again!Pause, Again!Stop, Again!SentElsewhere
  <1>10. CASE UNCHANGED Again!vars
    BY <1>10 DEF Again!vars
  <1> QED BY <1>1, <1>2, <1>3, <1>4, <1>5, <1>6, <1>7, <1>8, <1>9, <1>10 DEF Again!Next

LEMMA FlagsStay == ASSUME Flags, [Again!Next]_(Again!vars) PROVE Flags'
  <1>1. UNCHANGED <<paused, stopped>> => Flags'
    BY DEF Flags
  <1>2. CASE Again!Pause
    BY <1>2 DEF Again!Pause, Flags
  <1>3. CASE Again!Stop
    <2>1. stopped' = "yes" /\ paused' = (paused \/ rowStatus = "failed")
      BY <1>3 DEF Again!Stop
    <2> QED BY <2>1 DEF Flags
  <1>4. CASE Again!Finish
    BY <1>4 DEF Again!Finish, Flags
  <1> QED BY <1>1, <1>2, <1>3, <1>4 DEF Again!Next, Again!Top, Again!Recover, Again!Budget, Again!Start,
      Again!Send, Again!Finish, Again!Report, Again!Wait, Again!SentElsewhere, Again!vars, Again!ctl

\* However often the engine is started again, the runs of one process apply no
\* more than the limit of one run (_run_hh_with_restarts, remaining).
THEOREM RestartsShareTheLimit ==
    ASSUME Again!RunNowAssumption
    PROVE  Again!Spec => [](Again!TypeOK /\ Again!ReportedWithinLimit)
  <1>1. AgainInv /\ Flags => Again!TypeOK /\ Again!ReportedWithinLimit
    BY AgainTyped DEF AgainInv, AgainTypes, BudgetIsShared, Again!ReportedWithinLimit,
       Again!RunNowAssumption
  <1> QED BY <1>1, AgainStarts, AgainStep, FlagsStay, PTL DEF Again!Spec

\* A process whose Stop was not written over is paused, or in a run that was
\* asked to end, or on its way out: its last run neither goes on nor failed.
StopEnds ==
    stopped = "yes" => \/ paused
                       \/ rowStatus = "stop_requested"
                       \/ rowStatus \in {"completed", "interrupted"} /\ at \in {"report", "done"}

\* The row of a run that is going says so, and the row of one that has ended says
\* how.
RowIsOver ==
    /\ rowStatus \in {"completed", "interrupted"} => at \in {"report", "done"}
    /\ rowStatus \in {"running", "stop_requested"} => at = "run"

\* A process that was stopped or paused starts no other send, wherever the Stop
\* met it, unless a run that failed wrote over the request with finish_run
\* (stop_hh_autopilot, _run_hh_with_restarts).
THEOREM StopIsKept ==
    ASSUME Again!RunNowAssumption
    PROVE  Again!Spec => [][Again!OnlyAFailureForgetsStop]_(Again!vars)
  <1>1. Again!Init => StopEnds /\ RowIsOver
    BY DEF Again!Init, StopEnds, RowIsOver
  <1>2. AgainInv /\ StopEnds /\ RowIsOver /\ [Again!Next]_(Again!vars) => (StopEnds /\ RowIsOver)'
    <2> SUFFICES ASSUME AgainInv, StopEnds, RowIsOver, [Again!Next]_(Again!vars)
                 PROVE  (StopEnds /\ RowIsOver)'
      OBVIOUS
    <2> USE DEF StopEnds, RowIsOver, Again!ctl, Again!sends
    <2>1. CASE Again!Top \/ Again!Recover \/ Again!Budget \/ Again!Start
      BY <2>1 DEF Again!Top, Again!Recover, Again!Budget, Again!Start
    <2>2. CASE Again!Send \/ Again!Finish
      BY <2>2 DEF Again!Send, Again!Finish
    <2>3. CASE Again!Report \/ Again!Wait
      BY <2>3 DEF Again!Report, Again!Wait
    <2>4. CASE Again!Pause \/ Again!SentElsewhere
      BY <2>4 DEF Again!Pause, Again!SentElsewhere
    <2>6. CASE Again!Stop
      <3>1. /\ rowStatus # "none" /\ at' = at /\ paused' = (paused \/ rowStatus = "failed")
            /\ rowStatus' = IF rowStatus = "running" THEN "stop_requested" ELSE rowStatus
        BY <2>6 DEF Again!Stop
      <3>2. CASE rowStatus = "running"
        BY <3>1, <3>2
      <3>3. CASE rowStatus = "failed"
        BY <3>1, <3>3, Zenon
      <3>4. CASE rowStatus \in {"completed", "interrupted", "stop_requested"}
        BY <3>1, <3>4
      <3> QED BY <3>1, <3>2, <3>3, <3>4 DEF AgainInv, AgainTypes
    <2>5. CASE UNCHANGED Again!vars
      BY <2>5 DEF Again!vars
    <2> QED BY <2>1, <2>2, <2>3, <2>4, <2>5, <2>6 DEF Again!Next
  <1>3. ASSUME Again!RunNowAssumption, AgainInv, StopEnds, RowIsOver, [Again!Next]_(Again!vars)
        PROVE  [Again!OnlyAFailureForgetsStop]_(Again!vars)
    <2>1. CASE Again!Send
      <3>1. ~paused /\ rowStatus = "running"
        BY <2>1 DEF Again!Send, Again!MaySend
      <3>2. stopped # "yes"
        BY <1>3, <3>1, Zenon DEF StopEnds
      <3> QED BY <3>1, <3>2, Zenon DEF Again!OnlyAFailureForgetsStop, Again!Sends
    <2>2. CASE Again!Recover
      <3>1. sure' + doubt' <= sure + doubt
        BY <1>3, <2>2 DEF AgainInv, AgainTypes, Again!Recover, Again!sends
      <3> QED BY <1>3, <3>1, <2>2 DEF Again!OnlyAFailureForgetsStop, Again!Sends, AgainInv, AgainTypes, Again!Recover,
          Again!sends
    <2>3. CASE UNCHANGED <<sure, doubt>>
      BY <1>3, <2>3 DEF Again!OnlyAFailureForgetsStop, Again!Sends, AgainInv, AgainTypes
    <2> QED BY <1>3, <2>1, <2>2, <2>3 DEF Again!Next, Again!Top, Again!Budget, Again!Start,
        Again!Finish, Again!Report, Again!Wait, Again!Pause, Again!Stop, Again!SentElsewhere,
        Again!vars, Again!sends
  <1> QED BY <1>1, <1>2, <1>3, AgainStarts, AgainStep, PTL DEF Again!Spec

\* No run starts with a limit that could take the campaign past its target:
\* what is in doubt counts like what is sure (_hh_campaign_remaining).
THEOREM TargetBoundsTheStart ==
    ASSUME Again!RunNowAssumption
    PROVE  Again!Spec => [][Again!StartsWithinTarget]_(Again!vars)
  <1>1. ASSUME Again!RunNowAssumption, AgainInv, AgainInv', [Again!Next]_(Again!vars)
        PROVE  [Again!StartsWithinTarget]_(Again!vars)
    <2> SUFFICES ASSUME HasLedger, at = "budget", at' = "start"
                 PROVE  sure + doubt + others + remaining' <= Target
      BY DEF Again!StartsWithinTarget
    <2>1. Again!Budget
      BY <1>1 DEF Again!Next, Again!Top, Again!Recover, Again!Start, Again!Send, Again!Finish,
         Again!Report, Again!Wait, Again!Pause, Again!Stop, Again!SentElsewhere, Again!vars
    <2> QED BY <1>1, <2>1 DEF Again!Budget, Again!CampaignRemaining, AgainInv, AgainTypes,
        Again!RunNowAssumption
  <1> QED BY <1>1, AgainStarts, AgainStep, PTL DEF Again!Spec
------------------------------------------------------------------------------
(* Arithmetic and order, used below.                                       *)

LEMMA LessIsWellFounded ==
    IsWellFoundedOn({ss \in Nat \X Nat : ss[1] < ss[2]}, Nat)
  BY NatLessThanWellFounded DEF OpToRel

\* A set of natural numbers has a smallest element, and within a bound a largest.
LEMMA SmallestExists ==
    ASSUME NEW S \in SUBSET Nat, S # {}
    PROVE  \E x \in S : \A y \in S : x <= y
  <1> DEFINE R == {ss \in Nat \X Nat : ss[1] < ss[2]}
  <1>1. \E x \in S : \A y \in S : <<y, x>> \notin R
    <2> HIDE DEF R
    <2>1. IsWellFoundedOn(R, Nat)
      BY LessIsWellFounded DEF R
    <2> QED BY <2>1, WFMin
  <1>2. PICK x \in S : \A y \in S : <<y, x>> \notin R
    BY <1>1
  <1>3. ASSUME NEW y \in S PROVE x <= y
    <2>1. ASSUME y < x PROVE FALSE
      <3>1. <<y, x>> \in Nat \X Nat /\ <<y, x>>[1] < <<y, x>>[2]
        BY <2>1
      <3> QED BY <1>2, <3>1
    <2> QED BY <2>1
  <1> QED BY <1>3

LEMMA LargestExists ==
    ASSUME NEW n \in Nat, NEW S \in SUBSET (0..n), S # {}
    PROVE  \E x \in S : \A y \in S : y <= x
  <1> DEFINE T == {k \in Nat : n - k \in S}
  <1>1. T \in SUBSET Nat /\ T # {}
    <2>1. PICK x \in S : TRUE
      OBVIOUS
    <2>2. n - x \in Nat /\ n - (n - x) = x
      OBVIOUS
    <2>3. n - x \in T
      BY <2>2
    <2> QED BY <2>3
  <1>2. PICK k \in T : \A l \in T : k <= l
    <2> HIDE DEF T
    <2> QED BY <1>1, SmallestExists
  <1>3. ASSUME NEW y \in S PROVE y <= n - k
    <2>1. n - y \in Nat /\ n - (n - y) = y
      OBVIOUS
    <2>2. n - y \in T
      BY <2>1
    <2>3. k \in Nat /\ k <= n - y
      BY <1>2, <2>2
    <2> QED BY <2>3
  <1>4. n - k \in S
    BY <1>2
  <1> QED BY <1>3, <1>4

\* The first r of a finite set of numbers are no more than r.
LEMMA FirstAreFew ==
    ASSUME NEW n \in Nat, NEW S \in SUBSET (1..n), NEW r \in Nat
    PROVE  LET F == {i \in S : Cardinality({j \in S : j < i}) < r}
           IN  IsFiniteSet(F) /\ Cardinality(F) <= r
  <1> DEFINE Below(i) == {j \in S : j < i}
             F == {i \in S : Cardinality(Below(i)) < r}
  <1> SUFFICES IsFiniteSet(F) /\ Cardinality(F) <= r
    OBVIOUS
  <1>0. IsFiniteSet(S)
    <2>1. IsFiniteSet(1..n)
      BY FS_Interval
    <2> QED BY <2>1, FS_Subset
  <1>1. IsFiniteSet(F)
    BY <1>0, FS_Subset
  <1>2. CASE F = {}
    <2> HIDE DEF F
    <2> QED BY <1>1, <1>2, FS_EmptySet
  <1>3. CASE F # {}
    <2>1. F \in SUBSET (0..n)
      <3>1. F \subseteq S
        BY Zenon
      <3> HIDE DEF F
      <3> QED BY <3>1
    <2>2. PICK m \in F : \A i \in F : i <= m
      <3> HIDE DEF F
      <3> QED BY <2>1, <1>3, LargestExists
    <2>3. IsFiniteSet(Below(m)) /\ Cardinality(Below(m)) \in Nat
      <3>1. IsFiniteSet(Below(m))
        BY <1>0, FS_Subset
      <3> QED BY <3>1, FS_CardinalityType
    <2>4. Cardinality(Below(m)) < r
      BY <2>2
    <2>5. F \subseteq Below(m) \cup {m}
      <3>1. ASSUME NEW i \in F, i # m PROVE i \in Below(m)
        <4>1. i <= m /\ i \in S /\ m \in S
          BY <2>2
        <4> QED BY <4>1, <3>1
      <3> QED BY <3>1
    <2>6. /\ IsFiniteSet(Below(m) \cup {m})
          /\ Cardinality(Below(m) \cup {m}) <= Cardinality(Below(m)) + 1
      <3> HIDE DEF Below
      <3>1. Cardinality(Below(m) \cup {m}) = IF m \in Below(m) THEN Cardinality(Below(m))
                                             ELSE Cardinality(Below(m)) + 1
        BY <2>3, FS_AddElement
      <3>2. IsFiniteSet(Below(m) \cup {m})
        BY <2>3, FS_AddElement
      <3> QED BY <2>3, <3>1, <3>2
    <2>7. Cardinality(F) <= Cardinality(Below(m) \cup {m})
      <3> HIDE DEF Below, F
      <3> QED BY <2>5, <2>6, FS_Subset
    <2>8. Cardinality(F) \in Nat
      <3> HIDE DEF F
      <3> QED BY <1>1, FS_CardinalityType
    <2>9. Cardinality(Below(m) \cup {m}) \in Nat
      <3> HIDE DEF Below
      <3> QED BY <2>6, FS_CardinalityType
    <2>10. Cardinality(F) <= r
      <3> HIDE DEF F, Below
      <3> QED BY <2>3, <2>4, <2>6, <2>7, <2>8, <2>9
    <2> QED BY <1>1, <2>10
  <1> QED BY <1>2, <1>3
------------------------------------------------------------------------------
(* Pipeline: the coordinator, the letters and the sender of one run.       *)

LEMMA PipeCounts ==
    /\ \A S : Pipe!Cardinality(S) = Cardinality(S)
    /\ \A S : Pipe!IsFiniteSet(S) <=> IsFiniteSet(S)
  BY DEF Pipe!Cardinality, Pipe!IsFiniteSet, Cardinality, IsFiniteSet

Places == {"find", "offer", "drain", "again", "last", "passed", "finish", "final",
           "close", "join", "record", "ended", "raised"}
PipeTypes ==
    /\ pipeItem \in [Pipe!Items -> {"absent", "ready", "applied", "gone"}]
    /\ fresh \subseteq Pipe!Items /\ queued \subseteq Pipe!Items /\ seen \subseteq Pipe!Items
    /\ letters \in [Pipe!Items -> {"none", "running", "done", "error"}]
    /\ queue \in Seq(Pipe!Items \cup {Pipe!Close}) /\ undone \in Nat /\ pipeSent \in 0..Limit
    /\ current \in Pipe!Items \cup {Pipe!Close}
    /\ asked \in {"none", "pause", "stop"}
    /\ status \in Pipe!Statuses /\ sstatus \in Pipe!Statuses
    /\ row \in Pipe!Statuses \cup {"running"}
    /\ mpc \in Places
    /\ spc \in {"check", "get", "dispatch", "after", "broken", "ended"}
    /\ pass \in 1..Passes
PipeFlags == {stop, lost, failed} \subseteq BOOLEAN

LEMMA PipeTyped == Pipe!TypeOK <=> PipeTypes /\ PipeFlags
  BY DEF Pipe!TypeOK, PipeTypes, PipeFlags, Places

\* What the sender holds or will find in its queue.
InQueue == (Pipe!Members(queue) \cup {current}) \ {Pipe!Close}
Closing == {"join", "record", "ended", "raised"}

\* An item is in one place on its way, and the memory of the pass knows it; the
\* queue counts what it has not finished, and is closed once.
OneWay ==
    /\ \A m, n \in DOMAIN queue : m # n => queue[m] # queue[n]
    /\ Pipe!Close \in Pipe!Members(queue) => mpc \in Closing
    /\ current # Pipe!Close <=> spc = "dispatch"
    /\ current # Pipe!Close => current \notin Pipe!Members(queue)
    /\ \A i \in Pipe!Items : letters[i] = "running" => i \notin InQueue
    /\ \A i \in Pipe!Items : letters[i] # "none" => i \in queued
    /\ InQueue \subseteq queued
    /\ undone = Cardinality(InQueue)

Bounded == Cardinality(Pipe!Waiting) <= Cap

\* A pass that is over with nobody wanting the run to stop is drained.
PassIsDrained ==
    mpc = "passed" /\ status = "completed" /\ ~Pipe!StopRequested =>
        InQueue = {} /\ \A i \in Pipe!Items : letters[i] = "none"

\* What is recorded is what happened, and nothing is going any more.
RecordIsQuiet ==
    /\ mpc \in {"record", "ended"} => spc = "ended" /\ (status = "completed" => ~failed)
    /\ mpc = "ended" => row = status /\ \A i \in Pipe!Items : letters[i] # "running"

PipeInv == PipeTypes /\ OneWay /\ Bounded /\ PassIsDrained /\ RecordIsQuiet
------------------------------------------------------------------------------
LEMMA ItemsAreNumbers ==
    ASSUME Pipe!PipelineAssumption
    PROVE  /\ Pipe!Items = 1..N /\ Pipe!Close = 0 /\ Pipe!Close \notin Pipe!Items
           /\ N \in Nat /\ Cap \in Nat /\ Limit \in Nat /\ Passes \in Nat /\ Passes > 0
           /\ \A S \in SUBSET Pipe!Items : IsFiniteSet(S) /\ Cardinality(S) \in Nat
  <1>1. /\ N \in Nat /\ Cap \in Nat /\ Limit \in Nat /\ Passes \in Nat /\ Passes > 0
    BY DEF Pipe!PipelineAssumption
  <1>2. Pipe!Items = 1..N /\ Pipe!Close = 0 /\ Pipe!Close \notin Pipe!Items
    BY <1>1 DEF Pipe!Items, Pipe!Close
  <1>3. ASSUME NEW S \in SUBSET Pipe!Items PROVE IsFiniteSet(S) /\ Cardinality(S) \in Nat
    <2>1. IsFiniteSet(Pipe!Items)
      BY <1>1, <1>2, FS_Interval
    <2>2. IsFiniteSet(S)
      BY <2>1, FS_Subset
    <2> QED BY <2>2, FS_CardinalityType
  <1> QED BY <1>1, <1>2, <1>3

LEMMA Waits ==
    ASSUME Pipe!PipelineAssumption, PipeTypes
    PROVE  /\ Pipe!Waiting = Pipe!Preparing \cup InQueue
           /\ Pipe!Waiting \in SUBSET Pipe!Items /\ InQueue \in SUBSET Pipe!Items
  <1>1. Pipe!Members(queue) \subseteq Pipe!Items \cup {Pipe!Close}
    BY DEF PipeTypes, Pipe!Members
  <1>2. Pipe!Preparing \subseteq Pipe!Items /\ Pipe!Close \notin Pipe!Items
    BY ItemsAreNumbers DEF Pipe!Preparing
  <1> QED BY <1>1, <1>2 DEF Pipe!Waiting, InQueue, PipeTypes

\* A queue gains at its end and loses at its head.
LEMMA Gains ==
    ASSUME NEW S, NEW q \in Seq(S), NEW x \in S, x \notin Pipe!Members(q),
           \A m, n \in DOMAIN q : m # n => q[m] # q[n]
    PROVE  /\ Append(q, x) \in Seq(S)
           /\ Pipe!Members(Append(q, x)) = Pipe!Members(q) \cup {x}
           /\ \A m, n \in DOMAIN Append(q, x) : m # n => Append(q, x)[m] # Append(q, x)[n]
  <1> DEFINE r == Append(q, x)
  <1>1. /\ r \in Seq(S) /\ DOMAIN r = 1..(Len(q) + 1) /\ DOMAIN q = 1..Len(q) /\ Len(q) \in Nat
        /\ \A n \in 1..Len(q) : r[n] = q[n]
        /\ r[Len(q) + 1] = x
    OBVIOUS
  <1>2. \A n \in DOMAIN q : q[n] # x
    BY DEF Pipe!Members
  <1> HIDE DEF r
  <1>3. \A n \in DOMAIN r : n \in DOMAIN q \/ n = Len(q) + 1
    BY <1>1
  <1>4. DOMAIN q \subseteq DOMAIN r /\ Len(q) + 1 \in DOMAIN r
    BY <1>1
  <1>5. Pipe!Members(r) = Pipe!Members(q) \cup {x}
    BY <1>1, <1>3, <1>4 DEF Pipe!Members
  <1>6. \A m, n \in DOMAIN r : m # n => r[m] # r[n]
    BY <1>1, <1>2, <1>3
  <1> QED BY <1>1, <1>5, <1>6 DEF r

LEMMA Loses ==
    ASSUME NEW S, NEW q \in Seq(S), q # <<>>,
           \A m, n \in DOMAIN q : m # n => q[m] # q[n]
    PROVE  /\ Tail(q) \in Seq(S) /\ Head(q) \in S
           /\ Pipe!Members(q) = Pipe!Members(Tail(q)) \cup {Head(q)}
           /\ Head(q) \notin Pipe!Members(Tail(q))
           /\ \A m, n \in DOMAIN Tail(q) : m # n => Tail(q)[m] # Tail(q)[n]
  <1> DEFINE r == Tail(q)
  <1>1. /\ r \in Seq(S) /\ Head(q) \in S /\ Head(q) = q[1] /\ DOMAIN q = 1..Len(q)
        /\ Len(q) \in Nat /\ Len(q) > 0
        /\ DOMAIN r = 1..(Len(q) - 1)
        /\ \A n \in 1..(Len(q) - 1) : r[n] = q[n + 1]
    OBVIOUS
  <1> HIDE DEF r
  <1>2. \A n \in DOMAIN r : n + 1 \in DOMAIN q /\ n + 1 # 1 /\ r[n] = q[n + 1]
    BY <1>1
  <1>3. \A n \in DOMAIN q : n = 1 \/ (n - 1 \in DOMAIN r /\ r[n - 1] = q[n])
    BY <1>1
  <1>4. 1 \in DOMAIN q
    BY <1>1
  <1>5. Pipe!Members(q) \subseteq Pipe!Members(r) \cup {Head(q)}
    BY <1>1, <1>3 DEF Pipe!Members
  <1>6. Pipe!Members(r) \cup {Head(q)} \subseteq Pipe!Members(q)
    BY <1>1, <1>2, <1>4 DEF Pipe!Members
  <1>7. Head(q) \notin Pipe!Members(r)
    BY <1>1, <1>2, <1>4 DEF Pipe!Members
  <1>8. \A m, n \in DOMAIN r : m # n => r[m] # r[n]
    <2>1. ASSUME NEW m \in DOMAIN r, NEW n \in DOMAIN r, m # n PROVE r[m] # r[n]
      <3>1. m + 1 # n + 1
        BY <1>1, <2>1
      <3> QED BY <3>1, <1>2, <2>1
    <2> QED BY <2>1
  <1> QED BY <1>1, <1>5, <1>6, <1>7, <1>8 DEF r

LEMMA PipeStarts == ASSUME Pipe!PipelineAssumption, Pipe!Init PROVE PipeInv /\ PipeFlags
  <1>1. PipeFlags
    BY DEF PipeFlags, Pipe!Init
  <1>2. PipeTypes
    <2>1. fresh \subseteq Pipe!Items
      BY DEF Pipe!Init, Pipe!Window, Pipe!Ready
    <2>2. /\ pipeItem \in [Pipe!Items -> {"absent", "ready", "applied", "gone"}]
          /\ letters \in [Pipe!Items -> {"none", "running", "done", "error"}]
      BY DEF Pipe!Init
    <2>3. queue \in Seq(Pipe!Items \cup {Pipe!Close})
      BY DEF Pipe!Init
    <2>4. undone \in Nat /\ pipeSent \in 0..Limit /\ pass \in 1..Passes
      BY ItemsAreNumbers DEF Pipe!Init
    <2> QED BY <2>1, <2>2, <2>3, <2>4 DEF PipeTypes, Pipe!Init, Pipe!Statuses, Places
  <1>3. InQueue = {} /\ Pipe!Members(queue) = {}
    BY DEF Pipe!Init, InQueue, Pipe!Members
  <1>4. OneWay
    BY <1>3, FS_EmptySet DEF Pipe!Init, OneWay
  <1>5. Bounded
    <2>1. Pipe!Waiting = {}
      BY <1>2, <1>3, Waits DEF Pipe!Init, Pipe!Preparing
    <2> QED BY <2>1, FS_EmptySet, ItemsAreNumbers DEF Bounded
  <1> QED BY <1>1, <1>2, <1>4, <1>5 DEF PipeInv, PassIsDrained, RecordIsQuiet, Pipe!Init

LEMMA WindowsAreItems == \A n : Pipe!Window(n) \subseteq Pipe!Items
  BY DEF Pipe!Window, Pipe!Ready

\* Types and flags of one step, apart from the count of the queue.
LEMMA PipeTypesStep ==
    ASSUME Pipe!PipelineAssumption, PipeInv, [Pipe!Next]_(Pipe!vars) PROVE PipeTypes'
  <1> USE DEF Pipe!rows, Pipe!hand, Pipe!sender, Pipe!world
  <1>00. PipeTypes /\ WindowsAreItems!:
    BY WindowsAreItems DEF PipeInv
  <1>0. /\ \A i \in Pipe!Items : Pipe!Collected[i] \in {"none", "running", "done", "error"}
        /\ Pipe!Taken \subseteq Pipe!Items
    <2>1. \A i \in Pipe!Items : letters[i] \in {"none", "running", "done", "error"}
      BY <1>00 DEF PipeTypes
    <2> QED BY <2>1, <1>00 DEF Pipe!Collected, Pipe!Taken, Pipe!Offered
  <1>1. ASSUME Pipe!Enqueue
        PROVE  /\ queued' \subseteq Pipe!Items /\ UNCHANGED <<queue, undone>>
               /\ letters' \in [Pipe!Items -> {"none", "running", "done", "error"}]
    <2> DEFINE new == IF stop THEN {} ELSE Pipe!Taken
    <2>1. /\ queued' = queued \cup new
          /\ letters' = [i \in Pipe!Items |-> IF i \in new THEN "running" ELSE Pipe!Collected[i]]
          /\ UNCHANGED <<queue, undone>>
      BY <1>1 DEF Pipe!Enqueue
    <2>2. new \subseteq Pipe!Items
      BY <1>0
    <2> HIDE DEF new
    <2> QED BY <2>1, <2>2, <1>0, <1>00 DEF PipeTypes
  <1>2. CASE Pipe!Find
    <2>1. PICK i \in Pipe!Items : /\ pipeItem' = [pipeItem EXCEPT ![i] = "ready"]
                                  /\ fresh' = fresh \cup {i}
      BY <1>2 DEF Pipe!Find
    <2> QED BY <1>2, <2>1, <1>00 DEF Pipe!Find, PipeTypes, Places
  <1>3. CASE Pipe!Offer
    <2>1. Pipe!Enqueue /\ status' = sstatus /\ mpc' \in {"drain", "find"}
      BY <1>3 DEF Pipe!Offer
    <2> QED BY <1>1, <1>3, <2>1, <1>00 DEF Pipe!Offer, PipeTypes, Places
  <1>4. CASE Pipe!DrainOffer
    <2>1. Pipe!Enqueue /\ status' \in {sstatus, status} /\ mpc' \in {"passed", "again", "last"}
      BY <1>4 DEF Pipe!DrainOffer
    <2> QED BY <1>1, <1>4, <2>1, <1>00 DEF Pipe!DrainOffer, PipeTypes, Places
  <1>5. CASE Pipe!FindEnds \/ Pipe!DrainSkipped \/ Pipe!BodyLosesLease \/ Pipe!FinishLosesLease
    BY <1>5, <1>00 DEF Pipe!FindEnds, Pipe!DrainSkipped, Pipe!BodyLosesLease, Pipe!FinishLosesLease,
       PipeTypes, Places, Pipe!Statuses
  <1>6. CASE Pipe!Drained
    <2>1. /\ letters' = Pipe!Collected /\ status' \in {sstatus, status}
          /\ mpc' \in {"drain", "passed", "close"}
          /\ UNCHANGED <<Pipe!rows, queued, queue, undone, Pipe!sender, Pipe!world>>
      BY <1>6 DEF Pipe!Drained
    <2>2. letters' \in [Pipe!Items -> {"none", "running", "done", "error"}]
      BY <1>0, <2>1 DEF Pipe!Collected
    <2> QED BY <2>1, <2>2, <1>00 DEF PipeTypes, Places
  <1>7. CASE Pipe!Passed
    <2>1. /\ UNCHANGED <<pipeItem, row, letters, queue, undone, pipeSent, current, sstatus, spc,
                         asked>>
          /\ mpc' \in {"find", "final"} /\ status' \in {status, "interrupted"}
          /\ pass' = pass \/ (pass' = pass + 1 /\ pass < Passes)
          /\ queued' \in {queued, {}} /\ seen' \in {seen, {}}
          /\ fresh' = fresh \/ fresh' \in SUBSET Pipe!Window(Limit)
      BY <1>7 DEF Pipe!Passed
    <2>2. pass' \in 1..Passes
      BY <2>1, <1>00, ItemsAreNumbers DEF PipeTypes
    <2>3. queued' \subseteq Pipe!Items /\ seen' \subseteq Pipe!Items /\ fresh' \subseteq Pipe!Items
      BY <2>1, <1>00 DEF PipeTypes
    <2> QED BY <2>1, <2>2, <2>3, <1>00 DEF PipeTypes, Places, Pipe!Statuses
  <1>8. CASE Pipe!Final
    <2>1. mpc' \in {"close", "finish"} /\ UNCHANGED <<Pipe!rows, Pipe!hand, Pipe!sender, asked, status>>
      BY <1>8 DEF Pipe!Final
    <2> QED BY <2>1, <1>00 DEF PipeTypes, Places
  <1>9. CASE Pipe!CloseQueue
    <2>1. PICK dropped \in SUBSET {i \in Pipe!Items : letters[i] = "running"} :
            letters' = [i \in Pipe!Items |-> IF i \in dropped THEN "none" ELSE letters[i]]
      BY <1>9 DEF Pipe!CloseQueue
    <2>2. letters' \in [Pipe!Items -> {"none", "running", "done", "error"}]
      BY <2>1, <1>00 DEF PipeTypes
    <2>3. queue' \in Seq(Pipe!Items \cup {Pipe!Close})
      BY <1>9, <1>00 DEF Pipe!CloseQueue, PipeTypes
    <2> QED BY <1>9, <2>2, <2>3, <1>00 DEF Pipe!CloseQueue, PipeTypes, Places
  <1>10. CASE Pipe!Join \/ Pipe!JoinLosesLease \/ Pipe!Record
    <2>1. CASE Pipe!Join
      <3>1. status' \in {"failed", status, sstatus} /\ mpc' = "record"
        BY <2>1 DEF Pipe!Join
      <3> QED BY <2>1, <3>1, <1>00 DEF Pipe!Join, PipeTypes, Places, Pipe!Statuses
    <2>2. CASE Pipe!JoinLosesLease
      BY <2>2, <1>00 DEF Pipe!JoinLosesLease, PipeTypes, Places
    <2>3. CASE Pipe!Record
      <3>1. mpc' \in {"raised", "ended"} /\ row' \in {row, status}
        BY <2>3 DEF Pipe!Record
      <3> QED BY <2>3, <3>1, <1>00 DEF Pipe!Record, PipeTypes, Places
    <2> QED BY <1>10, <2>1, <2>2, <2>3
  <1>11. ASSUME NEW i \in Pipe!Items, Pipe!Letter(i) PROVE PipeTypes'
    <2>1. letters' \in [Pipe!Items -> {"none", "running", "done", "error"}]
      BY <1>11, <1>00 DEF Pipe!Letter, Pipe!LetterReady, Pipe!LetterFails, PipeTypes
    <2>2. /\ UNCHANGED <<Pipe!rows, queued, Pipe!sender, Pipe!world, status, mpc>>
          /\ \/ UNCHANGED <<queue, undone>>
             \/ queue' = Append(queue, i) /\ undone' = undone + 1
      BY <1>11 DEF Pipe!Letter, Pipe!LetterReady, Pipe!LetterFails
    <2>3. queue' \in Seq(Pipe!Items \cup {Pipe!Close}) /\ undone' \in Nat
      <3>1. queue \in Seq(Pipe!Items \cup {Pipe!Close}) /\ undone \in Nat
        BY <1>00 DEF PipeTypes
      <3> QED BY <2>2, <3>1
    <2> QED BY <2>1, <2>2, <2>3, <1>00 DEF PipeTypes
  <1>12. CASE Pipe!SenderChecks \/ Pipe!SenderFails \/ Pipe!SenderAfter
    <2>1. /\ UNCHANGED <<Pipe!rows, Pipe!hand, seen, pipeSent, current, Pipe!world, status, mpc>>
          /\ sstatus' \in {sstatus, "interrupted", "failed"} /\ spc' \in {"ended", "get", "check"}
      BY <1>12 DEF Pipe!SenderChecks, Pipe!SenderFails, Pipe!SenderAfter
    <2> QED BY <2>1, <1>00 DEF PipeTypes, Pipe!Statuses
  <1>13. CASE Pipe!SenderGets
    <2>1. queue' \in Seq(Pipe!Items \cup {Pipe!Close}) /\ current' \in Pipe!Items \cup {Pipe!Close}
      <3>1. /\ queue \in Seq(Pipe!Items \cup {Pipe!Close})
            /\ current \in Pipe!Items \cup {Pipe!Close}
        BY <1>00 DEF PipeTypes
      <3>2. \/ UNCHANGED <<queue, current>>
            \/ queue # <<>> /\ queue' = Tail(queue) /\ current' = Head(queue)
        BY <1>13 DEF Pipe!SenderGets
      <3>3. CASE queue # <<>> /\ queue' = Tail(queue) /\ current' = Head(queue)
        <4> DEFINE T == Pipe!Items \cup {Pipe!Close}
        <4>1. queue \in Seq(T)
          BY <3>1
        <4> HIDE DEF T
        <4>2. Tail(queue) \in Seq(T) /\ Head(queue) \in T
          BY <3>3, <4>1
        <4> QED BY <3>3, <4>2 DEF T
      <3> QED BY <3>1, <3>2, <3>3
    <2>2. spc' \in {"check", "ended", "dispatch"}
      BY <1>13 DEF Pipe!SenderGets
    <2> QED BY <1>13, <2>1, <2>2, <1>00 DEF Pipe!SenderGets, PipeTypes
  <1>14. ASSUME spc = "dispatch" PROVE undone \in Nat /\ undone > 0
    <2>1. current \in InQueue /\ undone = Cardinality(InQueue)
      BY <1>14 DEF PipeInv, OneWay, InQueue
    <2>2. InQueue \in SUBSET Pipe!Items
      BY <1>00, Waits
    <2>3. IsFiniteSet(InQueue) /\ Cardinality(InQueue) \in Nat
      BY <2>2, ItemsAreNumbers
    <2> QED BY <2>1, <2>3, FS_EmptySet
  <1>15. CASE Pipe!Dispatched
    <2>1. /\ spc = "dispatch" /\ undone' = undone - 1 /\ current' = Pipe!Close /\ spc' = "after"
          /\ UNCHANGED <<fresh, pass, row, queued, letters, queue, asked, status, mpc>>
          /\ sstatus' \in {"completed", "interrupted"}
          /\ seen' \in {seen, seen \cup {current}}
      BY <1>15 DEF Pipe!Dispatched
    <2>2. /\ pipeItem' = pipeItem \/ \E out \in Pipe!Outcomes : pipeItem' = [pipeItem EXCEPT ![current] = out]
          /\ pipeSent' = pipeSent \/ (pipeSent' = pipeSent + 1 /\ pipeSent < Limit)
      <3>1. CASE pipeItem' = pipeItem /\ pipeSent' = pipeSent
        BY <3>1
      <3>2. CASE /\ pipeSent < Limit
                 /\ \E out \in Pipe!Outcomes :
                      /\ pipeItem' = [pipeItem EXCEPT ![current] = out]
                      /\ pipeSent' = IF out = "applied" THEN pipeSent + 1 ELSE pipeSent
        <4>1. PICK out \in Pipe!Outcomes :
                      /\ pipeItem' = [pipeItem EXCEPT ![current] = out]
                      /\ pipeSent' = IF out = "applied" THEN pipeSent + 1 ELSE pipeSent
          BY <3>2
        <4> QED BY <3>2, <4>1
      <3>3. UNCHANGED <<pipeItem, seen, pipeSent>> => pipeItem' = pipeItem /\ pipeSent' = pipeSent
        OBVIOUS
      <3> QED BY <1>15, <3>1, <3>2, <3>3, Zenon DEF Pipe!Dispatched
    <2>3. pipeItem' \in [Pipe!Items -> {"absent", "ready", "applied", "gone"}] /\ pipeSent' \in 0..Limit
      <3>1. pipeItem' \in [Pipe!Items -> {"absent", "ready", "applied", "gone"}]
        BY <2>2, <1>00 DEF Pipe!Outcomes, PipeTypes
      <3>2. Limit \in Nat /\ pipeSent \in 0..Limit
        BY <1>00, ItemsAreNumbers DEF PipeTypes
      <3> QED BY <2>2, <3>1, <3>2
    <2>4. undone' \in Nat
      BY <1>14, <2>1
    <2>5. seen' \subseteq Pipe!Items
      <3>1. current \in Pipe!Items
        BY <2>1, <1>00 DEF PipeInv, OneWay, PipeTypes
      <3> QED BY <2>1, <3>1, <1>00 DEF PipeTypes
    <2> QED BY <2>1, <2>3, <2>4, <2>5, <1>00 DEF PipeTypes, Pipe!Statuses
  <1>16. CASE Pipe!SenderRaises
    <2>1. undone' \in Nat
      BY <1>14, <1>16 DEF Pipe!SenderRaises
    <2> QED BY <1>16, <2>1, <1>00 DEF Pipe!SenderRaises, PipeTypes
  <1>17. CASE Pipe!Ask \/ Pipe!LoseLease \/ UNCHANGED Pipe!vars
    BY <1>17, <1>00 DEF Pipe!Ask, Pipe!LoseLease, Pipe!vars, PipeTypes
  <1> QED BY <1>2, <1>3, <1>4, <1>5, <1>6, <1>7, <1>8, <1>9, <1>10, <1>11, <1>12, <1>13, <1>15,
        <1>16, <1>17 DEF Pipe!Next, Pipe!Main, Pipe!Sender

LEMMA PipeFlagsStep ==
    ASSUME PipeFlags, [Pipe!Next]_(Pipe!vars) PROVE PipeFlags'
  <1> USE DEF Pipe!rows, Pipe!hand, Pipe!sender, Pipe!world
  <1>1. stop' \in {stop, TRUE} /\ lost' \in {lost, TRUE} /\ failed' \in {failed, TRUE}
    BY Zenon DEF Pipe!Next, Pipe!Main, Pipe!Sender, Pipe!Find, Pipe!FindEnds, Pipe!Offer, Pipe!Enqueue,
       Pipe!DrainOffer, Pipe!DrainSkipped, Pipe!Drained, Pipe!Passed, Pipe!BodyLosesLease,
       Pipe!FinishLosesLease, Pipe!Final, Pipe!CloseQueue, Pipe!Join, Pipe!JoinLosesLease,
       Pipe!Record, Pipe!Letter, Pipe!LetterReady, Pipe!LetterFails, Pipe!SenderChecks,
       Pipe!SenderGets, Pipe!Dispatched, Pipe!SenderRaises, Pipe!SenderFails, Pipe!SenderAfter,
       Pipe!Ask, Pipe!LoseLease, Pipe!vars
  <1> QED BY <1>1 DEF PipeFlags

\* A set within three finite ones is no larger than they are together.
LEMMA ThreeSets ==
    ASSUME NEW A, NEW B, NEW C, NEW W, IsFiniteSet(A), IsFiniteSet(B), IsFiniteSet(C),
           W \subseteq A \cup (B \cup C)
    PROVE  Cardinality(W) <= Cardinality(A) + (Cardinality(B) + Cardinality(C))
  <1>1. /\ IsFiniteSet(B \cup C) /\ IsFiniteSet(B \cap C)
        /\ Cardinality(B \cup C) = Cardinality(B) + Cardinality(C) - Cardinality(B \cap C)
    <2>1. IsFiniteSet(B \cap C)
      BY FS_Subset
    <2> QED BY <2>1, FS_Union
  <1>2. /\ IsFiniteSet(A \cup (B \cup C)) /\ IsFiniteSet(A \cap (B \cup C))
        /\ Cardinality(A \cup (B \cup C)) =
               Cardinality(A) + Cardinality(B \cup C) - Cardinality(A \cap (B \cup C))
    <2>1. IsFiniteSet(A \cap (B \cup C))
      BY FS_Subset
    <2> QED BY <2>1, <1>1, FS_Union
  <1>3. IsFiniteSet(W) /\ Cardinality(W) <= Cardinality(A \cup (B \cup C))
    BY <1>2, FS_Subset
  <1>4. /\ Cardinality(A) \in Nat /\ Cardinality(B) \in Nat /\ Cardinality(C) \in Nat
        /\ Cardinality(B \cup C) \in Nat /\ Cardinality(B \cap C) \in Nat
        /\ Cardinality(A \cup (B \cup C)) \in Nat /\ Cardinality(A \cap (B \cup C)) \in Nat
        /\ Cardinality(W) \in Nat
    BY <1>1, <1>2, <1>3, FS_CardinalityType
  <1> QED BY <1>1, <1>2, <1>3, <1>4

\* What waits only gets less.
LEMMA WaitingShrinks ==
    ASSUME Pipe!PipelineAssumption, PipeTypes, Bounded, Pipe!Waiting' \subseteq Pipe!Waiting
    PROVE  Bounded'
  <1>1. Pipe!Waiting \in SUBSET Pipe!Items
    BY Waits
  <1>2. IsFiniteSet(Pipe!Waiting) /\ Cardinality(Pipe!Waiting) \in Nat
    BY <1>1, ItemsAreNumbers
  <1>3. Cardinality(Pipe!Waiting') <= Cardinality(Pipe!Waiting)
    BY <1>2, FS_Subset
  <1>4. Pipe!Waiting' \in SUBSET Pipe!Items
    BY <1>1
  <1>5. Cardinality(Pipe!Waiting') \in Nat
    BY <1>4, ItemsAreNumbers
  <1> QED BY <1>2, <1>3, <1>5, ItemsAreNumbers DEF Bounded

\* Nothing is handed over: letters end or are collected, and the queue stays.
LEMMA HandRests ==
    ASSUME Pipe!PipelineAssumption, PipeInv, PipeTypes',
           \A i \in Pipe!Items : /\ letters'[i] # "none" => letters[i] # "none"
                                 /\ letters'[i] = "running" => letters[i] = "running",
           UNCHANGED <<queue, undone, current, queued>>,
           spc' = "dispatch" <=> spc = "dispatch",
           mpc \in Closing => mpc' \in Closing
    PROVE  OneWay' /\ Bounded' /\ InQueue' = InQueue
  <1>1. InQueue' = InQueue
    BY DEF InQueue
  <1>2. OneWay'
    BY <1>1 DEF PipeInv, OneWay
  <1>3. Pipe!Waiting' \subseteq Pipe!Waiting
    <2>1. Pipe!Preparing' \subseteq Pipe!Preparing
      BY DEF Pipe!Preparing
    <2>2. Pipe!Waiting = Pipe!Preparing \cup InQueue
      BY Waits DEF PipeInv
    <2>3. Pipe!Waiting' \subseteq Pipe!Preparing' \cup InQueue'
      BY DEF Pipe!Waiting, InQueue, Pipe!Preparing
    <2> QED BY <1>1, <2>1, <2>2, <2>3
  <1>4. Bounded'
    BY <1>3, WaitingShrinks DEF PipeInv
  <1> QED BY <1>1, <1>2, <1>4

\* dispatch_pending hands over what there is room for.
LEMMA Hands ==
    ASSUME Pipe!PipelineAssumption, PipeInv, PipeTypes', Pipe!Enqueue,
           UNCHANGED <<current, spc>>, mpc \in {"offer", "drain"}
    PROVE  OneWay' /\ Bounded' /\ InQueue' = InQueue
  <1> DEFINE new == IF stop THEN {} ELSE Pipe!Taken
             Left == {i \in Pipe!Items : Pipe!Collected[i] # "none"}
  <1>1. /\ queued' = queued \cup new
        /\ letters' = [i \in Pipe!Items |-> IF i \in new THEN "running" ELSE Pipe!Collected[i]]
        /\ UNCHANGED <<queue, undone>>
    BY DEF Pipe!Enqueue
  <1>2. /\ new \subseteq Pipe!Items /\ \A i \in new : i \notin queued
    BY WindowsAreItems DEF Pipe!Taken, Pipe!Offered
  <1>3. \A i \in Pipe!Items : Pipe!Collected[i] # "none" => /\ letters[i] = Pipe!Collected[i]
                                                            /\ letters[i] # "none"
    BY DEF Pipe!Collected
  <1>4. InQueue' = InQueue
    BY <1>1 DEF InQueue
  <1>5. InQueue \in SUBSET Pipe!Items /\ Pipe!Waiting = Pipe!Preparing \cup InQueue
    BY Waits DEF PipeInv
  <1>6. OneWay'
    <2>1. \A i \in Pipe!Items : letters'[i] = "running" => i \notin InQueue'
      <3>1. \A i \in new : i \notin InQueue
        BY <1>2 DEF PipeInv, OneWay
      <3>2. \A i \in Pipe!Items : letters'[i] = "running" => i \in new \/ letters[i] = "running"
        BY <1>1, <1>3
      <3> QED BY <3>1, <3>2, <1>4 DEF PipeInv, OneWay
    <2>2. \A i \in Pipe!Items : letters'[i] # "none" => i \in queued'
      <3>1. \A i \in Pipe!Items : letters'[i] # "none" => i \in new \/ letters[i] # "none"
        BY <1>1, <1>3
      <3> QED BY <3>1, <1>1 DEF PipeInv, OneWay
    <2>3. InQueue' \subseteq queued'
      BY <1>1, <1>4 DEF PipeInv, OneWay
    <2>4. Pipe!Close \notin Pipe!Members(queue)
      BY DEF PipeInv, OneWay, Closing
    <2> HIDE DEF new
    <2> QED BY <1>1, <1>4, <2>1, <2>2, <2>3, <2>4 DEF PipeInv, OneWay
  <1>7. /\ Left \in SUBSET Pipe!Items /\ new \in SUBSET Pipe!Items
        /\ Pipe!Waiting' \subseteq new \cup (Left \cup InQueue)
    <2>1. Left \in SUBSET Pipe!Items /\ new \in SUBSET Pipe!Items
      BY <1>2
    <2>2. Pipe!Preparing' \subseteq new \cup Left
      BY <1>1 DEF Pipe!Preparing
    <2>3. Pipe!Waiting' \subseteq Pipe!Preparing' \cup InQueue'
      BY DEF Pipe!Waiting, InQueue, Pipe!Preparing
    <2> HIDE DEF new, Left
    <2> QED BY <2>1, <2>2, <2>3, <1>4
  <1>8. CASE new = {}
    <2>1. Left \subseteq Pipe!Preparing
      BY <1>3 DEF Pipe!Preparing
    <2>2. Pipe!Waiting' \subseteq Pipe!Waiting
      <3> HIDE DEF new, Left
      <3> QED BY <1>5, <1>7, <1>8, <2>1
    <2> QED BY <2>2, WaitingShrinks, <1>4, <1>6 DEF PipeInv
  <1>9. CASE new # {}
    <2>1. new = Pipe!Taken
      BY <1>9
    <2>2. /\ IsFiniteSet(new) /\ Cardinality(new) \in Nat
          /\ IsFiniteSet(Left) /\ Cardinality(Left) \in Nat
          /\ IsFiniteSet(InQueue) /\ Cardinality(InQueue) \in Nat
          /\ IsFiniteSet(Pipe!Waiting') /\ Cardinality(Pipe!Waiting') \in Nat
      <3>1. Pipe!Waiting' \in SUBSET Pipe!Items
        <4> HIDE DEF new, Left
        <4> QED BY <1>5, <1>7
      <3> HIDE DEF new, Left
      <3> QED BY <3>1, <1>5, <1>7, ItemsAreNumbers
    <2> DEFINE used == Cardinality(Left) + undone
    <2>3. undone = Cardinality(InQueue)
      BY DEF PipeInv, OneWay
    <2>4. Pipe!Room = IF used < Cap THEN Cap - used ELSE 0
      BY PipeCounts DEF Pipe!Room
    <2>5. used \in Nat /\ Cap \in Nat
      <3> HIDE DEF Left
      <3> QED BY <2>2, <2>3, ItemsAreNumbers
    <2>6. Pipe!Room \in Nat
      <3> HIDE DEF used
      <3> QED BY <2>4, <2>5
    <2>7. Cardinality(new) <= Pipe!Room
      <3> DEFINE S == Pipe!Offered
                 r == Pipe!Room
      <3>1. S \in SUBSET (1..N) /\ N \in Nat
        BY WindowsAreItems, ItemsAreNumbers DEF Pipe!Offered
      <3>2. r \in Nat
        BY <2>6
      <3>3. new = {i \in S : Cardinality({j \in S : j < i}) < r}
        BY <2>1, PipeCounts DEF Pipe!Taken
      <3> HIDE DEF S, r, new
      <3>4. Cardinality({i \in S : Cardinality({j \in S : j < i}) < r}) <= r
        BY <3>1, <3>2, FirstAreFew
      <3> QED BY <3>3, <3>4 DEF r
    <2>8. used < Cap
      <3>1. ASSUME Pipe!Room = 0 PROVE FALSE
        <4>1. Cardinality(new) = 0
          <5> HIDE DEF new
          <5> QED BY <2>2, <2>7, <3>1
        <4>2. new = {}
          <5> HIDE DEF new
          <5> QED BY <4>1, <2>2, FS_EmptySet
        <4> QED BY <4>2, <1>9
      <3> HIDE DEF used
      <3> QED BY <3>1, <2>4
    <2>9. Cardinality(Pipe!Waiting') <= Cardinality(new) + (Cardinality(Left) + Cardinality(InQueue))
      <3> HIDE DEF new, Left
      <3> QED BY <2>2, <1>7, ThreeSets
    <2>10. Cardinality(Pipe!Waiting') <= Cap
      <3> HIDE DEF new, Left
      <3> QED BY <2>2, <2>3, <2>4, <2>5, <2>7, <2>8, <2>9
    <2>11. Bounded'
      BY <2>10, PipeCounts DEF Bounded
    <2> QED BY <2>11, <1>4, <1>6
  <1> QED BY <1>8, <1>9

\* A pass that was drained stays drained, and a record stays.
LEMMA PassRests ==
    ASSUME PipeInv, InQueue' \subseteq InQueue,
           \A i \in Pipe!Items : letters[i] = "none" => letters'[i] = "none",
           mpc' = "passed" /\ status' = "completed" /\ ~Pipe!StopRequested' =>
               mpc = "passed" /\ status = "completed" /\ ~Pipe!StopRequested
    PROVE  PassIsDrained'
  BY DEF PipeInv, PassIsDrained

LEMMA RecordRests ==
    ASSUME PipeInv,
           \A i \in Pipe!Items : letters'[i] = "running" => letters[i] = "running",
           mpc' \in {"record", "ended"} => UNCHANGED <<mpc, spc, failed, status, row>>
    PROVE  RecordIsQuiet'
  BY DEF PipeInv, RecordIsQuiet

\* Steps that hand nothing over.
LEMMA Rests ==
    ASSUME Pipe!PipelineAssumption, PipeInv, PipeTypes',
           \A i \in Pipe!Items : /\ letters'[i] # "none" => letters[i] # "none"
                                 /\ letters'[i] = "running" => letters[i] = "running",
           UNCHANGED <<queue, undone, current, queued>>,
           spc' = "dispatch" <=> spc = "dispatch",
           mpc \in Closing => mpc' \in Closing,
           mpc' = "passed" /\ status' = "completed" /\ ~Pipe!StopRequested' =>
               mpc = "passed" /\ status = "completed" /\ ~Pipe!StopRequested,
           mpc' \in {"record", "ended"} => UNCHANGED <<mpc, spc, failed, status, row>>
    PROVE  PipeInv'
  <1>1. OneWay' /\ Bounded' /\ InQueue' = InQueue
    BY HandRests
  <1>2. PassIsDrained' /\ RecordIsQuiet'
    BY <1>1, PassRests, RecordRests
  <1> QED BY <1>1, <1>2 DEF PipeInv

\* The coordinator, apart from what it hands over.
LEMMA CoordinatorKeeps ==
    ASSUME Pipe!PipelineAssumption, PipeInv, PipeTypes',
           \/ Pipe!Find \/ Pipe!FindEnds \/ Pipe!DrainSkipped \/ Pipe!BodyLosesLease
           \/ Pipe!FinishLosesLease \/ Pipe!Final \/ Pipe!JoinLosesLease
    PROVE  PipeInv'
  <1> USE DEF Pipe!rows, Pipe!hand, Pipe!sender, Pipe!world
  <1>1. /\ UNCHANGED <<letters, queue, undone, current, queued, spc>>
        /\ mpc \in Closing => mpc' \in Closing
        /\ mpc' = "passed" => status' # "completed"
        /\ mpc' \notin {"record", "ended"}
    BY Zenon DEF Pipe!Find, Pipe!FindEnds, Pipe!DrainSkipped, Pipe!BodyLosesLease,
       Pipe!FinishLosesLease, Pipe!Final, Pipe!JoinLosesLease, Closing
  <1> QED BY <1>1, Rests

LEMMA OfferKeeps ==
    ASSUME Pipe!PipelineAssumption, PipeInv, PipeTypes', Pipe!Offer \/ Pipe!DrainOffer
    PROVE  PipeInv'
  <1> USE DEF Pipe!rows, Pipe!hand, Pipe!sender, Pipe!world
  <1>1. /\ Pipe!Enqueue /\ UNCHANGED <<current, spc, stop>> /\ mpc \in {"offer", "drain"}
        /\ mpc' = "passed" => stop'
        /\ mpc' \in {"find", "drain", "passed", "again", "last"}
    BY DEF Pipe!Offer, Pipe!DrainOffer
  <1>2. OneWay' /\ Bounded'
    BY <1>1, Hands
  <1>3. PassIsDrained' /\ RecordIsQuiet'
    BY <1>1 DEF PassIsDrained, RecordIsQuiet, Pipe!StopRequested
  <1> QED BY <1>2, <1>3 DEF PipeInv

\* A drain that ends without a stop has waited for all.
LEMMA DrainKeeps ==
    ASSUME Pipe!PipelineAssumption, PipeInv, PipeTypes', Pipe!Drained
    PROVE  PipeInv'
  <1> USE DEF Pipe!rows, Pipe!hand, Pipe!sender, Pipe!world
  <1>1. /\ letters' = Pipe!Collected /\ UNCHANGED <<queued, queue, undone, current, spc>>
        /\ mpc \in {"again", "last", "finish"} /\ mpc' \in {"drain", "passed", "close"}
        /\ stop' \/ (undone = 0 /\ \A i \in Pipe!Items : Pipe!Collected[i] = "none")
    BY DEF Pipe!Drained
  <1>2. \A i \in Pipe!Items : /\ letters'[i] # "none" => letters[i] # "none"
                              /\ letters'[i] = "running" => letters[i] = "running"
    BY <1>1 DEF Pipe!Collected
  <1>3. OneWay' /\ Bounded' /\ InQueue' = InQueue
    BY <1>1, <1>2, HandRests DEF Closing
  <1>4. undone = 0 => InQueue = {}
    <2>1. InQueue \in SUBSET Pipe!Items
      BY Waits DEF PipeInv
    <2>2. IsFiniteSet(InQueue) /\ undone = Cardinality(InQueue)
      BY <2>1, ItemsAreNumbers DEF PipeInv, OneWay
    <2> QED BY <2>2, FS_EmptySet
  <1>5. PassIsDrained'
    BY <1>1, <1>3, <1>4 DEF PassIsDrained, Pipe!StopRequested
  <1>6. RecordIsQuiet'
    BY <1>1 DEF RecordIsQuiet
  <1> QED BY <1>3, <1>5, <1>6 DEF PipeInv

\* The memory of a pass is cleared when the pass is drained.
LEMMA PassKeeps ==
    ASSUME Pipe!PipelineAssumption, PipeInv, PipeTypes', Pipe!Passed
    PROVE  PipeInv'
  <1> USE DEF Pipe!rows, Pipe!hand, Pipe!sender, Pipe!world
  <1>1. /\ mpc = "passed" /\ mpc' \in {"find", "final"}
        /\ UNCHANGED <<letters, queue, undone, current, spc>>
        /\ queued' = queued \/ (status = "completed" /\ ~Pipe!StopRequested)
    BY DEF Pipe!Passed
  <1>2. CASE queued' = queued
    BY <1>1, <1>2, Rests DEF Closing
  <1>3. CASE status = "completed" /\ ~Pipe!StopRequested
    <2>1. InQueue = {} /\ \A i \in Pipe!Items : letters[i] = "none"
      BY <1>1, <1>3 DEF PipeInv, PassIsDrained
    <2>2. InQueue' = {}
      BY <1>1, <2>1 DEF InQueue
    <2>3. OneWay'
      <3>1. Pipe!Close \notin Pipe!Members(queue)
        BY <1>1 DEF PipeInv, OneWay, Closing
      <3>2. undone' = Cardinality(InQueue')
        BY <1>1, <2>1, <2>2 DEF PipeInv, OneWay
      <3> QED BY <1>1, <2>1, <2>2, <3>1, <3>2 DEF PipeInv, OneWay
    <2>4. Pipe!Waiting' = Pipe!Waiting
      BY <1>1 DEF Pipe!Waiting, Pipe!Preparing
    <2>5. Bounded'
      BY <2>4, WaitingShrinks DEF PipeInv
    <2>6. PassIsDrained' /\ RecordIsQuiet'
      BY <1>1 DEF PassIsDrained, RecordIsQuiet
    <2> QED BY <2>3, <2>5, <2>6 DEF PipeInv
  <1> QED BY <1>1, <1>2, <1>3

\* The queue is closed once.
LEMMA CloseKeeps ==
    ASSUME Pipe!PipelineAssumption, PipeInv, PipeTypes', Pipe!CloseQueue
    PROVE  PipeInv'
  <1> USE DEF Pipe!rows, Pipe!hand, Pipe!sender, Pipe!world
  <1>1. PICK dropped \in SUBSET {i \in Pipe!Items : letters[i] = "running"} :
            letters' = [i \in Pipe!Items |-> IF i \in dropped THEN "none" ELSE letters[i]]
    BY DEF Pipe!CloseQueue
  <1>2. /\ mpc = "close" /\ mpc' = "join" /\ queue' = Append(queue, Pipe!Close)
        /\ UNCHANGED <<queued, undone, current, spc>>
    BY DEF Pipe!CloseQueue
  <1>3. \A i \in Pipe!Items : /\ letters'[i] # "none" => letters[i] # "none"
                              /\ letters'[i] = "running" => letters[i] = "running"
    BY <1>1
  <1>4. Pipe!Close \notin Pipe!Members(queue)
    BY <1>2 DEF PipeInv, OneWay, Closing
  <1>5. /\ Pipe!Members(queue)' = Pipe!Members(queue) \cup {Pipe!Close}
        /\ \A m, n \in DOMAIN queue' : m # n => queue'[m] # queue'[n]
    <2> DEFINE S == Pipe!Items \cup {Pipe!Close}
               x == Pipe!Close
               q == queue
    <2>1. q \in Seq(S) /\ x \in S /\ x \notin Pipe!Members(q)
      BY <1>4 DEF PipeInv, PipeTypes
    <2>2. \A m, n \in DOMAIN q : m # n => q[m] # q[n]
      BY DEF PipeInv, OneWay
    <2>3. queue' = Append(q, x)
      BY <1>2
    <2> HIDE DEF S, x, q
    <2>4. /\ Pipe!Members(Append(q, x)) = Pipe!Members(q) \cup {x}
          /\ \A m, n \in DOMAIN Append(q, x) : m # n => Append(q, x)[m] # Append(q, x)[n]
      BY <2>1, <2>2, Gains
    <2>5. Pipe!Members(queue') = Pipe!Members(q) \cup {x}
      BY <2>3, <2>4
    <2> QED BY <2>3, <2>4, <2>5 DEF q, x, Pipe!Members
  <1>6. InQueue' = InQueue
    BY <1>2, <1>5 DEF InQueue
  <1>7. OneWay'
    BY <1>2, <1>3, <1>5, <1>6 DEF PipeInv, OneWay, Closing
  <1>8. Pipe!Waiting' \subseteq Pipe!Waiting
    <2>1. Pipe!Preparing' \subseteq Pipe!Preparing
      BY <1>3 DEF Pipe!Preparing
    <2>2. Pipe!Waiting = Pipe!Preparing \cup InQueue
      BY Waits DEF PipeInv
    <2>3. Pipe!Waiting' \subseteq Pipe!Preparing' \cup InQueue'
      BY DEF Pipe!Waiting, InQueue, Pipe!Preparing
    <2> QED BY <1>6, <2>1, <2>2, <2>3
  <1>9. Bounded'
    BY <1>8, WaitingShrinks DEF PipeInv
  <1>10. PassIsDrained' /\ RecordIsQuiet'
    BY <1>2 DEF PassIsDrained, RecordIsQuiet
  <1> QED BY <1>7, <1>9, <1>10 DEF PipeInv

\* What is recorded is read when the sender has ended.
LEMMA EndKeeps ==
    ASSUME Pipe!PipelineAssumption, PipeInv, PipeTypes', Pipe!Join \/ Pipe!Record
    PROVE  PipeInv'
  <1> USE DEF Pipe!rows, Pipe!hand, Pipe!sender, Pipe!world
  <1>1. /\ UNCHANGED <<letters, queue, undone, current, queued, spc, failed>>
        /\ mpc \in {"join", "record"} /\ mpc' \in {"record", "ended", "raised"}
    BY DEF Pipe!Join, Pipe!Record
  <1>2. OneWay' /\ Bounded'
    BY <1>1, HandRests DEF Closing
  <1>3. PassIsDrained'
    BY <1>1 DEF PassIsDrained
  <1>4. RecordIsQuiet'
    <2>1. CASE Pipe!Join
      <3>1. mpc' = "record" /\ spc' = "ended" /\ (status' = "completed" => ~failed')
        BY <2>1, Zenon DEF Pipe!Join
      <3> QED BY <3>1 DEF RecordIsQuiet
    <2>2. CASE Pipe!Record
      <3>1. /\ mpc = "record" /\ UNCHANGED <<status, failed, spc, letters>>
            /\ mpc' = "raised" \/ (mpc' = "ended" /\ row' = status)
            /\ \A i \in Pipe!Items : letters[i] # "running"
        BY <2>2 DEF Pipe!Record
      <3> QED BY <3>1 DEF PipeInv, RecordIsQuiet
    <2> QED BY <2>1, <2>2
  <1> QED BY <1>2, <1>3, <1>4 DEF PipeInv

\* A letter that is ready goes from the pool to the queue.
LEMMA LetterKeeps ==
    ASSUME Pipe!PipelineAssumption, PipeInv, PipeTypes', NEW i \in Pipe!Items, Pipe!Letter(i)
    PROVE  PipeInv'
  <1> USE DEF Pipe!rows, Pipe!hand, Pipe!sender, Pipe!world
  <1>1. /\ letters[i] = "running" /\ i \in Pipe!Items
        /\ \/ letters' = [letters EXCEPT ![i] = "done"]
           \/ letters' = [letters EXCEPT ![i] = "error"]
        /\ UNCHANGED <<queued, current, spc, mpc, status, stop, asked, failed, row>>
    BY DEF Pipe!Letter, Pipe!LetterReady, Pipe!LetterFails
  <1>2. \A j \in Pipe!Items : /\ letters'[j] # "none" <=> letters[j] # "none"
                              /\ letters'[j] = "running" => letters[j] = "running" /\ j # i
    BY <1>1 DEF PipeInv, PipeTypes
  <1>3. CASE UNCHANGED <<queue, undone>>
    BY <1>1, <1>2, <1>3, Rests DEF Pipe!StopRequested
  <1>4. CASE ~stop /\ queue' = Append(queue, i) /\ undone' = undone + 1
    <2>1. i \notin InQueue /\ i # Pipe!Close /\ i \in queued
      BY <1>1, ItemsAreNumbers DEF PipeInv, OneWay
    <2>2. i \notin Pipe!Members(queue) /\ i # current
      BY <2>1 DEF InQueue
    <2>3. /\ Pipe!Members(queue)' = Pipe!Members(queue) \cup {i}
          /\ \A m, n \in DOMAIN queue' : m # n => queue'[m] # queue'[n]
      <3> DEFINE S == Pipe!Items \cup {Pipe!Close}
                 q == queue
      <3>1. q \in Seq(S) /\ i \in S /\ i \notin Pipe!Members(q)
        BY <2>2 DEF PipeInv, PipeTypes
      <3>2. \A m, n \in DOMAIN q : m # n => q[m] # q[n]
        BY DEF PipeInv, OneWay
      <3>3. queue' = Append(q, i)
        BY <1>4
      <3> HIDE DEF S, q
      <3>4. /\ Pipe!Members(Append(q, i)) = Pipe!Members(q) \cup {i}
            /\ \A m, n \in DOMAIN Append(q, i) : m # n => Append(q, i)[m] # Append(q, i)[n]
        BY <3>1, <3>2, Gains
      <3>5. Pipe!Members(queue') = Pipe!Members(q) \cup {i}
        BY <3>3, <3>4
      <3> QED BY <3>3, <3>4, <3>5 DEF q, Pipe!Members
    <2>4. InQueue' = InQueue \cup {i}
      BY <1>1, <2>1, <2>3 DEF InQueue
    <2>5. undone' = Cardinality(InQueue')
      <3>1. InQueue \in SUBSET Pipe!Items
        BY Waits DEF PipeInv
      <3>2. IsFiniteSet(InQueue) /\ undone = Cardinality(InQueue)
        BY <3>1, ItemsAreNumbers DEF PipeInv, OneWay
      <3>3. Cardinality(InQueue \cup {i}) = Cardinality(InQueue) + 1
        BY <3>2, <2>1, FS_AddElement
      <3> QED BY <3>2, <3>3, <2>4, <1>4
    <2>6. OneWay'
      BY <1>1, <1>2, <2>1, <2>2, <2>3, <2>4, <2>5 DEF PipeInv, OneWay
    <2>7. Pipe!Waiting' \subseteq Pipe!Waiting
      <3>1. Pipe!Preparing' = Pipe!Preparing /\ i \in Pipe!Preparing
        BY <1>1, <1>2 DEF Pipe!Preparing
      <3>2. Pipe!Waiting = Pipe!Preparing \cup InQueue
        BY Waits DEF PipeInv
      <3>3. Pipe!Waiting' \subseteq Pipe!Preparing' \cup InQueue'
        BY DEF Pipe!Waiting, InQueue, Pipe!Preparing
      <3> QED BY <2>4, <3>1, <3>2, <3>3
    <2>8. Bounded'
      BY <2>7, WaitingShrinks DEF PipeInv
    <2>9. PassIsDrained'
      BY <1>1 DEF PipeInv, PassIsDrained, Pipe!StopRequested
    <2>10. RecordIsQuiet'
      BY <1>1, <1>2, RecordRests
    <2> QED BY <2>6, <2>8, <2>9, <2>10 DEF PipeInv
  <1> QED BY <1>3, <1>4 DEF Pipe!Letter, Pipe!LetterReady, Pipe!LetterFails

\* The sender looks around, and the world goes on.
LEMMA WorldKeeps ==
    ASSUME Pipe!PipelineAssumption, PipeInv, PipeTypes',
           \/ Pipe!SenderChecks \/ Pipe!SenderFails \/ Pipe!SenderAfter
           \/ Pipe!Ask \/ Pipe!LoseLease \/ UNCHANGED Pipe!vars
    PROVE  PipeInv'
  <1> USE DEF Pipe!rows, Pipe!hand, Pipe!sender, Pipe!world
  <1>0. \/ UNCHANGED <<letters, queue, undone, current, queued, mpc, status, row, spc, failed>>
        \/ /\ UNCHANGED <<letters, queue, undone, current, queued, mpc, status, row>>
           /\ spc \in {"check", "broken", "after"} /\ spc' \in {"get", "ended", "check"}
    BY DEF Pipe!SenderChecks, Pipe!SenderFails, Pipe!SenderAfter, Pipe!Ask,
       Pipe!LoseLease, Pipe!vars
  <1>00. Pipe!StopRequested => Pipe!StopRequested'
    <2>1. stop => stop'
      BY Zenon DEF Pipe!SenderChecks, Pipe!SenderFails, Pipe!SenderAfter, Pipe!Ask,
         Pipe!LoseLease, Pipe!vars
    <2>2. asked # "none" => asked' # "none"
      BY DEF Pipe!SenderChecks, Pipe!SenderFails, Pipe!SenderAfter, Pipe!Ask,
         Pipe!LoseLease, Pipe!vars
    <2> QED BY <2>1, <2>2 DEF Pipe!StopRequested
  <1>1. /\ UNCHANGED <<letters, queue, undone, current, queued, mpc, status, row>>
        /\ spc' = "dispatch" <=> spc = "dispatch"
        /\ Pipe!StopRequested => Pipe!StopRequested'
        /\ spc = "ended" => UNCHANGED <<spc, failed>>
    BY <1>0, <1>00
  <1>2. OneWay' /\ Bounded' /\ InQueue' = InQueue
    BY <1>1, HandRests
  <1>3. PassIsDrained'
    BY <1>1, <1>2, PassRests
  <1>4. RecordIsQuiet'
    BY <1>1 DEF PipeInv, RecordIsQuiet
  <1> QED BY <1>2, <1>3, <1>4 DEF PipeInv

\* The sender takes what stands first.
LEMMA GetKeeps ==
    ASSUME Pipe!PipelineAssumption, PipeInv, PipeTypes', Pipe!SenderGets
    PROVE  PipeInv'
  <1> USE DEF Pipe!rows, Pipe!hand, Pipe!sender, Pipe!world
  <1>1. /\ spc = "get" /\ UNCHANGED <<queued, letters, undone, mpc, status, stop, asked, failed, row>>
        /\ \/ queue = <<>> /\ spc' = "check" /\ UNCHANGED <<queue, current>>
           \/ /\ queue # <<>> /\ queue' = Tail(queue) /\ current' = Head(queue)
              /\ spc' = IF Head(queue) = Pipe!Close THEN "ended" ELSE "dispatch"
    BY DEF Pipe!SenderGets
  <1>2. current = Pipe!Close
    BY <1>1 DEF PipeInv, OneWay
  <1>3. RecordIsQuiet'
    BY <1>1 DEF PipeInv, RecordIsQuiet
  <1>4. CASE queue = <<>>
    <2>1. OneWay' /\ Bounded' /\ InQueue' = InQueue
      BY <1>1, <1>4, HandRests
    <2>2. PassIsDrained'
      BY <1>1, <2>1, PassRests DEF Pipe!StopRequested
    <2> QED BY <1>3, <2>1, <2>2 DEF PipeInv
  <1>5. CASE queue # <<>>
    <2>1. /\ Pipe!Members(queue) = Pipe!Members(queue)' \cup {current'}
          /\ current' \notin Pipe!Members(queue)'
          /\ \A m, n \in DOMAIN queue' : m # n => queue'[m] # queue'[n]
      <3> DEFINE S == Pipe!Items \cup {Pipe!Close}
                 q == queue
      <3>1. q \in Seq(S) /\ q # <<>>
        BY <1>5 DEF PipeInv, PipeTypes
      <3>2. \A m, n \in DOMAIN q : m # n => q[m] # q[n]
        BY DEF PipeInv, OneWay
      <3>3. queue' = Tail(q) /\ current' = Head(q)
        BY <1>1, <1>5
      <3> HIDE DEF S, q
      <3>4. /\ Pipe!Members(q) = Pipe!Members(Tail(q)) \cup {Head(q)}
            /\ Head(q) \notin Pipe!Members(Tail(q))
            /\ \A m, n \in DOMAIN Tail(q) : m # n => Tail(q)[m] # Tail(q)[n]
        BY <3>1, <3>2, Loses
      <3>5. Pipe!Members(queue') = Pipe!Members(Tail(q))
        BY <3>3
      <3> QED BY <3>3, <3>4, <3>5 DEF q, Pipe!Members
    <2>2. InQueue' = InQueue
      BY <1>2, <2>1 DEF InQueue
    <2>3. current' # Pipe!Close <=> spc' = "dispatch"
      BY <1>1, <1>5
    <2>4. OneWay'
      BY <1>1, <2>1, <2>2, <2>3 DEF PipeInv, OneWay
    <2>5. Pipe!Waiting' = Pipe!Waiting
      <3>1. Pipe!Preparing' = Pipe!Preparing
        BY <1>1 DEF Pipe!Preparing
      <3>2. Pipe!Waiting = (Pipe!Preparing \cup InQueue) \ {Pipe!Close}
        BY DEF Pipe!Waiting, InQueue
      <3>3. Pipe!Waiting' = (Pipe!Preparing' \cup InQueue') \ {Pipe!Close}
        BY DEF Pipe!Waiting, InQueue, Pipe!Close
      <3> QED BY <2>2, <3>1, <3>2, <3>3
    <2>6. Bounded'
      BY <2>5, WaitingShrinks DEF PipeInv
    <2>7. PassIsDrained'
      BY <1>1, <2>2, PassRests DEF Pipe!StopRequested
    <2> QED BY <1>3, <2>4, <2>6, <2>7 DEF PipeInv
  <1> QED BY <1>4, <1>5

\* What the sender has handled is gone from its hands and from the count.
LEMMA HandledKeeps ==
    ASSUME Pipe!PipelineAssumption, PipeInv, PipeTypes', Pipe!Dispatched \/ Pipe!SenderRaises
    PROVE  PipeInv'
  <1> USE DEF Pipe!rows, Pipe!hand, Pipe!sender, Pipe!world
  <1>1. /\ spc = "dispatch" /\ undone' = undone - 1 /\ current' = Pipe!Close
        /\ spc' \in {"after", "broken"}
        /\ UNCHANGED <<queued, letters, queue, mpc, status, stop, asked, failed, row>>
    BY DEF Pipe!Dispatched, Pipe!SenderRaises
  <1>2. current # Pipe!Close /\ current \notin Pipe!Members(queue)
    BY <1>1 DEF PipeInv, OneWay
  <1>3. InQueue' = InQueue \ {current} /\ current \in InQueue
    BY <1>1, <1>2 DEF InQueue, Pipe!Members, Pipe!Close
  <1>4. undone' = Cardinality(InQueue')
    <2>1. InQueue \in SUBSET Pipe!Items
      BY Waits DEF PipeInv
    <2>2. IsFiniteSet(InQueue) /\ undone = Cardinality(InQueue)
      BY <2>1, ItemsAreNumbers DEF PipeInv, OneWay
    <2>3. Cardinality(InQueue \ {current}) = Cardinality(InQueue) - 1
      BY <2>2, <1>3, FS_RemoveElement
    <2> QED BY <2>2, <2>3, <1>1, <1>3
  <1>5. OneWay'
    BY <1>1, <1>3, <1>4 DEF PipeInv, OneWay, Pipe!Members
  <1>6. Pipe!Waiting' \subseteq Pipe!Waiting
    <2>1. Pipe!Preparing' = Pipe!Preparing
      BY <1>1 DEF Pipe!Preparing
    <2>2. Pipe!Waiting = Pipe!Preparing \cup InQueue
      BY Waits DEF PipeInv
    <2>3. Pipe!Waiting' \subseteq Pipe!Preparing' \cup InQueue'
      BY DEF Pipe!Waiting, InQueue, Pipe!Preparing
    <2> QED BY <1>3, <2>1, <2>2, <2>3
  <1>7. Bounded'
    BY <1>6, WaitingShrinks DEF PipeInv
  <1>8. PassIsDrained' /\ RecordIsQuiet'
    <2>1. PassIsDrained'
      BY <1>1, <1>3, PassRests DEF Pipe!StopRequested
    <2>2. RecordIsQuiet'
      BY <1>1 DEF PipeInv, RecordIsQuiet
    <2> QED BY <2>1, <2>2
  <1> QED BY <1>5, <1>7, <1>8 DEF PipeInv

LEMMA PipeStep ==
    ASSUME Pipe!PipelineAssumption, PipeInv, PipeFlags, [Pipe!Next]_(Pipe!vars)
    PROVE  PipeInv' /\ PipeFlags'
  <1>1. PipeTypes' /\ PipeFlags'
    BY PipeTypesStep, PipeFlagsStep
  <1>2. CASE Pipe!Main
    BY <1>1, <1>2, CoordinatorKeeps, OfferKeeps, DrainKeeps, PassKeeps, CloseKeeps, EndKeeps
       DEF Pipe!Main
  <1>3. ASSUME NEW i \in Pipe!Items, Pipe!Letter(i) PROVE PipeInv'
    BY <1>1, <1>3, LetterKeeps
  <1>4. CASE Pipe!Sender \/ Pipe!Ask \/ Pipe!LoseLease \/ UNCHANGED Pipe!vars
    BY <1>1, <1>4, WorldKeeps, GetKeeps, HandledKeeps DEF Pipe!Sender
  <1> QED BY <1>1, <1>2, <1>3, <1>4 DEF Pipe!Next

\* The handover neither overflows nor takes an item twice, and an ended run
\* leaves nothing going, however many vacancies and passes there are and
\* wherever the operator stops it or the lease is lost
\* (_DispatchPipeline.enqueue, _consume and finish, HHAutopilot.run).
THEOREM HandoverIsOrderly ==
    ASSUME Pipe!PipelineAssumption
    PROVE  Pipe!Spec => [](/\ Pipe!TypeOK /\ Pipe!BoundedHandover
                           /\ Pipe!NoItemTwice /\ Pipe!EndedRunIsQuiet)
  <1>1. PipeInv /\ PipeFlags => /\ Pipe!TypeOK /\ Pipe!BoundedHandover
                                /\ Pipe!NoItemTwice /\ Pipe!EndedRunIsQuiet
    <2> SUFFICES ASSUME PipeInv, PipeFlags
                 PROVE  /\ Pipe!TypeOK /\ Pipe!BoundedHandover
                        /\ Pipe!NoItemTwice /\ Pipe!EndedRunIsQuiet
      OBVIOUS
    <2>1. Pipe!TypeOK
      BY PipeTyped DEF PipeInv
    <2>2. Pipe!BoundedHandover
      BY PipeCounts DEF PipeInv, Bounded, Pipe!BoundedHandover
    <2>3. Pipe!NoItemTwice
      BY DEF PipeInv, OneWay, Pipe!NoItemTwice
    <2>4. Pipe!EndedRunIsQuiet
      BY DEF PipeInv, RecordIsQuiet, PipeTypes, Pipe!EndedRunIsQuiet, Pipe!Statuses
    <2> QED BY <2>1, <2>2, <2>3, <2>4
  <1> QED BY <1>1, PipeStarts, PipeStep, PTL DEF Pipe!Spec
------------------------------------------------------------------------------
(* Scheduler: the window of the day and the slots.                         *)

\* Division with remainder, and multiples in their order.
LEMMA Divides ==
    ASSUME NEW n \in Nat, NEW D \in Nat \ {0}
    PROVE  /\ n \div D \in Nat /\ n % D \in 0..(D - 1)
           /\ (n \div D) * D \in Nat /\ n = (n \div D) * D + (n % D)
  <1>1. PICK q \in Nat, r \in Nat : q = n \div D /\ n = q * D + r /\ r < D
    BY SMT
  <1>2. r \in 0..(D - 1)
    BY <1>1
  <1>3. (q * D + r) % D = r
    BY <1>2
  <1>4. q * D \in Nat
    OBVIOUS
  <1>5. n % D = r
    BY <1>1, <1>3
  <1> QED BY <1>1, <1>2, <1>4, <1>5

LEMMA Remainder ==
    ASSUME NEW q \in Nat, NEW D \in Nat \ {0}, NEW r \in 0..(D - 1)
    PROVE  (q * D + r) % D = r /\ (q * D + r) \div D = q /\ q * D + r \in Nat
  OBVIOUS

LEMMA Multiples ==
    ASSUME NEW a \in Nat, NEW b \in Nat, NEW D \in Nat \ {0}
    PROVE  /\ a * D \in Nat /\ b * D \in Nat /\ (a + b) * D = a * D + b * D
           /\ b >= 1 => b * D >= D
  OBVIOUS

\* A later instant is on no earlier day.
LEMMA LaterDay ==
    ASSUME NEW s \in Nat, NEW t \in Nat, t <= s, NEW D \in Nat \ {0}
    PROVE  t \div D <= s \div D
  <1> DEFINE p == t \div D
             q == s \div D
  <1>1. /\ p \in Nat /\ p * D \in Nat /\ t = p * D + (t % D) /\ t % D \in 0..(D - 1)
        /\ q \in Nat /\ q * D \in Nat /\ s = q * D + (s % D) /\ s % D \in 0..(D - 1)
    BY Divides
  <1> HIDE DEF p, q
  <1>2. ASSUME q < p PROVE FALSE
    <2> DEFINE b == p - q
    <2>1. b \in Nat /\ b >= 1 /\ p = q + b
      BY <1>1, <1>2
    <2> HIDE DEF b
    <2>2. p * D = q * D + b * D /\ b * D >= D /\ b * D \in Nat
      BY <1>1, <2>1, Multiples
    <2> QED BY <1>1, <2>2
  <1>3. p <= q
    BY <1>1, <1>2
  <1> QED BY <1>3 DEF p, q

Numbers == /\ Accounts \in Nat \ {0} /\ Day \in Nat \ {0} /\ Span \in Nat \ {0}
           /\ Interval \in Nat \ {0} /\ MaxTime \in Nat \ {0}
           /\ OpenFrom \in 0..(Day - 1) /\ OpenTo \in 0..(Day - 1) /\ OpenFrom <= OpenTo
           /\ Days \subseteq 0..(Span - 1) /\ Days # {}
LEMMA ScheduleNumbers == ASSUME Ticks!SchedulerAssumption PROVE Numbers
  BY DEF Ticks!SchedulerAssumption, Numbers

\* Within a week of any day there is one on which the window opens.
LEMMA SomeDayFits ==
    ASSUME Numbers, NEW day \in Nat
    PROVE  \E k \in 1..Span : (day + k) % Span \in Days
  <1>0. Span \in Nat \ {0} /\ Days \subseteq 0..(Span - 1)
    BY DEF Numbers
  <1>1. PICK d \in Days : TRUE
    BY DEF Numbers
  <1>2. d \in 0..(Span - 1)
    BY <1>0
  <1> DEFINE q == day \div Span
             r == day % Span
  <1>3. q \in Nat /\ r \in 0..(Span - 1) /\ q * Span \in Nat /\ day = q * Span + r
    BY <1>0, Divides
  <1> HIDE DEF q, r
  <1>4. CASE d > r
    <2>1. d - r \in 1..Span /\ day + (d - r) = q * Span + d
      BY <1>0, <1>2, <1>3, <1>4
    <2>2. (q * Span + d) % Span = d
      BY <1>0, <1>2, <1>3, Remainder
    <2> QED BY <2>1, <2>2
  <1>5. CASE d <= r
    <2>1. (q + 1) * Span = q * Span + Span
      BY <1>0, <1>3
    <2>2. (d - r) + Span \in 1..Span /\ day + ((d - r) + Span) = (q + 1) * Span + d
      BY <1>0, <1>2, <1>3, <1>5, <2>1
    <2>3. q + 1 \in Nat
      BY <1>3
    <2>4. ((q + 1) * Span + d) % Span = d
      BY <1>0, <1>2, <2>3, Remainder
    <2> QED BY <2>2, <2>4
  <1>6. d > r \/ d <= r
    BY <1>2, <1>3
  <1> QED BY <1>4, <1>5, <1>6

\* The window at day q, moment r of it.
LEMMA WindowAt ==
    ASSUME Numbers, NEW q \in Nat, NEW r \in 0..(Day - 1)
    PROVE  /\ q * Day + r \in Nat
           /\ Ticks!IsWindowOpen(q * Day + r) <=>
                  q % Span \in Days /\ OpenFrom <= r /\ r <= OpenTo
  <1>1. Day \in Nat \ {0}
    BY DEF Numbers
  <1>2. (q * Day + r) % Day = r /\ (q * Day + r) \div Day = q /\ q * Day + r \in Nat
    BY <1>1, Remainder
  <1> QED BY <1>2, Zenon DEF Ticks!IsWindowOpen

\* _advance_to_window finds the first moment, from the given one on, at which the
\* window is open.
LEMMA AdvancesToFirst ==
    ASSUME Numbers, NEW t \in Nat
    PROVE  LET n == Ticks!AdvanceToWindow(t)
           IN  /\ n \in Nat /\ n >= t /\ Ticks!IsWindowOpen(n)
               /\ \A s \in t..(n - 1) : ~Ticks!IsWindowOpen(s)
  <1> DEFINE day == t \div Day
             off == t % Day
             F == {i \in 0..Span : /\ (day + i) % Span \in Days
                                   /\ i = 0 => off <= OpenTo}
             k == Ticks!Min(F)
             n == Ticks!AdvanceToWindow(t)
  <1> SUFFICES /\ n \in Nat /\ n >= t /\ Ticks!IsWindowOpen(n)
               /\ \A s \in t..(n - 1) : ~Ticks!IsWindowOpen(s)
    OBVIOUS
  <1>0. /\ Day \in Nat \ {0} /\ Span \in Nat \ {0}
        /\ OpenFrom \in 0..(Day - 1) /\ OpenTo \in 0..(Day - 1)
    BY DEF Numbers
  <1>1. /\ day \in Nat /\ off \in 0..(Day - 1) /\ day * Day \in Nat /\ t = day * Day + off
    BY <1>0, Divides
  <1>2. n = IF k = 0 /\ off >= OpenFrom THEN t ELSE (day + k) * Day + OpenFrom
    BY Zenon DEF Ticks!AdvanceToWindow
  <1>3. k \in F /\ \A i \in F : k <= i
    <2> HIDE DEF day, off
    <2>1. F \in SUBSET Nat
      OBVIOUS
    <2>2. F # {}
      <3>1. PICK j \in 1..Span : (day + j) % Span \in Days
        BY <1>1, SomeDayFits
      <3>2. j \in F
        BY <3>1
      <3> QED BY <3>2
    <2> HIDE DEF F
    <2>3. \E x \in F : \A y \in F : x <= y
      BY <2>1, <2>2, SmallestExists
    <2> QED BY <2>3, Zenon DEF Ticks!Min
  <1>4. k \in 0..Span /\ (day + k) % Span \in Days /\ (k = 0 => off <= OpenTo)
    BY <1>3
  <1> HIDE DEF k, day, off, n
  <1>5. CASE k = 0 /\ off >= OpenFrom
    <2>1. n = t
      BY <1>2, <1>5
    <2>2. day + k = day
      BY <1>1, <1>5
    <2>3. Ticks!IsWindowOpen(t)
      BY <1>1, <1>4, <1>5, <2>2, WindowAt
    <2>4. t..(t - 1) = {}
      OBVIOUS
    <2> QED BY <2>1, <2>3, <2>4
  <1>6. CASE ~(k = 0 /\ off >= OpenFrom)
    <2> DEFINE m == day + k
    <2>0. m \in Nat /\ m * Day \in Nat /\ m * Day = day * Day + k * Day /\ k * Day \in Nat
          /\ (k >= 1 => k * Day >= Day) /\ (k = 0 => k * Day = 0)
      BY <1>0, <1>1, <1>4, Multiples
    <2>1. n = m * Day + OpenFrom
      BY <1>2, <1>6
    <2>2. Ticks!IsWindowOpen(n) /\ n \in Nat
      <3>1. m % Span \in Days /\ OpenFrom <= OpenFrom /\ OpenFrom <= OpenTo
        BY <1>4, <1>0 DEF Numbers
      <3> HIDE DEF m
      <3> QED BY <1>0, <2>0, <2>1, <3>1, WindowAt
    <2>3. n >= t
      <3> HIDE DEF m
      <3>1. CASE k = 0
        BY <1>0, <1>1, <1>6, <2>0, <2>1, <3>1
      <3>2. CASE k >= 1
        BY <1>0, <1>1, <2>0, <2>1, <3>2
      <3> QED BY <3>1, <3>2, <1>4
    <2>4. ASSUME NEW s \in t..(n - 1), Ticks!IsWindowOpen(s) PROVE FALSE
      <3> DEFINE q == s \div Day
                 r == s % Day
      <3>1. s \in Nat /\ t <= s /\ s < n
        BY <2>2
      <3>2. q \in Nat /\ r \in 0..(Day - 1) /\ q * Day \in Nat /\ s = q * Day + r
        BY <1>0, <3>1, Divides
      <3>3. day <= q
        BY <1>0, <3>1, LaterDay DEF day
      <3>4. q % Span \in Days /\ OpenFrom <= r /\ r <= OpenTo
        BY <2>4 DEF Ticks!IsWindowOpen
      <3>5. q <= m
        <4>1. n \div Day = m
          BY <1>0, <2>0, <2>1, Remainder
        <4> HIDE DEF m
        <4>2. q <= n \div Day
          BY <1>0, <2>2, <3>1, LaterDay
        <4> QED BY <4>1, <4>2
      <3> HIDE DEF q, r, m
      <3>6. CASE q = m
        BY <1>0, <2>0, <2>1, <3>1, <3>2, <3>4, <3>6
      <3>7. CASE q < m
        <4> DEFINE j == q - day
        <4>1. j \in 0..Span /\ j < k /\ day + j = q
          BY <1>0, <1>1, <1>4, <3>2, <3>3, <3>7 DEF m
        <4>2. j = 0 => off <= OpenTo
          <5>1. ASSUME j = 0 PROVE off <= OpenTo
            <6>1. q * Day = day * Day
              BY <5>1, <1>1, <4>1, <3>2
            <6>2. off <= r
              BY <6>1, <1>0, <1>1, <3>1, <3>2
            <6> QED BY <6>2, <1>0, <1>1, <3>2, <3>4
          <5> QED BY <5>1
        <4>3. j \in F
          BY <4>1, <4>2, <3>4
        <4> HIDE DEF F, j
        <4>4. k <= j
          BY <4>3, <1>3
        <4> QED BY <4>1, <4>4, <1>4
      <3> QED BY <2>0, <3>2, <3>5, <3>6, <3>7 DEF m
    <2> QED BY <2>2, <2>3, <2>4
  <1> QED BY <1>5, <1>6
------------------------------------------------------------------------------
Steps == {"idle", "look", "claim", "start", "run"}
TickRecord == [at : Steps, instant : 0..MaxTime, acc : 1..(Accounts + 1),
               trigger : {"none", "schedule", "retry"}, excused : SUBSET Ticks!Accs]
ScheduleTypes ==
    /\ now \in 0..MaxTime
    /\ last \in [Ticks!Accs -> (0..MaxTime) \cup {Ticks!Never}] /\ next \in [Ticks!Accs -> Nat]
    /\ leased \subseteq Ticks!Accs /\ allowed \subseteq Ticks!Accs /\ work \subseteq Ticks!Accs
    /\ blocked \in [Ticks!Accs -> Nat]

\* Where a tick stands: what it has behind it is not due at its instant, and the
\* account it works on has been looked at or claimed at that instant.
Sound(x) ==
    /\ x.instant <= now
    /\ x.at \in {"claim", "start", "run"} => x.acc \in Ticks!Accs
    /\ x.at = "claim" => Ticks!IsWindowOpen(x.instant)
    /\ x.at = "run" => x.acc \in leased
    /\ x.at \in {"start", "run"} => ~Ticks!IsDue(x.acc, x.instant)
    /\ x.at # "idle" => \A a \in Ticks!Accs \ x.excused : a < x.acc => ~Ticks!IsDue(a, x.instant)

\* An account has one run at a time.
OneRun == \A t, u \in Tickers :
              t # u /\ ticksTick[t].at = "run" /\ ticksTick[u].at = "run"
                  => ticksTick[t].acc # ticksTick[u].acc

TicksInv ==
    /\ ScheduleTypes
    /\ ticksTick \in [Tickers -> TickRecord]
    /\ \A t \in Tickers : Sound(ticksTick[t])
    /\ OneRun

\* A slot moves by an interval or more, to an instant of the clock.
SlotMoves ==
    \A a \in Ticks!Accs :
        \/ last'[a] = last[a]
        \/ /\ last'[a] \in 0..MaxTime
           /\ last[a] = Ticks!Never \/ last'[a] >= last[a] + Interval

\* A slot that moves makes nobody due again.
LEMMA NotDueAgain ==
    ASSUME Numbers, ScheduleTypes, SlotMoves, NEW a \in Ticks!Accs, NEW i \in 0..MaxTime,
           ~Ticks!IsDue(a, i)
    PROVE  ~Ticks!IsDue(a, i)'
  <1>1. Ticks!IsWindowOpen(i)' <=> Ticks!IsWindowOpen(i)
    BY DEF Ticks!IsWindowOpen
  <1>2. CASE ~Ticks!IsWindowOpen(i)
    BY <1>1, <1>2 DEF Ticks!IsDue
  <1>3. CASE Ticks!IsWindowOpen(i)
    <2>1. last[a] # Ticks!Never /\ ~(i >= last[a] + Interval)
      BY <1>3, Zenon DEF Ticks!IsDue
    <2>2. last[a] \in 0..MaxTime /\ Interval \in Nat /\ MaxTime \in Nat /\ Ticks!Never = MaxTime + 1
      BY <2>1 DEF ScheduleTypes, Numbers, Ticks!Never
    <2>3. last'[a] \in 0..MaxTime /\ last'[a] >= last[a]
      BY <2>1, <2>2 DEF SlotMoves
    <2>4. last'[a] # Ticks!Never /\ ~(i >= last'[a] + Interval)
      BY <2>1, <2>2, <2>3
    <2>5. (Ticks!Never)' = Ticks!Never
      BY DEF Ticks!Never
    <2> QED BY <2>4, <2>5, Zenon DEF Ticks!IsDue
  <1> QED BY <1>2, <1>3

LEMMA SoundStays ==
    ASSUME Numbers, ScheduleTypes, SlotMoves, NEW x \in TickRecord, Sound(x),
           now' \in 0..MaxTime, now <= now', x.at = "run" => x.acc \in leased'
    PROVE  Sound(x)'
  <1>1. x.instant \in 0..MaxTime /\ x.acc \in 1..(Accounts + 1)
    BY DEF TickRecord
  <1>2. x.instant <= now'
    BY <1>1 DEF Sound, ScheduleTypes
  <1>3. \A a \in Ticks!Accs : ~Ticks!IsDue(a, x.instant) => ~Ticks!IsDue(a, x.instant)'
    BY <1>1, NotDueAgain
  <1>4. Ticks!IsWindowOpen(x.instant)' <=> Ticks!IsWindowOpen(x.instant)
    BY DEF Ticks!IsWindowOpen
  <1>5. x.at \in {"start", "run"} => ~Ticks!IsDue(x.acc, x.instant)'
    BY <1>3 DEF Sound
  <1>6. x.at # "idle" => \A a \in Ticks!Accs \ x.excused : a < x.acc => ~Ticks!IsDue(a, x.instant)'
    BY <1>3 DEF Sound
  <1> QED BY <1>2, <1>4, <1>5, <1>6 DEF Sound, Ticks!Accs

\* One tick goes on, the others stand.
LEMMA TickMoves ==
    ASSUME Numbers, TicksInv, ScheduleTypes', SlotMoves, now' = now,
           NEW t \in Tickers, NEW x \in TickRecord, ticksTick' = [ticksTick EXCEPT ![t] = x],
           Sound(x)',
           \A u \in Tickers : u # t /\ ticksTick[u].at = "run" => ticksTick[u].acc \in leased',
           x.at = "run" => \A u \in Tickers : ticksTick[u].at = "run" => ticksTick[u].acc # x.acc
    PROVE  TicksInv'
  <1>1. ticksTick' \in [Tickers -> TickRecord]
    BY DEF TicksInv
  <1>2. /\ ticksTick'[t] = x
        /\ \A u \in Tickers : u # t => ticksTick'[u] = ticksTick[u] /\ ticksTick[u] \in TickRecord
    BY DEF TicksInv
  <1>3. now' \in 0..MaxTime /\ now <= now'
    BY DEF TicksInv, ScheduleTypes, Numbers
  <1>4. ASSUME NEW u \in Tickers PROVE Sound(ticksTick[u])'
    <2>1. CASE u = t
      BY <1>2, <2>1 DEF Sound
    <2>2. CASE u # t
      <3>1. PICK y \in TickRecord : y = ticksTick[u]
        BY <1>2, <2>2
      <3>2. Sound(y) /\ (y.at = "run" => y.acc \in leased')
        BY <3>1, <2>2 DEF TicksInv
      <3>3. Sound(y)'
        BY <3>2, <1>3, SoundStays DEF TicksInv
      <3>4. ticksTick'[u] = y
        BY <3>1, <1>2, <2>2
      <3> QED BY <3>3, <3>4 DEF Sound
    <2> QED BY <2>1, <2>2
  <1>5. OneRun'
    BY <1>2 DEF TicksInv, OneRun
  <1> QED BY <1>1, <1>4, <1>5 DEF TicksInv

LEMMA IdleTick ==
    ASSUME Ticks!SchedulerAssumption
    PROVE  /\ Ticks!Idle \in TickRecord
           /\ Ticks!Idle.at = "idle" /\ Ticks!Idle.instant = 0
  <1>1. 0 \in 0..MaxTime /\ 1 \in 1..(Accounts + 1)
    BY ScheduleNumbers DEF Numbers
  <1> QED BY <1>1 DEF Ticks!Idle, TickRecord, Steps

LEMMA SoundTicks ==
    ASSUME Ticks!SchedulerAssumption, TicksInv, NEW t \in Tickers
    PROVE  \E r \in TickRecord :
               /\ r = ticksTick[t] /\ Sound(r) /\ r.at \in Steps /\ r.instant \in 0..MaxTime
               /\ r.acc \in Nat /\ r.acc >= 1 /\ r.acc <= Accounts + 1 /\ r.excused \subseteq Ticks!Accs
               /\ r.acc <= Accounts <=> r.acc \in Ticks!Accs
  <1>1. ticksTick[t] \in TickRecord /\ Accounts \in Nat
    BY ScheduleNumbers DEF TicksInv, Numbers
  <1> QED BY <1>1 DEF TicksInv, TickRecord, Ticks!Accs

\* The lease and the slots stay where they are.
LEMMA TickLooks ==
    ASSUME Ticks!SchedulerAssumption, TicksInv,
           UNCHANGED <<now, last, next, leased, blocked, allowed, work>>,
           NEW t \in Tickers, NEW x \in TickRecord, ticksTick' = [ticksTick EXCEPT ![t] = x],
           Sound(x), x.at # "run"
    PROVE  TicksInv' /\ SlotMoves
  <1>1. ScheduleTypes'
    BY DEF TicksInv, ScheduleTypes, Ticks!Never
  <1>2. SlotMoves
    BY DEF SlotMoves
  <1>3. Sound(x)'
    BY DEF Sound, Ticks!IsDue, Ticks!IsWindowOpen, Ticks!Never
  <1>4. \A u \in Tickers : ticksTick[u].at = "run" => ticksTick[u].acc \in leased'
    BY DEF TicksInv, Sound
  <1> QED BY <1>1, <1>2, <1>3, <1>4, ScheduleNumbers, TickMoves

LEMMA BeginsSound ==
    ASSUME Ticks!SchedulerAssumption, TicksInv, NEW t \in Tickers,
           Ticks!Begin(t) \/ Ticks!End(t) \/ Ticks!Look(t)
    PROVE  TicksInv' /\ SlotMoves
  <1>0. Numbers
    BY ScheduleNumbers
  <1>1. PICK r \in TickRecord :
               /\ r = ticksTick[t] /\ Sound(r) /\ r.at \in Steps /\ r.instant \in 0..MaxTime
               /\ r.acc \in Nat /\ r.acc >= 1 /\ r.acc <= Accounts + 1 /\ r.excused \subseteq Ticks!Accs
               /\ r.acc <= Accounts <=> r.acc \in Ticks!Accs
    BY SoundTicks
  <1>2. CASE Ticks!Begin(t)
    <2>1. PICK i \in 0..MaxTime : i = now
      BY DEF TicksInv, ScheduleTypes
    <2>2. PICK x : x = [at |-> "look", instant |-> i, acc |-> 1, trigger |-> "none", excused |-> {}]
      OBVIOUS
    <2>3. ticksTick' = [ticksTick EXCEPT ![t] = x]
      <3>1. [Ticks!Idle EXCEPT !.at = "look", !.instant = now] = x
        <4>1. Ticks!Idle = [at |-> "idle", instant |-> 0, acc |-> 1, trigger |-> "none", excused |-> {}]
          BY DEF Ticks!Idle
        <4>2. PICK y : y = Ticks!Idle
          OBVIOUS
        <4>3. [y EXCEPT !.at = "look", !.instant = i] = x
          <5>1. PICK z : z = [at |-> "look", instant |-> 0, acc |-> 1, trigger |-> "none", excused |-> {}]
            OBVIOUS
          <5>2. [y EXCEPT !.at = "look"] = z
            BY <4>1, <4>2, <5>1
          <5>3. [z EXCEPT !.instant = i] = x
            BY <2>2, <5>1
          <5> QED BY <5>2, <5>3
        <4> QED BY <2>1, <4>2, <4>3
      <3> QED BY <1>2, <3>1, Zenon DEF Ticks!Begin
    <2>4. x \in TickRecord
      <3>1. 1 \in 1..(Accounts + 1)
        BY <1>0 DEF Numbers
      <3> QED BY <2>2, <3>1 DEF TickRecord, Steps
    <2>5. x.at = "look" /\ x.instant = i /\ x.acc = 1
      BY <2>2
    <2>6. Sound(x)
      BY <2>1, <2>5 DEF Sound, Ticks!Accs
    <2> QED BY <1>2, <2>3, <2>4, <2>5, <2>6, TickLooks DEF Ticks!Begin
  <1>3. CASE Ticks!End(t)
    <2>1. Ticks!Idle \in TickRecord /\ Sound(Ticks!Idle) /\ Ticks!Idle.at # "run"
      <3>1. now \in 0..MaxTime /\ Accounts \in Nat \ {0} /\ MaxTime \in Nat
        BY <1>0 DEF TicksInv, ScheduleTypes, Numbers
      <3> QED BY <3>1 DEF Ticks!Idle, TickRecord, Sound, Steps, Ticks!Accs
    <2> QED BY <1>3, <2>1, TickLooks DEF Ticks!End
  <1>4. CASE Ticks!Look(t)
    <2>0. r.at = "look" /\ r.acc <= Accounts /\ r.acc \in Ticks!Accs /\ r.acc + 1 \in 1..(Accounts + 1)
      <3>1. r.at = "look" /\ r.acc <= Accounts
        BY <1>1, <1>4 DEF Ticks!Look
      <3> QED BY <3>1, <1>0, <1>1 DEF Numbers
    <2>1. UNCHANGED <<now, last, next, leased, blocked, allowed, work>>
      BY <1>4 DEF Ticks!Look
    <2>2. ASSUME NEW e \in SUBSET Ticks!Accs, r.acc \in e \/ ~Ticks!IsDue(r.acc, r.instant),
                 r.excused \subseteq e,
                 ticksTick' = [ticksTick EXCEPT ![t] = [r EXCEPT !.acc = r.acc + 1, !.excused = e]]
          PROVE  TicksInv' /\ SlotMoves
      <3>1. PICK x : x = [r EXCEPT !.acc = r.acc + 1, !.excused = e]
        OBVIOUS
      <3>2. /\ x \in TickRecord /\ x.at = "look" /\ x.instant = r.instant
            /\ x.acc = r.acc + 1 /\ x.excused = e
        BY <3>1, <2>0 DEF TickRecord
      <3>3. Sound(x)
        <4>1. \A a \in Ticks!Accs \ e : a < r.acc + 1 => ~Ticks!IsDue(a, r.instant)
          <5> SUFFICES ASSUME NEW a \in Ticks!Accs \ e, a < r.acc + 1
                       PROVE  ~Ticks!IsDue(a, r.instant)
            OBVIOUS
          <5>1. a \in Nat
            BY <1>0 DEF Ticks!Accs, Numbers
          <5>2. CASE a = r.acc
            BY <2>2, <5>2
          <5>3. CASE a < r.acc
            BY <1>1, <2>0, <2>2, <5>3 DEF Sound
          <5> QED BY <1>1, <5>1, <5>2, <5>3
        <4> QED BY <1>1, <3>2, <4>1 DEF Sound
      <3>4. ticksTick' = [ticksTick EXCEPT ![t] = x]
        BY <2>2, <3>1
      <3> QED BY <2>1, <3>2, <3>3, <3>4, TickLooks
    <2>3. ASSUME NEW s \in {"claim", "start"}, NEW g \in {"none", "schedule", "retry"},
                 s = "claim" => Ticks!IsWindowOpen(r.instant),
                 s = "start" => ~Ticks!IsDue(r.acc, r.instant),
                 ticksTick' = [ticksTick EXCEPT ![t] = [r EXCEPT !.at = s, !.trigger = g]]
          PROVE  TicksInv' /\ SlotMoves
      <3>1. PICK x : x = [r EXCEPT !.at = s, !.trigger = g]
        OBVIOUS
      <3>2. /\ x \in TickRecord /\ x.at = s /\ x.instant = r.instant
            /\ x.acc = r.acc /\ x.excused = r.excused
        BY <3>1 DEF TickRecord, Steps
      <3>3. Sound(x)
        BY <1>1, <2>0, <2>3, <3>2 DEF Sound
      <3>4. ticksTick' = [ticksTick EXCEPT ![t] = x]
        BY <2>3, <3>1
      <3> QED BY <2>1, <3>2, <3>3, <3>4, TickLooks
    <2>4. CASE r.acc \notin allowed
      <3>1. ticksTick' = [ticksTick EXCEPT ![t] =
                             [r EXCEPT !.acc = r.acc + 1, !.excused = r.excused \cup {r.acc}]]
        BY <1>1, <1>4, <2>4 DEF Ticks!Look
      <3>2. PICK e \in SUBSET Ticks!Accs : e = r.excused \cup {r.acc}
        BY <1>1, <2>0
      <3>3. r.acc \in e /\ r.excused \subseteq e
        BY <3>2
      <3>4. ticksTick' = [ticksTick EXCEPT ![t] = [r EXCEPT !.acc = r.acc + 1, !.excused = e]]
        BY <3>1, <3>2
      <3> QED BY <2>2, <3>3, <3>4
    <2>5. CASE r.acc \in allowed /\ Ticks!IsDue(r.acc, r.instant)
      <3>1. ticksTick' = [ticksTick EXCEPT ![t] = [r EXCEPT !.at = "claim"]]
        BY <1>1, <1>4, <2>5 DEF Ticks!Look
      <3>2. [r EXCEPT !.at = "claim"] = [r EXCEPT !.at = "claim", !.trigger = r.trigger]
        BY DEF TickRecord
      <3>3. r.trigger \in {"none", "schedule", "retry"}
        BY DEF TickRecord
      <3>4. Ticks!IsWindowOpen(r.instant)
        BY <2>5, Zenon DEF Ticks!IsDue
      <3> QED BY <2>3, <3>1, <3>2, <3>3, <3>4
    <2>6. CASE r.acc \in allowed /\ ~Ticks!IsDue(r.acc, r.instant)
      <3>1. \/ ticksTick' = [ticksTick EXCEPT ![t] = [r EXCEPT !.at = "start", !.trigger = "retry"]]
            \/ ticksTick' = [ticksTick EXCEPT ![t] = [r EXCEPT !.acc = r.acc + 1]]
        BY <1>1, <1>4, <2>6, Zenon DEF Ticks!Look
      <3>2. [r EXCEPT !.acc = r.acc + 1] = [r EXCEPT !.acc = r.acc + 1, !.excused = r.excused]
        BY DEF TickRecord
      <3> QED BY <1>1, <2>2, <2>3, <2>6, <3>1, <3>2
    <2> QED BY <2>4, <2>5, <2>6
  <1> QED BY <1>2, <1>3, <1>4

\* A claim that is granted: the slot is the instant of the tick, an interval or
\* more after the one before.
LEMMA Granted ==
    ASSUME Ticks!SchedulerAssumption, TicksInv, NEW a \in Ticks!Accs, NEW i \in 0..MaxTime,
           ~Ticks!Refuses(a, i), last' = [last EXCEPT ![a] = i],
           next' = [next EXCEPT ![a] = Ticks!NextDue(a, i)],
           Ticks!IsWindowOpen(i),
           UNCHANGED <<now, leased, blocked, allowed, work>>
    PROVE  /\ ScheduleTypes' /\ SlotMoves /\ ~Ticks!IsDue(a, i)'
           /\ Ticks!NextSlotIsExact
  <1>0. Numbers
    BY ScheduleNumbers
  <1>1. /\ last \in [Ticks!Accs -> (0..MaxTime) \cup {Ticks!Never}] /\ next \in [Ticks!Accs -> Nat]
        /\ Ticks!Never = MaxTime + 1 /\ MaxTime \in Nat \ {0} /\ Interval \in Nat \ {0}
    BY <1>0 DEF TicksInv, ScheduleTypes, Numbers, Ticks!Never
  <1>2. last[a] = Ticks!Never \/ (last[a] \in 0..MaxTime /\ i >= last[a] + Interval)
    BY <1>1 DEF Ticks!Refuses
  <1>3. ~(last[a] # Ticks!Never /\ last[a] + Interval > i)
    BY <1>1, <1>2
  <1>4. Ticks!NextDue(a, i) = Ticks!AdvanceToWindow(i + Interval)
    BY <1>3, Zenon DEF Ticks!NextDue
  <1>5. PICK n : n = Ticks!AdvanceToWindow(i + Interval)
    OBVIOUS
  <1>6. /\ n \in Nat /\ n >= i + Interval /\ Ticks!IsWindowOpen(n)
        /\ \A s \in (i + Interval)..(n - 1) : ~Ticks!IsWindowOpen(s)
    <2>1. i + Interval \in Nat
      BY <1>1
    <2> QED BY <1>0, <1>5, <2>1, AdvancesToFirst
  <1>7. /\ last'[a] = i /\ next'[a] = n
        /\ \A b \in Ticks!Accs : b # a => last'[b] = last[b]
    BY <1>1, <1>4, <1>5
  <1>8. ScheduleTypes'
    <2>1. last' \in [Ticks!Accs -> (0..MaxTime) \cup {Ticks!Never}] /\ next' \in [Ticks!Accs -> Nat]
      BY <1>1, <1>4, <1>5, <1>6
    <2> QED BY <2>1 DEF TicksInv, ScheduleTypes, Ticks!Never
  <1>9. SlotMoves
    BY <1>1, <1>2, <1>7 DEF SlotMoves
  <1>10. ~Ticks!IsDue(a, i)'
    <2>1. i # Ticks!Never /\ ~(i >= i + Interval)
      BY <1>1
    <2> QED BY <1>7, <2>1, Zenon DEF Ticks!IsDue, Ticks!Never
  <1>11. Ticks!NextSlotIsExact
    BY <1>6, <1>7 DEF Ticks!NextSlotIsExact
  <1> QED BY <1>8, <1>9, <1>10, <1>11

LEMMA ClaimSound ==
    ASSUME Ticks!SchedulerAssumption, TicksInv, NEW t \in Tickers, Ticks!Claim(t)
    PROVE  TicksInv' /\ SlotMoves /\ Ticks!NextSlotIsExact
  <1>0. Numbers
    BY ScheduleNumbers
  <1>1. PICK r \in TickRecord :
               /\ r = ticksTick[t] /\ Sound(r) /\ r.at \in Steps /\ r.instant \in 0..MaxTime
               /\ r.acc \in Nat /\ r.acc >= 1 /\ r.acc <= Accounts + 1 /\ r.excused \subseteq Ticks!Accs
               /\ r.acc <= Accounts <=> r.acc \in Ticks!Accs
    BY SoundTicks
  <1>2. /\ r.at = "claim" /\ r.acc \in Ticks!Accs /\ Ticks!IsWindowOpen(r.instant)
        /\ r.acc + 1 \in 1..(Accounts + 1)
    <2>1. r.at = "claim"
      BY <1>1 DEF Ticks!Claim
    <2>2. r.acc \in Ticks!Accs /\ Ticks!IsWindowOpen(r.instant)
      BY <1>1, <2>1 DEF Sound
    <2> QED BY <1>0, <1>1, <2>1, <2>2 DEF Numbers
  <1>3. UNCHANGED <<now, leased, blocked, allowed, work>>
    BY DEF Ticks!Claim
  <1>4. CASE Ticks!Refuses(r.acc, r.instant)
    <2>1. /\ UNCHANGED <<last, next>>
          /\ ticksTick' = [ticksTick EXCEPT ![t] =
                [r EXCEPT !.at = "look", !.acc = r.acc + 1,
                   !.excused = IF blocked[r.acc] > r.instant \/ r.acc \in leased
                               THEN r.excused \cup {r.acc} ELSE r.excused]]
      BY <1>1, <1>4, Zenon DEF Ticks!Claim
    <2>2. PICK e : e = IF blocked[r.acc] > r.instant \/ r.acc \in leased
                       THEN r.excused \cup {r.acc} ELSE r.excused
      OBVIOUS
    <2>3. e \subseteq Ticks!Accs /\ r.excused \subseteq e
      BY <1>1, <1>2, <2>2
    <2>4. r.acc \in e \/ ~Ticks!IsDue(r.acc, r.instant)
      <3>1. CASE blocked[r.acc] > r.instant \/ r.acc \in leased
        BY <2>2, <3>1
      <3>2. CASE ~(blocked[r.acc] > r.instant \/ r.acc \in leased)
        <4>1. last[r.acc] # Ticks!Never /\ r.instant < last[r.acc] + Interval
          BY <1>4, <3>2, Zenon DEF Ticks!Refuses
        <4>2. last[r.acc] \in 0..MaxTime /\ Interval \in Nat
          BY <1>0, <1>2, <4>1 DEF TicksInv, ScheduleTypes, Numbers
        <4>3. ~(r.instant >= last[r.acc] + Interval)
          BY <1>1, <4>1, <4>2
        <4> QED BY <4>1, <4>3, Zenon DEF Ticks!IsDue
      <3> QED BY <3>1, <3>2
    <2>5. PICK x : x = [r EXCEPT !.at = "look", !.acc = r.acc + 1, !.excused = e]
      OBVIOUS
    <2>6. /\ x \in TickRecord /\ x.at = "look" /\ x.instant = r.instant
          /\ x.acc = r.acc + 1 /\ x.excused = e
      BY <1>2, <2>3, <2>5 DEF TickRecord, Steps
    <2>7. Sound(x)
      <3>1. \A a \in Ticks!Accs \ e : a < r.acc + 1 => ~Ticks!IsDue(a, r.instant)
        <4> SUFFICES ASSUME NEW a \in Ticks!Accs \ e, a < r.acc + 1
                     PROVE  ~Ticks!IsDue(a, r.instant)
          OBVIOUS
        <4>1. a \in Nat
          BY <1>0 DEF Ticks!Accs, Numbers
        <4>2. CASE a = r.acc
          BY <2>4, <4>2
        <4>3. CASE a < r.acc
          BY <1>1, <1>2, <2>3, <4>3 DEF Sound
        <4> QED BY <1>1, <4>1, <4>2, <4>3
      <3> QED BY <1>1, <2>6, <3>1 DEF Sound
    <2>8. ticksTick' = [ticksTick EXCEPT ![t] = x]
      BY <2>1, <2>2, <2>5
    <2>9. Ticks!NextSlotIsExact
      BY <2>1 DEF Ticks!NextSlotIsExact
    <2> QED BY <1>3, <2>1, <2>6, <2>7, <2>8, <2>9, TickLooks
  <1>5. CASE ~Ticks!Refuses(r.acc, r.instant)
    <2>1. /\ last' = [last EXCEPT ![r.acc] = r.instant]
          /\ next' = [next EXCEPT ![r.acc] = Ticks!NextDue(r.acc, r.instant)]
          /\ ticksTick' = [ticksTick EXCEPT ![t].at = "start", ![t].trigger = "schedule"]
      BY <1>1, <1>5, Zenon DEF Ticks!Claim
    <2>2. PICK x : x = [r EXCEPT !.at = "start", !.trigger = "schedule"]
      OBVIOUS
    <2>3. /\ x \in TickRecord /\ x.at = "start" /\ x.instant = r.instant
          /\ x.acc = r.acc /\ x.excused = r.excused
      BY <2>2 DEF TickRecord, Steps
    <2>4. ticksTick' = [ticksTick EXCEPT ![t] = x]
      BY <1>1, <2>1, <2>2 DEF TicksInv
    <2>5. ScheduleTypes' /\ SlotMoves /\ ~Ticks!IsDue(r.acc, r.instant)' /\ Ticks!NextSlotIsExact
      BY <1>1, <1>2, <1>3, <1>5, <2>1, Granted
    <2>6. Sound(x)'
      <3>1. \A a \in Ticks!Accs \ r.excused : a < r.acc => ~Ticks!IsDue(a, r.instant)'
        BY <1>0, <1>1, <1>2, <2>5, NotDueAgain DEF Sound, TicksInv
      <3>2. x.instant <= now'
        BY <1>1, <1>3, <2>3 DEF Sound
      <3> QED BY <1>2, <2>3, <2>5, <3>1, <3>2 DEF Sound, Ticks!Accs
    <2>7. \A u \in Tickers : ticksTick[u].at = "run" => ticksTick[u].acc \in leased'
      BY <1>3 DEF TicksInv, Sound
    <2> QED BY <1>0, <1>3, <2>3, <2>4, <2>5, <2>6, <2>7, TickMoves
  <1> QED BY <1>4, <1>5

\* A tick that comes to its account's end without moving a slot.
LEMMA RunsSound ==
    ASSUME Ticks!SchedulerAssumption, TicksInv, NEW t \in Tickers,
           Ticks!Start(t) \/ Ticks!RunEnds(t) \/ Ticks!RunRaises(t)
    PROVE  TicksInv' /\ SlotMoves
  <1>0. Numbers
    BY ScheduleNumbers
  <1>1. PICK r \in TickRecord :
               /\ r = ticksTick[t] /\ Sound(r) /\ r.at \in Steps /\ r.instant \in 0..MaxTime
               /\ r.acc \in Nat /\ r.acc >= 1 /\ r.acc <= Accounts + 1 /\ r.excused \subseteq Ticks!Accs
               /\ r.acc <= Accounts <=> r.acc \in Ticks!Accs
    BY SoundTicks
  <1>2. UNCHANGED <<now, last, next, allowed>>
    BY DEF Ticks!Start, Ticks!RunEnds, Ticks!RunRaises
  <1>3. r.at \in {"start", "run"}
    BY <1>1 DEF Ticks!Start, Ticks!RunEnds, Ticks!RunRaises
  <1>4. /\ r.acc \in Ticks!Accs /\ ~Ticks!IsDue(r.acc, r.instant)
        /\ r.acc + 1 \in 1..(Accounts + 1)
    <2>1. r.acc \in Ticks!Accs /\ ~Ticks!IsDue(r.acc, r.instant)
      BY <1>1, <1>3 DEF Sound
    <2> QED BY <1>0, <1>1, <2>1 DEF Numbers
  <1>5. SlotMoves
    BY <1>2 DEF SlotMoves
  <1>6. PICK y : y = [r EXCEPT !.at = "look", !.acc = r.acc + 1]
    OBVIOUS
  <1>7. /\ y \in TickRecord /\ y.at = "look" /\ y.instant = r.instant
        /\ y.acc = r.acc + 1 /\ y.excused = r.excused
    BY <1>4, <1>6 DEF TickRecord, Steps
  <1>8. Sound(y)'
    <2>1. \A a \in Ticks!Accs \ r.excused : a < r.acc + 1 => ~Ticks!IsDue(a, r.instant)
      <3> SUFFICES ASSUME NEW a \in Ticks!Accs \ r.excused, a < r.acc + 1
                   PROVE  ~Ticks!IsDue(a, r.instant)
        OBVIOUS
      <3>1. a \in Nat
        BY <1>0 DEF Ticks!Accs, Numbers
      <3>2. CASE a < r.acc
        BY <1>1, <1>3, <3>2 DEF Sound
      <3> QED BY <1>1, <1>4, <3>1, <3>2
    <2>2. \A a \in Ticks!Accs \ r.excused : a < r.acc + 1 => ~Ticks!IsDue(a, r.instant)'
      BY <1>0, <1>1, <1>5, <2>1, NotDueAgain DEF TicksInv
    <2>3. r.instant <= now'
      BY <1>1, <1>2 DEF Sound
    <2> QED BY <1>7, <2>2, <2>3 DEF Sound, Ticks!Accs
  <1>9. \A u \in Tickers : u # t /\ ticksTick[u].at = "run" =>
            ticksTick[u].acc \in leased /\ (r.at = "run" => ticksTick[u].acc # r.acc)
    BY <1>1 DEF TicksInv, Sound, OneRun
  <1>10. CASE Ticks!Start(t)
    <2>1. CASE r.acc \in leased
      <3>1. /\ ticksTick' = [ticksTick EXCEPT ![t].at = "look", ![t].acc = @ + 1]
            /\ UNCHANGED <<leased, blocked, work>>
        BY <1>1, <1>10, <2>1 DEF Ticks!Start
      <3>2. ticksTick' = [ticksTick EXCEPT ![t] = y]
        BY <1>1, <1>6, <3>1 DEF TicksInv
      <3>3. ScheduleTypes'
        BY <1>2, <3>1 DEF TicksInv, ScheduleTypes, Ticks!Never
      <3> QED BY <1>0, <1>2, <1>5, <1>7, <1>8, <1>9, <3>1, <3>2, <3>3, TickMoves
    <2>2. CASE r.acc \notin leased
      <3>1. /\ ticksTick' = [ticksTick EXCEPT ![t].at = "run"] /\ r.at = "start"
            /\ leased' = leased \cup {r.acc} /\ UNCHANGED <<blocked, work>>
        BY <1>1, <1>10, <2>2 DEF Ticks!Start
      <3>2. PICK x : x = [r EXCEPT !.at = "run"]
        OBVIOUS
      <3>3. /\ x \in TickRecord /\ x.at = "run" /\ x.instant = r.instant
            /\ x.acc = r.acc /\ x.excused = r.excused
        BY <3>2 DEF TickRecord, Steps
      <3>4. ticksTick' = [ticksTick EXCEPT ![t] = x]
        BY <1>1, <3>1, <3>2 DEF TicksInv
      <3>5. ScheduleTypes'
        BY <1>2, <1>4, <3>1 DEF TicksInv, ScheduleTypes, Ticks!Never
      <3>6. Sound(x)'
        <4>1. \A a \in Ticks!Accs \ r.excused : a < r.acc => ~Ticks!IsDue(a, r.instant)'
          BY <1>0, <1>1, <1>3, <1>5, NotDueAgain DEF Sound, TicksInv
        <4>2. ~Ticks!IsDue(r.acc, r.instant)'
          BY <1>0, <1>1, <1>4, <1>5, NotDueAgain DEF TicksInv
        <4>3. r.instant <= now'
          BY <1>1, <1>2 DEF Sound
        <4>4. r.acc \in leased'
          BY <3>1
        <4> QED BY <1>4, <3>3, <4>1, <4>2, <4>3, <4>4 DEF Sound, Ticks!Accs
      <3>7. \A u \in Tickers : u # t /\ ticksTick[u].at = "run" => ticksTick[u].acc \in leased'
        BY <1>9, <3>1
      <3>8. \A u \in Tickers : ticksTick[u].at = "run" => ticksTick[u].acc # x.acc
        BY <1>1, <1>9, <2>2, <3>1, <3>3
      <3> QED BY <1>0, <1>2, <1>5, <3>3, <3>4, <3>5, <3>6, <3>7, <3>8, TickMoves
    <2> QED BY <2>1, <2>2
  <1>11. CASE Ticks!RunEnds(t)
    <2>1. /\ ticksTick' = [ticksTick EXCEPT ![t].at = "look", ![t].acc = @ + 1] /\ r.at = "run"
          /\ leased' = leased \ {r.acc}
          /\ work' \in {work, work \ {r.acc}}
          /\ blocked' \in {blocked, [blocked EXCEPT ![r.acc] = now + Interval]}
      BY <1>1, <1>11 DEF Ticks!RunEnds
    <2>2. ticksTick' = [ticksTick EXCEPT ![t] = y]
      BY <1>1, <1>6, <2>1 DEF TicksInv
    <2>3. ScheduleTypes'
      <3>1. blocked' \in [Ticks!Accs -> Nat]
        BY <1>0, <2>1 DEF TicksInv, ScheduleTypes, Numbers
      <3> QED BY <1>2, <2>1, <3>1 DEF TicksInv, ScheduleTypes, Ticks!Never
    <2>4. \A u \in Tickers : u # t /\ ticksTick[u].at = "run" => ticksTick[u].acc \in leased'
      BY <1>9, <2>1
    <2> QED BY <1>0, <1>2, <1>5, <1>7, <1>8, <2>2, <2>3, <2>4, TickMoves
  <1>12. CASE Ticks!RunRaises(t)
    <2>1. /\ ticksTick' = [ticksTick EXCEPT ![t] = Ticks!Idle] /\ r.at = "run"
          /\ leased' = leased \ {r.acc} /\ UNCHANGED <<blocked, work>>
      BY <1>1, <1>12 DEF Ticks!RunRaises
    <2>2. PICK x : x = Ticks!Idle
      OBVIOUS
    <2>3. x \in TickRecord /\ x.at = "idle" /\ x.instant = 0
      BY <2>2, IdleTick
    <2>4. Sound(x)'
      BY <1>0, <1>2, <2>3 DEF Sound, TicksInv, ScheduleTypes, Numbers
    <2>5. ScheduleTypes'
      BY <1>2, <2>1 DEF TicksInv, ScheduleTypes, Ticks!Never
    <2>6. \A u \in Tickers : u # t /\ ticksTick[u].at = "run" => ticksTick[u].acc \in leased'
      BY <1>9, <2>1
    <2>7. ticksTick' = [ticksTick EXCEPT ![t] = x]
      BY <2>1, <2>2
    <2> QED BY <1>0, <1>2, <1>5, <2>3, <2>4, <2>5, <2>6, <2>7, TickMoves
  <1> QED BY <1>10, <1>11, <1>12

\* The operator, the queue and the clock touch no slot.
LEMMA AroundSound ==
    ASSUME Ticks!SchedulerAssumption, TicksInv,
           \/ \E a \in Ticks!Accs : Ticks!TurnOff(a) \/ Ticks!WorkDue(a)
           \/ Ticks!TimePasses \/ UNCHANGED Ticks!vars
    PROVE  TicksInv' /\ SlotMoves
  <1>0. Numbers
    BY ScheduleNumbers
  <1>1. UNCHANGED <<last, next, leased, blocked, ticksTick>>
    BY DEF Ticks!TurnOff, Ticks!WorkDue, Ticks!TimePasses, Ticks!vars
  <1>2. SlotMoves
    BY <1>1 DEF SlotMoves
  <1>3. now' \in 0..MaxTime /\ now <= now'
    <2>1. now' = now \/ (now < MaxTime /\ now' = now + 1)
      BY DEF Ticks!TurnOff, Ticks!WorkDue, Ticks!TimePasses, Ticks!vars
    <2> QED BY <1>0, <2>1 DEF TicksInv, ScheduleTypes, Numbers
  <1>4. allowed' \subseteq Ticks!Accs /\ work' \subseteq Ticks!Accs
    <2>1. CASE \E a \in Ticks!Accs : Ticks!TurnOff(a) \/ Ticks!WorkDue(a)
      BY <2>1 DEF TicksInv, ScheduleTypes, Ticks!TurnOff, Ticks!WorkDue
    <2>2. CASE Ticks!TimePasses \/ UNCHANGED Ticks!vars
      BY <2>2 DEF TicksInv, ScheduleTypes, Ticks!TimePasses, Ticks!vars
    <2> QED BY <2>1, <2>2
  <1>5. ScheduleTypes'
    BY <1>1, <1>3, <1>4 DEF TicksInv, ScheduleTypes, Ticks!Never
  <1>6. ASSUME NEW t \in Tickers PROVE Sound(ticksTick[t])'
    <2>1. PICK x \in TickRecord : x = ticksTick[t]
      BY DEF TicksInv
    <2>2. Sound(x) /\ (x.at = "run" => x.acc \in leased')
      BY <1>1, <2>1 DEF TicksInv, Sound
    <2>3. Sound(x)'
      BY <1>0, <1>2, <1>3, <2>2, SoundStays DEF TicksInv
    <2> QED BY <1>1, <2>1, <2>3 DEF Sound
  <1> QED BY <1>1, <1>2, <1>5, <1>6 DEF TicksInv, OneRun

LEMMA TicksStep ==
    ASSUME Ticks!SchedulerAssumption, TicksInv, [Ticks!Next]_(Ticks!vars)
    PROVE  TicksInv' /\ SlotMoves /\ Ticks!NextSlotIsExact
  <1>1. ASSUME NEW t \in Tickers, Ticks!Claim(t)
        PROVE  TicksInv' /\ SlotMoves /\ Ticks!NextSlotIsExact
    BY <1>1, ClaimSound
  <1>2. ASSUME NEW t \in Tickers,
               \/ Ticks!Begin(t) \/ Ticks!End(t) \/ Ticks!Look(t)
               \/ Ticks!Start(t) \/ Ticks!RunEnds(t) \/ Ticks!RunRaises(t)
        PROVE  TicksInv' /\ SlotMoves /\ Ticks!NextSlotIsExact
    <2>1. TicksInv' /\ SlotMoves
      BY <1>2, BeginsSound, RunsSound
    <2>2. last' = last
      BY <1>2 DEF Ticks!Begin, Ticks!End, Ticks!Look, Ticks!Start, Ticks!RunEnds, Ticks!RunRaises
    <2> QED BY <2>1, <2>2 DEF Ticks!NextSlotIsExact
  <1>3. CASE \/ \E a \in Ticks!Accs : Ticks!TurnOff(a) \/ Ticks!WorkDue(a)
             \/ Ticks!TimePasses \/ UNCHANGED Ticks!vars
    <2>1. TicksInv' /\ SlotMoves
      BY <1>3, AroundSound
    <2>2. last' = last
      BY <1>3 DEF Ticks!TurnOff, Ticks!WorkDue, Ticks!TimePasses, Ticks!vars
    <2> QED BY <2>1, <2>2 DEF Ticks!NextSlotIsExact
  <1> QED BY <1>1, <1>2, <1>3 DEF Ticks!Next

LEMMA TicksStart ==
    ASSUME Ticks!SchedulerAssumption, Ticks!Init
    PROVE  TicksInv
  <1>0. Numbers
    BY ScheduleNumbers
  <1>1. ScheduleTypes
    BY <1>0 DEF Numbers, ScheduleTypes, Ticks!Init, Ticks!Never
  <1>2. PICK x : x = Ticks!Idle
    OBVIOUS
  <1>3. x \in TickRecord /\ x.at = "idle" /\ x.instant = 0
    BY <1>2, IdleTick
  <1>4. ticksTick = [t \in Tickers |-> x]
    BY <1>2 DEF Ticks!Init
  <1>5. Sound(x)
    BY <1>3 DEF Sound, Ticks!Init
  <1>6. \A t \in Tickers : ticksTick[t] = x
    BY <1>4
  <1> QED BY <1>1, <1>3, <1>4, <1>5, <1>6 DEF TicksInv, OneRun

\* No tick that comes to its end leaves an account behind that was due at its
\* instant, whatever the week, the window and the interval, and however many
\* processes tick at once (HHAutopilotScheduler.tick, SchedulePolicy).
THEOREM TicksLeaveNobodyBehind ==
    ASSUME Ticks!SchedulerAssumption
    PROVE  Ticks!Spec => [](Ticks!TypeOK /\ Ticks!NobodyLeftBehind)
  <1>1. TicksInv => Ticks!TypeOK /\ Ticks!NobodyLeftBehind
    <2> SUFFICES ASSUME TicksInv PROVE Ticks!TypeOK /\ Ticks!NobodyLeftBehind
      OBVIOUS
    <2>1. Ticks!TypeOK
      BY DEF TicksInv, ScheduleTypes, TickRecord, Steps, Sound, Ticks!TypeOK
    <2>2. Ticks!NobodyLeftBehind
      BY ScheduleNumbers DEF TicksInv, TickRecord, Sound, Numbers, Ticks!Accs, Ticks!NobodyLeftBehind
    <2> QED BY <2>1, <2>2
  <1> QED BY <1>1, TicksStart, TicksStep, PTL DEF Ticks!Spec

\* Slots of one account are an interval apart, whichever process claims them
\* (claim_schedule_slot).
THEOREM SlotsNeverBunch ==
    ASSUME Ticks!SchedulerAssumption
    PROVE  Ticks!Spec => [][Ticks!SlotsApart]_(Ticks!vars)
  <1>1. SlotMoves => Ticks!SlotsApart
    BY DEF SlotMoves, Ticks!SlotsApart
  <1> QED BY <1>1, TicksStart, TicksStep, PTL DEF Ticks!Spec

\* The next slot that is announced is the first moment an interval later at which
\* the window is open, over any week (SchedulePolicy.next_due_at, _advance_to_window).
THEOREM AnnouncedSlotIsExact ==
    ASSUME Ticks!SchedulerAssumption
    PROVE  Ticks!Spec => [][Ticks!NextSlotIsExact]_(Ticks!vars)
  <1> QED BY TicksStart, TicksStep, PTL DEF Ticks!Spec
------------------------------------------------------------------------------
RowRecord == [event : Box!Events, sink : Ports, status : {"pending", "sent"},
              tries : 0..MaxDelay, wait : 0..MaxDelay]
BoxSteps == {"idle", "scanned", "inserted", "sending", "accepted", "refused"}
BoxRecord == [at : BoxSteps, kinds : SUBSET Box!Kinds, found : SUBSET Box!Events, batch : SUBSET Nat]
Taken(e, s) == sends[e][s]

BoxTypes ==
    /\ open \subseteq Box!Events /\ enabled \subseteq Box!Kinds
    /\ rows \in Seq(RowRecord) /\ crashesTick \in [Tickers -> BoxRecord]
    /\ fails \in 0..SinkFailures /\ sends \in [Box!Events -> [Ports -> 0..2]]

\* A tick holds deliveries that exist; the one it has an answer for is the first.
Holds(x) ==
    /\ x.batch \subseteq DOMAIN rows
    /\ x.at \in {"accepted", "refused"} => x.batch # {}
    /\ x.at = "accepted" =>
          LET n == Box!Min(x.batch) IN sends[rows[n].event][rows[n].sink] > 0

BoxInv ==
    /\ BoxTypes
    /\ \A t \in Tickers : Holds(crashesTick[t])
    /\ Box!OneRowPerSink /\ Box!SentIsReal

\* What a step leaves of the deliveries that exist.
RowsLast ==
    /\ DOMAIN rows \subseteq DOMAIN rows'
    /\ \A n \in DOMAIN rows : rows'[n].event = rows[n].event /\ rows'[n].sink = rows[n].sink
    /\ \A e \in Box!Events, s \in Ports : sends[e][s] > 0 => sends'[e][s] > 0

LEMMA RowTyped ==
    ASSUME BoxTypes, NEW n \in DOMAIN rows
    PROVE  /\ n \in Nat /\ rows[n] \in RowRecord /\ rows[n].event \in Box!Events
           /\ rows[n].sink \in Ports /\ rows[n].status \in {"pending", "sent"}
           /\ rows[n].tries \in 0..MaxDelay /\ rows[n].wait \in 0..MaxDelay
  <1>1. rows \in Seq(RowRecord)
    BY DEF BoxTypes
  <1>2. rows[n] \in RowRecord /\ n \in Nat
    BY <1>1
  <1> QED BY <1>2 DEF RowRecord

LEMMA LeastOf ==
    ASSUME NEW S \in SUBSET Nat, S # {}
    PROVE  Box!Min(S) \in S
  <1>1. \E n \in S : \A m \in S : n <= m
    BY SmallestExists
  <1> QED BY <1>1 DEF Box!Min

LEMMA HoldsStays ==
    ASSUME BoxTypes, RowsLast, NEW x \in BoxRecord, Holds(x)
    PROVE  Holds(x)'
  <1>1. x.batch \subseteq DOMAIN rows' /\ (x.at \in {"accepted", "refused"} => x.batch # {})
    BY DEF Holds, RowsLast
  <1>2. CASE x.at # "accepted"
    BY <1>1, <1>2 DEF Holds
  <1>3. CASE x.at = "accepted"
    <2>1. PICK n : n = Box!Min(x.batch)
      OBVIOUS
    <2>2. n \in DOMAIN rows /\ sends[rows[n].event][rows[n].sink] > 0
      <3>1. x.batch \in SUBSET Nat /\ x.batch # {}
        BY <1>1, <1>3 DEF BoxRecord
      <3> QED BY <1>3, <2>1, <3>1, LeastOf DEF Holds
    <2>3. rows[n].event \in Box!Events /\ rows[n].sink \in Ports
      BY <2>2, RowTyped
    <2>4. sends'[rows'[n].event][rows'[n].sink] > 0
      BY <2>2, <2>3 DEF RowsLast
    <2>5. (Box!Min(x.batch))' = n
      BY <2>1 DEF Box!Min
    <2> QED BY <1>1, <2>4, <2>5 DEF Holds
  <1> QED BY <1>2, <1>3

\* One tick goes on, the others stand.
LEMMA BoxMoves ==
    ASSUME BoxInv, RowsLast, Box!OneRowPerSink', Box!SentIsReal',
           open' \subseteq Box!Events, enabled' \subseteq Box!Kinds,
           rows' \in Seq(RowRecord), fails' \in 0..SinkFailures,
           sends' \in [Box!Events -> [Ports -> 0..2]],
           NEW t \in Tickers, NEW x \in BoxRecord, crashesTick' = [crashesTick EXCEPT ![t] = x],
           Holds(x)'
    PROVE  BoxInv'
  <1>1. crashesTick' \in [Tickers -> BoxRecord]
    BY DEF BoxInv, BoxTypes
  <1>2. BoxTypes'
    BY <1>1 DEF BoxTypes, RowRecord, Box!Events, Box!Kinds
  <1>3. ASSUME NEW u \in Tickers PROVE Holds(crashesTick[u])'
    <2>1. CASE u = t
      <3>1. crashesTick'[u] = x
        BY <2>1 DEF BoxInv, BoxTypes
      <3> QED BY <3>1 DEF Holds
    <2>2. CASE u # t
      <3>1. PICK y \in BoxRecord : y = crashesTick[u]
        BY DEF BoxInv, BoxTypes
      <3>2. Holds(y)
        BY <3>1 DEF BoxInv
      <3>3. Holds(y)'
        BY <3>2, HoldsStays DEF BoxInv
      <3>4. crashesTick'[u] = y
        BY <2>2, <3>1 DEF BoxInv, BoxTypes
      <3> QED BY <3>3, <3>4 DEF Holds
    <2> QED BY <2>1, <2>2
  <1> QED BY <1>2, <1>3 DEF BoxInv

LEMMA BoxCounts == \A S : Box!Cardinality(S) = Cardinality(S)
  BY DEF Box!Cardinality, Cardinality

LEMMA SequenceOfSet ==
    ASSUME NEW S, IsFiniteSet(S)
    PROVE  LET f == Box!SetToSeq(S) IN
           /\ f \in [1..Cardinality(S) -> S]
           /\ \A a, b \in 1..Cardinality(S) : f[a] = f[b] => a = b
  <1>1. \E f \in [1..Cardinality(S) -> S] : \A a, b \in 1..Cardinality(S) : f[a] = f[b] => a = b
    <2>1. ExistsBijection(1..Cardinality(S), S)
      BY FS_CardinalityType
    <2> QED BY <2>1, Zenon DEF ExistsBijection, Bijection, Injection, IsInjective
  <1>2. \A f \in [1..Cardinality(S) -> S] :
            Box!IsInjective(f) <=> \A a, b \in 1..Cardinality(S) : f[a] = f[b] => a = b
    BY Zenon DEF Box!IsInjective
  <1>3. Box!SetToSeq(S) = CHOOSE f \in [1..Cardinality(S) -> S] : Box!IsInjective(f)
    BY BoxCounts, Zenon DEF Box!SetToSeq
  <1> QED BY <1>1, <1>2, <1>3, Zenon

\* Deliveries that are only updated keep the event and the sink.
LEMMA SameDeliveries ==
    ASSUME BoxInv, NEW t \in Tickers, NEW x \in BoxRecord,
           crashesTick' = [crashesTick EXCEPT ![t] = x],
           UNCHANGED <<rows, open, enabled>>, fails' \in 0..SinkFailures,
           sends' \in [Box!Events -> [Ports -> 0..2]],
           \A e \in Box!Events, s \in Ports : sends[e][s] > 0 => sends'[e][s] > 0,
           Holds(x)'
    PROVE  BoxInv'
  <1>1. RowsLast
    BY DEF RowsLast
  <1>2. Box!OneRowPerSink'
    BY DEF BoxInv, Box!OneRowPerSink
  <1>3. Box!SentIsReal'
    <2> SUFFICES ASSUME NEW n \in DOMAIN rows, rows[n].status = "sent"
                 PROVE  sends'[rows[n].event][rows[n].sink] > 0
      BY DEF Box!SentIsReal
    <2>1. rows[n].event \in Box!Events /\ rows[n].sink \in Ports
      BY RowTyped DEF BoxInv
    <2> QED BY <2>1 DEF BoxInv, Box!SentIsReal
  <1> QED BY <1>1, <1>2, <1>3, BoxMoves DEF BoxInv, BoxTypes

LEMMA TickTyped ==
    ASSUME BoxInv, NEW t \in Tickers
    PROVE  \E r \in BoxRecord :
               /\ r = crashesTick[t] /\ Holds(r) /\ r.at \in BoxSteps /\ r.kinds \subseteq Box!Kinds
               /\ r.found \subseteq Box!Events /\ r.batch \subseteq Nat
               /\ r.batch # {} => /\ Box!Min(r.batch) \in r.batch
                                  /\ Box!Min(r.batch) \in DOMAIN rows
  <1>1. PICK r \in BoxRecord : r = crashesTick[t]
    BY DEF BoxInv, BoxTypes
  <1>2. Holds(r) /\ r.batch \subseteq Nat
    BY <1>1 DEF BoxInv, BoxRecord
  <1>3. r.batch # {} => Box!Min(r.batch) \in r.batch
    BY <1>2, LeastOf
  <1> QED BY <1>1, <1>2, <1>3 DEF BoxRecord, Holds

LEMMA ScanReadEnd ==
    ASSUME BoxInv, NEW t \in Tickers,
           Box!Scan(t) \/ Box!Read(t) \/ Box!Pass(t) \/ Box!TickEnds(t) \/ Box!Crash(t)
    PROVE  BoxInv'
  <1>0. UNCHANGED <<open, enabled, rows, fails, sends>>
    BY DEF Box!Scan, Box!Read, Box!Pass, Box!TickEnds, Box!Crash
  <1>1. PICK r \in BoxRecord :
               /\ r = crashesTick[t] /\ Holds(r) /\ r.at \in BoxSteps /\ r.kinds \subseteq Box!Kinds
               /\ r.found \subseteq Box!Events /\ r.batch \subseteq Nat
               /\ r.batch # {} => /\ Box!Min(r.batch) \in r.batch
                                  /\ Box!Min(r.batch) \in DOMAIN rows
    BY TickTyped
  <1>2. ASSUME NEW x \in BoxRecord, crashesTick' = [crashesTick EXCEPT ![t] = x],
               x.at \notin {"accepted", "refused"}, x.batch \subseteq DOMAIN rows
        PROVE  BoxInv'
    <2>1. Holds(x)'
      BY <1>0, <1>2 DEF Holds
    <2>2. \A e \in Box!Events, s \in Ports : sends[e][s] > 0 => sends'[e][s] > 0
      BY <1>0
    <2>3. fails' \in 0..SinkFailures /\ sends' \in [Box!Events -> [Ports -> 0..2]]
      BY <1>0 DEF BoxInv, BoxTypes
    <2> QED BY <1>0, <1>2, <2>1, <2>2, <2>3, SameDeliveries
  <1>3. Box!Idle = [at |-> "idle", kinds |-> {}, found |-> {}, batch |-> {}]
    BY DEF Box!Idle
  <1>4. CASE Box!Scan(t)
    <2>1. PICK k \in SUBSET Box!Kinds, f \in SUBSET Box!Events :
              crashesTick' = [crashesTick EXCEPT ![t] =
                  [Box!Idle EXCEPT !.at = "scanned", !.kinds = k, !.found = f]]
      <3>1. {e \in open : Box!KindOf(e) \in enabled /\ \E s \in Ports : ~Box!HasRow(e, s)}
                \in SUBSET Box!Events
        BY DEF BoxInv, BoxTypes
      <3>2. enabled \in SUBSET Box!Kinds
        BY DEF BoxInv, BoxTypes
      <3> QED BY <1>4, <3>1, <3>2, Zenon DEF Box!Scan
    <2>2. PICK i : i = [at |-> "idle", kinds |-> {}, found |-> {}, batch |-> {}]
      OBVIOUS
    <2>3. PICK x : x = [i EXCEPT !.at = "scanned", !.kinds = k, !.found = f]
      OBVIOUS
    <2>4. x.at = "scanned" /\ x.batch = {} /\ x \in BoxRecord
      BY <2>2, <2>3 DEF BoxRecord, BoxSteps
    <2>5. crashesTick' = [crashesTick EXCEPT ![t] = x]
      BY <1>3, <2>1, <2>2, <2>3
    <2> QED BY <1>2, <2>4, <2>5
  <1>5. CASE Box!Read(t)
    <2>1. PICK b \in SUBSET (DOMAIN rows) :
              crashesTick' = [crashesTick EXCEPT ![t].at = "sending", ![t].batch = b]
      <3> DEFINE due == {n \in DOMAIN rows : Box!Due(n)}
                 b == {n \in due : Box!Cardinality({m \in due : m < n}) < Batch}
      <3>1. b \subseteq DOMAIN rows
        OBVIOUS
      <3>2. crashesTick' = [crashesTick EXCEPT ![t].at = "sending", ![t].batch = b]
        BY <1>5, Zenon DEF Box!Read
      <3> HIDE DEF b
      <3> QED BY <3>1, <3>2
    <2>2. PICK x : x = [r EXCEPT !.at = "sending", !.batch = b]
      OBVIOUS
    <2>3. b \subseteq Nat
      BY DEF BoxInv, BoxTypes
    <2>4. x.at = "sending" /\ x.batch = b /\ x \in BoxRecord
      BY <2>2, <2>3 DEF BoxRecord, BoxSteps
    <2>5. crashesTick' = [crashesTick EXCEPT ![t] = x]
      BY <1>1, <2>1, <2>2 DEF BoxInv, BoxTypes
    <2> QED BY <1>2, <2>4, <2>5
  <1>6. CASE Box!Pass(t)
    <2>1. PICK x : x = [r EXCEPT !.batch = Box!Rest(t)]
      OBVIOUS
    <2>2. Box!Rest(t) \subseteq r.batch /\ r.at = "sending"
      BY <1>1, <1>6 DEF Box!Rest, Box!Pass
    <2>3. x.at = "sending" /\ x.batch \subseteq r.batch /\ x \in BoxRecord
      BY <1>1, <2>1, <2>2 DEF BoxRecord, BoxSteps
    <2>4. crashesTick' = [crashesTick EXCEPT ![t] = x]
      BY <1>1, <1>6, <2>1 DEF BoxInv, BoxTypes, Box!Pass
    <2> QED BY <1>1, <1>2, <2>3, <2>4 DEF Holds
  <1>7. CASE Box!TickEnds(t) \/ Box!Crash(t)
    <2>1. PICK x : x = [at |-> "idle", kinds |-> {}, found |-> {}, batch |-> {}]
      OBVIOUS
    <2>2. x.at = "idle" /\ x.batch = {} /\ x \in BoxRecord
      BY <2>1 DEF BoxRecord, BoxSteps
    <2>3. crashesTick' = [crashesTick EXCEPT ![t] = x]
      BY <1>3, <1>7, <2>1 DEF Box!TickEnds, Box!Crash
    <2> QED BY <1>2, <2>2, <2>3
  <1> QED BY <1>4, <1>5, <1>6, <1>7

LEMMA Appended ==
    ASSUME NEW R, NEW s \in Seq(R), NEW k \in Nat, NEW u \in [1..k -> R]
    PROVE  /\ s \o u \in Seq(R) /\ DOMAIN (s \o u) = 1..(Len(s) + k)
           /\ \A n \in 1..Len(s) : (s \o u)[n] = s[n]
           /\ \A n \in (Len(s) + 1)..(Len(s) + k) : (s \o u)[n] = u[n - Len(s)]
  <1>1. u \in Seq(R) /\ Len(u) = k
    OBVIOUS
  <1> QED BY <1>1

LEMMA InsertKeeps ==
    ASSUME Box!OutboxAssumption, BoxInv, NEW t \in Tickers, Box!Insert(t)
    PROVE  /\ BoxInv'
           /\ DOMAIN rows \subseteq DOMAIN rows' /\ \A n \in DOMAIN rows : rows'[n] = rows[n]
  <1>1. PICK r \in BoxRecord :
               /\ r = crashesTick[t] /\ Holds(r) /\ r.at \in BoxSteps /\ r.kinds \subseteq Box!Kinds
               /\ r.found \subseteq Box!Events /\ r.batch \subseteq Nat
               /\ r.batch # {} => /\ Box!Min(r.batch) \in r.batch
                                  /\ Box!Min(r.batch) \in DOMAIN rows
    BY TickTyped
  <1>2. PICK M : M = Box!Missing(r.found)
    OBVIOUS
  <1>3. /\ \A p \in M : /\ p[1] \in Box!Events /\ p[2] \in Ports /\ p = <<p[1], p[2]>>
                        /\ \A n \in DOMAIN rows : ~(rows[n].event = p[1] /\ rows[n].sink = p[2])
        /\ M \subseteq Box!Events \X Ports
    BY <1>1, <1>2 DEF Box!Missing, Box!HasRow
  <1>4. IsFiniteSet(M)
    <2>1. IsFiniteSet(Challenges) /\ IsFiniteSet(Failures) /\ IsFiniteSet(Ports)
      BY DEF Box!OutboxAssumption, Box!IsFiniteSet, IsFiniteSet
    <2>2. IsFiniteSet(Box!Events \X Ports)
      BY <2>1, FS_Union, FS_Product DEF Box!Events
    <2> QED BY <1>3, <2>2, FS_Subset
  <1>5. PICK k \in Nat : k = Cardinality(M)
    BY <1>4, FS_CardinalityType
  <1>6. PICK f \in [1..k -> M] : /\ f = Box!SetToSeq(M)
                                 /\ \A a, b \in 1..k : f[a] = f[b] => a = b
    BY <1>4, <1>5, SequenceOfSet
  <1>7. PICK u : u = [n \in 1..k |-> [event |-> f[n][1], sink |-> f[n][2], status |-> "pending",
                                      tries |-> 0, wait |-> 0]]
    OBVIOUS
  <1>8. /\ rows' = rows \o u /\ UNCHANGED <<open, enabled, fails, sends>>
        /\ crashesTick' = [crashesTick EXCEPT ![t].at = "inserted"]
    BY <1>1, <1>2, <1>5, <1>6, <1>7, BoxCounts, Zenon DEF Box!Insert
  <1>9. /\ rows \in Seq(RowRecord) /\ Len(rows) \in Nat /\ DOMAIN rows = 1..Len(rows)
        /\ MaxDelay \in Nat
    BY DEF BoxInv, BoxTypes, Box!OutboxAssumption
  <1>10. /\ \A n \in 1..k : /\ u[n].event = f[n][1] /\ u[n].sink = f[n][2]
                            /\ u[n].status = "pending" /\ f[n] \in M
         /\ u \in [1..k -> RowRecord]
    <2>1. \A n \in 1..k : f[n] \in M
      BY <1>6
    <2>2. \A n \in 1..k : u[n] = [event |-> f[n][1], sink |-> f[n][2], status |-> "pending",
                                  tries |-> 0, wait |-> 0]
      BY <1>7
    <2>3. 0 \in 0..MaxDelay
      BY <1>9
    <2>4. ASSUME NEW n \in 1..k PROVE u[n] \in RowRecord
      <3>1. PICK e \in Box!Events, s \in Ports : e = f[n][1] /\ s = f[n][2]
        BY <1>3, <2>1
      <3>2. u[n] = [event |-> e, sink |-> s, status |-> "pending", tries |-> 0, wait |-> 0]
        BY <2>2, <3>1
      <3> QED BY <2>3, <3>2 DEF RowRecord
    <2>5. u \in [1..k -> RowRecord]
      BY <1>7, <2>4
    <2> QED BY <2>1, <2>2, <2>5
  <1>11. /\ rows' \in Seq(RowRecord) /\ DOMAIN rows' = 1..(Len(rows) + k)
         /\ \A n \in 1..Len(rows) : rows'[n] = rows[n]
         /\ \A n \in (Len(rows) + 1)..(Len(rows) + k) : rows'[n] = u[n - Len(rows)]
    BY <1>8, <1>9, <1>10, Appended
  <1>12. \A n \in DOMAIN rows' \ DOMAIN rows :
             /\ n - Len(rows) \in 1..k /\ rows'[n] = u[n - Len(rows)]
    BY <1>9, <1>11
  <1>13. RowsLast
    BY <1>8, <1>9, <1>11 DEF RowsLast
  <1>14. Box!OneRowPerSink'
    <2> SUFFICES ASSUME NEW m \in DOMAIN rows', NEW n \in DOMAIN rows',
                        rows'[m].event = rows'[n].event, rows'[m].sink = rows'[n].sink
                 PROVE  m = n
      BY DEF Box!OneRowPerSink
    <2>0. \A i \in DOMAIN rows : rows'[i] = rows[i]
      BY <1>9, <1>11
    <2>1. CASE m \in DOMAIN rows /\ n \in DOMAIN rows
      BY <2>0, <2>1 DEF BoxInv, Box!OneRowPerSink
    <2>2. ASSUME NEW i \in DOMAIN rows, NEW j \in DOMAIN rows' \ DOMAIN rows,
                 rows'[i].event = rows'[j].event, rows'[i].sink = rows'[j].sink
          PROVE  FALSE
      <3>1. PICK l \in 1..k : rows'[j] = u[l]
        BY <1>12
      <3>2. rows[i].event = f[l][1] /\ rows[i].sink = f[l][2] /\ f[l] \in M
        BY <1>10, <2>0, <2>2, <3>1
      <3> QED BY <1>3, <3>2
    <2>3. CASE m \notin DOMAIN rows /\ n \notin DOMAIN rows
      <3>1. PICK i \in 1..k, j \in 1..k : /\ i = m - Len(rows) /\ j = n - Len(rows)
                                          /\ rows'[m] = u[i] /\ rows'[n] = u[j]
        BY <1>12, <2>3
      <3>2. f[i] \in M /\ f[j] \in M /\ f[i][1] = f[j][1] /\ f[i][2] = f[j][2]
        BY <1>10, <3>1
      <3>3. f[i] = f[j]
        BY <1>3, <3>2
      <3>4. i = j
        BY <1>6, <3>3
      <3> QED BY <1>9, <1>11, <3>1, <3>4
    <2> QED BY <2>1, <2>2, <2>3
  <1>15. Box!SentIsReal'
    <2> SUFFICES ASSUME NEW n \in DOMAIN rows', rows'[n].status = "sent"
                 PROVE  sends'[rows'[n].event][rows'[n].sink] > 0
      BY DEF Box!SentIsReal
    <2>1. n \in DOMAIN rows
      BY <1>10, <1>12
    <2>2. rows'[n] = rows[n]
      BY <1>9, <1>11, <2>1
    <2> QED BY <1>8, <2>1, <2>2 DEF BoxInv, Box!SentIsReal
  <1>16. PICK x : x = [r EXCEPT !.at = "inserted"]
    OBVIOUS
  <1>17. x \in BoxRecord /\ x.at = "inserted" /\ x.batch = r.batch
    BY <1>16 DEF BoxRecord, BoxSteps
  <1>18. crashesTick' = [crashesTick EXCEPT ![t] = x]
    BY <1>1, <1>8, <1>16 DEF BoxInv, BoxTypes
  <1>19. Holds(x)'
    BY <1>1, <1>13, <1>17 DEF Holds, RowsLast
  <1>20. /\ open' \subseteq Box!Events /\ enabled' \subseteq Box!Kinds /\ fails' \in 0..SinkFailures
         /\ sends' \in [Box!Events -> [Ports -> 0..2]]
    BY <1>8 DEF BoxInv, BoxTypes
  <1>21. BoxInv'
    BY <1>11, <1>13, <1>14, <1>15, <1>17, <1>18, <1>19, <1>20, BoxMoves
  <1> QED BY <1>9, <1>11, <1>21

LEMMA SendKeeps ==
    ASSUME Box!OutboxAssumption, BoxInv, NEW t \in Tickers, Box!Send(t)
    PROVE  BoxInv'
  <1>1. PICK r \in BoxRecord :
               /\ r = crashesTick[t] /\ Holds(r) /\ r.at \in BoxSteps /\ r.kinds \subseteq Box!Kinds
               /\ r.found \subseteq Box!Events /\ r.batch \subseteq Nat
               /\ r.batch # {} => /\ Box!Min(r.batch) \in r.batch
                                  /\ Box!Min(r.batch) \in DOMAIN rows
    BY TickTyped
  <1>2. r.batch # {} /\ UNCHANGED <<open, enabled, rows>>
    BY <1>1 DEF Box!Send
  <1>3. PICK n \in DOMAIN rows : n = Box!Min(r.batch) /\ n = Box!Current(t)
    BY <1>1, <1>2 DEF Box!Current
  <1>4. PICK e \in Box!Events, s \in Ports : e = rows[n].event /\ s = rows[n].sink
    BY <1>3, RowTyped DEF BoxInv
  <1>5. sends \in [Box!Events -> [Ports -> 0..2]] /\ fails \in 0..SinkFailures
    BY DEF BoxInv, BoxTypes
  <1>6. CASE /\ sends' = [sends EXCEPT ![e][s] = Box!Counted(@)] /\ UNCHANGED fails
             /\ crashesTick' = [crashesTick EXCEPT ![t].at = "accepted"]
    <2>1. PICK x : x = [r EXCEPT !.at = "accepted"]
      OBVIOUS
    <2>2. x \in BoxRecord /\ x.at = "accepted" /\ x.batch = r.batch
      BY <2>1 DEF BoxRecord, BoxSteps
    <2>3. crashesTick' = [crashesTick EXCEPT ![t] = x]
      BY <1>1, <1>6, <2>1 DEF BoxInv, BoxTypes
    <2>4. sends[e][s] \in 0..2 /\ Box!Counted(sends[e][s]) \in 1..2
      BY <1>5 DEF Box!Counted
    <2>5. /\ sends' \in [Box!Events -> [Ports -> 0..2]] /\ sends'[e][s] \in 1..2
          /\ \A d \in Box!Events, z \in Ports : d # e \/ z # s => sends'[d][z] = sends[d][z]
      BY <1>5, <1>6, <2>4
    <2>6. \A d \in Box!Events, z \in Ports : sends[d][z] > 0 => sends'[d][z] > 0
      BY <2>5
    <2>7. Holds(x)'
      <3>1. x.batch \subseteq DOMAIN rows' /\ x.batch # {}
        BY <1>1, <1>2, <2>2 DEF Holds
      <3>2. (Box!Min(x.batch))' = n
        BY <1>3, <2>2 DEF Box!Min
      <3>3. sends'[rows'[n].event][rows'[n].sink] > 0
        BY <1>2, <1>4, <2>5
      <3> QED BY <3>1, <3>2, <3>3 DEF Holds
    <2> QED BY <1>2, <1>5, <1>6, <2>2, <2>3, <2>5, <2>6, <2>7, SameDeliveries
  <1>7. CASE /\ fails > 0 /\ fails' = fails - 1 /\ UNCHANGED sends
             /\ crashesTick' = [crashesTick EXCEPT ![t].at = "refused"]
    <2>1. PICK x : x = [r EXCEPT !.at = "refused"]
      OBVIOUS
    <2>2. x \in BoxRecord /\ x.at = "refused" /\ x.batch = r.batch
      BY <2>1 DEF BoxRecord, BoxSteps
    <2>3. crashesTick' = [crashesTick EXCEPT ![t] = x]
      BY <1>1, <1>7, <2>1 DEF BoxInv, BoxTypes
    <2>4. Holds(x)'
      BY <1>1, <1>2, <2>2 DEF Holds
    <2>5. fails' \in 0..SinkFailures
      BY <1>5, <1>7 DEF Box!OutboxAssumption
    <2> QED BY <1>2, <1>5, <1>7, <2>2, <2>3, <2>4, <2>5, SameDeliveries
  <1> QED BY <1>3, <1>4, <1>6, <1>7, Zenon DEF Box!Send

\* One delivery is updated: it keeps its event and its sink, and becomes "sent"
\* only if the sink has it.
LEMMA RowChanges ==
    ASSUME BoxInv, NEW n \in DOMAIN rows, NEW w \in RowRecord, rows' = [rows EXCEPT ![n] = w],
           w.event = rows[n].event, w.sink = rows[n].sink, UNCHANGED sends,
           w.status = "sent" => rows[n].status = "sent" \/ sends[w.event][w.sink] > 0
    PROVE  /\ rows' \in Seq(RowRecord) /\ RowsLast /\ DOMAIN rows' = DOMAIN rows
           /\ Box!OneRowPerSink' /\ Box!SentIsReal'
           /\ rows'[n] = w /\ \A m \in DOMAIN rows : m # n => rows'[m] = rows[m]
  <1>1. rows \in Seq(RowRecord)
    BY DEF BoxInv, BoxTypes
  <1>2. /\ rows' \in Seq(RowRecord) /\ DOMAIN rows' = DOMAIN rows
        /\ rows'[n] = w /\ \A m \in DOMAIN rows : m # n => rows'[m] = rows[m]
    BY <1>1
  <1>3. \A m \in DOMAIN rows : rows'[m].event = rows[m].event /\ rows'[m].sink = rows[m].sink
    BY <1>2
  <1>4. RowsLast
    BY <1>2, <1>3 DEF RowsLast
  <1>5. Box!OneRowPerSink'
    BY <1>2, <1>3 DEF BoxInv, Box!OneRowPerSink
  <1>6. Box!SentIsReal'
    <2> SUFFICES ASSUME NEW m \in DOMAIN rows, rows'[m].status = "sent"
                 PROVE  sends[rows[m].event][rows[m].sink] > 0
      BY <1>2, <1>3 DEF Box!SentIsReal
    <2> QED BY <1>2 DEF BoxInv, Box!SentIsReal
  <1> QED BY <1>2, <1>4, <1>5, <1>6

LEMMA MarksKeep ==
    ASSUME Box!OutboxAssumption, BoxInv, NEW t \in Tickers,
           Box!MarkSent(t) \/ Box!MarkFailed(t)
    PROVE  BoxInv'
  <1>1. PICK r \in BoxRecord :
               /\ r = crashesTick[t] /\ Holds(r) /\ r.at \in BoxSteps /\ r.kinds \subseteq Box!Kinds
               /\ r.found \subseteq Box!Events /\ r.batch \subseteq Nat
               /\ r.batch # {} => /\ Box!Min(r.batch) \in r.batch
                                  /\ Box!Min(r.batch) \in DOMAIN rows
    BY TickTyped
  <1>2. /\ r.at \in {"accepted", "refused"} /\ r.batch # {}
        /\ UNCHANGED <<open, enabled, fails, sends>>
        /\ crashesTick' = [crashesTick EXCEPT ![t].at = "sending", ![t].batch = Box!Rest(t)]
    BY <1>1 DEF Box!MarkSent, Box!MarkFailed, Holds
  <1>3. PICK n \in DOMAIN rows : n = Box!Min(r.batch) /\ n = Box!Current(t)
    BY <1>1, <1>2 DEF Box!Current
  <1>4. PICK q \in RowRecord : q = rows[n]
    BY <1>3, RowTyped DEF BoxInv
  <1>5. PICK x : x = [r EXCEPT !.at = "sending", !.batch = Box!Rest(t)]
    OBVIOUS
  <1>6. Box!Rest(t) \subseteq r.batch
    BY <1>1 DEF Box!Rest
  <1>7. x \in BoxRecord /\ x.at = "sending" /\ x.batch \subseteq r.batch
    BY <1>1, <1>5, <1>6 DEF BoxRecord, BoxSteps
  <1>8. crashesTick' = [crashesTick EXCEPT ![t] = x]
    BY <1>1, <1>2, <1>5 DEF BoxInv, BoxTypes
  <1>9. /\ open' \subseteq Box!Events /\ enabled' \subseteq Box!Kinds /\ fails' \in 0..SinkFailures
        /\ sends' \in [Box!Events -> [Ports -> 0..2]] /\ sends' = sends /\ rows \in Seq(RowRecord)
    BY <1>2 DEF BoxInv, BoxTypes
  <1>10. ASSUME NEW w \in RowRecord, rows' = [rows EXCEPT ![n] = w],
                w.event = q.event, w.sink = q.sink,
                w.status = "sent" => q.status = "sent" \/ sends[w.event][w.sink] > 0
         PROVE  BoxInv'
    <2>1. /\ rows' \in Seq(RowRecord) /\ RowsLast /\ DOMAIN rows' = DOMAIN rows
          /\ Box!OneRowPerSink' /\ Box!SentIsReal'
      BY <1>2, <1>4, <1>10, RowChanges
    <2>2. Holds(x)'
      BY <1>1, <1>7, <2>1 DEF Holds
    <2> QED BY <1>7, <1>8, <1>9, <2>1, <2>2, BoxMoves
  <1>11. CASE Box!MarkSent(t)
    <2>1. rows' = [rows EXCEPT ![n].status = "sent"] /\ r.at = "accepted"
      BY <1>1, <1>3, <1>11 DEF Box!MarkSent
    <2>2. PICK w : w = [q EXCEPT !.status = "sent"]
      OBVIOUS
    <2>3. w \in RowRecord /\ w.event = q.event /\ w.sink = q.sink
      BY <2>2 DEF RowRecord
    <2>4. rows' = [rows EXCEPT ![n] = w]
      BY <1>4, <1>9, <2>1, <2>2
    <2>5. sends[w.event][w.sink] > 0
      BY <1>1, <1>3, <1>4, <2>1, <2>3 DEF Holds
    <2> QED BY <1>10, <2>3, <2>4, <2>5
  <1>12. CASE Box!MarkFailed(t)
    <2>1. CASE q.status = "sent"
      <3>1. rows' = rows
        BY <1>3, <1>4, <1>12, <2>1, Zenon DEF Box!MarkFailed
      <3>2. rows' = [rows EXCEPT ![n] = q]
        BY <1>4, <1>9, <3>1
      <3> QED BY <1>10, <2>1, <3>2
    <2>2. CASE q.status # "sent"
      <3>1. PICK left \in Box!Delays(rows[n].tries) :
                rows' = [rows EXCEPT ![n].wait = left,
                            ![n].tries = IF rows[n].tries < MaxDelay THEN rows[n].tries + 1
                                         ELSE rows[n].tries]
        BY <1>3, <1>4, <1>12, <2>2, Zenon DEF Box!MarkFailed
      <3>2. left \in 0..MaxDelay
        BY <3>1, Zenon DEF Box!Delays
      <3>3. PICK k : k = IF q.tries < MaxDelay THEN q.tries + 1 ELSE q.tries
        OBVIOUS
      <3>4. k \in 0..MaxDelay
        BY <3>3 DEF RowRecord, Box!OutboxAssumption
      <3>5. PICK w : w = [q EXCEPT !.wait = left, !.tries = k]
        OBVIOUS
      <3>6. w \in RowRecord /\ w.event = q.event /\ w.sink = q.sink /\ w.status = q.status
        BY <3>2, <3>4, <3>5 DEF RowRecord
      <3>7. rows' = [rows EXCEPT ![n] = w]
        BY <1>4, <1>9, <3>1, <3>3, <3>5
      <3> QED BY <1>10, <3>6, <3>7
    <2> QED BY <2>1, <2>2
  <1> QED BY <1>11, <1>12

LEMMA MarksChange ==
    ASSUME BoxInv, NEW t \in Tickers, Box!MarkSent(t) \/ Box!MarkFailed(t),
           NEW n \in DOMAIN rows, n = Box!Min(crashesTick[t].batch)
    PROVE  /\ RowsLast
           /\ \A m \in DOMAIN rows : m # n => rows'[m] = rows[m]
           /\ rows'[n].status = rows[n].status \/ rows'[n].status = "sent"
           /\ crashesTick[t].at = "accepted" => rows'[n].status = "sent"
  <1>1. n = Box!Current(t) /\ rows \in Seq(RowRecord) /\ UNCHANGED sends
    BY DEF Box!Current, BoxInv, BoxTypes, Box!MarkSent, Box!MarkFailed
  <1>2. PICK q \in RowRecord : q = rows[n]
    BY RowTyped DEF BoxInv
  <1>3. ASSUME NEW w \in RowRecord, rows' = [rows EXCEPT ![n] = w],
               w.event = q.event, w.sink = q.sink
        PROVE  /\ RowsLast /\ rows'[n] = w
               /\ \A m \in DOMAIN rows : m # n => rows'[m] = rows[m]
    <2>1. /\ DOMAIN rows' = DOMAIN rows /\ rows'[n] = w
          /\ \A m \in DOMAIN rows : m # n => rows'[m] = rows[m]
      BY <1>1, <1>3
    <2> QED BY <1>1, <1>2, <1>3, <2>1 DEF RowsLast
  <1>4. CASE Box!MarkSent(t)
    <2>1. rows' = [rows EXCEPT ![n].status = "sent"]
      BY <1>1, <1>4 DEF Box!MarkSent
    <2>2. PICK w : w = [q EXCEPT !.status = "sent"]
      OBVIOUS
    <2>3. w \in RowRecord /\ w.event = q.event /\ w.sink = q.sink /\ w.status = "sent"
      BY <2>2 DEF RowRecord
    <2>4. rows' = [rows EXCEPT ![n] = w]
      BY <1>1, <1>2, <2>1, <2>2
    <2> QED BY <1>3, <2>3, <2>4
  <1>5. CASE Box!MarkFailed(t)
    <2>0. crashesTick[t].at # "accepted"
      BY <1>5 DEF Box!MarkFailed
    <2>1. CASE q.status = "sent"
      <3>1. rows' = rows
        BY <1>1, <1>2, <1>5, <2>1, Zenon DEF Box!MarkFailed
      <3> QED BY <1>1, <2>0, <3>1 DEF RowsLast
    <2>2. CASE q.status # "sent"
      <3>1. PICK left \in Box!Delays(rows[n].tries) :
                rows' = [rows EXCEPT ![n].wait = left,
                            ![n].tries = IF rows[n].tries < MaxDelay THEN rows[n].tries + 1
                                         ELSE rows[n].tries]
        BY <1>1, <1>2, <1>5, <2>2, Zenon DEF Box!MarkFailed
      <3>2. PICK k : k = IF q.tries < MaxDelay THEN q.tries + 1 ELSE q.tries
        OBVIOUS
      <3>3. PICK w : w = [q EXCEPT !.wait = left, !.tries = k]
        OBVIOUS
      <3>4. w.event = q.event /\ w.sink = q.sink /\ w.status = q.status
        BY <3>3 DEF RowRecord
      <3>5. rows' = [rows EXCEPT ![n] = w]
        BY <1>1, <1>2, <3>1, <3>2, <3>3
      <3>6. /\ DOMAIN rows' = DOMAIN rows /\ rows'[n] = w
            /\ \A m \in DOMAIN rows : m # n => rows'[m] = rows[m]
        BY <1>1, <3>5
      <3>7. RowsLast
        BY <1>1, <1>2, <3>4, <3>6 DEF RowsLast
      <3> QED BY <1>2, <2>0, <3>4, <3>6, <3>7
    <2> QED BY <2>1, <2>2
  <1> QED BY <1>4, <1>5

LEMMA OutsideLeaves ==
    ASSUME Box!OutboxAssumption, BoxInv,
           \/ \E e \in Box!Events : Box!Appears(e) \/ Box!Closes(e)
           \/ \E kind \in Box!Kinds : Box!TurnOff(kind)
           \/ Box!TimePasses \/ UNCHANGED Box!vars
    PROVE  /\ rows' \in Seq(RowRecord) /\ DOMAIN rows' = DOMAIN rows
           /\ \A n \in DOMAIN rows : /\ rows'[n].event = rows[n].event /\ rows'[n].sink = rows[n].sink
                                     /\ rows'[n].status = rows[n].status
  <1>1. CASE rows' = rows
    BY <1>1 DEF BoxInv, BoxTypes
  <1>2. CASE Box!TimePasses
    <2>1. rows' = [n \in DOMAIN rows |->
                      [rows[n] EXCEPT !.wait = IF rows[n].wait > 0 THEN rows[n].wait - 1 ELSE 0]]
      BY <1>2 DEF Box!TimePasses
    <2>2. ASSUME NEW n \in DOMAIN rows
          PROVE  /\ rows'[n] \in RowRecord
                 /\ rows'[n].event = rows[n].event /\ rows'[n].sink = rows[n].sink
                 /\ rows'[n].status = rows[n].status
      <3>1. PICK q \in RowRecord : q = rows[n]
        BY RowTyped DEF BoxInv
      <3>2. PICK k : k = IF q.wait > 0 THEN q.wait - 1 ELSE 0
        OBVIOUS
      <3>3. k \in 0..MaxDelay
        BY <3>2 DEF RowRecord, Box!OutboxAssumption
      <3>4. rows'[n] = [q EXCEPT !.wait = k]
        BY <2>1, <3>1, <3>2
      <3> QED BY <3>1, <3>3, <3>4 DEF RowRecord
    <2>3. DOMAIN rows = 1..Len(rows) /\ Len(rows) \in Nat
      BY DEF BoxInv, BoxTypes
    <2> QED BY <2>1, <2>2, <2>3
  <1> QED BY <1>1, <1>2 DEF Box!Appears, Box!Closes, Box!TurnOff, Box!vars

LEMMA OutsideKeeps ==
    ASSUME Box!OutboxAssumption, BoxInv,
           \/ \E e \in Box!Events : Box!Appears(e) \/ Box!Closes(e)
           \/ \E kind \in Box!Kinds : Box!TurnOff(kind)
           \/ Box!TimePasses \/ UNCHANGED Box!vars
    PROVE  BoxInv'
  <1>1. UNCHANGED <<crashesTick, fails, sends>>
    BY DEF Box!Appears, Box!Closes, Box!TurnOff, Box!TimePasses, Box!vars
  <1>2. open' \subseteq Box!Events /\ enabled' \subseteq Box!Kinds
    BY DEF BoxInv, BoxTypes, Box!Appears, Box!Closes, Box!TurnOff, Box!TimePasses, Box!vars
  <1>3. /\ rows' \in Seq(RowRecord) /\ DOMAIN rows' = DOMAIN rows
        /\ \A n \in DOMAIN rows : /\ rows'[n].event = rows[n].event /\ rows'[n].sink = rows[n].sink
                                  /\ rows'[n].status = rows[n].status
    BY OutsideLeaves
  <1>4. RowsLast
    BY <1>1, <1>3 DEF RowsLast
  <1>5. BoxTypes'
    BY <1>1, <1>2, <1>3 DEF BoxInv, BoxTypes, RowRecord, Box!Events, Box!Kinds
  <1>6. Box!OneRowPerSink' /\ Box!SentIsReal'
    BY <1>1, <1>3 DEF BoxInv, Box!OneRowPerSink, Box!SentIsReal
  <1>7. ASSUME NEW t \in Tickers PROVE Holds(crashesTick[t])'
    <2>1. PICK x \in BoxRecord : x = crashesTick[t] /\ Holds(x)
      BY DEF BoxInv, BoxTypes
    <2>2. Holds(x)'
      BY <1>4, <2>1, HoldsStays DEF BoxInv
    <2> QED BY <1>1, <2>1, <2>2 DEF Holds
  <1> QED BY <1>5, <1>6, <1>7 DEF BoxInv

LEMMA BoxStep ==
    ASSUME Box!OutboxAssumption, BoxInv, [Box!Next]_(Box!vars)
    PROVE  BoxInv'
  <1>1. ASSUME NEW t \in Tickers, Box!Tick(t) \/ Box!Crash(t)
        PROVE  BoxInv'
    BY <1>1, ScanReadEnd, InsertKeeps, SendKeeps, MarksKeep DEF Box!Tick
  <1>2. CASE \/ \E e \in Box!Events : Box!Appears(e) \/ Box!Closes(e)
             \/ \E kind \in Box!Kinds : Box!TurnOff(kind)
             \/ Box!TimePasses \/ UNCHANGED Box!vars
    BY <1>2, OutsideKeeps
  <1> QED BY <1>1, <1>2 DEF Box!Next

LEMMA BoxStarts ==
    ASSUME Box!OutboxAssumption, Box!Init
    PROVE  BoxInv
  <1>1. PICK x : x = Box!Idle
    OBVIOUS
  <1>2. x = [at |-> "idle", kinds |-> {}, found |-> {}, batch |-> {}]
    BY <1>1 DEF Box!Idle
  <1>3. x \in BoxRecord /\ Holds(x)
    BY <1>2 DEF BoxRecord, BoxSteps, Holds
  <1>4. crashesTick = [t \in Tickers |-> x] /\ rows = <<>>
    BY <1>1 DEF Box!Init
  <1>5. BoxTypes
    BY <1>3, <1>4 DEF BoxTypes, Box!Init, Box!OutboxAssumption
  <1>6. \A t \in Tickers : crashesTick[t] = x
    BY <1>4
  <1>7. \A t \in Tickers : Holds(crashesTick[t])
    BY <1>3, <1>6
  <1>8. Box!OneRowPerSink /\ Box!SentIsReal
    BY <1>4 DEF Box!OneRowPerSink, Box!SentIsReal
  <1> QED BY <1>5, <1>7, <1>8 DEF BoxInv

\* An event has one delivery per sink and what is recorded as sent was accepted,
\* however many ticks overlap, wherever a process dies and whatever the sinks
\* answer (enqueue_notification_candidates, mark_notification_sent and _failed).
THEOREM OutboxKeepsItsBooks ==
    ASSUME Box!OutboxAssumption
    PROVE  Box!Spec => [](Box!TypeOK /\ Box!OneRowPerSink /\ Box!SentIsReal)
  <1>1. BoxInv => Box!TypeOK /\ Box!OneRowPerSink /\ Box!SentIsReal
    <2> SUFFICES ASSUME BoxInv PROVE Box!TypeOK
      BY DEF BoxInv
    <2> QED BY DEF BoxInv, BoxTypes, BoxRecord, BoxSteps, RowRecord, Holds, Box!TypeOK
  <1> QED BY <1>1, BoxStarts, BoxStep, PTL DEF Box!Spec

\* One process that ticks and does not die: its deliveries wait to be sent, and
\* what a sink has once is recorded or about to be.
OnceFor(x) ==
    /\ \A n \in x.batch : rows[n].status = "pending"
    /\ \A e \in Box!Events, s \in Ports :
          /\ sends[e][s] < 2
          /\ sends[e][s] > 0 =>
                \E n \in DOMAIN rows :
                    /\ rows[n].event = e /\ rows[n].sink = s
                    /\ rows[n].status = "sent" \/ (x.at = "accepted" /\ n = Box!Min(x.batch))

LEMMA OnceStays ==
    ASSUME BoxInv, RowsLast, NEW x \in BoxRecord, OnceFor(x), NEW y \in BoxRecord, UNCHANGED sends,
           \A n \in DOMAIN rows :
               \/ rows'[n].status = rows[n].status
               \/ rows'[n].status = "sent",
           \A n \in y.batch : rows'[n].status = "pending",
           x.at = "accepted" =>
               LET n == Box!Min(x.batch)
               IN  rows'[n].status = "sent" \/ (y.at = "accepted" /\ n = Box!Min(y.batch))
    PROVE  OnceFor(y)'
  <1>0. (Box!Min(y.batch))' = Box!Min(y.batch)
    BY DEF Box!Min
  <1> SUFFICES ASSUME NEW e \in Box!Events, NEW s \in Ports
               PROVE  /\ sends[e][s] < 2
                      /\ sends[e][s] > 0 =>
                            \E n \in DOMAIN rows' :
                                /\ rows'[n].event = e /\ rows'[n].sink = s
                                /\ \/ rows'[n].status = "sent"
                                   \/ y.at = "accepted" /\ n = Box!Min(y.batch)
    BY <1>0 DEF OnceFor, Box!Events
  <1>1. sends[e][s] < 2
    BY DEF OnceFor
  <1>2. ASSUME sends[e][s] > 0
        PROVE  \E n \in DOMAIN rows' :
                   /\ rows'[n].event = e /\ rows'[n].sink = s
                   /\ \/ rows'[n].status = "sent"
                      \/ y.at = "accepted" /\ n = Box!Min(y.batch)
    <2>1. PICK n \in DOMAIN rows :
              /\ rows[n].event = e /\ rows[n].sink = s
              /\ rows[n].status = "sent" \/ (x.at = "accepted" /\ n = Box!Min(x.batch))
      BY <1>2 DEF OnceFor
    <2>2. n \in DOMAIN rows' /\ rows'[n].event = e /\ rows'[n].sink = s
      BY <2>1 DEF RowsLast
    <2>3. rows'[n].status = "sent" \/ (y.at = "accepted" /\ n = Box!Min(y.batch))
      BY <2>1
    <2> QED BY <2>2, <2>3
  <1> QED BY <1>1, <1>2

LEMMA OnceStep ==
    ASSUME Box!OutboxAssumption, BoxInv, NEW t, Tickers = {t}, ~MayCrash,
           OnceFor(crashesTick[t]), [Box!Next]_(Box!vars)
    PROVE  OnceFor(crashesTick[t])'
  <1>0. t \in Tickers /\ BoxInv'
    BY BoxStep
  <1>1. PICK r \in BoxRecord :
               /\ r = crashesTick[t] /\ Holds(r) /\ r.at \in BoxSteps /\ r.kinds \subseteq Box!Kinds
               /\ r.found \subseteq Box!Events /\ r.batch \subseteq Nat
               /\ r.batch # {} => /\ Box!Min(r.batch) \in r.batch
                                  /\ Box!Min(r.batch) \in DOMAIN rows
    BY <1>0, TickTyped
  <1>2. OnceFor(r)
    BY <1>1 DEF OnceFor
  <1>3. PICK y \in BoxRecord : y = crashesTick'[t]
    BY <1>0 DEF BoxInv, BoxTypes
  <1>4. ASSUME OnceFor(y)' PROVE OnceFor(crashesTick[t])'
    BY <1>3, <1>4 DEF OnceFor
  <1>5. ASSUME UNCHANGED <<rows, sends>>, r.at # "accepted",
               \A n \in y.batch : rows[n].status = "pending"
        PROVE  OnceFor(crashesTick[t])'
    <2>1. RowsLast
      BY <1>5 DEF RowsLast
    <2>2. OnceFor(y)'
      BY <1>2, <1>5, <2>1, OnceStays
    <2> QED BY <1>4, <2>2
  <1>6. CASE Box!Scan(t) \/ Box!TickEnds(t)
    <2>1. UNCHANGED <<rows, sends>> /\ r.at # "accepted"
      BY <1>1, <1>6 DEF Box!Scan, Box!TickEnds
    <2>2. y.batch = {}
      <3>1. PICK i : i = [at |-> "idle", kinds |-> {}, found |-> {}, batch |-> {}]
        OBVIOUS
      <3>2. Box!Idle = i
        BY <3>1 DEF Box!Idle
      <3>3. \A k, f : [i EXCEPT !.at = "scanned", !.kinds = k, !.found = f].batch = {}
        BY <3>1
      <3>4. i.batch = {}
        BY <3>1
      <3>5. CASE Box!Scan(t)
        <4>1. \E k, f : crashesTick' = [crashesTick EXCEPT ![t] =
                           [i EXCEPT !.at = "scanned", !.kinds = k, !.found = f]]
          BY <3>2, <3>5, Zenon DEF Box!Scan
        <4>2. \E k, f : y = [i EXCEPT !.at = "scanned", !.kinds = k, !.found = f]
          BY <1>0, <1>3, <4>1, ZenonT(40) DEF BoxInv, BoxTypes
        <4> QED BY <3>3, <4>2
      <3>6. CASE Box!TickEnds(t)
        <4>1. y = i
          BY <1>0, <1>3, <3>2, <3>6 DEF Box!TickEnds, BoxInv, BoxTypes
        <4> QED BY <3>4, <4>1
      <3> QED BY <1>6, <3>5, <3>6
    <2> QED BY <1>5, <2>1, <2>2
  <1>7. CASE Box!Insert(t)
    <2>1. rows \in Seq(RowRecord)
      BY DEF BoxInv, BoxTypes
    <2>2. r.at # "accepted" /\ UNCHANGED sends /\ y.batch = r.batch
      BY <1>0, <1>1, <1>3, <1>7 DEF Box!Insert, BoxInv, BoxTypes
    <2>3. DOMAIN rows \subseteq DOMAIN rows' /\ \A n \in DOMAIN rows : rows'[n] = rows[n]
      BY <1>0, <1>7, InsertKeeps
    <2>4. RowsLast
      BY <2>2, <2>3 DEF RowsLast
    <2>5. \A n \in y.batch : rows'[n].status = "pending"
      BY <1>1, <1>2, <2>2, <2>3 DEF OnceFor, Holds
    <2>6. OnceFor(y)'
      BY <1>2, <2>2, <2>3, <2>4, <2>5, OnceStays
    <2> QED BY <1>4, <2>6
  <1>8. CASE Box!Read(t)
    <2>1. UNCHANGED <<rows, sends>> /\ r.at # "accepted"
      BY <1>1, <1>8 DEF Box!Read
    <2>2. \A n \in y.batch : Box!Due(n)
      <3> DEFINE due == {n \in DOMAIN rows : Box!Due(n)}
                 b == {n \in due : Box!Cardinality({m \in due : m < n}) < Batch}
      <3>1. \A n \in b : Box!Due(n)
        OBVIOUS
      <3>2. crashesTick' = [crashesTick EXCEPT ![t].at = "sending", ![t].batch = b]
        BY <1>8, Zenon DEF Box!Read
      <3> HIDE DEF b
      <3>3. y.batch = b
        BY <1>0, <1>1, <1>3, <3>2 DEF BoxInv, BoxTypes, BoxRecord
      <3> QED BY <3>1, <3>3
    <2>3. \A n \in y.batch : rows[n].status = "pending"
      BY <2>2 DEF Box!Due
    <2> QED BY <1>5, <2>1, <2>3
  <1>9. CASE Box!Pass(t)
    <2>1. UNCHANGED <<rows, sends>> /\ r.at # "accepted"
      BY <1>1, <1>9 DEF Box!Pass
    <2>2. y.batch \subseteq r.batch
      BY <1>0, <1>1, <1>3, <1>9 DEF Box!Pass, Box!Rest, BoxInv, BoxTypes, BoxRecord
    <2> QED BY <1>2, <1>5, <2>1, <2>2 DEF OnceFor
  <1>10. CASE Box!Send(t)
    <2>1. r.at = "sending" /\ r.batch # {} /\ UNCHANGED <<open, enabled, rows>>
      BY <1>1, <1>10 DEF Box!Send
    <2>2. PICK n \in DOMAIN rows : n = Box!Min(r.batch) /\ n = Box!Current(t)
      BY <1>1, <2>1 DEF Box!Current
    <2>3. PICK e \in Box!Events, s \in Ports : e = rows[n].event /\ s = rows[n].sink
      BY <2>2, RowTyped DEF BoxInv
    <2>4. CASE UNCHANGED sends /\ crashesTick' = [crashesTick EXCEPT ![t].at = "refused"]
      <3>1. y.batch = r.batch
        BY <1>0, <1>1, <1>3, <2>4 DEF BoxInv, BoxTypes, BoxRecord
      <3> QED BY <1>2, <1>5, <2>1, <2>4, <3>1 DEF OnceFor
    <2>5. CASE /\ sends' = [sends EXCEPT ![e][s] = Box!Counted(@)]
               /\ crashesTick' = [crashesTick EXCEPT ![t].at = "accepted"]
      <3>1. y.batch = r.batch /\ y.at = "accepted"
        BY <1>0, <1>1, <1>3, <2>5 DEF BoxInv, BoxTypes, BoxRecord
      <3>2. rows[n].status = "pending"
        BY <1>1, <1>2, <2>1, <2>2 DEF OnceFor
      <3>3. ~(sends[e][s] > 0)
        <4> SUFFICES ASSUME sends[e][s] > 0 PROVE FALSE
          OBVIOUS
        <4>1. PICK m \in DOMAIN rows :
                  rows[m].event = e /\ rows[m].sink = s /\ rows[m].status = "sent"
          BY <1>2, <2>1 DEF OnceFor
        <4>2. m = n
          BY <2>3, <4>1 DEF BoxInv, Box!OneRowPerSink
        <4> QED BY <3>2, <4>1, <4>2
      <3>4. sends \in [Box!Events -> [Ports -> 0..2]]
        BY DEF BoxInv, BoxTypes
      <3>5. /\ sends'[e][s] = 1
            /\ \A d \in Box!Events, z \in Ports : d # e \/ z # s => sends'[d][z] = sends[d][z]
        <4>1. Box!Counted(sends[e][s]) = 1
          BY <3>3, <3>4 DEF Box!Counted
        <4> QED BY <2>5, <3>4, <4>1
      <3>6. (Box!Min(y.batch))' = n
        BY <2>2, <3>1 DEF Box!Min
      <3>7. ASSUME NEW d \in Box!Events, NEW z \in Ports
            PROVE  /\ sends'[d][z] < 2
                   /\ sends'[d][z] > 0 =>
                         \E m \in DOMAIN rows' :
                             /\ rows'[m].event = d /\ rows'[m].sink = z
                             /\ \/ rows'[m].status = "sent"
                                \/ y.at = "accepted" /\ m = n
        <4>1. CASE d = e /\ z = s
          BY <2>1, <2>3, <3>1, <3>5, <4>1
        <4>2. CASE d # e \/ z # s
          <5>1. sends'[d][z] = sends[d][z]
            BY <3>5, <4>2
          <5>2. /\ sends[d][z] < 2
                /\ sends[d][z] > 0 =>
                      \E m \in DOMAIN rows :
                          /\ rows[m].event = d /\ rows[m].sink = z /\ rows[m].status = "sent"
            BY <1>2, <2>1 DEF OnceFor
          <5> QED BY <2>1, <5>1, <5>2
        <4> QED BY <4>1, <4>2
      <3>8. \A m \in y.batch : rows'[m].status = "pending"
        BY <1>2, <2>1, <3>1 DEF OnceFor
      <3>9. OnceFor(y)'
        BY <3>6, <3>7, <3>8 DEF OnceFor, Box!Events
      <3> QED BY <1>4, <3>9
    <2> QED BY <1>10, <2>2, <2>3, <2>4, <2>5, Zenon DEF Box!Send
  <1>11. CASE Box!MarkSent(t) \/ Box!MarkFailed(t)
    <2>1. /\ r.at \in {"accepted", "refused"} /\ r.batch # {} /\ UNCHANGED sends
          /\ crashesTick' = [crashesTick EXCEPT ![t].at = "sending", ![t].batch = Box!Rest(t)]
      BY <1>1, <1>11 DEF Box!MarkSent, Box!MarkFailed, Holds
    <2>2. PICK n \in DOMAIN rows : n = Box!Min(r.batch) /\ n = Box!Current(t)
      BY <1>1, <2>1 DEF Box!Current
    <2>3. y.at = "sending" /\ y.batch = r.batch \ {n}
      BY <1>0, <1>1, <1>3, <2>1, <2>2 DEF BoxInv, BoxTypes, BoxRecord, Box!Rest
    <2>4. /\ RowsLast
          /\ \A m \in DOMAIN rows : m # n => rows'[m] = rows[m]
          /\ rows'[n].status = rows[n].status \/ rows'[n].status = "sent"
          /\ r.at = "accepted" => rows'[n].status = "sent"
      BY <1>0, <1>1, <1>11, <2>2, MarksChange
    <2>5. \A m \in y.batch : rows'[m].status = "pending"
      BY <1>1, <1>2, <2>3, <2>4 DEF OnceFor, Holds
    <2>6. \A m \in DOMAIN rows : rows'[m].status = rows[m].status \/ rows'[m].status = "sent"
      BY <2>4
    <2>7. OnceFor(y)'
      BY <1>2, <2>1, <2>2, <2>4, <2>5, <2>6, OnceStays
    <2> QED BY <1>4, <2>7
  <1>12. CASE \/ \E e \in Box!Events : Box!Appears(e) \/ Box!Closes(e)
              \/ \E kind \in Box!Kinds : Box!TurnOff(kind)
              \/ Box!TimePasses \/ UNCHANGED Box!vars
    <2>1. UNCHANGED <<crashesTick, sends>> /\ y = r
      BY <1>1, <1>3, <1>12 DEF Box!Appears, Box!Closes, Box!TurnOff, Box!TimePasses, Box!vars
    <2>2. /\ DOMAIN rows' = DOMAIN rows
          /\ \A n \in DOMAIN rows : /\ rows'[n].event = rows[n].event /\ rows'[n].sink = rows[n].sink
                                    /\ rows'[n].status = rows[n].status
      BY <1>12, OutsideLeaves
    <2>3. RowsLast
      BY <2>1, <2>2 DEF RowsLast
    <2>4. \A n \in y.batch : rows'[n].status = "pending"
      BY <1>1, <1>2, <2>1, <2>2 DEF OnceFor, Holds
    <2>5. OnceFor(y)'
      BY <1>2, <2>1, <2>2, <2>3, <2>4, OnceStays
    <2> QED BY <1>4, <2>5
  <1> QED
    <2>1. \A u \in Tickers : u = t /\ ~Box!Crash(u)
      BY DEF Box!Crash
    <2> QED BY <1>6, <1>7, <1>8, <1>9, <1>10, <1>11, <1>12, <2>1 DEF Box!Next, Box!Tick

\* One process that ticks gives every sink an event once, however the other sinks
\* fail and however often it is repeated
\* (HHAutopilotScheduler._deliver_notifications, due_notification_deliveries).
THEOREM OneTickerDeliversOnce ==
    ASSUME Box!OutboxAssumption, NEW CONSTANT t, Tickers = {t}, ~MayCrash
    PROVE  Box!Spec => []Box!DeliveredOnce
  <1>1. Box!Init => OnceFor(crashesTick[t])
    <2> SUFFICES ASSUME Box!Init PROVE OnceFor(crashesTick[t])
      OBVIOUS
    <2>1. crashesTick[t] = Box!Idle /\ rows = <<>>
          /\ sends = [e \in Box!Events |-> [s \in Ports |-> 0]]
      BY DEF Box!Init
    <2>2. Box!Idle.batch = {}
      BY DEF Box!Idle
    <2> QED BY <2>1, <2>2 DEF OnceFor
  <1>2. OnceFor(crashesTick[t]) => Box!DeliveredOnce
    BY DEF OnceFor, Box!DeliveredOnce
  <1>3. BoxInv /\ OnceFor(crashesTick[t]) /\ [Box!Next]_(Box!vars) => OnceFor(crashesTick[t])'
    BY OnceStep
  <1> QED BY <1>1, <1>2, <1>3, BoxStarts, BoxStep, PTL DEF Box!Spec
==============================================================================
