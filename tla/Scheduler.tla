----------------------------- MODULE Scheduler -----------------------------
(***************************************************************************)
(* The autopilot's scheduler tick (hh_autopilot/scheduler.py): for every   *)
(* account in turn it decides from the clock whether a scheduled run is    *)
(* due, claims the slot and runs the engine, or runs it for work that is   *)
(* waiting.  Ticks of several processes may overlap, and a tick keeps the  *)
(* instant it began with although the engine may run for hours.            *)
(***************************************************************************)
EXTENDS Naturals, FiniteSets, FiniteSetsExt

CONSTANTS
    Accounts,       \* number of accounts, in the order of the settings
    Tickers,        \* processes that may be in a tick
    Day,            \* length of a day
    OpenFrom, OpenTo,   \* first and last moment of the daily window
    Days,           \* days of the week (0 .. Week - 1) on which it opens
    Week,           \* days in a week
    Interval,       \* schedule.interval_minutes
    MaxTime,        \* bound on the clock
    MayRaise        \* whether engine.run may raise

SchedulerAssumption ==
    /\ {Accounts, Day, Week, Interval, MaxTime} \subseteq Nat \ {0}
    /\ {OpenFrom, OpenTo} \subseteq 0 .. Day - 1 /\ OpenFrom <= OpenTo
    /\ Days \subseteq 0 .. Week - 1 /\ Days # {}
    /\ IsFiniteSet(Tickers) /\ MayRaise \in BOOLEAN

Accs == 1 .. Accounts
Never == MaxTime + 1    \* "" in last_scheduled_at

VARIABLES
    now,        \* wall clock
    last, next, \* last_scheduled_at and next_scheduled_at per account
    leased,     \* accounts whose lease is active
    blocked,    \* blocked_until per account
    allowed,    \* accounts that are enabled, not paused and hold a current grant
    work,       \* accounts with ready items or retries that are due
    tick        \* per process: where it is, its instant, its account, who was excused

vars == <<now, last, next, leased, blocked, allowed, work, tick>>

Idle == [at |-> "idle", instant |-> 0, acc |-> 1, trigger |-> "none", excused |-> {}]

Init ==
    /\ now = 0
    /\ last = [a \in Accs |-> Never] /\ next = [a \in Accs |-> Never]
    /\ leased = {} /\ blocked = [a \in Accs |-> 0]
    /\ allowed = Accs /\ work = {}
    /\ tick = [t \in Tickers |-> Idle]

----------------------------------------------------------------------------
(* SchedulePolicy.                                                         *)

IsWindowOpen(t) ==
    /\ (t \div Day) % Week \in Days
    /\ OpenFrom <= t % Day /\ t % Day <= OpenTo

IsDue(a, t) ==
    IsWindowOpen(t) /\ (last[a] = Never \/ t >= last[a] + Interval)

\* _advance_to_window: day by day to the first configured one that is not over.
AdvanceToWindow(t) ==
    LET day == t \div Day
        fits(k) == /\ (day + k) % Week \in Days
                   /\ k = 0 => t % Day <= OpenTo
        k == Min({i \in 0 .. Week : fits(i)})
    IN  IF k = 0 /\ t % Day >= OpenFrom THEN t ELSE (day + k) * Day + OpenFrom

NextDue(a, t) ==
    LET follows == last[a] # Never /\ last[a] + Interval > t IN
    AdvanceToWindow(IF ~IsWindowOpen(t) THEN t
                    ELSE IF follows THEN last[a] + Interval ELSE t + Interval)

----------------------------------------------------------------------------
(* One tick.                                                               *)

Begin(t) ==
    /\ tick[t].at = "idle"
    /\ tick' = [tick EXCEPT ![t] = [Idle EXCEPT !.at = "look", !.instant = now]]
    /\ UNCHANGED <<now, last, next, leased, blocked, allowed, work>>

\* Reads of the controls, the clock and the queue for the current account.
Look(t) ==
    /\ tick[t].at = "look" /\ tick[t].acc <= Accounts
    /\ LET k == tick[t]
           a == k.acc
           i == k.instant IN
       tick' = [tick EXCEPT ![t] =
          IF a \notin allowed THEN [k EXCEPT !.acc = a + 1, !.excused = k.excused \union {a}]
          ELSE IF IsDue(a, i) THEN [k EXCEPT !.at = "claim"]
          ELSE IF IsWindowOpen(i) /\ a \in work THEN [k EXCEPT !.at = "start", !.trigger = "retry"]
          ELSE [k EXCEPT !.acc = a + 1]]
    /\ UNCHANGED <<now, last, next, leased, blocked, allowed, work>>

RefusesBusy(a, i) == blocked[a] > i \/ a \in leased

\* claim_schedule_slot: one transaction that looks again at the cooldown, the
\* lease and the interval, all at the instant of the tick.
Refuses(a, i) ==
    \/ blocked[a] > i
    \/ a \in leased
    \/ last[a] # Never /\ i < last[a] + Interval

ClaimBreaks(t) ==
    /\ tick[t].at = "claim"
    /\ LET a == tick[t].acc
           i == tick[t].instant IN
       IF Refuses(a, i)
       THEN /\ tick' = [tick EXCEPT ![t].at = "look", ![t].acc = Accounts + 1]
            /\ UNCHANGED <<last, next>>
       ELSE /\ last' = [last EXCEPT ![a] = i] /\ next' = [next EXCEPT ![a] = NextDue(a, i)]
            /\ tick' = [tick EXCEPT ![t].at = "start", ![t].trigger = "schedule"]
    /\ UNCHANGED <<now, leased, blocked, allowed, work>>

Claim(t) ==
    /\ tick[t].at = "claim"
    /\ LET k == tick[t]
           a == k.acc
           i == k.instant IN
       IF Refuses(a, i)
       THEN /\ tick' = [tick EXCEPT ![t] =
                  [k EXCEPT !.at = "look", !.acc = a + 1,
                     !.excused = IF blocked[a] > i \/ a \in leased
                                 THEN k.excused \union {a} ELSE k.excused]]
            /\ UNCHANGED <<last, next>>
       ELSE /\ last' = [last EXCEPT ![a] = i]
            /\ next' = [next EXCEPT ![a] = NextDue(a, i)]
            /\ tick' = [tick EXCEPT ![t].at = "start", ![t].trigger = "schedule"]
    /\ UNCHANGED <<now, leased, blocked, allowed, work>>

\* engine.run: a held lease makes the run a busy one, else it takes its time.
Start(t) ==
    /\ tick[t].at = "start"
    /\ IF tick[t].acc \in leased
       THEN tick' = [tick EXCEPT ![t].at = "look", ![t].acc = @ + 1] /\ UNCHANGED leased
       ELSE tick' = [tick EXCEPT ![t].at = "run"] /\ leased' = leased \union {tick[t].acc}
    /\ UNCHANGED <<now, last, next, blocked, allowed, work>>

RunEnds(t) ==
    /\ tick[t].at = "run"
    /\ leased' = leased \ {tick[t].acc}
    /\ work' \in {work, work \ {tick[t].acc}}
    /\ blocked' \in {blocked, [blocked EXCEPT ![tick[t].acc] = now + Interval]}
    /\ tick' = [tick EXCEPT ![t].at = "look", ![t].acc = @ + 1]
    /\ UNCHANGED <<now, last, next, allowed>>

\* An exception of the engine leaves the tick: the accounts after it are not
\* looked at.
RunRaises(t) ==
    /\ MayRaise /\ tick[t].at = "run"
    /\ leased' = leased \ {tick[t].acc}
    /\ tick' = [tick EXCEPT ![t] = Idle]
    /\ UNCHANGED <<now, last, next, blocked, allowed, work>>

End(t) ==
    /\ tick[t].at = "look" /\ tick[t].acc > Accounts
    /\ tick' = [tick EXCEPT ![t] = Idle]
    /\ UNCHANGED <<now, last, next, leased, blocked, allowed, work>>

----------------------------------------------------------------------------
(* The operator, the queue and the clock.                                  *)

TurnOff(a) ==
    /\ a \in allowed /\ allowed' = allowed \ {a}
    /\ UNCHANGED <<now, last, next, leased, blocked, work, tick>>

WorkDue(a) ==
    /\ a \notin work /\ work' = work \union {a}
    /\ UNCHANGED <<now, last, next, leased, blocked, allowed, tick>>

TimePasses ==
    /\ now < MaxTime /\ now' = now + 1
    /\ UNCHANGED <<last, next, leased, blocked, allowed, work, tick>>

Next ==
    \/ \E t \in Tickers : \/ Begin(t) \/ Look(t) \/ Claim(t) \/ Start(t)
                          \/ RunEnds(t) \/ RunRaises(t) \/ End(t)
    \/ \E a \in Accs : TurnOff(a) \/ WorkDue(a)
    \/ TimePasses

Spec == Init /\ [][Next]_vars

----------------------------------------------------------------------------
(* Properties.                                                             *)

\* Types of the schedule and of the ticks.
TypeOK ==
    /\ now \in 0 .. MaxTime
    /\ last \in [Accs -> (0 .. MaxTime) \union {Never}] /\ next \in [Accs -> Nat]
    /\ leased \subseteq Accs /\ allowed \subseteq Accs /\ work \subseteq Accs
    /\ blocked \in [Accs -> Nat]
    /\ \A t \in Tickers :
          /\ tick[t].at \in {"idle", "look", "claim", "start", "run"}
          /\ tick[t].instant <= now /\ tick[t].acc \in 1 .. Accounts + 1
          /\ tick[t].at = "run" => tick[t].acc \in leased

\* Slots of one account are at least an interval apart, and a slot is never
\* moved back: ticks that overlap, or come late after an outage, start no
\* burst of runs.
SlotsApart ==
    \A a \in Accs : last'[a] # last[a] =>
          last[a] = Never \/ last'[a] >= last[a] + Interval

\* The moment the program announces for the next slot is the first one at
\* which the account will be due.
NextSlotIsExact ==
    \A a \in Accs : last'[a] # last[a] =>
          /\ IsWindowOpen(next'[a]) /\ next'[a] >= last'[a] + Interval
          /\ \A t \in last'[a] + Interval .. next'[a] - 1 : ~IsWindowOpen(t)

\* A tick that comes to its end has left no account behind: whoever was due at
\* its instant has a slot, unless it was turned off, busy or cooling down.
NobodyLeftBehind ==
    \A t \in Tickers : tick[t].at = "look" /\ tick[t].acc > Accounts =>
        \A a \in Accs \ tick[t].excused : ~IsDue(a, tick[t].instant)

\* docs/hh-autopilot.md: a run is started only inside the schedule's window.
StartsInWindow ==
    \A t \in Tickers : tick[t].at = "start" /\ tick'[t].at = "run"
          => IsWindowOpen(now)
=============================================================================
