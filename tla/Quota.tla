------------------------------- MODULE Quota --------------------------------
(***************************************************************************)
(* The daily quota of one account over several local days: reservations    *)
(* are dated when they are made and settled whenever the outcome is known, *)
(* applications made by hand are counted when reconciliation meets them,   *)
(* and an answer that names a limit blocks the account until HH's reset.   *)
(*                                                                         *)
(* Fences, takeovers and the operator are the business of Dispatch and     *)
(* Challenges; here one process at a time works for the account, and may   *)
(* die.  Time passes between any two of its steps.                         *)
(***************************************************************************)
EXTENDS Integers, FiniteSets

CONSTANTS
    Item,          \* items of one vacancy or several, each with its resume
    NoItem,
    Vacancy, VacancyOf,
    External,      \* items the candidate may apply to by hand
    DayLen,        \* ticks in a day
    Zone,          \* offsets the configured timezone may have, less than a day
    DailyLimit, RunLimit, MaxTries, MaxChecks,
    Backoff,       \* delay of the retry policy
    Wait,          \* Retry-After values HH may send
    Tolerance,     \* clock_tolerance of the reconciler
    MaxTime,       \* bound: ticks
    MaxRun,        \* bound: runs
    MaxAttempt     \* bound: attempts

QuotaAssumption ==
    /\ IsFiniteSet(Item) /\ NoItem \notin Item
    /\ VacancyOf \in [Item -> Vacancy] /\ External \subseteq Item
    /\ DayLen \in Nat \ {0} /\ Zone \subseteq 0..(DayLen - 1) /\ Zone # {}
    /\ DailyLimit \in Nat \ {0} /\ RunLimit \in Nat \ {0}
    /\ MaxTries \in Nat \ {0} /\ MaxChecks \in Nat \ {0}
    /\ Backoff \in Nat \ {0} /\ Wait \subseteq Nat \ {0} /\ Tolerance \in Nat
    /\ MaxTime \in Nat /\ MaxRun \in Nat /\ MaxAttempt \in Nat

Attempt == 1..MaxAttempt
Time == 0..MaxTime
Never == -1

VARIABLES
    now,        \* the clock
    zone,       \* timezone of the configuration
    run,        \* runs started so far; the last one is the current one
    exec,       \* the executor of the process
    item,       \* hh_autopilot_items
    made,       \* attempts inserted so far
    slot,       \* the reservation of each attempt
    blocked,    \* blocked_until of hh_autopilot_account_state
    told,       \* history: until when HH asked to wait, counted from the entry of
                \* the executor and from its answer, and whether it was the last try
    applied,    \* when HH took the application of each item, or Never
    synced      \* local date of the external_sync row of each item, or Never

clock == <<now, zone>>
hh == <<told, applied>>
vars == <<clock, run, exec, item, made, slot, blocked, hh, synced>>

NoSlot == [item |-> NoItem, run |-> 0, at |-> 0, state |-> "none", date |-> 0,
           id |-> FALSE]
Idle == [pc |-> "idle", item |-> NoItem, seen |-> 0, answer |-> "none", wait |-> 0]
Counted == {"reserved", "held", "consumed"}
Open == {"reserved", "held"}

\* instant.astimezone(zone).date()
Date(t) == (t + zone) \div DayLen
NextLocalDay(t) == (Date(t) + 1) * DayLen - zone
Day == {(t + z) \div DayLen : t \in Time, z \in Zone}

TypeOK ==
    /\ now \in Time /\ zone \in Zone /\ run \in 0..MaxRun
    /\ exec \in [pc : {"idle", "rendering", "posting"}, item : Item \cup {NoItem},
                 seen : Time, wait : Wait \cup {0},
                 answer : {"none", "accepted", "duplicate", "refused",
                           "rate_limited", "hh_daily_limit"}]
    /\ item \in [Item -> [state : {"ready", "applying", "reconciling", "retry_wait",
                                   "applied", "skipped", "dead", "manual_challenge"},
                          tries : Nat, checks : Nat, at : Nat, attempt : 0..MaxAttempt]]
    /\ made \in 0..MaxAttempt
    /\ slot \in [Attempt -> [item : Item \cup {NoItem}, run : 0..MaxRun, at : Time,
                             state : Counted \cup {"none", "released"},
                             date : Day, id : BOOLEAN]]
    /\ blocked \in Nat /\ told \in [dated : Nat, asked : Nat, last : BOOLEAN]
    /\ applied \in [Item -> Time \cup {Never}]
    /\ synced \in [Item -> Day \cup {Never}]

Init ==
    /\ now = 0 /\ zone \in Zone
    /\ run = 0
    /\ exec = Idle
    /\ item = [i \in Item |-> [state |-> "ready", tries |-> 0, checks |-> 0, at |-> 0,
                               attempt |-> 0]]
    /\ made = 0
    /\ slot = [a \in Attempt |-> NoSlot]
    /\ blocked = 0 /\ told = [dated |-> 0, asked |-> 0, last |-> FALSE]
    /\ applied = [i \in Item |-> Never]
    /\ synced = [i \in Item |-> Never]
------------------------------------------------------------------------------
(* Counting *)

\* Mutant: an application made by hand costs nothing.
DayCountOwn(date) == Cardinality({a \in Attempt : slot[a].state \in Counted
                                                  /\ slot[a].date = date})

Taken(date) == Cardinality({a \in Attempt : slot[a].state \in Counted
                                            /\ slot[a].date = date})
Outside(date) == Cardinality({i \in Item : synced[i] = date})

\* Rows of the account and date that count, whatever their timezone.
DayCount(date) == Taken(date) + Outside(date)
RunCount == Cardinality({a \in Attempt : slot[a].state \in Counted /\ slot[a].run = run})

\* _assert_cooldown_for_update
CoolingDown(t) == blocked > t

Settle(a, state) == slot' = [slot EXCEPT ![a].state = state]
Settles(i, state, at) == item' = [item EXCEPT ![i].state = state, ![i].at = at]
------------------------------------------------------------------------------
(* The process: start, recovery, dispatch *)

StartRun ==
    /\ exec = Idle
    /\ run < MaxRun
    /\ run' = run + 1
    /\ UNCHANGED <<clock, exec, item, made, slot, blocked, hh, synced>>

\* The process dies; what it had sent stays applying.
Crash ==
    /\ exec # Idle
    /\ exec' = Idle
    /\ UNCHANGED <<clock, run, item, made, slot, blocked, hh, synced>>

\* Mutant: only what an earlier run left.
StaleOfEarlierRun(i) == item[i].state = "applying" /\ slot[item[i].attempt].run < run

\* An applying item nobody works for: the recovering process holds the lease.
Stale(i) == item[i].state = "applying"

\* recover_stale_applying, at the start of a pass.
Recover ==
    /\ exec = Idle /\ run > 0
    /\ \E i \in Item : Stale(i)
    /\ item' = [i \in Item |-> IF Stale(i)
                               THEN [item[i] EXCEPT !.state = "reconciling", !.at = now]
                               ELSE item[i]]
    /\ UNCHANGED <<clock, run, exec, made, slot, blocked, hh, synced>>

ActivateDueRetry(i) ==
    /\ exec = Idle /\ run > 0
    /\ item[i].state = "retry_wait" /\ item[i].at <= now
    /\ Settles(i, "ready", 0)
    /\ UNCHANGED <<clock, run, exec, made, slot, blocked, hh, synced>>

\* execute fixes its instant, then renders the letter.
BeginExecute(i) ==
    /\ exec = Idle /\ run > 0
    /\ item[i].state = "ready"
    /\ made < MaxAttempt
    /\ exec' = [Idle EXCEPT !.pc = "rendering", !.item = i, !.seen = now]
    /\ UNCHANGED <<clock, run, item, made, slot, blocked, hh, synced>>

\* The account-vacancy guard under per_resume.
GuardFree(i) ==
    \A a \in Attempt : slot[a].state \in Open => VacancyOf[slot[a].item] # VacancyOf[i]

\* prepare_dispatch and _reserve_quota_for_update, at the instant of execute.
PrepareDispatch ==
    LET i == exec.item
    IN  /\ exec.pc = "rendering"
        /\ GuardFree(i)
        /\ ~CoolingDown(exec.seen)
        /\ DayCount(Date(exec.seen)) < DailyLimit
        /\ RunCount < RunLimit
        /\ made' = made + 1
        /\ slot' = [slot EXCEPT ![made + 1] =
                      [item |-> i, run |-> run, at |-> exec.seen, state |-> "reserved",
                       date |-> Date(exec.seen), id |-> FALSE]]
        /\ item' = [item EXCEPT ![i].state = "applying", ![i].tries = @ + 1,
                                ![i].attempt = made + 1]
        /\ exec' = [exec EXCEPT !.pc = "posting"]
        /\ UNCHANGED <<clock, run, blocked, hh, synced>>

\* CooldownActive ends the run's dispatch, QuotaExceeded goes on.
DispatchRefused ==
    /\ exec.pc = "rendering"
    /\ \/ ~GuardFree(exec.item)
       \/ CoolingDown(exec.seen)
       \/ DayCount(Date(exec.seen)) >= DailyLimit
       \/ RunCount >= RunLimit
    /\ exec' = Idle
    /\ UNCHANGED <<clock, run, item, made, slot, blocked, hh, synced>>
------------------------------------------------------------------------------
(* HH answers, or does not *)

Shown(i) == {j \in Item : VacancyOf[j] = VacancyOf[i] /\ applied[j] # Never}

Answers(answer, wait) == exec' = [exec EXCEPT !.answer = answer, !.wait = wait]

Accept ==
    /\ exec.pc = "posting" /\ exec.answer = "none"
    /\ applied[exec.item] = Never
    /\ applied' = [applied EXCEPT ![exec.item] = now]
    /\ Answers("accepted", 0)
    /\ UNCHANGED <<clock, run, item, made, slot, blocked, told, synced>>

Decline ==
    /\ exec.pc = "posting" /\ exec.answer = "none"
    /\ \E answer \in {"refused"} \cup (IF Shown(exec.item) # {} THEN {"duplicate"} ELSE {}) :
         Answers(answer, 0)
    /\ UNCHANGED <<clock, run, item, made, slot, blocked, hh, synced>>

\* HH names a limit, with or without Retry-After.
NameLimit ==
    /\ exec.pc = "posting" /\ exec.answer = "none"
    /\ \E answer \in {"rate_limited", "hh_daily_limit"}, wait \in Wait \cup {0} :
         Answers(answer, wait)
    /\ UNCHANGED <<clock, run, item, made, slot, blocked, hh, synced>>
------------------------------------------------------------------------------
(* The executor settles the answer, all of it at the instant it entered with:
   the engine passes that instant, so finalized_at is never read anew. *)

FinalizeApplied ==
    LET i == exec.item
        a == item[i].attempt
    IN  /\ exec.pc = "posting" /\ exec.answer = "accepted"
        /\ \E id \in BOOLEAN :   \* the answer need not name the negotiation
             slot' = [slot EXCEPT ![a].state = "consumed", ![a].id = id]
        /\ Settles(i, "applied", 0)
        /\ exec' = Idle
        /\ UNCHANGED <<clock, run, made, blocked, hh, synced>>

\* No answer, whatever HH did, or a duplicate.
RecordPossiblySent ==
    LET i == exec.item
    IN  /\ exec.pc = "posting"
        /\ Settle(item[i].attempt, "held")
        /\ Settles(i, "reconciling", exec.seen + Backoff)
        /\ exec' = Idle
        /\ UNCHANGED <<clock, run, made, blocked, hh, synced>>

FinalizeRefused ==
    LET i == exec.item
    IN  /\ exec.pc = "posting" /\ exec.answer = "refused"
        /\ Settle(item[i].attempt, "released")
        /\ \/ Settles(i, "skipped", 0)
           \/ item[i].tries >= MaxTries /\ Settles(i, "dead", 0)
           \/ item[i].tries < MaxTries /\ Settles(i, "retry_wait", exec.seen + Backoff)
        /\ exec' = Idle
        /\ UNCHANGED <<clock, run, made, blocked, hh, synced>>

\* Nothing is left to be tried, and the answer is no plain limit of the day.
OnLastTry == /\ item[exec.item].tries >= MaxTries
             /\ exec.answer = "rate_limited" \/ exec.wait > 0

\* What HH asked for: Retry-After, the next day, or any wait at all.
WaitFrom(t) ==
    IF exec.wait > 0 THEN t + exec.wait
    ELSE IF exec.answer = "hh_daily_limit" THEN NextLocalDay(t)
    ELSE t + 1
HHWaits == [dated |-> WaitFrom(exec.seen), asked |-> WaitFrom(now), last |-> OnLastTry]

\* The decision of the retry policy has no instant when it gives up, unless
\* the executor replaced it.
HasInstant == \/ item[exec.item].tries < MaxTries
              \/ exec.answer = "hh_daily_limit" /\ exec.wait = 0

\* Retry-After, or the policy's own delay, or the next local day.
RetryAt ==
    IF exec.answer = "hh_daily_limit" /\ exec.wait = 0 THEN NextLocalDay(exec.seen)
    ELSE exec.seen + (IF exec.wait > Backoff THEN exec.wait ELSE Backoff)

FinalizeLimited ==
    LET i == exec.item
    IN  /\ exec.pc = "posting"
        /\ exec.answer \in {"rate_limited", "hh_daily_limit"}
        /\ HasInstant
        /\ told' = HHWaits
        /\ Settle(item[i].attempt, "released")
        /\ Settles(i, "retry_wait", RetryAt)
        /\ blocked' = RetryAt
        /\ exec' = Idle
        /\ UNCHANGED <<clock, run, made, applied, synced>>

\* The cooldown of a decision without an instant cannot be stored: the
\* transaction raises and rolls back, and the loop goes on.
FinalizeRaises ==
    /\ exec.pc = "posting"
    /\ exec.answer \in {"rate_limited", "hh_daily_limit"}
    /\ ~HasInstant
    /\ told' = HHWaits
    /\ exec' = Idle
    /\ UNCHANGED <<clock, run, item, made, slot, blocked, applied, synced>>
------------------------------------------------------------------------------
(* Reconciliation *)

Reconciling(i) ==
    /\ exec = Idle /\ run > 0
    /\ item[i].state = "reconciling" /\ item[i].at <= now

\* Taken for this dispatch's: same resume, not before it but for the tolerance.
Exact(i) == applied[i] # Never /\ applied[i] >= slot[item[i].attempt].at - Tolerance

\* Consuming with a negotiation that another row has is refused.
ReconcileApplied(i) ==
    /\ Reconciling(i)
    /\ Exact(i)
    /\ synced[i] = Never
    /\ slot' = [slot EXCEPT ![item[i].attempt].state = "consumed",
                            ![item[i].attempt].id = TRUE]
    /\ Settles(i, "applied", 0)
    /\ UNCHANGED <<clock, run, exec, made, blocked, hh, synced>>

\* The last of the applications that are not this dispatch's.
Latest(i, j) == j \in Shown(i) /\ \A k \in Shown(i) : applied[k] <= applied[j]

\* Reservation that recorded the negotiation of item j.
Recorded(j) == {a \in Attempt : slot[a].item = j /\ slot[a].state = "consumed" /\ slot[a].id}

\* Mutant: a negotiation that has a row is counted again.
NewRowAnyway(j) == TRUE

\* The unique remote negotiation id has no row yet.
NewRow(j) == Recorded(j) = {} /\ synced[j] = Never

\* finalize_external_application: only an application of today counts, and
\* one the autopilot recorded as its own is refused.
ReconcileExternal(i) ==
    /\ Reconciling(i)
    /\ ~Exact(i)
    /\ \E j \in Item :
         /\ Latest(i, j)
         /\ IF Date(applied[j]) # Date(now) THEN UNCHANGED synced
            ELSE IF NewRow(j) THEN synced' = [synced EXCEPT ![j] = Date(applied[j])]
            ELSE Recorded(j) = {} /\ UNCHANGED synced
    /\ Settle(item[i].attempt, "released")
    /\ Settles(i, "skipped", 0)
    /\ UNCHANGED <<clock, run, exec, made, blocked, hh>>

\* record_reconciliation_check
ReconcileAbsent(i) ==
    /\ Reconciling(i)
    /\ Shown(i) = {}
    /\ IF item[i].checks + 1 < MaxChecks
       THEN /\ Settle(item[i].attempt, "held")
            /\ item' = [item EXCEPT ![i].checks = @ + 1, ![i].at = now + Backoff]
       ELSE /\ Settle(item[i].attempt, "released")
            /\ item' = [item EXCEPT ![i].checks = @ + 1, ![i].at = 0,
                          ![i].state = IF item[i].tries < MaxTries THEN "ready" ELSE "dead"]
    /\ UNCHANGED <<clock, run, exec, made, blocked, hh, synced>>

Reconcile(i) == ReconcileApplied(i) \/ ReconcileExternal(i) \/ ReconcileAbsent(i)
------------------------------------------------------------------------------
(* The world *)

ApplyExternally(i) ==
    /\ i \in External
    /\ applied[i] = Never
    /\ applied' = [applied EXCEPT ![i] = now]
    /\ UNCHANGED <<clock, run, exec, item, made, slot, blocked, told, synced>>

Tick ==
    /\ now < MaxTime
    /\ now' = now + 1
    /\ UNCHANGED <<zone, run, exec, item, made, slot, blocked, hh, synced>>

\* The configuration is saved with another timezone; nothing calls
\* assert_timezone_change_safe.
ChangeTimezone ==
    /\ zone' \in Zone \ {zone}
    /\ UNCHANGED <<now, run, exec, item, made, slot, blocked, hh, synced>>

Settling == FinalizeApplied \/ RecordPossiblySent \/ FinalizeRefused \/ FinalizeLimited
                \/ FinalizeRaises

Next ==
    \/ StartRun \/ Crash \/ Recover
    \/ \E i \in Item : ActivateDueRetry(i) \/ BeginExecute(i) \/ Reconcile(i)
                          \/ ApplyExternally(i)
    \/ PrepareDispatch \/ DispatchRefused
    \/ Accept \/ Decline \/ NameLimit
    \/ Settling
    \/ Tick \/ ChangeTimezone

Spec == Init /\ [][Next]_vars

\* The scheduler keeps starting runs, so a process that is alive or its
\* successor gets to every step of the pass; HH and the candidate owe nothing.
Fairness ==
    /\ WF_vars(Tick)
    /\ WF_vars(StartRun)
    /\ SF_vars(Recover)
    /\ WF_vars(PrepareDispatch \/ DispatchRefused)
    /\ WF_vars(Settling)
    /\ \A i \in Item : SF_vars(Reconcile(i))
FairSpec == Spec /\ Fairness
------------------------------------------------------------------------------
(* Properties *)

\* The reservations implement a budget per local date: dispatches never
\* overshoot it, whatever was released, decided days later or applied by hand
\* (_reserve_quota_for_update, finalize_external_application).
Budget == INSTANCE DayBudget WITH
    Limit <- DailyLimit,
    taken <- [d \in Day |-> Taken(d)],
    outside <- [d \in Day |-> Outside(d)]
ImplementsDayBudget == Budget!Spec

\* Once the process knows of a limit, nothing is dispatched for as long as HH
\* asked for: through restarts, across midnight, and whatever item the answer
\* was for (rate_limited and hh_daily_limit in finalize_definite_failure).
LimitBlocksAccount ==
    made' > made => exec.seen >= told.dated

\* The same, but for an answer that came on the last try of its item and was no
\* plain limit of the day: that one alone is forgotten, because the decision has
\* no instant to store.  Everything else that HH asked for is waited for.
OnlyLastTryForgetsLimit ==
    made' > made => exec.seen >= told.dated \/ told.last

\* The wait HH asked for counts from its answer.
LimitBlocksFromAnswer ==
    made' > made => exec.seen >= told.asked

\* One application of HH never costs two slots.
CountedOnce == \A j \in Item : Recorded(j) # {} => synced[j] = Never

\* One application of HH never costs two slots, even when the answer did not
\* name the negotiation.
AnyApplicationCountedOnce ==
    \A a \in Attempt : slot[a].state = "consumed" => synced[slot[a].item] = Never

\* HH takes no more than the limit from the autopilot on a local day.
DayDeliveredWithinLimit ==
    \A d \in Day :
        Cardinality({a \in Attempt : slot[a].state = "consumed"
                                     /\ Date(applied[slot[a].item]) = d}) <= DailyLimit

\* An application made by hand so close before the dispatch that it passes
\* for it, and that already counts as the candidate's own.
CountedByHand(i) == Exact(i) /\ synced[i] # Never

\* No slot is lost: what a dead or failed executor left is recovered, and a
\* possibly sent application is settled, at the latest on the day after the
\* application that stood in its way (finalize_external_application refuses a
\* negotiation the autopilot counts as its own, and only on its own day).
\* Only the collision CountedByHand stays open for good.
Applying(i) == item[i].state = "applying"
InDoubt(i) == item[i].state = "reconciling" /\ item[i].at + DayLen <= MaxTime
OutOfDoubt(i) == item[i].state # "reconciling" \/ CountedByHand(i)
EverySlotIsSettled ==
    \A i \in Item : (Applying(i) ~> ~Applying(i)) /\ (InDoubt(i) ~> OutOfDoubt(i))
=============================================================================
