------------------------------ MODULE Dispatch ------------------------------
(***************************************************************************)
(* How one hh_autopilot account sends applications: the runs that own the  *)
(* account lease one after the other, the executor that prepares a         *)
(* dispatch, posts it and finalises the answer, the recovery that turns    *)
(* what a dead run left behind into reconciliations, and the reconciler    *)
(* that decides them against what HH shows.                                *)
(*                                                                         *)
(* Every repository method is one BEGIN IMMEDIATE transaction and one      *)
(* action.  A process goes on from its last step whatever the others did,  *)
(* so a run that lost the lease still posts, and is stopped only where the *)
(* code checks the fence.  Each lease grant starts one run, so a fencing   *)
(* token is also the identity of the run (create_run follows               *)
(* acquire_lease) and of the process that executes it.                     *)
(*                                                                         *)
(* One account and one local day.  Search and ranking (everything before   *)
(* ready), grants, controls, cooldowns and the operator's actions on       *)
(* challenges are left out: where prepare_dispatch would refuse for one of *)
(* them, ExecuteRaises is the refusal.                                     *)
(***************************************************************************)
EXTENDS Integers, FiniteSets

CONSTANTS
    Item,            \* queue items, each a vacancy with one resume
    NoItem,          \* no item in a process's hands
    Vacancy,         \* HH vacancies
    VacancyOf,       \* the vacancy of each item
    ResumePolicy,    \* application.resume_policy
    DailyLimit,      \* limits.daily_success
    RunLimit,        \* limits.per_run_success
    MaxAttempts,     \* retry.max_attempts
    MaxChecks,       \* retry.reconciliation_checks
    Trigger,         \* kinds of run that may start
    Interruptible,   \* kinds of run that may die or lose the lease
    SweepFirst,      \* TRUE: only the scheduler starts runs, after its sweep
    Timely,          \* TRUE: a POST settles before its item is decided again
    External,        \* items the candidate may apply to by hand
    MaxFence,        \* bound: lease grants
    MaxAttempt       \* bound: attempts

ASSUME ItemAssumption ==
    /\ IsFiniteSet(Item)
    /\ NoItem \notin Item
    /\ VacancyOf \in [Item -> Vacancy]
    /\ External \subseteq Item
ASSUME PolicyAssumption ==
    /\ ResumePolicy \in {"best_resume_only", "per_resume"}
    /\ DailyLimit \in Nat \ {0} /\ RunLimit \in Nat \ {0}
    /\ MaxAttempts \in Nat \ {0} /\ MaxChecks \in Nat \ {0}
ASSUME TriggerAssumption ==
    /\ Trigger \subseteq {"schedule", "manual", "recovery"}
    /\ Interruptible \subseteq Trigger
    /\ SweepFirst \in BOOLEAN /\ Timely \in BOOLEAN
ASSUME BoundAssumption == MaxFence \in Nat /\ MaxAttempt \in Nat

Run == 1..MaxFence
Attempt == 1..MaxAttempt

VARIABLES
    fence,         \* newest fencing token, 0 before the first lease
    held,          \* the lease row has an owner
    trigger,       \* trigger of each run
    proc,          \* where the process of each run is
    item,          \* hh_autopilot_items
    made,          \* number of attempts inserted so far
    attempt,       \* hh_application_attempts, with the checks made on each
    reservation,   \* hh_autopilot_quota_reservations, one per attempt
    synced,        \* items with an external_sync quota row
    guard,         \* hh_application_account_guards
    post,          \* the POST of each attempt
    negotiation    \* what HH holds for each item: attempts made by then

lease == <<fence, held, trigger>>
history == <<made, attempt>>
remote == <<post, negotiation>>
vars == <<lease, proc, item, history, reservation, synced, guard, remote>>

------------------------------------------------------------------------------
ItemState == {"ready", "applying", "reconciling", "retry_wait",
              "manual_challenge", "applied", "skipped", "dead"}
Unresolved == {"applying", "reconciling"}
Open == {"reserved", "held"}
Counted == {"reserved", "held", "consumed"}
Challenge == {"none", "manual", "manual_auth", "ambiguous_application"}
Pc == {"none", "recover", "reconcile", "reading", "dispatch", "rendering",
       "prepared", "posting", "done", "crashed"}
PostState == {"none", "wire", "accepted", "duplicate", "refused"}

NoNegotiation == -1
NoProc == [pc |-> "none", item |-> NoItem, attempt |-> 0, version |-> 0, todo |-> {}]
NoAttempt == [item |-> NoItem, run |-> 0, status |-> "none", duplicate |-> FALSE,
              reads |-> 0]
NoGuard == [status |-> "none", owner |-> 0]

ProcRecord == [pc : Pc, item : Item \cup {NoItem}, attempt : 0..MaxAttempt,
               version : Nat, todo : SUBSET Item]
ItemRecord == [state : ItemState, version : Nat, run : 0..MaxFence,
               attempt : 0..MaxAttempt, stage : {"application", "reconciliation"},
               tries : Nat, checks : Nat, due : BOOLEAN, challenge : Challenge]
AttemptRecord == [item : Item \cup {NoItem}, run : 0..MaxFence,
                  status : ItemState \cup {"none"}, duplicate : BOOLEAN, reads : Nat]
ReservationRecord == [state : Counted \cup {"none", "released"}, fence : 0..MaxFence]
GuardRecord == [status : {"none", "active", "applied", "external_applied"},
                owner : 0..MaxAttempt]

TypeOK ==
    /\ fence \in 0..MaxFence
    /\ held \in BOOLEAN
    /\ trigger \in [Run -> Trigger \cup {"none"}]
    /\ proc \in [Run -> ProcRecord]
    /\ item \in [Item -> ItemRecord]
    /\ made \in 0..MaxAttempt
    /\ attempt \in [Attempt -> AttemptRecord]
    /\ reservation \in [Attempt -> ReservationRecord]
    /\ synced \subseteq Item
    /\ guard \in [Vacancy -> GuardRecord]
    /\ post \in [Attempt -> PostState]
    /\ negotiation \in [Item -> NoNegotiation..MaxAttempt]

\* Ranked items wait in the queue; nothing was ever sent.
Init ==
    /\ fence = 0
    /\ held = FALSE
    /\ trigger = [f \in Run |-> "none"]
    /\ proc = [f \in Run |-> NoProc]
    /\ item = [i \in Item |->
                 [state |-> "ready", version |-> 0, run |-> 0, attempt |-> 0,
                  stage |-> "application", tries |-> 0, checks |-> 0, due |-> TRUE,
                  challenge |-> "none"]]
    /\ made = 0
    /\ attempt = [a \in Attempt |-> NoAttempt]
    /\ reservation = [a \in Attempt |-> [state |-> "none", fence |-> 0]]
    /\ synced = {}
    /\ guard = [v \in Vacancy |-> NoGuard]
    /\ post = [a \in Attempt |-> "none"]
    /\ negotiation = [i \in Item |-> NoNegotiation]
------------------------------------------------------------------------------
(* The checks and updates the transactions share *)

\* _assert_fence, for the process of run f.
Current(f) == held /\ fence = f

\* Mutant: a finalisation asks only whether the item still has its attempt.
ValidByAttemptOnly(f) == item[proc[f].item].attempt = proc[f].attempt

\* _validate_prepared_for_update, for what process f carries.
Valid(f) ==
    LET i == proc[f].item
        a == proc[f].attempt
    IN  /\ Current(f)
        /\ item[i].version = proc[f].version
        /\ item[i].attempt = a
        /\ item[i].state \in Unresolved
        /\ attempt[a].status \in Unresolved
        /\ reservation[a].state \in Open
        /\ reservation[a].fence = f
        /\ guard[VacancyOf[i]] = [status |-> "active", owner |-> a]

\* The item update of every finalisation.
MoveItem(i, state, stage, due, challenge) ==
    item' = [item EXCEPT ![i].state = state,
                         ![i].stage = stage,
                         ![i].version = @ + 1,
                         ![i].due = due,
                         ![i].challenge = challenge]

FinishAttempt(a, status) == attempt' = [attempt EXCEPT ![a].status = status]

\* Mutant: an unknown outcome gives the slot back.
ReserveForgetsHeld(a, state) ==
    reservation' = [reservation EXCEPT ![a].state =
                      IF state = "held" THEN "released" ELSE state]

Reserve(a, state) == reservation' = [reservation EXCEPT ![a].state = state]

\* DELETE FROM hh_application_account_guards for the owning attempt.
DropGuard(i) == guard' = [guard EXCEPT ![VacancyOf[i]] = NoGuard]

\* Process f has done with its item and returns to its loop.
Return(f, pc) ==
    proc' = [proc EXCEPT ![f] = [pc |-> pc, item |-> NoItem, attempt |-> 0,
                                 version |-> 0, todo |-> @.todo]]
------------------------------------------------------------------------------
(* Runs start and end *)

\* A lease that is still held can be taken only after it expired, which the
\* configuration puts after the request timeout.
Expired ==
    /\ trigger[fence] \in Interruptible
    /\ Timely => /\ proc[fence].pc \notin {"prepared", "posting"}
                 /\ \A a \in Attempt : attempt[a].run = fence => post[a] # "wire"

\* accounts_needing_recovery
NeedsRecovery ==
    \E i \in Item : \/ item[i].state = "applying"
                    \/ item[i].state = "reconciling" /\ item[i].due

\* acquire_lease and create_run
StartRun(t) ==
    /\ fence < MaxFence
    /\ held => Expired
    /\ t = "recovery" => NeedsRecovery
    /\ SweepFirst /\ t # "recovery" => \A i \in Item : item[i].state # "applying"
    /\ fence' = fence + 1
    /\ held' = TRUE
    /\ trigger' = [trigger EXCEPT ![fence + 1] = t]
    /\ proc' = [proc EXCEPT ![fence + 1].pc =
                              IF t = "manual" THEN "dispatch" ELSE "recover"]
    /\ UNCHANGED <<item, history, reservation, synced, guard, remote>>

\* finish_run and release_lease; a stale owner releases nothing.
EndRun(f) ==
    /\ \/ proc[f].pc = "dispatch"
       \/ proc[f].pc = "recover" /\ ~Current(f)
       \/ proc[f].pc = "reconcile" /\ trigger[f] = "recovery" /\ proc[f].todo = {}
    /\ proc' = [proc EXCEPT ![f].pc = "done"]
    /\ held' = (held /\ fence # f)
    /\ UNCHANGED <<fence, trigger, item, history, reservation, synced, guard, remote>>

\* A dead process's local variables are gone.
Crash(f) ==
    /\ trigger[f] \in Interruptible
    /\ proc[f].pc \notin {"none", "done", "crashed"}
    /\ proc' = [proc EXCEPT ![f] = [NoProc EXCEPT !.pc = "crashed"]]
    /\ UNCHANGED <<lease, item, history, reservation, synced, guard, remote>>
------------------------------------------------------------------------------
(* Recovery and reconciliation *)

\* Mutant: recovery puts the item back in the queue.
RequeuedItem(f, i) == [item[i] EXCEPT !.state = "ready", !.version = @ + 1, !.run = f]

\* An item a dead run left in applying.
RecoveredItem(f, i) ==
    [item[i] EXCEPT !.state = "reconciling", !.version = @ + 1, !.run = f]

\* recover_stale_applying, then due_reconciliation_items.
RecoverStaleApplying(f) ==
    /\ proc[f].pc = "recover"
    /\ Current(f)
    /\ item' = [i \in Item |->
                  IF item[i].state = "applying" THEN RecoveredItem(f, i) ELSE item[i]]
    /\ proc' = [proc EXCEPT ![f].pc = "reconcile",
                            ![f].todo = {i \in Item : item'[i].state = "reconciling"
                                                      /\ item'[i].due}]
    /\ UNCHANGED <<lease, history, reservation, synced, guard, remote>>

\* _adopt_reservation_for_recovery_for_update: the runs that may have touched
\* the item since the reservation last changed hands.
Adoptable(i, f) ==
    LET a == item[i].attempt
    IN  /\ reservation[a].fence < f
        /\ attempt[a].run <= reservation[a].fence
        /\ \/ item[i].run = attempt[a].run
           \/ item[i].run = f
           \/ /\ trigger[item[i].run] = "recovery"
              /\ item[i].run <= reservation[a].fence

\* load_reconciliation_context accepts item i for process f.
Loadable(f, i) ==
    LET a == item[i].attempt
    IN  /\ Current(f)
        /\ item[i].state = "reconciling"
        /\ a \in Attempt
        /\ attempt[a].status \in Unresolved
        /\ reservation[a].state \in Open
        /\ \/ reservation[a].fence = f
           \/ trigger[f] = "recovery" /\ Adoptable(i, f)

LoadContext(f, i) ==
    /\ proc[f].pc = "reconcile"
    /\ i \in proc[f].todo
    /\ Loadable(f, i)
    /\ reservation' = [reservation EXCEPT ![item[i].attempt].fence = f]
    /\ proc' = [proc EXCEPT ![f] = [pc |-> "reading", item |-> i,
                                    attempt |-> item[i].attempt,
                                    version |-> item[i].version,
                                    todo |-> @.todo \ {i}]]
    /\ UNCHANGED <<lease, item, history, synced, guard, remote>>

\* The loop counts the failure and goes on with the next item.
LoadRaises(f, i) ==
    /\ proc[f].pc = "reconcile"
    /\ i \in proc[f].todo
    /\ ~Loadable(f, i)
    /\ proc' = [proc EXCEPT ![f].todo = @ \ {i}]
    /\ UNCHANGED <<lease, item, history, reservation, synced, guard, remote>>

\* What the reader shows for the vacancy of item i.
Shown(i) == {j \in Item : VacancyOf[j] = VacancyOf[i] /\ negotiation[j] # NoNegotiation}

\* Mutant: a negotiation of any resume is taken for the dispatch.
ExactIgnoresResume(f, readable) == \E j \in readable : negotiation[j] >= proc[f].attempt

\* Same resume, created at or after the dispatch.
Exact(f, readable) ==
    proc[f].item \in readable /\ negotiation[proc[f].item] >= proc[f].attempt

\* finalize_reconciled_applied
ReconciledApplied(f, readable) ==
    LET i == proc[f].item
        a == proc[f].attempt
    IN  /\ Exact(f, readable)
        /\ FinishAttempt(a, "applied")
        /\ Reserve(a, "consumed")
        /\ MoveItem(i, "applied", item[i].stage, TRUE, "none")
        /\ guard' = [guard EXCEPT ![VacancyOf[i]].status = "applied"]
        /\ UNCHANGED synced

\* finalize_external_application, on the local day of the negotiation j: its
\* quota row must not be the one of an application this account sent itself.
ReconciledExternal(f, readable) ==
    LET i == proc[f].item
        a == proc[f].attempt
    IN  /\ ~Exact(f, readable)
        /\ \E j \in readable :
             /\ \A b \in Attempt :
                  ~(attempt[b].item = j /\ reservation[b].state = "consumed")
             /\ synced' = synced \cup {j}
        /\ FinishAttempt(a, "skipped")
        /\ Reserve(a, "released")
        /\ MoveItem(i, "skipped", "application", TRUE, "none")
        /\ guard' = [guard EXCEPT ![VacancyOf[i]] =
                       [status |-> "external_applied", owner |-> 0]]

\* Mutant: a row the reconciler cannot read counts as absent.
MustAskIgnoresRows(f, readable) == attempt[proc[f].attempt].duplicate

\* record_reconciliation_check: HH shows nothing the reconciler can use.
MustAsk(f, readable) ==
    Shown(proc[f].item) \ readable # {} \/ attempt[proc[f].attempt].duplicate

Checked(a, status) ==
    attempt' = [attempt EXCEPT ![a].status = status, ![a].reads = @ + 1]
CheckedItem(i, state, stage, due, challenge) ==
    item' = [item EXCEPT ![i] =
               [state |-> state, version |-> @.version + 1, run |-> @.run,
                attempt |-> @.attempt, stage |-> stage, tries |-> @.tries,
                checks |-> @.checks + 1, due |-> due, challenge |-> challenge]]

CheckPending(f) ==
    LET i == proc[f].item
        a == proc[f].attempt
    IN  /\ item[i].checks + 1 < MaxChecks
        /\ Checked(a, attempt[a].status)
        /\ Reserve(a, "held")
        /\ CheckedItem(i, item[i].state, item[i].stage, FALSE, item[i].challenge)
        /\ UNCHANGED <<synced, guard>>

CheckAmbiguous(f, readable) ==
    LET i == proc[f].item
        a == proc[f].attempt
    IN  /\ item[i].checks + 1 >= MaxChecks
        /\ MustAsk(f, readable)
        /\ Checked(a, attempt[a].status)
        /\ Reserve(a, "held")
        /\ CheckedItem(i, "manual_challenge", item[i].stage, TRUE, "ambiguous_application")
        /\ UNCHANGED <<synced, guard>>

CheckAbsent(f, readable) ==
    LET i == proc[f].item
        a == proc[f].attempt
        target == IF item[i].tries < MaxAttempts THEN "ready" ELSE "dead"
    IN  /\ item[i].checks + 1 >= MaxChecks
        /\ ~MustAsk(f, readable)
        /\ Checked(a, target)
        /\ Reserve(a, "released")
        /\ DropGuard(i)
        /\ CheckedItem(i, target, "application", TRUE, "none")
        /\ UNCHANGED synced

\* HHApplicationReconciler.reconcile after the context is loaded; the rows
\* outside readable lack a resume or a timestamp.
Reconcile(f) ==
    /\ proc[f].pc = "reading"
    /\ Valid(f)
    /\ \E readable \in SUBSET Shown(proc[f].item) :
         \/ ReconciledApplied(f, readable)
         \/ ReconciledExternal(f, readable)
         \/ /\ readable = {}
            /\ \/ CheckPending(f)
               \/ CheckAmbiguous(f, readable)
               \/ CheckAbsent(f, readable)
    /\ Return(f, "reconcile")
    /\ UNCHANGED <<lease, made, remote>>

\* open_reconciliation_auth_challenge: HH refused the read.
OpenReconciliationAuth(f) ==
    LET i == proc[f].item
    IN  /\ proc[f].pc = "reading"
        /\ Valid(f)
        /\ Reserve(proc[f].attempt, "held")
        /\ MoveItem(i, "manual_challenge", item[i].stage, TRUE, "manual_auth")
        /\ Return(f, "reconcile")
        /\ UNCHANGED <<lease, history, synced, guard, remote>>

\* The read, or the transaction after it, raised; the loop goes on.
ReconcileRaises(f) ==
    /\ proc[f].pc = "reading"
    /\ Return(f, "reconcile")
    /\ UNCHANGED <<lease, item, history, reservation, synced, guard, remote>>

\* _recover_and_retry is over, the live run turns to dispatch.
StartDispatch(f) ==
    /\ proc[f].pc = "reconcile"
    /\ trigger[f] # "recovery"
    /\ proc[f].todo = {}
    /\ proc' = [proc EXCEPT ![f].pc = "dispatch"]
    /\ UNCHANGED <<lease, item, history, reservation, synced, guard, remote>>

\* A continuous schedule run begins its next pass.
NextPass(f) ==
    /\ proc[f].pc = "dispatch"
    /\ trigger[f] = "schedule"
    /\ Current(f)
    /\ proc' = [proc EXCEPT ![f].pc = "recover"]
    /\ UNCHANGED <<lease, item, history, reservation, synced, guard, remote>>
------------------------------------------------------------------------------
(* The dispatch loop and the executor *)

\* Mutant: the run takes over every item, whatever its state.
AdoptEveryItem(f) ==
    /\ proc[f].pc = "dispatch"
    /\ Current(f)
    /\ \E i \in Item : item[i].run # f
    /\ item' = [i \in Item |-> [item[i] EXCEPT !.run = f]]
    /\ UNCHANGED <<lease, proc, history, reservation, synced, guard, remote>>

\* adopt_ready_items
AdoptReadyItems(f) ==
    /\ proc[f].pc = "dispatch"
    /\ Current(f)
    /\ \E i \in Item : item[i].state = "ready" /\ item[i].run # f
    /\ item' = [i \in Item |-> IF item[i].state = "ready"
                               THEN [item[i] EXCEPT !.run = f]
                               ELSE item[i]]
    /\ UNCHANGED <<lease, proc, history, reservation, synced, guard, remote>>

\* activate_due_retry
ActivateDueRetry(f, i) ==
    /\ proc[f].pc = "dispatch"
    /\ trigger[f] = "schedule"
    /\ Current(f)
    /\ item[i].state = "retry_wait"
    /\ item[i].due
    /\ item' = [item EXCEPT ![i].state = IF item[i].stage = "application"
                                         THEN "ready" ELSE "reconciling",
                            ![i].version = @ + 1,
                            ![i].run = f]
    /\ UNCHANGED <<lease, proc, history, reservation, synced, guard, remote>>

\* The preflight of _dispatch rejects the vacancy (transition_item).
SkipReady(f, i) ==
    /\ proc[f].pc = "dispatch"
    /\ Current(f)
    /\ item[i].state = "ready"
    /\ item[i].run = f
    /\ item' = [item EXCEPT ![i].state = "skipped", ![i].version = @ + 1]
    /\ UNCHANGED <<lease, proc, history, reservation, synced, guard, remote>>

\* The resume snapshot is saved under the fence, then execute reads the item
\* and renders its letter.
BeginExecute(f, i) ==
    /\ proc[f].pc = "dispatch"
    /\ Current(f)
    /\ item[i].state = "ready"
    /\ proc' = [proc EXCEPT ![f] = [pc |-> "rendering", item |-> i, attempt |-> 0,
                                    version |-> item[i].version, todo |-> @.todo]]
    /\ UNCHANGED <<lease, item, history, reservation, synced, guard, remote>>

\* The item is still what the executor read.
ReadyAsRead(f) ==
    LET i == proc[f].item
    IN  /\ proc[f].pc = "rendering"
        /\ Current(f)
        /\ item[i].state = "ready"
        /\ item[i].version = proc[f].version

\* INSERT INTO hh_application_attempts
NewAttempt(i, status) ==
    /\ made < MaxAttempt
    /\ made' = made + 1
    /\ attempt' = [attempt EXCEPT ![made + 1] =
                     [item |-> i, run |-> item[i].run, status |-> status,
                      duplicate |-> FALSE, reads |-> 0]]

\* record_pre_dispatch_failure: the letter could not be rendered.  The retry
\* policy must answer retry_wait, and no attempt is counted.
RenderFails(f) ==
    LET i == proc[f].item
    IN  /\ ReadyAsRead(f)
        /\ item[i].run # 0
        /\ item[i].tries < MaxAttempts
        /\ NewAttempt(i, "retry_wait")
        /\ item' = [item EXCEPT ![i].state = "retry_wait", ![i].stage = "application",
                                ![i].version = @ + 1, ![i].due = FALSE,
                                ![i].attempt = made + 1]
        /\ Return(f, "dispatch")
        /\ UNCHANGED <<lease, reservation, synced, guard, remote>>

\* Reservations that count against the day and against run f.
DayCount == Cardinality({a \in Attempt : reservation[a].state \in Counted})
            + Cardinality(synced)
RunCount(f) ==
    Cardinality({a \in Attempt : reservation[a].state \in Counted /\ attempt[a].run = f})

\* Mutant: the guard serialises, whatever the resume policy.
GuardOnlySerialises(i) == guard[VacancyOf[i]].status # "active"

GuardAllows(i) ==
    LET status == guard[VacancyOf[i]].status
    IN  /\ status # "active"
        /\ status # "none" => ResumePolicy # "best_resume_only"

\* applications already holds this vacancy with this resume.
AlreadyApplied(i) ==
    \E a \in Attempt : attempt[a].item = i /\ attempt[a].status = "applied"

\* prepare_dispatch: attempt, guard, reservation and item in one transaction.
PrepareDispatch(f) ==
    LET i == proc[f].item
        a == made + 1
    IN  /\ ReadyAsRead(f)
        /\ item[i].run = f
        /\ trigger[f] # "recovery"
        /\ ~AlreadyApplied(i)
        /\ GuardAllows(i)
        /\ DayCount < DailyLimit
        /\ RunCount(f) < RunLimit
        /\ NewAttempt(i, "applying")
        /\ guard' = [guard EXCEPT ![VacancyOf[i]] = [status |-> "active", owner |-> a]]
        /\ reservation' = [reservation EXCEPT ![a] = [state |-> "reserved", fence |-> f]]
        /\ item' = [item EXCEPT ![i] =
                       [state |-> "applying", version |-> @.version + 1, run |-> @.run,
                        attempt |-> a, stage |-> "application", tries |-> @.tries + 1,
                        checks |-> @.checks, due |-> TRUE, challenge |-> "none"]]
        /\ proc' = [proc EXCEPT ![f] = [pc |-> "prepared", item |-> i, attempt |-> a,
                                        version |-> @.version + 1, todo |-> @.todo]]
        /\ UNCHANGED <<lease, synced, remote>>

\* Rendering, renewal or preparation was refused; the loop goes on.
ExecuteRaises(f) ==
    /\ proc[f].pc = "rendering"
    /\ Return(f, "dispatch")
    /\ UNCHANGED <<lease, item, history, reservation, synced, guard, remote>>

\* transport.apply_outcome
SendPost(f) ==
    /\ proc[f].pc = "prepared"
    /\ post' = [post EXCEPT ![proc[f].attempt] = "wire"]
    /\ proc' = [proc EXCEPT ![f].pc = "posting"]
    /\ UNCHANGED <<lease, item, history, reservation, synced, guard, negotiation>>

\* finalize_applied: the answer arrived.
FinalizeApplied(f) ==
    LET i == proc[f].item
        a == proc[f].attempt
    IN  /\ proc[f].pc = "posting"
        /\ post[a] = "accepted"
        /\ Valid(f)
        /\ FinishAttempt(a, "applied")
        /\ Reserve(a, "consumed")
        /\ MoveItem(i, "applied", item[i].stage, TRUE, "none")
        /\ guard' = [guard EXCEPT ![VacancyOf[i]].status = "applied"]
        /\ Return(f, "dispatch")
        /\ UNCHANGED <<lease, made, synced, remote>>

\* record_possibly_sent: no answer, whatever HH did, or the answer duplicate.
RecordPossiblySent(f) ==
    LET i == proc[f].item
        a == proc[f].attempt
    IN  /\ proc[f].pc = "posting"
        /\ Valid(f)
        /\ \E told \in {FALSE, post[a] = "duplicate"} :
             attempt' = [attempt EXCEPT ![a].status = "reconciling",
                                        ![a].duplicate = told]
        /\ Reserve(a, "held")
        /\ MoveItem(i, "reconciling", "reconciliation", FALSE, item[i].challenge)
        /\ Return(f, "dispatch")
        /\ UNCHANGED <<lease, made, synced, guard, remote>>

\* HHRetryPolicy.classify of a definite failure; hh_daily_limit waits for the
\* next day however many attempts were made.
FailureTargets(i) ==
    {"manual_challenge", "skipped", "retry_wait"}
        \cup (IF item[i].tries >= MaxAttempts THEN {"dead"} ELSE {})

\* finalize_definite_failure
FinalizeDefiniteFailure(f) ==
    LET i == proc[f].item
        a == proc[f].attempt
    IN  /\ proc[f].pc = "posting"
        /\ post[a] = "refused"
        /\ Valid(f)
        /\ Reserve(a, "released")
        /\ DropGuard(i)
        /\ \E target \in FailureTargets(i) :
             /\ FinishAttempt(a, target)
             /\ MoveItem(i, target, "application", target # "retry_wait",
                         IF target = "manual_challenge" THEN "manual" ELSE "none")
        /\ Return(f, "dispatch")
        /\ UNCHANGED <<lease, made, synced, remote>>

\* The finalising transaction raised, and the item stays as it is: the fence
\* is gone, or a limit is named on the last try and the cooldown of the
\* decision has no instant to store.
FinalizeRaises(f) ==
    /\ proc[f].pc = "posting"
    /\ \/ ~Valid(f)
       \/ post[proc[f].attempt] = "refused" /\ item[proc[f].item].tries >= MaxAttempts
    /\ Return(f, "dispatch")
    /\ UNCHANGED <<lease, item, history, reservation, synced, guard, remote>>
------------------------------------------------------------------------------
(* HH, the candidate and time *)

\* HH takes one application of a resume to a vacancy; it may call any other
\* one of the account a duplicate.
Arrive(a) ==
    LET i == attempt[a].item
    IN  /\ post[a] = "wire"
        /\ \/ /\ negotiation[i] = NoNegotiation
              /\ post' = [post EXCEPT ![a] = "accepted"]
              /\ negotiation' = [negotiation EXCEPT ![i] = made]
           \/ /\ Shown(i) # {}
              /\ post' = [post EXCEPT ![a] = "duplicate"]
              /\ UNCHANGED negotiation
        /\ UNCHANGED <<lease, proc, item, history, reservation, synced, guard>>

\* HH answers with an error, or the POST never gets there.
Refuse(a) ==
    /\ post[a] = "wire"
    /\ post' = [post EXCEPT ![a] = "refused"]
    /\ UNCHANGED <<lease, proc, item, history, reservation, synced, guard, negotiation>>

\* The candidate applies by hand.
ApplyExternally(i) ==
    /\ i \in External
    /\ negotiation[i] = NoNegotiation
    /\ negotiation' = [negotiation EXCEPT ![i] = made]
    /\ UNCHANGED <<lease, proc, item, history, reservation, synced, guard, post>>

\* next_attempt_at passes.
BecomeDue(i) ==
    /\ item[i].state \in {"reconciling", "retry_wait"}
    /\ ~item[i].due
    /\ Timely => \A a \in Attempt : attempt[a].item = i => post[a] # "wire"
    /\ item' = [item EXCEPT ![i].due = TRUE]
    /\ UNCHANGED <<lease, proc, history, reservation, synced, guard, remote>>

RunStep(f) ==
    \/ EndRun(f)
    \/ Crash(f)
    \/ RecoverStaleApplying(f)
    \/ \E i \in Item : LoadContext(f, i) \/ LoadRaises(f, i)
    \/ Reconcile(f)
    \/ OpenReconciliationAuth(f)
    \/ ReconcileRaises(f)
    \/ StartDispatch(f)
    \/ NextPass(f)
    \/ AdoptReadyItems(f)
    \/ \E i \in Item : \/ ActivateDueRetry(f, i)
                       \/ SkipReady(f, i)
                       \/ BeginExecute(f, i)
    \/ RenderFails(f)
    \/ PrepareDispatch(f)
    \/ ExecuteRaises(f)
    \/ SendPost(f)
    \/ FinalizeApplied(f)
    \/ RecordPossiblySent(f)
    \/ FinalizeDefiniteFailure(f)
    \/ FinalizeRaises(f)

Next ==
    \/ \E t \in Trigger : StartRun(t)
    \/ \E f \in Run : RunStep(f)
    \/ \E a \in Attempt : Arrive(a) \/ Refuse(a)
    \/ \E i \in Item : ApplyExternally(i) \/ BecomeDue(i)

Spec == Init /\ [][Next]_vars
------------------------------------------------------------------------------
(* Properties *)

OpenAttempt(a) == attempt[a].status \in Unresolved

\* An unresolved attempt, an open reservation, and an active guard that names
\* the attempt stand or fall together, through every takeover, crash and
\* adoption; so a vacancy has at most one application under way and every slot
\* of quota held has an attempt that will give it back (prepare_dispatch, the
\* finalisations and the reconciliations).
SlotAndGuardFollowAttempt ==
    \A a \in Attempt :
        /\ OpenAttempt(a) <=> reservation[a].state \in Open
        /\ OpenAttempt(a) <=> \E v \in Vacancy :
                                 guard[v] = [status |-> "active", owner |-> a]

\* The item of an unresolved attempt points back at it and is nowhere from
\* which it could be dispatched again; an item in flight has an unresolved
\* attempt.
ItemFollowsAttempt ==
    /\ \A a \in Attempt : OpenAttempt(a) =>
         /\ item[attempt[a].item].attempt = a
         /\ item[attempt[a].item].state \in {"applying", "reconciling", "manual_challenge"}
    /\ \A i \in Item : item[i].state \in Unresolved =>
         item[i].attempt \in Attempt /\ OpenAttempt(item[i].attempt)

\* An attempt that was decided is never decided again: an executor that wakes
\* up after recovery settled its dispatch changes nothing
\* (_validate_prepared_for_update).
DecisionsAreFinal ==
    [][\A a \in 1..made : ~OpenAttempt(a) => attempt'[a] = attempt[a]]_vars

\* HH never accepted more applications in the day than the limit, although
\* answers get lost and runs die after the POST (_reserve_quota and every
\* release of a reservation).
DeliveredWithinLimit ==
    Cardinality({a \in Attempt : post[a] = "accepted"}) <= DailyLimit

\* No second POST for an item HH has already accepted.
NoRepeatedApplication ==
    \A a, b \in Attempt :
        a < b /\ attempt[a].item = attempt[b].item /\ post[a] = "accepted"
            => post[b] = "none"

\* An item that says applied is an application HH holds.
AppliedIsReal ==
    \A i \in Item : item[i].state = "applied" => negotiation[i] # NoNegotiation

\* With best_resume_only an account sends one application to a vacancy.
OneApplicationPerVacancy ==
    ResumePolicy = "best_resume_only" =>
        \A a, b \in Attempt :
            post[a] = "accepted" /\ post[b] = "accepted"
                /\ VacancyOf[attempt[a].item] = VacancyOf[attempt[b].item] => a = b

\* The account-vacancy guard remembers every application the account made
\* (the guard row of hh_application_account_guards).
ApplicationIsRemembered ==
    \A a \in Attempt :
        attempt[a].status = "applied" => guard[VacancyOf[attempt[a].item]].status # "none"

\* Once HH has answered duplicate for a vacancy, no other resume is sent to it.
DuplicateEndsVacancy ==
    \A a, b \in 1..made :
        a < b /\ attempt[a].duplicate
              /\ VacancyOf[attempt[a].item] = VacancyOf[attempt[b].item]
            => post[b] = "none"

\* A dispatch is declared absent, and its item put back in the queue, only
\* after MaxChecks readings of HH.
AbsenceTakesAllChecks ==
    \A a \in Attempt : attempt[a].status = "ready" => attempt[a].reads >= MaxChecks

\* An item under reconciliation can still be decided: a recovery run to come
\* may adopt its reservation, or the run in charge has it on its list.
CanStillBeDecided(i) ==
    LET a == item[i].attempt
    IN  \/ /\ attempt[a].run <= reservation[a].fence
           /\ \/ item[i].run = attempt[a].run
              \/ trigger[item[i].run] = "recovery" /\ item[i].run <= reservation[a].fence
        \/ Current(fence) /\ \/ i \in proc[fence].todo /\ Loadable(fence, i)
                             \/ proc[fence].item = i
NoStrandedItem ==
    \A i \in Item : item[i].state = "reconciling" => CanStillBeDecided(i)
=============================================================================
