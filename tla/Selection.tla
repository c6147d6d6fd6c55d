------------------------------ MODULE Selection ------------------------------
(***************************************************************************)
(* How vacancies become ready to be sent (engine.py with the selection     *)
(* section of the repository): the runs of one account register what a     *)
(* search lists, filter and rank every pair of a vacancy and a resume, and *)
(* select one resume per vacancy, or all of them.  A run may end at every  *)
(* step and the next one takes up what it left.  One run is current at a   *)
(* time: the writes of another are refused (modules Lease, SearchCycle),   *)
(* so an item either belongs to the run at work or to one that ended.      *)
(*                                                                         *)
(* The engine runs with ten ranking workers: they compute decisions, which *)
(* the owner thread writes one by one, and the sender takes ready items    *)
(* meanwhile.                                                              *)
(***************************************************************************)
EXTENDS Naturals, Sequences, FiniteSets, SequencesExt

CONSTANTS
    Vacancies, Resumes,  \* sets of numbers; resumes in the order of their ids
    Scores,         \* scores of a ready decision
    BestOnly,       \* application.resume_policy = best_resume_only
    MaxTries,       \* retry.max_attempts
    Limit,          \* how many unfinished items a run recovers
    Flaky,          \* whether reads and AI calls may fail and the operator steps in
    Steady,         \* whether every run has all resumes and finds every retry due
    MaxEnds         \* bound on the runs that end early

SelectionAssumption ==
    /\ Vacancies \subseteq Nat /\ Resumes \subseteq Nat /\ Scores \subseteq Nat
    /\ {MaxTries, Limit} \subseteq Nat \ {0} /\ MaxEnds \in Nat
    /\ {BestOnly, Flaky, Steady} \subseteq BOOLEAN

Pairs == Vacancies \X Resumes

VARIABLES
    item,       \* the queue item of every pair
    order,      \* the pairs in the order of their item ids
    sealed,     \* vacancies for which the current run has selected
    run,        \* the current run: its phase, resumes, work and current item
    raised,     \* why the last run failed
    ends,       \* runs that ended early
    curated     \* vacancies for which the operator sent a skipped item back

vars == <<item, order, sealed, run, raised, ends, curated>>

None == <<0, 0>>
NoItem == [state |-> "none", own |-> FALSE, decision |-> "none", score |-> 0, code |-> "",
           passed |-> FALSE, tries |-> 0, sent |-> FALSE]
NoRun == [phase |-> "off", active |-> {}, history |-> {}, todo |-> {}, batch |-> {},
          seen |-> {}, cur |-> None, step |-> ""]

Init ==
    /\ item = [p \in Pairs |-> NoItem] /\ order = <<>>
    /\ sealed = {} /\ run = NoRun /\ raised = "" /\ ends = 0 /\ curated = {}

On == run.phase # "off"
Free == run.cur = None
Of(v) == {p \in Pairs : p[1] = v}
Active == {p \in Pairs : p[2] \in run.active}
In(S) == {p \in Pairs : item[p].state \in S}
Set(p, i) == item' = [item EXCEPT ![p] = i]
Skipped(i, code) == [i EXCEPT !.state = "skipped", !.code = code]

\* An exception ends the run as failed.
Raise(why) == run' = NoRun /\ raised' = why /\ sealed' = {}

----------------------------------------------------------------------------
(* Registration: _create_item_for_update.                                  *)

Unfinished == {"discovered", "eligible", "ranked"}

\* Kept as it was left, with its decision.
RegisteredAsIs(p) ==
    IF item[p].state = "none" THEN [NoItem EXCEPT !.state = "discovered", !.own = TRUE]
    ELSE [item[p] EXCEPT !.own = TRUE]

Registered(p) ==
    LET i == item[p] IN
    IF i.state = "none" THEN [NoItem EXCEPT !.state = "discovered", !.own = TRUE]
    ELSE IF i.state = "discovered" \/ (i.state \in Unfinished /\ ~i.own /\ ~i.sent)
    THEN [NoItem EXCEPT !.state = "discovered", !.own = TRUE, !.tries = i.tries]
    ELSE i

\* The search goes mapping by mapping.
Before(p, q) == p[2] < q[2] \/ (p[2] = q[2] /\ p[1] < q[1])

Register(S) ==
    /\ item' = [p \in Pairs |-> IF p \in S THEN Registered(p) ELSE item[p]]
    /\ order' = order \o SetToSortSeq({p \in S : item[p].state = "none"}, Before)

----------------------------------------------------------------------------
(* The phases of a run.                                                    *)

\* A run with the resumes of the policy, the history HH shows, and the ready
\* items of earlier runs adopted.
StartRun ==
    /\ ~On
    /\ \E active \in SUBSET Resumes :
          /\ active # {} /\ (Steady => active = Resumes)
          /\ LET ready == {p \in In({"ready"}) : p[2] \in active} IN
             /\ item' = [p \in Pairs |-> [item[p] EXCEPT !.own = p \in ready]]
             /\ run' = [NoRun EXCEPT !.phase = "refresh", !.active = active, !.todo = ready,
                          !.history = {v \in Vacancies : \E p \in Of(v) : item[p].state = "applied"}]
    /\ sealed' = {} /\ raised' = ""
    /\ UNCHANGED <<order, ends, curated>>

\* _refresh_ready: a ready item is judged again; without an answer it waits.
Refresh(p) ==
    /\ run.phase = "refresh" /\ p \in run.todo
    /\ \/ UNCHANGED item /\ run' = [run EXCEPT !.todo = @ \ {p}]
       \/ /\ Flaky /\ UNCHANGED item
          /\ run' = [run EXCEPT !.todo = @ \ {p}, !.seen = @ \union {p}]
       \/ /\ \E code \in {"unfit", "late_filter"} : Set(p, Skipped(item[p], code))
          /\ run' = [run EXCEPT !.todo = @ \ {p}]
    /\ UNCHANGED <<order, sealed, raised, ends, curated>>

\* The first items an ended run left; those that are this run's count as well.
FirstUnfinished ==
    LET left == SelectSeq(order, LAMBDA p : item[p].state \in Unfinished /\ p[2] \in run.active) IN
    {p \in ToSet(SubSeq(left, 1, IF Len(left) < Limit THEN Len(left) ELSE Limit)) : ~item[p].own}

\* _recover_unfinished_selection: registered, then evaluated.
Recover ==
    /\ run.phase = "refresh" /\ run.todo = {}
    /\ LET S == FirstUnfinished IN
       /\ Register(S)
       /\ run' = [run EXCEPT !.phase = "recover", !.batch = {p[1] : p \in S},
                    !.todo = {p \in S : Registered(p).state = "discovered"}]
    /\ UNCHANGED <<sealed, raised, ends, curated>>

PhaseDone(phase) == run.phase = phase /\ run.todo = {} /\ run.batch = {} /\ Free

\* Retries that are due (activate_due_retry): judged anew.
Retry ==
    /\ PhaseDone("recover")
    /\ \E S \in SUBSET (In({"retry_wait"}) \intersect Active) :
          /\ Steady => S = In({"retry_wait"}) \intersect Active
          /\ item' = [p \in Pairs |-> IF p \in S
                        THEN [item[p] EXCEPT !.state = "eligible", !.own = TRUE, !.decision = "none"]
                        ELSE item[p]]
          /\ run' = [run EXCEPT !.phase = "retry", !.todo = S, !.batch = {p[1] : p \in S}]
    /\ UNCHANGED <<order, sealed, raised, ends, curated>>

\* _discover: every competitor is registered before the first is judged.
Discover ==
    /\ PhaseDone("retry")
    /\ \E S \in SUBSET Active :
          /\ Register(S)
          /\ run' = [run EXCEPT !.phase = "discover", !.batch = {p[1] : p \in S},
                       !.todo = {p \in S : Registered(p).state = "discovered"}]
    /\ UNCHANGED <<sealed, raised, ends, curated>>

\* The run drains its queue before it ends.
EndRun ==
    /\ PhaseDone("discover")
    /\ \A p \in Active \ run.seen : item[p].state = "ready" => ~item[p].own
    /\ run' = NoRun /\ sealed' = {}
    /\ UNCHANGED <<item, order, raised, ends, curated>>

\* Stop, the death of the process, a lost lease, or an access error of HH.
Crash ==
    /\ On /\ ends < MaxEnds
    /\ ends' = ends + 1 /\ run' = NoRun /\ sealed' = {}
    /\ UNCHANGED <<item, order, raised, curated>>

----------------------------------------------------------------------------
(* One item: read, filtered, ranked.                                       *)

\* _selection_read_failure: a vacancy that is gone is skipped, another error
\* leaves the item as it is.
ReadFails(p) ==
    /\ run.phase = "recover" /\ p \in run.todo /\ Free
    /\ Flaky
    /\ item' \in {item, [item EXCEPT ![p] = Skipped(@, "gone")]}
    /\ run' = [run EXCEPT !.todo = @ \ {p}]
    /\ UNCHANGED <<order, sealed, raised, ends, curated>>

\* record_filter_decision: refused for a vacancy this run has decided.
Filter(p) ==
    /\ run.phase \in {"recover", "discover"} /\ p \in run.todo /\ Free
    /\ IF p[1] \in sealed THEN Raise("sealed") /\ UNCHANGED item
       ELSE /\ UNCHANGED <<sealed, raised>>
            /\ \/ /\ Set(p, Skipped(item[p], "filter"))
                  /\ run' = [run EXCEPT !.todo = @ \ {p}]
               \/ /\ p[1] \notin run.history
                  /\ Set(p, [item[p] EXCEPT !.state = "eligible", !.passed = TRUE])
                  /\ run' = [run EXCEPT !.todo = @ \ {p}, !.cur = p, !.step = "rank"]
    /\ UNCHANGED <<order, ends, curated>>

\* An activated retry goes straight to the ranking.
TakeRetry(p) ==
    /\ run.phase = "retry" /\ p \in run.todo /\ Free
    /\ run' = [run EXCEPT !.todo = @ \ {p}, !.cur = p, !.step = "rank"]
    /\ UNCHANGED <<item, order, sealed, raised, ends, curated>>

\* schedule_eligibility_retry.
Retried(i) ==
    [i EXCEPT !.tries = @ + 1, !.decision = "retry",
              !.state = IF i.tries + 1 >= MaxTries THEN "dead" ELSE "retry_wait",
              !.code = IF i.tries + 1 >= MaxTries THEN "exhausted" ELSE "retry"]

\* record_ranking_decision or a retry.
Rank ==
    /\ run.step = "rank"
    /\ LET p == run.cur IN
       IF p[1] \in sealed THEN Raise("sealed") /\ UNCHANGED item
       ELSE /\ UNCHANGED <<sealed, raised>>
            /\ \/ /\ Set(p, Retried(item[p]))
                  /\ run' = [run EXCEPT !.cur = None, !.step = ""]
               \/ /\ \E s \in Scores :
                       Set(p, [item[p] EXCEPT !.state = "ranked", !.decision = "ready", !.score = s])
                  /\ run' = [run EXCEPT !.step = "finalize"]
               \/ /\ Set(p, [item[p] EXCEPT !.state = "ranked", !.decision = "unfit"])
                  /\ run' = [run EXCEPT !.step = "unfit"]
    /\ UNCHANGED <<order, ends, curated>>

SkipUnfit ==
    /\ run.step = "unfit"
    /\ Set(run.cur, Skipped(item[run.cur], "unfit"))
    /\ run' = [run EXCEPT !.step = "finalize"]
    /\ UNCHANGED <<order, sealed, raised, ends, curated>>

----------------------------------------------------------------------------
(* Selection of a vacancy's resume.                                        *)

\* adopt_ranked_candidates_for_retry: nothing of the vacancy is under way, and
\* no resume of the policy is still to be judged.
DispatchedNow(v) == \E p \in Of(v) : item[p].state \in {"ready", "applied"}

Dispatched(v) ==
    \E p \in Of(v) : \/ item[p].state \in {"ready", "applied"} \/ item[p].sent
                     \/ item[p].state = "skipped" /\ item[p].code = "duplicate"

Pending(v) ==
    \E p \in Of(v) \intersect Active :
        ~item[p].sent /\ item[p].state \in {"discovered", "eligible", "retry_wait"}

Adopts(v) == ~Dispatched(v) /\ ~Pending(v)
Ranked(v) == {p \in Of(v) \intersect Active : item[p].state = "ranked"}
AllRanked(v) == {p \in Of(v) \intersect Active : item[p].state = "ranked"}
Qualifying(v) == {p \in Ranked(v) : item[p].decision = "ready"}

\* What finalize_ranked_candidates does not accept among the run's items.
Malformed(v) ==
    \E p \in Of(v) : item[p].own /\
        \/ item[p].state \in {"discovered", "eligible", "retry_wait"}
        \/ item[p].state = "skipped" /\ item[p].code \notin {"filter", "unfit", "not_best"}

Better(p, q) ==
    item[p].score > item[q].score \/ (item[p].score = item[q].score /\ p[2] <= q[2])

Selected(v) ==
    IF BestOnly THEN {CHOOSE p \in Qualifying(v) : \A q \in Qualifying(v) : Better(p, q)}
    ELSE Qualifying(v)

Finalize(v) ==
    /\ \/ run.step = "finalize" /\ run.cur[1] = v
       \/ run.todo = {} /\ Free /\ v \in run.batch
    /\ LET here == IF Free THEN [run EXCEPT !.batch = @ \ {v}]
                   ELSE [run EXCEPT !.cur = None, !.step = ""]
           adopted == [p \in Pairs |-> IF p \in Ranked(v) THEN [item[p] EXCEPT !.own = TRUE] ELSE item[p]] IN
       IF ~Adopts(v)
       THEN run' = here /\ UNCHANGED <<item, sealed, raised>>
       ELSE IF Qualifying(v) = {}
       THEN run' = here /\ item' = adopted /\ UNCHANGED <<sealed, raised>>
       ELSE IF v \in sealed \/ Malformed(v)
       THEN Raise("malformed") /\ item' = adopted
       ELSE /\ run' = here
            /\ item' = [p \in Pairs |->
                  IF p \in Selected(v) THEN [adopted[p] EXCEPT !.state = "ready", !.code = "ready"]
                  ELSE IF p \in Qualifying(v) THEN Skipped(adopted[p], "not_best")
                  ELSE adopted[p]]
            /\ sealed' = sealed \union {v}
            /\ UNCHANGED raised
    /\ UNCHANGED <<order, ends, curated>>

----------------------------------------------------------------------------
(* The sender, and the operator between two runs.                          *)

\* One item of a vacancy is sent; the guard turns away the others.
Send(p) ==
    /\ On /\ item[p].state = "ready" /\ item[p].own /\ p \notin run.seen \union run.todo
    /\ IF \E q \in Of(p[1]) : item[q].sent /\ item[q].state = "applied"
       THEN Set(p, Skipped(item[p], "duplicate"))
       ELSE \/ Set(p, [item[p] EXCEPT !.state = "applied", !.sent = TRUE])
            \/ Set(p, [Skipped(item[p], "preflight") EXCEPT !.sent = TRUE])
    /\ UNCHANGED <<order, sealed, run, raised, ends, curated>>

\* requeue_curated_skipped and requeue_curated_filter_skip: only what was never
\* attempted for the vacancy by any resume.
Curate(p) ==
    /\ ~On /\ Flaky
    /\ item[p].state = "skipped" /\ item[p].code \in {"unfit", "not_best", "filter"}
    /\ \A q \in Of(p[1]) : ~item[q].sent
    /\ Set(p, [item[p] EXCEPT !.state = "ready", !.code = "curated", !.passed = TRUE])
    /\ curated' = curated \union {p[1]}
    /\ UNCHANGED <<order, sealed, run, raised, ends>>

\* requeue_verified_preflight_skip: an attempt that never left the machine.
RequeuePreflight(p) ==
    /\ ~On /\ Flaky
    /\ item[p].state = "skipped" /\ item[p].code = "preflight" /\ item[p].passed
    /\ \A q \in Of(p[1]) : item[q].state # "applied"
    /\ Set(p, [item[p] EXCEPT !.state = "ready", !.code = "requeued"])
    /\ UNCHANGED <<order, sealed, run, raised, ends, curated>>

Owner ==
    \/ Recover \/ Retry \/ Discover \/ EndRun \/ Rank \/ SkipUnfit
    \/ \E p \in Pairs : Refresh(p) \/ ReadFails(p) \/ Filter(p) \/ TakeRetry(p)
    \/ \E v \in Vacancies : Finalize(v)

Next ==
    \/ StartRun \/ Owner \/ Crash
    \/ \E p \in Pairs : Send(p) \/ Curate(p) \/ RequeuePreflight(p)

Spec == Init /\ [][Next]_vars

\* The scheduler starts runs, the owner thread runs and so does the sender.
Fairness == WF_vars(StartRun) /\ WF_vars(Owner) /\ \A p \in Pairs : WF_vars(Send(p))
FairSpec == Spec /\ Fairness

----------------------------------------------------------------------------
(* Properties.                                                             *)

\* Types; the tries are bounded, and work belongs to a run.
TypeOK ==
    /\ \A p \in Pairs :
          /\ item[p].state \in {"none", "discovered", "eligible", "ranked", "retry_wait", "ready",
                                "skipped", "dead", "applied"}
          /\ item[p].tries <= MaxTries /\ item[p].own \in BOOLEAN
          /\ p \in ToSet(order) <=> item[p].state # "none"
    /\ sealed \subseteq Vacancies /\ (~On => sealed = {})
    /\ run.todo \subseteq Active /\ ends <= MaxEnds

\* Under best_resume_only the selection puts one resume of a vacancy on its
\* way, over all runs, retries and crashes: a second one is not selected while
\* the first waits or after it was tried.  (The operator may add one.)
OneResumeOnItsWay ==
    BestOnly => \A v \in Vacancies \ curated :
        Cardinality({p \in Of(v) : item[p].state = "ready" \/ item[p].sent}) <= 1

\* The resume selected in a run is the best of all that the run found ready for
\* that vacancy, those listed later included.
BestOfTheRun ==
    BestOnly => \A v \in sealed : \A p, q \in Of(v) :
        item[p].own /\ item[p].code = "ready" /\ item[p].state = "ready"
          /\ item[q].own /\ item[q].decision = "ready" /\ (item[q].state \in {"ranked", "ready"} \/ item[q].code = "not_best")
          => item[p].score >= item[q].score

\* Whatever the run selects was filtered and ranked as ready by the last
\* judgement, and nothing that was tried is judged again.
JudgedBeforeSelected ==
    \A p \in Pairs :
          /\ item[p].state = "ranked" /\ item'[p].state = "ready"
                => item[p].passed /\ item[p].decision = "ready" /\ item'[p].own
          /\ item[p].sent => item'[p].state \notin {"discovered", "eligible", "ranked"}

\* Selection left by an exited run is taken up again, also when no search page
\* lists it any more, and every item is decided in the end: but for the
\* second resume of a vacancy whose first was tried in vain, which stays ranked.
TriedInVain(v) == \E p \in Of(v) : item[p].sent /\ item[p].state # "applied"

Undecided(p) == item[p].state \in {"discovered", "eligible", "ranked", "retry_wait"}
IsDecided(p) == item[p].state \in {"ready", "skipped", "dead", "applied"} \/ TriedInVain(p[1])
EveryItemIsDecided == \A p \in Pairs : Undecided(p) ~> IsDecided(p)

\* engine.py: every competitor is registered before a result can seal its
\* vacancy, so no judgement meets a sealed vacancy.
NoJudgementAfterTheSeal == raised # "sealed"
=============================================================================
