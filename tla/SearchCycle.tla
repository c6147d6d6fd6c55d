----------------------------- MODULE SearchCycle -----------------------------
(***************************************************************************)
(* Search cycles and checkpoints of one account and one resume             *)
(* (hh_autopilot/search.py and the search section of the repository).  A   *)
(* run collects pages query by query; every page is committed in one       *)
(* transaction with its results, its queue items and the checkpoint.  A    *)
(* run that lost the lease does not know it until it writes, and a         *)
(* recovery run may claim the cycle it left.                               *)
(*                                                                         *)
(* Every run takes a new lease, so a run's number is its fencing token.    *)
(***************************************************************************)
EXTENDS Naturals, FiniteSets, Sequences, FiniteSetsExt

CONSTANTS
    Vacancies,      \* what the pages list
    Queries,        \* number of search mappings, in their order
    Policies,       \* policy hashes
    PerPage,        \* search.per_page
    MaxPages,       \* search.max_pages
    Budget,         \* search.max_results_per_run
    Continuous,     \* whether a run starts over after its last query
    MaxRuns, MaxCycles  \* bounds on the history

SearchAssumption ==
    /\ {Queries, PerPage, MaxPages, Budget, MaxRuns, MaxCycles} \subseteq Nat \ {0}
    /\ IsFiniteSet(Vacancies) /\ Continuous \in BOOLEAN

Keys == (1 .. MaxCycles) \X (1 .. Queries)

VARIABLES
    holder,     \* the run whose lease is current, 0 for none
    grant,      \* the policy of the active grant, or "none"
    runs,       \* trigger, policy and status of every run
    cycles,     \* hh_autopilot_search_cycles
    next,       \* next_page of the checkpoint of a cycle and a query
    done,       \* the checkpoints that are complete
    results,    \* hh_autopilot_search_results: cycle, query, vacancy
    item,       \* the queue item of every vacancy
    col         \* the collector of every run

vars == <<holder, grant, runs, cycles, next, done, results, item, col>>

NoItem == [state |-> "none", run |-> 0, origin |-> 0]
Gone == [at |-> "gone", cyc |-> 0, query |-> 1, claim |-> 0, remaining |-> 0,
         known |-> {}, budgeted |-> {}, page |-> {}, last |-> FALSE]

Init ==
    /\ holder = 0 /\ grant \in Policies
    /\ runs = <<>> /\ cycles = <<>>
    /\ next = [k \in Keys |-> 0] /\ done = {} /\ results = {}
    /\ item = [v \in Vacancies |-> NoItem]
    /\ col = [r \in 1 .. MaxRuns |-> Gone]

Distinct(c) == {x[3] : x \in {y \in results : y[1] = c}}
Terminal(r) == runs[r].status # "running"

----------------------------------------------------------------------------
(* Runs, the lease and the grant.                                          *)

\* A run is opened under a new lease; a shadow run carries no grant.
StartRun(trigger) ==
    /\ Len(runs) < MaxRuns /\ holder = 0
    /\ trigger # "shadow" => grant # "none"
    /\ \E p \in Policies :
          /\ trigger # "shadow" => p = grant
          /\ runs' = Append(runs, [trigger |-> trigger, policy |-> p, status |-> "running"])
    /\ holder' = Len(runs')
    /\ col' = [col EXCEPT ![Len(runs')] =
                 [Gone EXCEPT !.at = IF trigger = "recovery" THEN "claim" ELSE "open",
                              !.remaining = Budget]]
    /\ UNCHANGED <<grant, cycles, next, done, results, item>>

LoseLease ==
    /\ holder # 0 /\ holder' = 0
    /\ UNCHANGED <<grant, runs, cycles, next, done, results, item, col>>

\* A new grant, or none.
Regrant(p) ==
    /\ p # grant /\ grant' = p
    /\ UNCHANGED <<holder, runs, cycles, next, done, results, item, col>>

\* The run is over: finish_run under its own lease, or the process that died
\* is found by the next run.
EndRun(r) ==
    /\ r \in DOMAIN runs /\ runs[r].status = "running" /\ holder \in {r, 0}
    /\ runs' = [runs EXCEPT ![r].status = "ended"]
    /\ holder' = 0
    /\ col' = [col EXCEPT ![r] = Gone]
    /\ UNCHANGED <<grant, cycles, next, done, results, item>>

----------------------------------------------------------------------------
(* Provenance: what every write of the search checks in its transaction.   *)

\* _assert_search_run_for_update: lease, run, and for a live search the grant.
RunMaySearch(r, policy, mode) ==
    /\ holder = r
    /\ ~Terminal(r) /\ runs[r].policy = policy
    /\ IF mode = "shadow" THEN runs[r].trigger = "shadow"
       ELSE runs[r].trigger # "shadow" /\ grant = policy

MayWriteStale(r, c, claim) == cycles[c].status = "running" /\ ~Terminal(r)

\* _assert_search_runtime_for_update and _assert_search_commit_provenance.
MayWrite(r, c, claim) ==
    /\ cycles[c].status = "running" /\ cycles[c].owner = r
    /\ cycles[c].claim = claim
    /\ RunMaySearch(r, cycles[c].policy, cycles[c].mode)

\* A refused write ends the collector: the run fails or is interrupted.
Refused(r) ==
    /\ col' = [col EXCEPT ![r] = Gone]
    /\ UNCHANGED <<cycles, next, done, results, item>>

\* _create_item_for_update for a list of vacancies of a cycle's page: a new
\* item, a discovered one handed to this run, or an unfinished selection of a
\* run that ended started over.
ItemNoHandOver(v, o) ==
    IF item[v].state = "none" THEN [state |-> "discovered", run |-> o, origin |-> o] ELSE item[v]

Unfinished(v, o) == /\ item[v].state = "ranked" /\ item[v].run # o
                    /\ Terminal(item[v].run)

ItemOf(v, o) ==
    IF item[v].state = "none" THEN [state |-> "discovered", run |-> o, origin |-> o]
    ELSE IF item[v].state = "discovered" \/ Unfinished(v, o)
    THEN [item[v] EXCEPT !.state = "discovered", !.run = o]
    ELSE item[v]

\* Only a live search fills the queue.
QueueWith(c, new) ==
    [v \in Vacancies |-> IF v \in new /\ cycles[c].mode = "live"
                         THEN ItemOf(v, cycles[c].origin) ELSE item[v]]

----------------------------------------------------------------------------
(* HHSearchProvider.collect, step by step.                                 *)

Mode(r) == IF runs[r].trigger = "shadow" THEN "shadow" ELSE "live"
Owned(r) == {c \in DOMAIN cycles : cycles[c].owner = r /\ cycles[c].status = "running"}

\* get_or_create_owned_cycle.
Open(r) ==
    /\ col[r].at = "open"
    /\ \/ /\ \A c \in Owned(r) : ~MayWrite(r, c, cycles[c].claim)
          /\ Owned(r) # {} \/ ~RunMaySearch(r, runs[r].policy, Mode(r))
          /\ Refused(r)
       \/ \E c \in Owned(r) :
             /\ MayWrite(r, c, cycles[c].claim)
             /\ col' = [col EXCEPT ![r] = [@ EXCEPT !.at = "checkpoint", !.cyc = c, !.claim = cycles[c].claim]]
             /\ UNCHANGED cycles
       \/ /\ Owned(r) = {} /\ RunMaySearch(r, runs[r].policy, Mode(r))
          /\ Len(cycles) < MaxCycles
          /\ cycles' = Append(cycles, [origin |-> r, owner |-> r, claim |-> 0, mode |-> Mode(r),
                                       status |-> "running", policy |-> runs[r].policy, cap |-> Budget])
          /\ col' = [col EXCEPT ![r] = [@ EXCEPT !.at = "checkpoint", !.cyc = Len(cycles'), !.claim = 0]]
    /\ UNCHANGED <<holder, grant, runs, next, done, results, item>>

\* ensure_search_checkpoint: the row exists, at page 0 if it is new.
Checkpoint(r) ==
    /\ col[r].at = "checkpoint"
    /\ col' = [col EXCEPT ![r] = IF MayWrite(r, @.cyc, cycles[@.cyc].claim)
                                 THEN [@ EXCEPT !.at = "cap"] ELSE Gone]
    /\ UNCHANGED <<holder, grant, runs, cycles, next, done, results, item>>

\* initialize_search_cycle_distinct_cap (the cap is only ever lowered) and the
\* read of what the cycle knows.
Prepare(r) ==
    /\ col[r].at = "cap"
    /\ LET c == col[r].cyc IN
       IF ~MayWrite(r, c, col[r].claim) THEN Refused(r)
       ELSE /\ cycles' = [cycles EXCEPT ![c].cap =
                             Min({@, Cardinality(Distinct(c)) + col[r].remaining})]
            /\ col' = [col EXCEPT ![r] = [@ EXCEPT
                   !.at = IF <<c, col[r].query>> \in done THEN "next" ELSE "fetch",
                   !.known = Distinct(c), !.budgeted = {}]]
            /\ UNCHANGED <<next, done, results, item>>
    /\ UNCHANGED <<holder, grant, runs>>

\* Whether the fetched page ends the query.
EndsQuery(r, pg, page, reported, budgeted) ==
    \/ pg + 1 >= MaxPages \/ Cardinality(page) < PerPage
    \/ reported \/ Cardinality(budgeted) >= col[r].remaining

\* How many vacancies of a page the budget still takes.
Room(r, fresh) == Min({Cardinality(fresh), col[r].remaining - Cardinality(col[r].budgeted)})

\* _fetch_page under a renewed lease: any page, normalised and cut to the
\* budget, and whether it is the last one.
Fetch(r) ==
    /\ col[r].at = "fetch"
    /\ LET c == col[r].cyc
           pg == next[<<c, col[r].query>>] IN
       IF holder # r THEN col' = [col EXCEPT ![r] = Gone]
       ELSE \E page \in SUBSET Vacancies, reported \in BOOLEAN :
              /\ Cardinality(page) <= PerPage
              /\ LET fresh == (page \ col[r].known) \ col[r].budgeted IN
                 \E taken \in kSubset(Room(r, fresh), fresh) :
                    LET budgeted == col[r].budgeted \union taken IN
                    col' = [col EXCEPT ![r] = [@ EXCEPT
                       !.at = "commit", !.page = (page \ fresh) \union taken, !.budgeted = budgeted,
                       !.last = EndsQuery(r, pg, page, reported, budgeted)]]
    /\ UNCHANGED <<holder, grant, runs, cycles, next, done, results, item>>

\* What commit_search_page takes of a page: everything the cycle knows, and new
\* vacancies while the cap has room.
Accepts(c, page, taken) ==
    LET fresh == page \ Distinct(c)
        room == Min({Cardinality(fresh), Max({0, cycles[c].cap - Cardinality(Distinct(c))})}) IN
    page \ fresh \subseteq taken /\ taken \subseteq page /\ Cardinality(taken \ Distinct(c)) = room

\* A write for an item of a run that ended needs the cycle's origin alive.
Blocks(c, taken) ==
    /\ cycles[c].mode = "live"
    /\ \E v \in taken : Unfinished(v, cycles[c].origin)
    /\ holder # cycles[c].origin

\* commit_search_page: one transaction.
Commit(r) ==
    /\ col[r].at = "commit"
    /\ LET c == col[r].cyc
           k == <<c, col[r].query>> IN
       IF ~MayWrite(r, c, col[r].claim) \/ k \in done THEN Refused(r)
       ELSE \E taken \in SUBSET col[r].page :
              /\ Accepts(c, col[r].page, taken)
              /\ IF Blocks(c, taken) THEN Refused(r)
                 ELSE LET rows == {<<c, col[r].query, v>> : v \in taken}
                          new == {v \in taken : <<c, col[r].query, v>> \notin results}
                          full == Cardinality(Distinct(c) \union taken) >= cycles[c].cap
                          over == col[r].last \/ full IN
                    /\ results' = results \union rows
                    /\ item' = QueueWith(c, new)
                    /\ next' = [next EXCEPT ![k] = @ + 1]
                    /\ done' = IF over THEN done \union {k} ELSE done
                    /\ col' = [col EXCEPT ![r] = [@ EXCEPT
                                 !.at = IF over THEN "next" ELSE "fetch",
                                 !.known = @ \union new, !.page = {}, !.last = FALSE]]
                    /\ UNCHANGED cycles
    /\ UNCHANGED <<holder, grant, runs>>

Completed(c) == [cycles EXCEPT ![c].status = "complete"]

\* _discover: the next query with what is left of the budget, or, in a
\* continuous run, a new pass with a new cycle and the whole budget.
Proceed(r) ==
    /\ col[r].at = "next"
    /\ LET c == col[r].cyc
           left == col[r].remaining - Cardinality(col[r].budgeted \intersect Distinct(c)) IN
       IF col[r].query < Queries /\ left > 0
       THEN /\ col' = [col EXCEPT ![r] = [Gone EXCEPT !.at = "open", !.query = col[r].query + 1,
                                                      !.remaining = left]]
            /\ UNCHANGED cycles
       ELSE IF Continuous /\ MayWrite(r, c, col[r].claim)
       THEN /\ cycles' = Completed(c)
            /\ col' = [col EXCEPT ![r] = [Gone EXCEPT !.at = "open", !.remaining = Budget]]
       ELSE col' = [col EXCEPT ![r] = Gone] /\ UNCHANGED cycles
    /\ UNCHANGED <<holder, grant, runs, next, done, results, item>>

----------------------------------------------------------------------------
(* claim_search_cycle by a recovery run.                                   *)

Interrupted(r, o) ==
    IF o = r \/ Terminal(o) THEN runs ELSE [runs EXCEPT ![o].status = "interrupted"]

\* _supersede_and_reset_search_items_for_update: never an item with an attempt.
Reset(c, r) ==
    [v \in Vacancies |->
        IF /\ v \in Distinct(c) /\ item[v].origin = cycles[c].origin
           /\ item[v].state \in {"discovered", "ranked"}
        THEN [item[v] EXCEPT !.state = "discovered", !.run = r]
        ELSE item[v]]

NoSibling(c) == Owned(cycles[c].owner) = {c}

Claim(r) ==
    /\ col[r].at = "claim"
    /\ \E c \in DOMAIN cycles :
          /\ cycles[c].status = "running" /\ cycles[c].mode = "live"
          /\ cycles[c].owner # r
          /\ RunMaySearch(r, runs[r].policy, "live") /\ Owned(r) = {}
          /\ NoSibling(c)
          /\ IF cycles[c].policy # runs[r].policy
             THEN /\ cycles' = [cycles EXCEPT ![c].status = "superseded"]
                  /\ item' = Reset(c, r)
             ELSE /\ cycles' = [cycles EXCEPT ![c].owner = r, ![c].claim = @ + 1]
                  /\ UNCHANGED item
          /\ runs' = Interrupted(r, cycles[c].owner)
    /\ col' = [col EXCEPT ![r].at = "open"]
    /\ UNCHANGED <<holder, grant, next, done, results>>

----------------------------------------------------------------------------
(* The selection and the sender work on the queue (external here).         *)

Select(v) ==
    /\ item[v].state = "discovered" /\ holder = item[v].run
    /\ item' = [item EXCEPT ![v].state = "ranked"]
    /\ UNCHANGED <<holder, grant, runs, cycles, next, done, results, col>>

SendItem(v) ==
    /\ item[v].state = "ranked" /\ holder = item[v].run
    /\ item' = [item EXCEPT ![v].state = "sent"]
    /\ UNCHANGED <<holder, grant, runs, cycles, next, done, results, col>>

Next ==
    \/ \E t \in {"schedule", "recovery", "shadow"} : StartRun(t)
    \/ LoseLease
    \/ \E p \in Policies \union {"none"} : Regrant(p)
    \/ \E r \in 1 .. MaxRuns : \/ EndRun(r) \/ Open(r) \/ Checkpoint(r) \/ Prepare(r) \/ Fetch(r) \/ Commit(r)
                               \/ Proceed(r) \/ Claim(r)
    \/ \E v \in Vacancies : Select(v) \/ SendItem(v)

Spec == Init /\ [][Next]_vars

----------------------------------------------------------------------------
(* Properties.                                                             *)

\* Types; every collector is a run's and keeps to what is left of its budget.
TypeOK ==
    /\ holder \in 0 .. Len(runs) /\ grant \in Policies \union {"none"}
    /\ next \in [Keys -> 0 .. MaxPages] /\ done \subseteq Keys
    /\ results \subseteq {<<k[1], k[2], v>> : k \in Keys, v \in Vacancies}
    /\ \A r \in 1 .. MaxRuns :
          /\ col[r].at # "gone" => r \in DOMAIN runs
          /\ Cardinality(col[r].budgeted) <= col[r].remaining

\* A cycle never holds more vacancies than its cap, whoever collects them:
\* a recovery run that brings its own budget to a claimed cycle included.
CapHolds == \A c \in DOMAIN cycles : Cardinality(Distinct(c)) <= cycles[c].cap

\* Only the run that holds the lease and the cycle, under a grant of the
\* cycle's policy, moves a checkpoint, and it moves it by one page.
OnlyTheOwnerAdvances ==
    \A k \in Keys : next'[k] # next[k] =>
          /\ next'[k] = next[k] + 1 /\ k \notin done
          /\ holder = cycles[k[1]].owner
          /\ cycles[k[1]].mode = "live" => grant = cycles[k[1]].policy

\* A vacancy found by the live search of the run at work is in its queue:
\* what is still to be judged belongs to this run, not to one that ended.
FoundIsQueued ==
    \A x \in results :
        LET c == cycles[x[1]] IN
        c.mode = "live" =>
           /\ item[x[3]].state # "none"
           /\ (c.owner = holder /\ c.claim = 0 /\ c.status = "running")
                 => (item[x[3]].state = "discovered" => item[x[3]].run = holder)

\* A shadow run leaves the queue as it was.
ShadowLeavesNoTrace ==
    \A v \in Vacancies : item[v].state # "none" =>
        /\ runs[item[v].run].trigger # "shadow"
        /\ \E x \in results : x[3] = v /\ cycles[x[1]].mode = "live"

\* A change of the policy starts the selection over only for what was never
\* sent.
SentIsKept == \A v \in Vacancies : item[v].state = "sent" => item'[v].state = "sent"

\* docs/hh-autopilot.md: max_results_per_run is the distinct budget of the run.
RunBudgetHolds ==
    \A r \in DOMAIN runs :
        Cardinality(UNION {Distinct(c) : c \in {d \in DOMAIN cycles : cycles[d].origin = r}}) <= Budget
=============================================================================
