--------------------------- MODULE Dispatch_proofs ---------------------------
(***************************************************************************)
(* Facts about Dispatch, for every number of items, vacancies, runs and    *)
(* attempts, every limit and resume policy, in three layers: attempts,     *)
(* reservations, guards and items stay together; no item is sent twice and *)
(* what the rows call applied is an application HH holds; and an item      *)
(* under reconciliation keeps a run that may decide it.                    *)
(*                                                                         *)
(* A fourth layer is about Challenges, which adds the operator's desk: the *)
(* desk keeps the invariants of the runs, and what it may not undo stands. *)
(***************************************************************************)
EXTENDS Challenges, TLAPS

\* Attempts are numbered in the order of their insertion.
AttemptsInOrder ==
    \A a \in Attempt :
        /\ a <= made => attempt[a].item \in Item /\ attempt[a].status # "none"
        /\ a > made => attempt[a].status = "none" /\ reservation[a].state = "none"

\* A slot is open exactly as long as its attempt.
SlotFollowsAttempt ==
    \A a \in Attempt : OpenAttempt(a) <=> reservation[a].state \in Open

\* The guard of its vacancy names the unresolved attempt, and an active guard
\* names an unresolved attempt on its own vacancy.
GuardFollowsAttempt ==
    /\ \A a \in Attempt : OpenAttempt(a) =>
         guard[VacancyOf[attempt[a].item]] = [status |-> "active", owner |-> a]
    /\ \A v \in Vacancy : guard[v].status = "active" =>
         /\ guard[v].owner \in Attempt
         /\ OpenAttempt(guard[v].owner)
         /\ VacancyOf[attempt[guard[v].owner].item] = v

\* An item points at an attempt of its own.
ItemOwnsAttempt ==
    \A i \in Item : item[i].attempt # 0 =>
        item[i].attempt <= made /\ attempt[item[i].attempt].item = i

\* An item in flight or under reconciliation has an unresolved attempt.
UnresolvedHasAttempt ==
    \A i \in Item : item[i].state \in Unresolved =>
        item[i].attempt \in Attempt /\ OpenAttempt(item[i].attempt)

Coherent ==
    /\ AttemptsInOrder
    /\ SlotFollowsAttempt
    /\ GuardFollowsAttempt
    /\ UnresolvedHasAttempt
    /\ ItemOwnsAttempt

\* What a process carries between two transactions is an attempt and its item.
Carries(f) ==
    /\ proc[f].pc = "rendering" => proc[f].item \in Item
    /\ proc[f].pc \in {"prepared", "posting", "reading"} =>
         /\ proc[f].item \in Item
         /\ proc[f].attempt \in 1..made
         /\ attempt[proc[f].attempt].item = proc[f].item
ProcessCarriesAttempt == \A f \in Run : Carries(f)

\* Only an application is retried.
RetryApplies ==
    \A i \in Item : item[i].state = "retry_wait" => item[i].stage = "application"

IndInv == TypeOK /\ Coherent /\ ProcessCarriesAttempt /\ RetryApplies
------------------------------------------------------------------------------
USE ItemAssumption, PolicyAssumption, TriggerAssumption, BoundAssumption
------------------------------------------------------------------------------
(* What a transaction does to each table, seen from outside *)

\* Item i reaches one of the states and keeps its attempt.
ItemMoves(i, states) ==
    /\ item' \in [Item -> ItemRecord]
    /\ item'[i].state \in states
    /\ item'[i].attempt = item[i].attempt
    /\ item'[i].state = "retry_wait" => item'[i].stage = "application"
    /\ \A j \in Item \ {i} : item'[j] = item[j]

\* Attempt a reaches one of the statuses and keeps its item.
AttemptMoves(a, statuses) ==
    /\ attempt' \in [Attempt -> AttemptRecord]
    /\ attempt'[a].status \in statuses
    /\ attempt'[a].item = attempt[a].item
    /\ \A b \in Attempt \ {a} : attempt'[b] = attempt[b]

\* The reservation of attempt a reaches one of the states.
SlotMoves(a, states) ==
    /\ reservation' \in [Attempt -> ReservationRecord]
    /\ reservation'[a].state \in states
    /\ \A b \in Attempt \ {a} : reservation'[b] = reservation[b]

\* The guard of item i's vacancy reaches one of the statuses.
GuardMoves(i, statuses) ==
    /\ guard' \in [Vacancy -> GuardRecord]
    /\ guard'[VacancyOf[i]].status \in statuses
    /\ \A v \in Vacancy \ {VacancyOf[i]} : guard'[v] = guard[v]

\* Process f reaches one of the places.
ProcMoves(f, pcs) ==
    /\ proc' \in [Run -> ProcRecord]
    /\ proc'[f].pc \in pcs
    /\ \A g \in Run \ {f} : proc'[g] = proc[g]

\* Places where a process carries nothing that must be true.
Idle == Pc \ {"rendering", "prepared", "posting", "reading"}

\* A move into some of the states is a move into more of them.
LEMMA Widen ==
    /\ \A i, S, T : S \subseteq T /\ ItemMoves(i, S) => ItemMoves(i, T)
    /\ \A a, S, T : S \subseteq T /\ AttemptMoves(a, S) => AttemptMoves(a, T)
    /\ \A a, S, T : S \subseteq T /\ SlotMoves(a, S) => SlotMoves(a, T)
    /\ \A i, S, T : S \subseteq T /\ GuardMoves(i, S) => GuardMoves(i, T)
    /\ \A f, S, T : S \subseteq T /\ ProcMoves(f, S) => ProcMoves(f, T)
  BY DEF ItemMoves, AttemptMoves, SlotMoves, GuardMoves, ProcMoves

\* MoveItem, field by field.
LEMMA MoveItemMoves ==
    ASSUME TypeOK, NEW i \in Item, NEW state \in ItemState,
           NEW stage \in {"application", "reconciliation"}, NEW due \in BOOLEAN,
           NEW challenge \in Challenge, MoveItem(i, state, stage, due, challenge),
           state = "retry_wait" => stage = "application"
    PROVE  ItemMoves(i, {state})
  <1>1. item'[i] = [state |-> state, version |-> item[i].version + 1,
                    run |-> item[i].run, attempt |-> item[i].attempt,
                    stage |-> stage, tries |-> item[i].tries,
                    checks |-> item[i].checks, due |-> due, challenge |-> challenge]
    BY SMTT(60) DEF TypeOK, ItemRecord, MoveItem
  <1>2. item' = [item EXCEPT ![i] = item'[i]]
    BY DEF TypeOK, MoveItem
  <1>3. item'[i] \in ItemRecord
    BY <1>1 DEF TypeOK, ItemRecord
  <1> QED BY <1>1, <1>2, <1>3 DEF ItemMoves, TypeOK

\* What a reconciliation check leaves of the item.
LEMMA CheckedItemMoves ==
    ASSUME TypeOK, NEW i \in Item, NEW state \in ItemState,
           NEW stage \in {"application", "reconciliation"}, NEW due \in BOOLEAN,
           NEW challenge \in Challenge, CheckedItem(i, state, stage, due, challenge),
           state # "retry_wait"
    PROVE  ItemMoves(i, {state})
  <1>1. item'[i] = [state |-> state, version |-> item[i].version + 1,
                    run |-> item[i].run, attempt |-> item[i].attempt,
                    stage |-> stage, tries |-> item[i].tries,
                    checks |-> item[i].checks + 1, due |-> due, challenge |-> challenge]
    BY DEF TypeOK, CheckedItem
  <1>2. item' = [item EXCEPT ![i] = item'[i]]
    BY DEF TypeOK, CheckedItem
  <1>3. item'[i] \in ItemRecord
    BY <1>1 DEF TypeOK, ItemRecord
  <1> QED BY <1>1, <1>2, <1>3 DEF ItemMoves, TypeOK

\* A reservation changes state and keeps its fence.
LEMMA ReserveMoves ==
    ASSUME TypeOK, NEW a \in Attempt, NEW state \in Counted \cup {"none", "released"},
           Reserve(a, state)
    PROVE  SlotMoves(a, {state})
  BY DEF TypeOK, ReservationRecord, Reserve, SlotMoves

\* An attempt is finished, or checked once more.
LEMMA FinishMoves ==
    ASSUME TypeOK, NEW a \in Attempt, NEW status \in ItemState,
           FinishAttempt(a, status) \/ Checked(a, status)
    PROVE  AttemptMoves(a, {status})
  <1>1. CASE FinishAttempt(a, status)
    BY SMTT(30), <1>1 DEF TypeOK, AttemptRecord, FinishAttempt, AttemptMoves
  <1>2. CASE Checked(a, status)
    BY <1>2 DEF TypeOK, AttemptRecord, Checked, AttemptMoves
  <1> QED BY <1>1, <1>2

\* The guard row is deleted.
LEMMA DropMoves ==
    ASSUME TypeOK, NEW i \in Item, DropGuard(i)
    PROVE  GuardMoves(i, {"none"})
  BY DEF TypeOK, GuardRecord, DropGuard, NoGuard, GuardMoves

\* The guard row records the application.
LEMMA MarkMoves ==
    ASSUME TypeOK, NEW i \in Item, guard' = [guard EXCEPT ![VacancyOf[i]].status = "applied"]
    PROVE  GuardMoves(i, {"applied"})
  BY DEF TypeOK, GuardRecord, GuardMoves

\* A process returns to one of its loops.
LEMMA ReturnMoves ==
    ASSUME TypeOK, NEW f \in Run, NEW pc \in Pc, Return(f, pc)
    PROVE  ProcMoves(f, {pc})
  BY DEF TypeOK, ProcRecord, Return, ProcMoves

\* Both loops are places where nothing is carried.
LEMMA LoopIsIdle ==
    ASSUME TypeOK, NEW f \in Run, Return(f, "dispatch") \/ Return(f, "reconcile")
    PROVE  ProcMoves(f, Idle)
  BY ReturnMoves, Widen DEF Idle, Pc

\* The attempt a process inserts is the next in order.
LEMMA NewAttemptIsNext ==
    ASSUME TypeOK, NEW i \in Item, NEW status \in ItemState, NewAttempt(i, status)
    PROVE  /\ made + 1 \in Attempt
           /\ made' = made + 1
           /\ attempt' \in [Attempt -> AttemptRecord]
           /\ attempt'[made + 1].status = status
           /\ attempt'[made + 1].item = i
           /\ \A b \in Attempt \ {made + 1} : attempt'[b] = attempt[b]
  BY DEF TypeOK, ItemRecord, AttemptRecord, NewAttempt, Attempt

\* What an item keeps has its type.
LEMMA ItemTyped ==
    ASSUME TypeOK, NEW i \in Item
    PROVE  /\ item[i].state \in ItemState
           /\ item[i].stage \in {"application", "reconciliation"}
           /\ item[i].challenge \in Challenge
  BY DEF TypeOK, ItemRecord

------------------------------------------------------------------------------
(* The ways the rows of an attempt change together *)

\* Attempt numbers start at one and zero names none.
LEMMA Numbers ==
    ASSUME TypeOK
    PROVE  /\ 0 \notin Attempt
           /\ \A i \in Item : item[i].attempt # 0 => item[i].attempt \in Attempt
           /\ \A f \in Run : proc[f].attempt \in 1..made => proc[f].attempt \in Attempt
  BY DEF TypeOK, Attempt, ItemRecord

\* The attempt an item points at is its own.
LEMMA OwnAttempt ==
    ASSUME TypeOK, Coherent, NEW i \in Item, NEW a \in Attempt, item[i].attempt = a
    PROVE  attempt[a].item = i
  BY Numbers DEF Coherent, ItemOwnsAttempt

\* An unresolved attempt has an item.
LEMMA OpenHasItem ==
    ASSUME TypeOK, Coherent, NEW a \in Attempt, OpenAttempt(a)
    PROVE  attempt[a].item \in Item
  BY DEF TypeOK, Coherent, AttemptsInOrder, OpenAttempt, Unresolved, Attempt

\* An unresolved attempt is decided: its slot closes, its guard stops being
\* active and its item leaves the unresolved states.
LEMMA Settled ==
    ASSUME TypeOK, Coherent, NEW i \in Item, NEW a \in Attempt, item[i].attempt = a, OpenAttempt(a),
           AttemptMoves(a, ItemState \ Unresolved), 
           SlotMoves(a, {"consumed", "released"}), 
           ItemMoves(i, ItemState \ Unresolved),
           GuardMoves(i, {"none", "applied", "external_applied"}),
           made' = made
    PROVE  Coherent'
  <1>0. attempt[a].item = i
     BY OwnAttempt
  <1>1. /\ \A b \in Attempt : attempt'[b].status \in Unresolved <=> attempt[b].status \in Unresolved /\ b # a
        /\ \A b \in Attempt : attempt'[b].item = attempt[b].item
     BY DEF AttemptMoves
  <1>2. /\ \A b \in Attempt : reservation'[b].state \in Open <=> reservation[b].state \in Open /\ b # a
        /\ \A j \in Item : item'[j].attempt = item[j].attempt
        /\ \A j \in Item : j # i => item'[j].state = item[j].state
     BY DEF SlotMoves, Open, ItemMoves
  <1>3. AttemptsInOrder'
     BY <1>1 DEF Coherent, AttemptsInOrder, AttemptMoves, SlotMoves, ItemState, OpenAttempt, Unresolved
  <1>4. SlotFollowsAttempt'
     BY <1>1, <1>2 DEF Coherent, SlotFollowsAttempt, OpenAttempt
  <1>5. GuardFollowsAttempt'
    <2>1. ASSUME NEW b \in Attempt, OpenAttempt(b), b # a
          PROVE  VacancyOf[attempt[b].item] # VacancyOf[i]
      <3>1. guard[VacancyOf[attempt[b].item]] = [status |-> "active", owner |-> b]
        BY <2>1 DEF Coherent, GuardFollowsAttempt
      <3>2. guard[VacancyOf[i]] = [status |-> "active", owner |-> a]
        BY <1>0 DEF Coherent, GuardFollowsAttempt
      <3> QED BY <3>1, <3>2, <2>1
    <2>3. ASSUME NEW b \in Attempt, attempt'[b].status \in Unresolved
          PROVE  guard'[VacancyOf[attempt'[b].item]] = [status |-> "active", owner |-> b]
      <3>1. OpenAttempt(b) /\ b # a /\ attempt'[b].item = attempt[b].item
        BY <2>3, <1>1 DEF OpenAttempt
      <3>2. VacancyOf[attempt[b].item] \in Vacancy \ {VacancyOf[i]}
        BY <3>1, <2>1, OpenHasItem
      <3> QED BY <3>1, <3>2 DEF GuardMoves, Coherent, GuardFollowsAttempt
    <2>4. ASSUME NEW v \in Vacancy, guard'[v].status = "active" 
          PROVE /\ guard'[v].owner \in Attempt
                /\ attempt'[guard'[v].owner].status \in Unresolved
                /\ VacancyOf[attempt'[guard'[v].owner].item] = v
      <3>1. v # VacancyOf[i] /\ guard'[v] = guard[v]
        BY <2>4 DEF GuardMoves
      <3>2. /\ guard[v].owner \in Attempt
            /\ attempt[guard[v].owner].status \in Unresolved
            /\ VacancyOf[attempt[guard[v].owner].item] = v
        BY <2>4, <3>1 DEF Coherent, GuardFollowsAttempt, OpenAttempt
      <3> QED BY <3>1, <3>2, <1>0, <1>1 
    <2> QED BY <2>3, <2>4 DEF GuardFollowsAttempt, OpenAttempt
  <1>6. UnresolvedHasAttempt'
    <2>1. ASSUME NEW j \in Item, item'[j].state \in Unresolved
          PROVE  item'[j].attempt \in Attempt /\ attempt'[item'[j].attempt].status \in Unresolved
      <3>1. j # i /\ item[j].state \in Unresolved
        BY <2>1, <1>2 DEF ItemMoves
      <3>2. item[j].attempt \in Attempt /\ attempt[item[j].attempt].status \in Unresolved
        BY <3>1 DEF Coherent, UnresolvedHasAttempt, OpenAttempt
      <3>3. item[j].attempt # a
        BY <3>1, <3>2, <1>0, OwnAttempt
      <3> QED BY <3>2, <3>3, <1>1, <1>2
    <2> QED BY <2>1 DEF UnresolvedHasAttempt, OpenAttempt
  <1>7. ItemOwnsAttempt'
    BY <1>1, <1>2, Numbers DEF Coherent, ItemOwnsAttempt
  <1> QED BY <1>3, <1>4, <1>5, <1>6, <1>7 DEF Coherent

\* An unresolved attempt stays unresolved, and so do its slot and its item.
LEMMA StillOpen ==
    ASSUME TypeOK, Coherent, NEW i \in Item, NEW a \in Attempt, item[i].attempt = a, OpenAttempt(a),
           AttemptMoves(a, Unresolved), 
           SlotMoves(a, Open), 
           ItemMoves(i, {"applying", "reconciling", "manual_challenge"}),
           guard' = guard, made' = made
    PROVE  Coherent'
  <1>0. attempt[a].item = i
     BY OwnAttempt
  <1>1. /\ \A b \in Attempt : attempt'[b].status \in Unresolved <=> attempt[b].status \in Unresolved
        /\ \A b \in Attempt : attempt'[b].item = attempt[b].item
     BY DEF AttemptMoves, OpenAttempt
  <1>2. /\ \A b \in Attempt : reservation'[b].state \in Open <=> reservation[b].state \in Open \/ b = a
        /\ \A j \in Item : item'[j].attempt = item[j].attempt
        /\ \A j \in Item : j # i => item'[j].state = item[j].state
     BY DEF SlotMoves, Open, ItemMoves
  <1>3. AttemptsInOrder'
     BY <1>1 DEF Coherent, AttemptsInOrder, AttemptMoves, SlotMoves, OpenAttempt, Unresolved
  <1>4. SlotFollowsAttempt'
     BY <1>1, <1>2 DEF Coherent, SlotFollowsAttempt, OpenAttempt
  <1>5. GuardFollowsAttempt'
     BY <1>1 DEF Coherent, GuardFollowsAttempt, OpenAttempt
  <1>6. UnresolvedHasAttempt'
    <2>1. \A j \in Item : item'[j].state \in Unresolved => item[j].state \in Unresolved \/ j = i
      BY <1>2
    <2> QED BY <1>1, <1>2, <2>1 DEF Coherent, UnresolvedHasAttempt, OpenAttempt
  <1>7. ItemOwnsAttempt'
    BY <1>1, <1>2, Numbers DEF Coherent, ItemOwnsAttempt
  <1> QED BY <1>3, <1>4, <1>5, <1>6, <1>7 DEF Coherent

\* A ready item gets the next attempt, with a slot and the guard.
LEMMA Dispatched ==
    ASSUME TypeOK, Coherent, NEW i \in Item, NEW a \in Attempt, a = made + 1, made' = a,
           item[i].state = "ready",
           guard[VacancyOf[i]].status # "active",
           attempt'[a].item = i, attempt'[a].status = "applying",
           \A b \in Attempt \ {a} : attempt'[b] = attempt[b],
           reservation'[a].state = "reserved",
           \A b \in Attempt \ {a} : reservation'[b] = reservation[b],
           guard'[VacancyOf[i]] = [status |-> "active", owner |-> a],
           \A v \in Vacancy \ {VacancyOf[i]} : guard'[v] = guard[v],
           item'[i].state = "applying", item'[i].attempt = a,
           \A j \in Item \ {i} : item'[j] = item[j]
    PROVE  Coherent'
  <1>1. \A b \in Attempt : OpenAttempt(b) => attempt[b].item \in Item /\ b # a
    <2>1. ASSUME NEW b \in Attempt, OpenAttempt(b) PROVE attempt[b].item \in Item
      BY <2>1, OpenHasItem
    <2>2. attempt[a].status = "none"
      <3>1. a > made
        BY DEF TypeOK, Attempt
      <3> QED BY <3>1 DEF Coherent, AttemptsInOrder
    <2>3. ~OpenAttempt(a)
      BY <2>2 DEF OpenAttempt, Unresolved
    <2> QED BY <2>1, <2>3
  <1>2. \A b \in Attempt : OpenAttempt(b) =>
           VacancyOf[attempt[b].item] \in Vacancy \ {VacancyOf[i]}
    <2>1. ASSUME NEW b \in Attempt, OpenAttempt(b)
          PROVE  VacancyOf[attempt[b].item] \in Vacancy \ {VacancyOf[i]}
      <3>1. guard[VacancyOf[attempt[b].item]] = [status |-> "active", owner |-> b]
        BY <2>1 DEF Coherent, GuardFollowsAttempt
      <3>2. VacancyOf[attempt[b].item] # VacancyOf[i]
        BY <3>1
      <3> QED BY <2>1, <3>2, <1>1
    <2> QED BY <2>1
  <1>3. AttemptsInOrder'
    BY DEF Coherent, AttemptsInOrder, TypeOK, Attempt
  <1>4. SlotFollowsAttempt'
    BY DEF Coherent, SlotFollowsAttempt, OpenAttempt, Open, Unresolved
  <1>5. GuardFollowsAttempt'
    <2>1. ASSUME NEW b \in Attempt, attempt'[b].status \in Unresolved
          PROVE  guard'[VacancyOf[attempt'[b].item]] = [status |-> "active", owner |-> b]
      <3>1. CASE b = a
        BY <3>1
      <3>2. CASE b # a
        <4>1. OpenAttempt(b) /\ attempt'[b] = attempt[b]
          BY <2>1, <3>2 DEF OpenAttempt
        <4> QED BY <4>1, <1>2 DEF Coherent, GuardFollowsAttempt
      <3> QED BY <3>1, <3>2
    <2>2. ASSUME NEW v \in Vacancy, guard'[v].status = "active"
          PROVE /\ guard'[v].owner \in Attempt
                /\ attempt'[guard'[v].owner].status \in Unresolved
                /\ VacancyOf[attempt'[guard'[v].owner].item] = v
      <3>1. CASE v = VacancyOf[i]
        <4>1. guard'[v].owner = a
          BY <3>1
        <4> QED BY <3>1, <4>1 DEF Unresolved
      <3>2. CASE v # VacancyOf[i]
        <4>1. /\ guard'[v] = guard[v]
              /\ guard[v].owner \in Attempt
              /\ OpenAttempt(guard[v].owner)
              /\ VacancyOf[attempt[guard[v].owner].item] = v
          BY <2>2, <3>2 DEF Coherent, GuardFollowsAttempt
        <4>2. attempt'[guard[v].owner] = attempt[guard[v].owner]
          BY <4>1, <1>1
        <4> QED BY <4>1, <4>2 DEF OpenAttempt
      <3> QED BY <3>1, <3>2
    <2> QED BY <2>1, <2>2 DEF GuardFollowsAttempt, OpenAttempt
  <1>6. UnresolvedHasAttempt'
    <2>1. ASSUME NEW j \in Item, item'[j].state \in Unresolved
          PROVE  item'[j].attempt \in Attempt /\ attempt'[item'[j].attempt].status \in Unresolved
      <3>1. CASE j = i
        BY <3>1 DEF Unresolved
      <3>2. CASE j # i
        <4>1. /\ item'[j] = item[j]
              /\ item[j].attempt \in Attempt
              /\ OpenAttempt(item[j].attempt)
          BY <2>1, <3>2 DEF Coherent, UnresolvedHasAttempt
        <4>2. attempt'[item[j].attempt] = attempt[item[j].attempt]
          BY <4>1, <1>1
        <4> QED BY <4>1, <4>2 DEF OpenAttempt
      <3> QED BY <3>1, <3>2
    <2> QED BY <2>1 DEF UnresolvedHasAttempt, OpenAttempt
  <1>7. ItemOwnsAttempt'
    <2>1. ASSUME NEW j \in Item, item'[j].attempt # 0
          PROVE  item'[j].attempt <= made' /\ attempt'[item'[j].attempt].item = j
      <3>1. CASE j = i
        BY <3>1 DEF Attempt, TypeOK
      <3>2. CASE j # i
        <4>1. /\ item[j].attempt \in Attempt /\ item[j].attempt <= made
              /\ attempt[item[j].attempt].item = j
          BY <2>1, <3>2, Numbers DEF Coherent, ItemOwnsAttempt
        <4> QED BY <3>2, <4>1 DEF Attempt, TypeOK
      <3> QED BY <3>1, <3>2
    <2> QED BY <2>1 DEF ItemOwnsAttempt
  <1> QED BY <1>3, <1>4, <1>5, <1>6, <1>7 DEF Coherent

\* A ready item gets an attempt that ends before it is sent.
LEMMA NotSent ==
    ASSUME TypeOK, Coherent, NEW i \in Item, NEW a \in Attempt, a = made + 1, made' = a,
           item[i].state = "ready",
           attempt'[a].item = i, attempt'[a].status = "retry_wait",
           \A b \in Attempt \ {a} : attempt'[b] = attempt[b],
           UNCHANGED <<reservation, guard>>,
           item'[i].state = "retry_wait", item'[i].attempt = a,
           \A j \in Item \ {i} : item'[j] = item[j]
    PROVE  Coherent'
  <1>0. attempt[a].status = "none" /\ reservation[a].state = "none"
    BY DEF Coherent, AttemptsInOrder, TypeOK, Attempt
  <1>2. \A b \in Attempt : /\ attempt'[b].status \in Unresolved <=> attempt[b].status \in Unresolved
                           /\ attempt[b].status \in Unresolved => attempt'[b] = attempt[b]
    BY <1>0 DEF Unresolved
  <1>3. AttemptsInOrder'
    BY DEF Coherent, AttemptsInOrder, TypeOK, Attempt
  <1>4. SlotFollowsAttempt'
    BY <1>2 DEF Coherent, SlotFollowsAttempt, OpenAttempt
  <1>5. GuardFollowsAttempt'
    <2>1. \A b \in Attempt : attempt'[b].status \in Unresolved =>
             guard'[VacancyOf[attempt'[b].item]] = [status |-> "active", owner |-> b]
      BY <1>2 DEF Coherent, GuardFollowsAttempt, OpenAttempt
    <2>2. ASSUME NEW v \in Vacancy, guard[v].status = "active"
          PROVE /\ guard[v].owner \in Attempt
                /\ attempt'[guard[v].owner].status \in Unresolved
                /\ VacancyOf[attempt'[guard[v].owner].item] = v
      <3>1. /\ guard[v].owner \in Attempt
            /\ attempt[guard[v].owner].status \in Unresolved
            /\ VacancyOf[attempt[guard[v].owner].item] = v
        BY <2>2 DEF Coherent, GuardFollowsAttempt, OpenAttempt
      <3> QED BY <3>1, <1>2
    <2> QED BY <2>1, <2>2 DEF GuardFollowsAttempt, OpenAttempt
  <1>6. UnresolvedHasAttempt'
    <2>1. ASSUME NEW j \in Item, item'[j].state \in Unresolved
          PROVE  item'[j].attempt \in Attempt /\ attempt'[item'[j].attempt].status \in Unresolved
      <3>1. j # i
        BY <2>1 DEF Unresolved
      <3>2. item[j].attempt \in Attempt /\ OpenAttempt(item[j].attempt)
        BY <2>1, <3>1 DEF Coherent, UnresolvedHasAttempt
      <3> QED BY <3>1, <3>2, <1>2 DEF OpenAttempt
    <2> QED BY <2>1 DEF UnresolvedHasAttempt, OpenAttempt
  <1>7. ItemOwnsAttempt'
    <2>1. ASSUME NEW j \in Item, item'[j].attempt # 0
          PROVE  item'[j].attempt <= made' /\ attempt'[item'[j].attempt].item = j
      <3>1. CASE j = i
        BY <3>1 DEF Attempt, TypeOK
      <3>2. CASE j # i
        <4>1. /\ item[j].attempt \in Attempt /\ item[j].attempt <= made
              /\ attempt[item[j].attempt].item = j
          BY <2>1, <3>2, Numbers DEF Coherent, ItemOwnsAttempt
        <4> QED BY <3>2, <4>1 DEF Attempt, TypeOK
      <3> QED BY <3>1, <3>2
    <2> QED BY <2>1 DEF ItemOwnsAttempt
  <1> QED BY <1>3, <1>4, <1>5, <1>6, <1>7 DEF Coherent

\* No attempt changes: an item moves only where its attempt lets it.
LEMMA OnlyItems ==
    ASSUME TypeOK, Coherent,
           \A i \in Item :
             /\ item'[i].attempt = item[i].attempt
             /\ \/ item'[i].state = item[i].state
                \/ item[i].state = "applying" /\ item'[i].state = "reconciling"
                \/ /\ item[i].state \notin {"applying", "reconciling", "manual_challenge"}
                   /\ item'[i].state \notin Unresolved,
           \A a \in Attempt : reservation'[a].state = reservation[a].state,
           UNCHANGED <<made, attempt, guard>>
    PROVE  Coherent'
  <1>2. AttemptsInOrder' /\ SlotFollowsAttempt' /\ GuardFollowsAttempt' /\ ItemOwnsAttempt'
    BY DEF Coherent, AttemptsInOrder, SlotFollowsAttempt, GuardFollowsAttempt, ItemOwnsAttempt, OpenAttempt
  <1>3. UnresolvedHasAttempt'
    BY DEF Coherent, UnresolvedHasAttempt, Unresolved, OpenAttempt
  <1> QED BY <1>2, <1>3 DEF Coherent

\* Neither attempts nor items change.
LEMMA Untouched ==
    ASSUME TypeOK, Coherent, UNCHANGED <<item, history, guard>>,
           \A a \in Attempt : reservation'[a].state = reservation[a].state
    PROVE  Coherent'
  BY OnlyItems DEF history

\* A move keeps the stage of retries.
LEMMA RetryKept ==
    ASSUME RetryApplies, NEW i \in Item, NEW states, ItemMoves(i, states)
    PROVE  RetryApplies'
  BY DEF RetryApplies, ItemMoves

\* Attempts keep their items, so a step of one process leaves what the others
\* carry.
LEMMA OthersCarry ==
    ASSUME TypeOK, ProcessCarriesAttempt, NEW f \in Run,
           made' \in {made, made + 1},
           \A b \in 1..made : attempt'[b].item = attempt[b].item,
           \A g \in Run \ {f} : proc'[g] = proc[g],
           Carries(f)'
    PROVE  ProcessCarriesAttempt'
  <1>1. \A b \in 1..made : b \in 1..made'
    BY DEF TypeOK
  <1>2. ASSUME NEW g \in Run \ {f} PROVE Carries(g)'
    BY <1>1 DEF ProcessCarriesAttempt, Carries
  <1> QED BY <1>2 DEF ProcessCarriesAttempt

\* A process moves on with nothing in its hands.
LEMMA IdleCarries ==
    ASSUME TypeOK, ProcessCarriesAttempt, NEW f \in Run, ProcMoves(f, Idle),
           made' \in {made, made + 1},
           \A b \in 1..made : attempt'[b].item = attempt[b].item
    PROVE  ProcessCarriesAttempt'
  <1>1. Carries(f)'
    BY DEF ProcMoves, Carries, Idle
  <1> QED BY <1>1, OthersCarry DEF ProcMoves

\* What process f carries when its transaction finds everything as it left it.
LEMMA ValidCarries ==
    ASSUME IndInv, NEW f \in Run, proc[f].pc \in {"posting", "reading"}, Valid(f)
    PROVE  /\ proc[f].item \in Item /\ proc[f].attempt \in Attempt
           /\ item[proc[f].item].attempt = proc[f].attempt
           /\ OpenAttempt(proc[f].attempt)
           /\ item[proc[f].item].state \in Unresolved
           /\ reservation[proc[f].attempt].state \in Open
           /\ guard[VacancyOf[proc[f].item]] = [status |-> "active", owner |-> proc[f].attempt]
  BY Numbers DEF IndInv, ProcessCarriesAttempt, Carries, Valid, OpenAttempt

\* A transaction decides the attempt of process f and returns to the loop.
LEMMA Decides ==
    ASSUME IndInv, NEW f \in Run, proc[f].pc \in {"posting", "reading"}, Valid(f),
           AttemptMoves(proc[f].attempt, ItemState \ Unresolved),
           SlotMoves(proc[f].attempt, {"consumed", "released"}),
           ItemMoves(proc[f].item, ItemState \ Unresolved),
           GuardMoves(proc[f].item, {"none", "applied", "external_applied"}),
           ProcMoves(f, Idle), synced' \subseteq Item,
           UNCHANGED <<lease, made, remote>>
    PROVE  IndInv'
  <1>1. TypeOK'
    BY DEF IndInv, TypeOK, AttemptMoves, SlotMoves, ItemMoves, GuardMoves, ProcMoves, lease, remote
  <1>2. Coherent'
    BY ValidCarries, Settled DEF IndInv
  <1>3. ProcessCarriesAttempt'
    <2>1. \A b \in 1..made : attempt'[b].item = attempt[b].item
      <3>1. \A b \in 1..made : b \in Attempt
        BY DEF IndInv, TypeOK, Attempt
      <3> QED BY <3>1 DEF AttemptMoves
    <2> QED BY <2>1, IdleCarries DEF IndInv
  <1>4. RetryApplies'
    BY ValidCarries, RetryKept DEF IndInv
  <1> QED BY <1>1, <1>2, <1>3, <1>4 DEF IndInv

\* A transaction keeps the attempt of process f open and returns to the loop.
LEMMA Keeps ==
    ASSUME IndInv, NEW f \in Run, proc[f].pc \in {"posting", "reading"}, Valid(f),
           AttemptMoves(proc[f].attempt, Unresolved),
           SlotMoves(proc[f].attempt, Open),
           ItemMoves(proc[f].item, {"applying", "reconciling", "manual_challenge"}),
           ProcMoves(f, Idle),
           UNCHANGED <<lease, made, synced, guard, remote>>
    PROVE  IndInv'
  <1>1. TypeOK'
    BY DEF IndInv, TypeOK, AttemptMoves, SlotMoves, ItemMoves, ProcMoves, lease, remote
  <1>2. Coherent'
    BY ValidCarries, StillOpen DEF IndInv
  <1>3. ProcessCarriesAttempt'
    <2>1. \A b \in 1..made : attempt'[b].item = attempt[b].item
      <3>1. \A b \in 1..made : b \in Attempt
        BY DEF IndInv, TypeOK, Attempt
      <3> QED BY <3>1 DEF AttemptMoves
    <2> QED BY <2>1, IdleCarries DEF IndInv
  <1>4. RetryApplies'
    BY ValidCarries, RetryKept DEF IndInv
  <1> QED BY <1>1, <1>2, <1>3, <1>4 DEF IndInv

------------------------------------------------------------------------------
(* Every step keeps the invariant *)

\* A new run starts with nothing in its hands.
LEMMA StartRunStep == ASSUME IndInv, NEW t \in Trigger, StartRun(t) PROVE IndInv'
  <1>1. fence + 1 \in Run /\ fence' = fence + 1
    BY DEF StartRun, IndInv, TypeOK, Run
  <1>2. ProcMoves(fence + 1, Idle)
    BY <1>1 DEF StartRun, IndInv, TypeOK, ProcRecord, ProcMoves, Idle, Pc
  <1>3. UNCHANGED <<item, history, reservation, synced, guard, remote>>
    BY DEF StartRun
  <1>4. TypeOK'
    BY <1>1, <1>2, <1>3 DEF StartRun, IndInv, TypeOK, ProcMoves, history, remote, Run
  <1>5. Coherent'
    BY <1>3, Untouched DEF IndInv
  <1>6. ProcessCarriesAttempt'
    BY <1>1, <1>2, <1>3, IdleCarries DEF IndInv, history
  <1>7. RetryApplies'
    BY <1>3 DEF IndInv, RetryApplies
  <1> QED BY <1>4, <1>5, <1>6, <1>7 DEF IndInv

\* Steps that move only a process, and perhaps release the lease.
LEMMA ProcessSteps ==
    ASSUME IndInv, NEW f \in Run,
           \/ EndRun(f) \/ Crash(f) \/ ReconcileRaises(f) \/ StartDispatch(f)
           \/ NextPass(f) \/ ExecuteRaises(f) \/ FinalizeRaises(f)
           \/ \E i \in Item : LoadRaises(f, i)
    PROVE  IndInv'
  <1>1. ProcMoves(f, Idle)
    <2>1. CASE EndRun(f)
      BY <2>1 DEF EndRun, IndInv, TypeOK, ProcRecord, ProcMoves, Idle, Pc
    <2>2. CASE Crash(f)
      BY <2>2 DEF Crash, IndInv, TypeOK, ProcRecord, ProcMoves, Idle, Pc, NoProc
    <2>3. CASE ReconcileRaises(f)
      BY <2>3, ReturnMoves DEF ReconcileRaises, IndInv, ProcMoves, Idle, Pc
    <2>4. CASE StartDispatch(f)
      <3>1. proc' = [proc EXCEPT ![f].pc = "dispatch"]
        BY <2>4 DEF StartDispatch
      <3> QED BY <3>1 DEF IndInv, TypeOK, ProcRecord, ProcMoves, Idle, Pc
    <2>5. CASE NextPass(f)
      <3>1. proc' = [proc EXCEPT ![f].pc = "recover"]
        BY <2>5 DEF NextPass
      <3> QED BY <3>1 DEF IndInv, TypeOK, ProcRecord, ProcMoves, Idle, Pc
    <2>6. CASE ExecuteRaises(f)
      BY <2>6, ReturnMoves DEF ExecuteRaises, IndInv, ProcMoves, Idle, Pc
    <2>7. CASE FinalizeRaises(f)
      BY <2>7, ReturnMoves DEF FinalizeRaises, IndInv, ProcMoves, Idle, Pc
    <2>8. CASE \E i \in Item : LoadRaises(f, i)
      <3>1. PICK i \in Item : LoadRaises(f, i)
        BY <2>8
      <3>2. proc' = [proc EXCEPT ![f].todo = @ \ {i}] /\ proc[f].pc = "reconcile"
        BY <3>1 DEF LoadRaises
      <3> QED BY <3>2 DEF IndInv, TypeOK, ProcRecord, ProcMoves, Idle, Pc
    <2> QED BY <2>1, <2>2, <2>3, <2>4, <2>5, <2>6, <2>7, <2>8
  <1>2. /\ fence' = fence /\ trigger' = trigger /\ held' \in BOOLEAN
        /\ UNCHANGED <<item, history, reservation, synced, guard, remote>>
    BY DEF EndRun, Crash, ReconcileRaises, StartDispatch, NextPass, ExecuteRaises,
           FinalizeRaises, LoadRaises, lease, IndInv, TypeOK
  <1>3. TypeOK'
    BY <1>1, <1>2 DEF IndInv, TypeOK, ProcMoves, history, remote
  <1>4. Coherent'
    BY <1>2, Untouched DEF IndInv
  <1>5. ProcessCarriesAttempt'
    BY <1>1, <1>2, IdleCarries DEF IndInv, history
  <1>6. RetryApplies'
    BY <1>2 DEF IndInv, RetryApplies
  <1> QED BY <1>3, <1>4, <1>5, <1>6 DEF IndInv

\* recover_stale_applying: what was applying is now reconciling, attempts stay.
LEMMA RecoverStep == ASSUME IndInv, NEW f \in Run, RecoverStaleApplying(f) PROVE IndInv'
  <1>1. UNCHANGED <<lease, history, reservation, synced, guard, remote>>
    BY DEF RecoverStaleApplying
  <1>2. \A i \in Item : item'[i] = IF item[i].state = "applying"
                                   THEN RecoveredItem(f, i) ELSE item[i]
    BY DEF RecoverStaleApplying
  <1>3. \A i \in Item : item[i].state = "applying" =>
          /\ item'[i] \in ItemRecord /\ item'[i].attempt = item[i].attempt
          /\ item'[i].state = "reconciling"
    <2>1. ASSUME NEW i \in Item, item[i].state = "applying"
          PROVE  /\ item'[i] \in ItemRecord /\ item'[i].attempt = item[i].attempt
                 /\ item'[i].state = "reconciling"
      <3>1. item[i] \in ItemRecord /\ f \in 0..MaxFence
        BY DEF IndInv, TypeOK, Run
      <3>2. item'[i] = [item[i] EXCEPT !.state = "reconciling", !.version = @ + 1, !.run = f]
        BY <2>1, <1>2 DEF RecoveredItem
      <3> DEFINE r1 == [item[i] EXCEPT !.state = "reconciling"]
                 r2 == [r1 EXCEPT !.version = @ + 1]
                 r3 == [r2 EXCEPT !.run = f]
      <3>3. r1 \in ItemRecord /\ r1.state = "reconciling" /\ r1.attempt = item[i].attempt
        BY <3>1 DEF ItemRecord, ItemState
      <3> HIDE DEF r1
      <3>4. r2 \in ItemRecord /\ r2.state = r1.state /\ r2.attempt = r1.attempt
        BY <3>3 DEF ItemRecord
      <3> HIDE DEF r2
      <3>5. r3 \in ItemRecord /\ r3.state = r2.state /\ r3.attempt = r2.attempt
        BY <3>1, <3>4 DEF ItemRecord
      <3>6. item'[i] = r3
        BY <3>2 DEF r1, r2
      <3> QED BY <3>3, <3>4, <3>5, <3>6
    <2> QED BY <2>1
  <1>4. item' \in [Item -> ItemRecord]
    BY <1>2, <1>3 DEF RecoverStaleApplying, IndInv, TypeOK
  <1>5. ProcMoves(f, Idle)
    <2>1. PICK todo \in SUBSET Item :
            proc' = [proc EXCEPT ![f].pc = "reconcile", ![f].todo = todo]
      BY DEF RecoverStaleApplying
    <2>2. "reconcile" \in Pc /\ "reconcile" \in Idle
      BY DEF Idle, Pc
    <2>3. proc \in [Run -> ProcRecord]
      BY DEF IndInv, TypeOK
    <2>4. proc'[f] = [pc |-> "reconcile", item |-> proc[f].item, attempt |-> proc[f].attempt,
                      version |-> proc[f].version, todo |-> todo]
      BY <2>1, <2>3 DEF ProcRecord
    <2>5. proc'[f] \in ProcRecord
      BY <2>2, <2>3, <2>4 DEF ProcRecord
    <2>6. proc' = [proc EXCEPT ![f] = proc'[f]]
      BY <2>1, <2>3
    <2> QED BY <2>2, <2>3, <2>4, <2>5, <2>6 DEF ProcMoves
  <1>6. TypeOK'
    BY <1>1, <1>4, <1>5 DEF IndInv, TypeOK, lease, history, remote, ProcMoves
  <1>7. Coherent'
    BY <1>1, <1>2, <1>3, OnlyItems DEF IndInv, history
  <1>8. ProcessCarriesAttempt'
    BY <1>1, <1>5, IdleCarries DEF IndInv, history
  <1>9. RetryApplies'
    BY <1>2, <1>3 DEF IndInv, RetryApplies
  <1> QED BY <1>6, <1>7, <1>8, <1>9 DEF IndInv

\* load_reconciliation_context: the reservation changes its fence only.
LEMMA LoadContextStep ==
    ASSUME IndInv, NEW f \in Run, NEW i \in Item, LoadContext(f, i) PROVE IndInv'
  <1> DEFINE a == item[i].attempt
  <1>1. a \in Attempt /\ a \in 1..made /\ attempt[a].item = i
    BY Numbers DEF LoadContext, Loadable, IndInv, Coherent, ItemOwnsAttempt, Attempt, TypeOK
  <1>2. proc'[f] = [pc |-> "reading", item |-> i, attempt |-> a,
                    version |-> item[i].version, todo |-> proc[f].todo \ {i}]
        /\ \A g \in Run \ {f} : proc'[g] = proc[g]
    BY DEF LoadContext, IndInv, TypeOK
  <1>3. proc' \in [Run -> ProcRecord]
    BY <1>1 DEF LoadContext, IndInv, TypeOK, ProcRecord, ItemRecord, Pc
  <1>4. /\ reservation' \in [Attempt -> ReservationRecord]
        /\ \A b \in Attempt : reservation'[b].state = reservation[b].state
    <2>1. reservation' = [reservation EXCEPT ![a].fence = f] /\ f \in 0..MaxFence
      BY DEF LoadContext, Run
    <2> QED BY <2>1, <1>1 DEF IndInv, TypeOK, ReservationRecord
  <1>5. UNCHANGED <<lease, item, history, synced, guard, remote>>
    BY DEF LoadContext
  <1>6. TypeOK'
    BY <1>3, <1>4, <1>5 DEF IndInv, TypeOK, lease, history, remote
  <1>7. Coherent'
    BY <1>4, <1>5, Untouched DEF IndInv
  <1>8. ProcessCarriesAttempt'
    <2>1. Carries(f)'
      BY <1>1, <1>2, <1>5 DEF Carries, history
    <2> QED BY <2>1, <1>2, <1>5, OthersCarry DEF IndInv, history
  <1>9. RetryApplies'
    BY <1>5 DEF IndInv, RetryApplies
  <1> QED BY <1>6, <1>7, <1>8, <1>9 DEF IndInv

\* Every verdict of the reconciler.
LEMMA ReconcileStep == ASSUME IndInv, NEW f \in Run, Reconcile(f) PROVE IndInv'
  <1> DEFINE i == proc[f].item
             a == proc[f].attempt
  <1>1. /\ proc[f].pc \in {"posting", "reading"} /\ Valid(f) /\ TypeOK
        /\ i \in Item /\ a \in Attempt
        /\ item[i].state \in Unresolved /\ attempt[a].status \in Unresolved
    BY ValidCarries DEF Reconcile, IndInv, OpenAttempt
  <1>2. ProcMoves(f, Idle)
    BY <1>1, LoopIsIdle DEF Reconcile
  <1>3. UNCHANGED <<lease, made, remote>>
    BY DEF Reconcile
  <1>4. PICK readable \in SUBSET Shown(i) :
          \/ ReconciledApplied(f, readable)
          \/ ReconciledExternal(f, readable)
          \/ CheckPending(f)
          \/ CheckAmbiguous(f, readable)
          \/ CheckAbsent(f, readable)
    BY DEF Reconcile
  <1>5. CASE ReconciledApplied(f, readable)
    <2>1. AttemptMoves(a, {"applied"})
      BY <1>1, <1>5, FinishMoves DEF ReconciledApplied, ItemState
    <2>2. SlotMoves(a, {"consumed"})
      BY <1>1, <1>5, ReserveMoves DEF ReconciledApplied, Counted
    <2>3. ItemMoves(i, {"applied"})
      BY <1>1, <1>5, ItemTyped, MoveItemMoves DEF ReconciledApplied, ItemState, Challenge
    <2>4. GuardMoves(i, {"applied"})
      BY <1>1, <1>5, MarkMoves DEF ReconciledApplied
    <2>5. synced' \subseteq Item
      BY <1>5 DEF ReconciledApplied, IndInv, TypeOK
    <2>6. {"applied"} \subseteq ItemState \ Unresolved
      BY DEF ItemState, Unresolved
    <2> QED BY <1>1, <1>2, <1>3, <2>1, <2>2, <2>3, <2>4, <2>5, <2>6, Widen, Decides
  <1>6. CASE ReconciledExternal(f, readable)
    <2>1. AttemptMoves(a, {"skipped"})
      BY <1>1, <1>6, FinishMoves DEF ReconciledExternal, ItemState
    <2>2. SlotMoves(a, {"released"})
      BY <1>1, <1>6, ReserveMoves DEF ReconciledExternal
    <2>3. ItemMoves(i, {"skipped"})
      BY <1>1, <1>6, MoveItemMoves DEF ReconciledExternal, ItemState, Challenge
    <2>4. GuardMoves(i, {"external_applied"})
      BY <1>1, <1>6 DEF ReconciledExternal, TypeOK, GuardRecord, GuardMoves
    <2>5. synced' \subseteq Item
      BY <1>6 DEF ReconciledExternal, IndInv, TypeOK, Shown
    <2>6. {"skipped"} \subseteq ItemState \ Unresolved
      BY DEF ItemState, Unresolved
    <2> QED BY <1>1, <1>2, <1>3, <2>1, <2>2, <2>3, <2>4, <2>5, <2>6, Widen, Decides
  <1>7. CASE CheckPending(f)
    <2>1. AttemptMoves(a, {attempt[a].status})
      BY <1>1, <1>7, FinishMoves DEF CheckPending, ItemState, Unresolved
    <2>2. SlotMoves(a, {"held"})
      BY <1>1, <1>7, ReserveMoves DEF CheckPending, Counted
    <2>3. ItemMoves(i, {item[i].state})
      BY <1>1, <1>7, ItemTyped, CheckedItemMoves DEF CheckPending, Unresolved
    <2>4. UNCHANGED <<synced, guard>>
      BY <1>7 DEF CheckPending
    <2> QED BY <1>1, <1>2, <1>3, <2>1, <2>2, <2>3, <2>4, Widen, Keeps DEF Unresolved, Open
  <1>8. CASE CheckAmbiguous(f, readable)
    <2>1. AttemptMoves(a, {attempt[a].status})
      BY <1>1, <1>8, FinishMoves DEF CheckAmbiguous, ItemState, Unresolved
    <2>2. SlotMoves(a, {"held"})
      BY <1>1, <1>8, ReserveMoves DEF CheckAmbiguous, Counted
    <2>3. ItemMoves(i, {"manual_challenge"})
      BY <1>1, <1>8, ItemTyped, CheckedItemMoves DEF CheckAmbiguous, ItemState, Challenge
    <2>4. UNCHANGED <<synced, guard>>
      BY <1>8 DEF CheckAmbiguous
    <2> QED BY <1>1, <1>2, <1>3, <2>1, <2>2, <2>3, <2>4, Widen, Keeps DEF Unresolved, Open
  <1>9. CASE CheckAbsent(f, readable)
    <2> DEFINE target == IF item[i].tries < MaxAttempts THEN "ready" ELSE "dead"
    <2>0. target \in ItemState /\ target # "retry_wait" /\ {target} \subseteq ItemState \ Unresolved
      BY DEF ItemState, Unresolved
    <2>1. AttemptMoves(a, {target})
      BY <1>1, <1>9, <2>0, FinishMoves DEF CheckAbsent
    <2>2. SlotMoves(a, {"released"})
      BY <1>1, <1>9, ReserveMoves DEF CheckAbsent
    <2>3. ItemMoves(i, {target})
      BY <1>1, <1>9, <2>0, CheckedItemMoves DEF CheckAbsent, Challenge
    <2>4. GuardMoves(i, {"none"})
      BY <1>1, <1>9, DropMoves DEF CheckAbsent
    <2>5. synced' \subseteq Item
      BY <1>9 DEF CheckAbsent, IndInv, TypeOK
    <2> HIDE DEF target
    <2> QED BY <1>1, <1>2, <1>3, <2>0, <2>1, <2>2, <2>3, <2>4, <2>5, Widen, Decides
  <1> QED BY <1>4, <1>5, <1>6, <1>7, <1>8, <1>9

\* open_reconciliation_auth_challenge keeps the attempt open.
LEMMA AuthStep == ASSUME IndInv, NEW f \in Run, OpenReconciliationAuth(f) PROVE IndInv'
  <1> DEFINE i == proc[f].item
             a == proc[f].attempt
  <1>1. /\ proc[f].pc \in {"posting", "reading"} /\ Valid(f) /\ TypeOK
        /\ i \in Item /\ a \in Attempt /\ OpenAttempt(a)
    BY ValidCarries DEF OpenReconciliationAuth, IndInv
  <1>2. AttemptMoves(a, Unresolved)
    BY <1>1 DEF OpenReconciliationAuth, history, AttemptMoves, TypeOK, OpenAttempt
  <1>3. SlotMoves(a, {"held"})
    BY <1>1, ReserveMoves DEF OpenReconciliationAuth, Counted
  <1>4. ItemMoves(i, {"manual_challenge"})
    BY <1>1, ItemTyped, MoveItemMoves DEF OpenReconciliationAuth, ItemState, Challenge
  <1>5. ProcMoves(f, Idle)
    BY <1>1, LoopIsIdle DEF OpenReconciliationAuth
  <1>6. UNCHANGED <<lease, made, synced, guard, remote>>
    BY DEF OpenReconciliationAuth, history
  <1> QED BY <1>1, <1>2, <1>3, <1>4, <1>5, <1>6, Widen, Keeps DEF Unresolved, Open

\* Steps that change items only.
LEMMA ItemSteps ==
    ASSUME IndInv,
           \/ \E f \in Run : AdoptReadyItems(f)
           \/ \E f \in Run, i \in Item : ActivateDueRetry(f, i) \/ SkipReady(f, i)
           \/ \E i \in Item : BecomeDue(i)
    PROVE  IndInv'
  <1>1. UNCHANGED <<lease, proc, history, reservation, synced, guard, remote>>
    BY DEF AdoptReadyItems, ActivateDueRetry, SkipReady, BecomeDue
  <1>2. /\ item' \in [Item -> ItemRecord]
        /\ \A j \in Item :
             /\ item'[j].attempt = item[j].attempt
             /\ \/ item'[j].state = item[j].state /\ item'[j].stage = item[j].stage
                \/ item[j].state \in {"ready", "retry_wait"} /\ item'[j].state \in {"ready", "skipped"}
    <2>1. ASSUME NEW f \in Run, AdoptReadyItems(f) PROVE <1>2!:
      <3>1. item' = [j \in Item |-> IF item[j].state = "ready"
                                    THEN [item[j] EXCEPT !.run = f] ELSE item[j]]
        BY <2>1 DEF AdoptReadyItems
      <3>2. f \in 0..MaxFence
        BY DEF Run
      <3> QED BY <3>1, <3>2, SMTT(30) DEF IndInv, TypeOK, ItemRecord
    <2>2. ASSUME NEW f \in Run, NEW i \in Item, ActivateDueRetry(f, i) PROVE <1>2!:
      <3>1. item' = [item EXCEPT ![i].state = "ready", ![i].version = @ + 1, ![i].run = f]
        BY <2>2 DEF ActivateDueRetry, IndInv, RetryApplies
      <3>2. item[i].state = "retry_wait"
        BY <2>2 DEF ActivateDueRetry
      <3>3. f \in 0..MaxFence
        BY DEF Run
      <3> QED BY <3>1, <3>2, <3>3, SMTT(60) DEF IndInv, TypeOK, ItemRecord, ItemState
    <2>3. ASSUME NEW f \in Run, NEW i \in Item, SkipReady(f, i) PROVE <1>2!:
      BY <2>3 DEF SkipReady, IndInv, TypeOK, ItemRecord, ItemState
    <2>4. ASSUME NEW i \in Item, BecomeDue(i) PROVE <1>2!:
      <3>1. item' = [item EXCEPT ![i].due = TRUE]
        BY <2>4 DEF BecomeDue
      <3>2. item[i] \in ItemRecord /\ item \in [Item -> ItemRecord]
        BY DEF IndInv, TypeOK
      <3>3. item'[i] = [item[i] EXCEPT !.due = TRUE]
        BY <3>1, <3>2
      <3>4. [item[i] EXCEPT !.due = TRUE] \in ItemRecord
        BY <3>2 DEF ItemRecord
      <3>5. item' \in [Item -> ItemRecord]
        BY <3>1, <3>2, <3>4
      <3>6. item'[i].attempt = item[i].attempt /\ item'[i].state = item[i].state /\ item'[i].stage = item[i].stage
        BY <3>3, <3>2 DEF ItemRecord
      <3>7. \A j \in Item \ {i} : item'[j] = item[j]
        BY <3>1, <3>2
      <3> QED BY <3>5, <3>6, <3>7
    <2> QED BY <2>1, <2>2, <2>3, <2>4
  <1>3. TypeOK'
    BY <1>1, <1>2 DEF IndInv, TypeOK, lease, history, remote
  <1>4. Coherent'
    BY <1>1, <1>2, OnlyItems DEF IndInv, history, Unresolved
  <1>5. ProcessCarriesAttempt'
    BY <1>1 DEF IndInv, ProcessCarriesAttempt, Carries, history
  <1>6. RetryApplies'
    BY <1>2 DEF IndInv, RetryApplies
  <1> QED BY <1>3, <1>4, <1>5, <1>6 DEF IndInv

\* The executor takes a ready item.
LEMMA BeginExecuteStep ==
    ASSUME IndInv, NEW f \in Run, NEW i \in Item, BeginExecute(f, i) PROVE IndInv'
  <1>1. proc' \in [Run -> ProcRecord] /\ proc'[f].pc = "rendering" /\ proc'[f].item = i
        /\ \A g \in Run \ {f} : proc'[g] = proc[g]
    BY DEF BeginExecute, IndInv, TypeOK, ProcRecord, ItemRecord, Pc
  <1>2. UNCHANGED <<lease, item, history, reservation, synced, guard, remote>>
    BY DEF BeginExecute
  <1>3. TypeOK'
    BY <1>1, <1>2 DEF IndInv, TypeOK, lease, history, remote
  <1>4. Coherent'
    BY <1>2, Untouched DEF IndInv
  <1>5. ProcessCarriesAttempt'
    <2>1. Carries(f)'
      BY <1>1 DEF Carries
    <2> QED BY <2>1, <1>1, <1>2, OthersCarry DEF IndInv, history
  <1>6. RetryApplies'
    BY <1>2 DEF IndInv, RetryApplies
  <1> QED BY <1>3, <1>4, <1>5, <1>6 DEF IndInv

\* record_pre_dispatch_failure.
LEMMA RenderFailsStep == ASSUME IndInv, NEW f \in Run, RenderFails(f) PROVE IndInv'
  <1> DEFINE i == proc[f].item
             a == made + 1
  <1>1. i \in Item /\ item[i].state = "ready"
    BY DEF RenderFails, ReadyAsRead, IndInv, ProcessCarriesAttempt, Carries
  <1>2. /\ a \in Attempt /\ made' = a
        /\ attempt' \in [Attempt -> AttemptRecord]
        /\ attempt'[a].status = "retry_wait" /\ attempt'[a].item = i
        /\ \A b \in Attempt \ {a} : attempt'[b] = attempt[b]
    BY <1>1, NewAttemptIsNext DEF RenderFails, IndInv, ItemState
  <1>3. /\ item' \in [Item -> ItemRecord]
        /\ item'[i].state = "retry_wait" /\ item'[i].stage = "application"
        /\ item'[i].attempt = a
        /\ \A j \in Item \ {i} : item'[j] = item[j]
    <2>1. item' = [item EXCEPT ![i].state = "retry_wait", ![i].stage = "application",
                               ![i].version = @ + 1, ![i].due = FALSE,
                               ![i].attempt = made + 1]
      BY DEF RenderFails
    <2>2. item \in [Item -> ItemRecord] /\ a \in 0..MaxAttempt
      BY <1>2 DEF IndInv, TypeOK, Attempt
    <2>3. item'[i] = [state |-> "retry_wait", version |-> item[i].version + 1,
                      run |-> item[i].run, attempt |-> a, stage |-> "application",
                      tries |-> item[i].tries, checks |-> item[i].checks,
                      due |-> FALSE, challenge |-> item[i].challenge]
      BY <1>1, <2>1, <2>2, SMTT(60) DEF ItemRecord
    <2>4. item' = [item EXCEPT ![i] = item'[i]]
      BY <1>1, <2>1, <2>2
    <2>5. item'[i] \in ItemRecord
      BY <1>1, <2>2, <2>3 DEF ItemRecord, ItemState
    <2> QED BY <1>1, <2>2, <2>3, <2>4, <2>5
  <1>4. ProcMoves(f, {"dispatch"})
    BY ReturnMoves DEF RenderFails, IndInv, Pc
  <1>5. UNCHANGED <<lease, reservation, synced, guard, remote>>
    BY DEF RenderFails
  <1>6. made' \in 0..MaxAttempt
    BY <1>2 DEF Attempt
  <1>7. TypeOK'
    BY <1>2, <1>3, <1>4, <1>5, <1>6 DEF IndInv, TypeOK, lease, remote, ProcMoves
  <1>8. Coherent'
    BY <1>1, <1>2, <1>3, <1>5, NotSent DEF IndInv
  <1>9. ProcessCarriesAttempt'
    <2>1. \A b \in 1..made : b \in Attempt \ {a}
      BY DEF IndInv, TypeOK, Attempt
    <2>2. ProcMoves(f, Idle)
      BY <1>4 DEF ProcMoves, Idle, Pc
    <2> QED BY <1>2, <2>1, <2>2, IdleCarries DEF IndInv
  <1>10. RetryApplies'
    BY <1>3 DEF IndInv, RetryApplies
  <1> QED BY <1>7, <1>8, <1>9, <1>10 DEF IndInv

\* prepare_dispatch: four rows in one transaction.
LEMMA PrepareDispatchStep == ASSUME IndInv, NEW f \in Run, PrepareDispatch(f) PROVE IndInv'
  <1> DEFINE i == proc[f].item
             a == made + 1
  <1>1. i \in Item /\ item[i].state = "ready" /\ guard[VacancyOf[i]].status # "active"
    BY DEF PrepareDispatch, ReadyAsRead, GuardAllows, IndInv, ProcessCarriesAttempt, Carries
  <1>2. /\ a \in Attempt /\ made' = a
        /\ attempt' \in [Attempt -> AttemptRecord]
        /\ attempt'[a].status = "applying" /\ attempt'[a].item = i
        /\ \A b \in Attempt \ {a} : attempt'[b] = attempt[b]
    BY <1>1, NewAttemptIsNext DEF PrepareDispatch, IndInv, ItemState
  <1>3. a \in 0..MaxAttempt /\ f \in 0..MaxFence
    BY <1>2 DEF Attempt, Run
  <1>4. /\ item' \in [Item -> ItemRecord]
        /\ item'[i].state = "applying"
        /\ item'[i].attempt = a
        /\ \A j \in Item \ {i} : item'[j] = item[j]
    <2>1. item' = [item EXCEPT ![i] =
                     [state |-> "applying", version |-> @.version + 1, run |-> @.run,
                      attempt |-> a, stage |-> "application", tries |-> @.tries + 1,
                      checks |-> @.checks, due |-> TRUE, challenge |-> "none"]]
      BY DEF PrepareDispatch
    <2>2. item \in [Item -> ItemRecord]
      BY DEF IndInv, TypeOK
    <2>3. item'[i] = [state |-> "applying", version |-> item[i].version + 1,
                      run |-> item[i].run, attempt |-> a, stage |-> "application",
                      tries |-> item[i].tries + 1, checks |-> item[i].checks,
                      due |-> TRUE, challenge |-> "none"]
      BY <1>1, <2>1, <2>2
    <2>4. item' = [item EXCEPT ![i] = item'[i]]
      BY <1>1, <2>1, <2>2
    <2>5. item'[i] \in ItemRecord
      BY <1>1, <1>3, <2>2, <2>3 DEF ItemRecord, ItemState, Challenge
    <2> QED BY <1>1, <2>2, <2>3, <2>4, <2>5
  <1>5. /\ proc' \in [Run -> ProcRecord]
        /\ proc'[f] = [pc |-> "prepared", item |-> i, attempt |-> a,
                       version |-> proc[f].version + 1, todo |-> proc[f].todo]
        /\ \A g \in Run \ {f} : proc'[g] = proc[g]
    BY <1>1, <1>3 DEF PrepareDispatch, IndInv, TypeOK, ProcRecord, Pc
  <1>6. /\ guard' \in [Vacancy -> GuardRecord]
        /\ guard'[VacancyOf[i]] = [status |-> "active", owner |-> a]
        /\ \A v \in Vacancy \ {VacancyOf[i]} : guard'[v] = guard[v]
    BY <1>1, <1>3 DEF PrepareDispatch, IndInv, TypeOK, GuardRecord
  <1>7. /\ reservation' \in [Attempt -> ReservationRecord]
        /\ reservation'[a].state = "reserved"
        /\ \A b \in Attempt \ {a} : reservation'[b] = reservation[b]
    <2>1. reservation' = [reservation EXCEPT ![a] = [state |-> "reserved", fence |-> f]]
      BY DEF PrepareDispatch
    <2> QED BY <1>2, <1>3, <2>1 DEF IndInv, TypeOK, ReservationRecord, Counted
  <1>8. UNCHANGED <<lease, synced, remote>>
    BY DEF PrepareDispatch
  <1>9. TypeOK'
    BY <1>2, <1>3, <1>4, <1>5, <1>6, <1>7, <1>8 DEF IndInv, TypeOK, lease, remote
  <1>10. Coherent'
    BY <1>1, <1>2, <1>4, <1>6, <1>7, Dispatched DEF IndInv
  <1>11. ProcessCarriesAttempt'
    <2>1. \A b \in 1..made : b \in Attempt \ {a}
      BY DEF IndInv, TypeOK, Attempt
    <2>2. a \in 1..made'
      BY <1>2 DEF Attempt
    <2>3. Carries(f)'
      BY <1>1, <1>2, <1>5, <2>2 DEF Carries
    <2> QED BY <1>2, <1>5, <2>1, <2>3, OthersCarry DEF IndInv
  <1>12. RetryApplies'
    BY <1>4 DEF IndInv, RetryApplies
  <1> QED BY <1>9, <1>10, <1>11, <1>12 DEF IndInv

\* The POST changes no row.
LEMMA SendPostStep ==
    ASSUME IndInv, NEW f \in Run, SendPost(f) PROVE IndInv'
  <1>1. proc' \in [Run -> ProcRecord] /\ proc'[f].pc = "posting"
        /\ proc'[f].item = proc[f].item /\ proc'[f].attempt = proc[f].attempt
        /\ \A g \in Run \ {f} : proc'[g] = proc[g]
    BY DEF SendPost, IndInv, TypeOK, ProcRecord, Pc
  <1>2. UNCHANGED <<lease, item, history, reservation, synced, guard, negotiation>>
        /\ post' \in [Attempt -> PostState]
    BY DEF SendPost, IndInv, TypeOK, PostState
  <1>3. TypeOK'
    BY <1>1, <1>2 DEF IndInv, TypeOK, lease, history
  <1>4. Coherent'
    BY <1>2, Untouched DEF IndInv
  <1>5. ProcessCarriesAttempt'
    <2>1. Carries(f)'
      BY <1>1, <1>2 DEF Carries, history, IndInv, ProcessCarriesAttempt, SendPost
    <2> QED BY <2>1, <1>1, <1>2, OthersCarry DEF IndInv, history
  <1>6. RetryApplies'
    BY <1>2 DEF IndInv, RetryApplies
  <1> QED BY <1>3, <1>4, <1>5, <1>6 DEF IndInv

\* finalize_applied.
LEMMA FinalizeAppliedStep == ASSUME IndInv, NEW f \in Run, FinalizeApplied(f) PROVE IndInv'
  <1> DEFINE i == proc[f].item
             a == proc[f].attempt
  <1>1. /\ proc[f].pc \in {"posting", "reading"} /\ Valid(f) /\ TypeOK
        /\ i \in Item /\ a \in Attempt
    BY ValidCarries DEF FinalizeApplied, IndInv
  <1>2. AttemptMoves(a, {"applied"})
    BY <1>1, FinishMoves DEF FinalizeApplied, ItemState
  <1>3. SlotMoves(a, {"consumed"})
    BY <1>1, ReserveMoves DEF FinalizeApplied, Counted
  <1>4. ItemMoves(i, {"applied"})
    BY <1>1, ItemTyped, MoveItemMoves DEF FinalizeApplied, ItemState, Challenge
  <1>5. GuardMoves(i, {"applied"})
    BY <1>1, MarkMoves DEF FinalizeApplied
  <1>6. ProcMoves(f, Idle)
    BY <1>1, LoopIsIdle DEF FinalizeApplied
  <1>7. UNCHANGED <<lease, made, synced, remote>> /\ synced \subseteq Item
    BY DEF FinalizeApplied, IndInv, TypeOK
  <1>8. {"applied"} \subseteq ItemState \ Unresolved
    BY DEF ItemState, Unresolved
  <1> QED BY <1>1, <1>2, <1>3, <1>4, <1>5, <1>6, <1>7, <1>8, Widen, Decides

\* record_possibly_sent.
LEMMA RecordPossiblySentStep ==
    ASSUME IndInv, NEW f \in Run, RecordPossiblySent(f) PROVE IndInv'
  <1> DEFINE i == proc[f].item
             a == proc[f].attempt
  <1>1. /\ proc[f].pc \in {"posting", "reading"} /\ Valid(f) /\ TypeOK
        /\ i \in Item /\ a \in Attempt
    BY ValidCarries DEF RecordPossiblySent, IndInv
  <1>2. AttemptMoves(a, {"reconciling"})
    <2>1. PICK told \in BOOLEAN :
            attempt' = [attempt EXCEPT ![a].status = "reconciling", ![a].duplicate = told]
      BY DEF RecordPossiblySent
    <2> QED BY SMTT(30), <1>1, <2>1 DEF AttemptMoves, TypeOK, AttemptRecord, ItemState
  <1>3. SlotMoves(a, {"held"})
    BY <1>1, ReserveMoves DEF RecordPossiblySent, Counted
  <1>4. ItemMoves(i, {"reconciling"})
    BY <1>1, ItemTyped, MoveItemMoves DEF RecordPossiblySent, ItemState
  <1>5. ProcMoves(f, Idle)
    BY <1>1, LoopIsIdle DEF RecordPossiblySent
  <1>6. UNCHANGED <<lease, made, synced, guard, remote>>
    BY DEF RecordPossiblySent
  <1> QED BY <1>1, <1>2, <1>3, <1>4, <1>5, <1>6, Widen, Keeps DEF Unresolved, Open

\* finalize_definite_failure.
LEMMA FinalizeDefiniteFailureStep ==
    ASSUME IndInv, NEW f \in Run, FinalizeDefiniteFailure(f) PROVE IndInv'
  <1> DEFINE i == proc[f].item
             a == proc[f].attempt
  <1>1. /\ proc[f].pc \in {"posting", "reading"} /\ Valid(f) /\ TypeOK
        /\ i \in Item /\ a \in Attempt
    BY ValidCarries DEF FinalizeDefiniteFailure, IndInv
  <1>2. PICK target \in FailureTargets(i) :
          /\ FinishAttempt(a, target)
          /\ MoveItem(i, target, "application", target # "retry_wait",
                      IF target = "manual_challenge" THEN "manual" ELSE "none")
    BY DEF FinalizeDefiniteFailure
  <1>3. target \in ItemState /\ {target} \subseteq ItemState \ Unresolved
    BY DEF FailureTargets, ItemState, Unresolved
  <1>4. AttemptMoves(a, {target})
    BY <1>1, <1>2, <1>3, FinishMoves
  <1>5. SlotMoves(a, {"released"})
    BY <1>1, ReserveMoves DEF FinalizeDefiniteFailure
  <1>6. ItemMoves(i, {target})
    <2>1. (target # "retry_wait") \in BOOLEAN
          /\ (IF target = "manual_challenge" THEN "manual" ELSE "none") \in Challenge
      BY DEF Challenge
    <2> QED BY <1>1, <1>2, <1>3, <2>1, MoveItemMoves
  <1>7. GuardMoves(i, {"none"})
    BY <1>1, DropMoves DEF FinalizeDefiniteFailure
  <1>8. ProcMoves(f, Idle)
    BY <1>1, LoopIsIdle DEF FinalizeDefiniteFailure
  <1>9. UNCHANGED <<lease, made, synced, remote>> /\ synced \subseteq Item
    BY DEF FinalizeDefiniteFailure, IndInv, TypeOK
  <1> QED BY <1>1, <1>3, <1>4, <1>5, <1>6, <1>7, <1>8, <1>9, Widen, Decides

\* Steps of HH and of the candidate.
LEMMA EnvironmentSteps ==
    ASSUME IndInv,
           \/ \E a \in Attempt : Arrive(a) \/ Refuse(a)
           \/ \E i \in Item : ApplyExternally(i)
    PROVE  IndInv'
  <1>1. UNCHANGED <<lease, proc, item, history, reservation, synced, guard>>
    BY DEF Arrive, Refuse, ApplyExternally
  <1>2. post' \in [Attempt -> PostState] /\ negotiation' \in [Item -> NoNegotiation..MaxAttempt]
    <2>1. CASE \E a \in Attempt : Arrive(a)
      BY <2>1 DEF Arrive, IndInv, TypeOK, PostState, NoNegotiation
    <2>2. CASE \E a \in Attempt : Refuse(a)
      BY <2>2 DEF Refuse, IndInv, TypeOK, PostState
    <2>3. CASE \E i \in Item : ApplyExternally(i)
      BY <2>3 DEF ApplyExternally, IndInv, TypeOK, NoNegotiation
    <2> QED BY <2>1, <2>2, <2>3
  <1>3. TypeOK'
    BY <1>1, <1>2 DEF IndInv, TypeOK, lease, history
  <1>4. Coherent'
    BY <1>1, Untouched DEF IndInv
  <1>5. ProcessCarriesAttempt'
    BY <1>1 DEF IndInv, ProcessCarriesAttempt, Carries, history
  <1>6. RetryApplies'
    BY <1>1 DEF IndInv, RetryApplies
  <1> QED BY <1>3, <1>4, <1>5, <1>6 DEF IndInv

\* The queue starts with ready items and no attempts.
LEMMA InitInv == Init => IndInv
  <1> SUFFICES ASSUME Init PROVE IndInv
    OBVIOUS
  <1>1. TypeOK
    <2>1. proc \in [Run -> ProcRecord]
      <3>1. NoProc \in ProcRecord
        BY DEF NoProc, ProcRecord, Pc
      <3> QED BY <3>1 DEF Init
    <2>2. item \in [Item -> ItemRecord]
      BY DEF Init, ItemRecord, ItemState, Challenge
    <2>3. attempt \in [Attempt -> AttemptRecord]
      <3>1. NoAttempt \in AttemptRecord
        BY DEF NoAttempt, AttemptRecord
      <3> QED BY <3>1 DEF Init
    <2>4. reservation \in [Attempt -> ReservationRecord]
      BY DEF Init, ReservationRecord
    <2>5. guard \in [Vacancy -> GuardRecord]
      BY DEF Init, NoGuard, GuardRecord
    <2>6. /\ post \in [Attempt -> PostState]
          /\ negotiation \in [Item -> NoNegotiation..MaxAttempt]
      BY DEF Init, PostState, NoNegotiation
    <2>7. fence = 0 /\ held = FALSE /\ made = 0 /\ synced = {}
          /\ trigger = [f \in Run |-> "none"]
      BY DEF Init
    <2>8. fence \in 0..MaxFence /\ made \in 0..MaxAttempt
      BY <2>7, BoundAssumption DEF BoundAssumption
    <2>9. held \in BOOLEAN /\ synced \subseteq Item
      BY <2>7
    <2>10. trigger \in [Run -> Trigger \cup {"none"}]
      BY <2>7
    <2> QED BY <2>1, <2>2, <2>3, <2>4, <2>5, <2>6, <2>8, <2>9, <2>10 DEF TypeOK
  <1>2. Coherent
    BY DEF Init, Coherent, AttemptsInOrder, SlotFollowsAttempt, GuardFollowsAttempt,
           UnresolvedHasAttempt, ItemOwnsAttempt, OpenAttempt, Unresolved, Open, NoAttempt,
           NoGuard, Attempt
  <1>3. ProcessCarriesAttempt /\ RetryApplies
    BY DEF Init, ProcessCarriesAttempt, Carries, RetryApplies, NoProc
  <1> QED BY <1>1, <1>2, <1>3 DEF IndInv

\* One case per action of a run.
LEMMA RunStepInv == ASSUME IndInv, NEW f \in Run, RunStep(f) PROVE IndInv'
  BY ProcessSteps, RecoverStep, LoadContextStep, ReconcileStep, AuthStep, ItemSteps,
     BeginExecuteStep, RenderFailsStep, PrepareDispatchStep, SendPostStep,
     FinalizeAppliedStep, RecordPossiblySentStep, FinalizeDefiniteFailureStep
     DEF RunStep

\* Runs, HH, the candidate and time.
LEMMA NextInv == IndInv /\ [Next]_vars => IndInv'
  <1> SUFFICES ASSUME IndInv, [Next]_vars PROVE IndInv'
    OBVIOUS
  <1>1. CASE Next
    BY <1>1, StartRunStep, RunStepInv, EnvironmentSteps, ItemSteps DEF Next
  <1>2. CASE UNCHANGED vars
    <2>1. TypeOK'
      BY <1>2 DEF vars, lease, history, remote, IndInv, TypeOK
    <2>2. Coherent'
      BY <1>2, Untouched DEF vars, IndInv
    <2>3. ProcessCarriesAttempt' /\ RetryApplies'
      BY <1>2 DEF vars, history, IndInv, ProcessCarriesAttempt, Carries, RetryApplies
    <2> QED BY <2>1, <2>2, <2>3 DEF IndInv
  <1> QED BY <1>1, <1>2

\* The inductive invariant holds of every behaviour of the account.
THEOREM Inductive == Spec => []IndInv
  BY InitInv, NextInv, PTL DEF Spec
------------------------------------------------------------------------------
\* Every row keeps its shape.
THEOREM TypeCorrect == Spec => []TypeOK
  <1>1. IndInv => TypeOK
    BY DEF IndInv
  <1> QED BY <1>1, Inductive, PTL

\* An unresolved attempt, its slot and the active guard of its vacancy stand
\* or fall together, whatever runs die, overlap or take over from each other.
THEOREM RowsStayTogether == Spec => []SlotAndGuardFollowAttempt
  <1>1. IndInv => SlotAndGuardFollowAttempt
    <2> SUFFICES ASSUME IndInv, NEW a \in Attempt
                 PROVE  /\ OpenAttempt(a) <=> reservation[a].state \in Open
                        /\ OpenAttempt(a) <=> \E v \in Vacancy :
                             guard[v] = [status |-> "active", owner |-> a]
      BY DEF SlotAndGuardFollowAttempt
    <2>1. OpenAttempt(a) <=> reservation[a].state \in Open
      BY DEF IndInv, Coherent, SlotFollowsAttempt
    <2>2. ASSUME OpenAttempt(a)
          PROVE  \E v \in Vacancy : guard[v] = [status |-> "active", owner |-> a]
      <3>1. VacancyOf[attempt[a].item] \in Vacancy
        BY <2>2, OpenHasItem DEF IndInv
      <3>2. guard[VacancyOf[attempt[a].item]] = [status |-> "active", owner |-> a]
        BY <2>2 DEF IndInv, Coherent, GuardFollowsAttempt
      <3> QED BY <3>1, <3>2
    <2>3. ASSUME NEW v \in Vacancy, guard[v] = [status |-> "active", owner |-> a]
          PROVE  OpenAttempt(a)
      <3>1. guard[v].status = "active" /\ guard[v].owner = a
        BY <2>3
      <3> QED BY <3>1 DEF IndInv, Coherent, GuardFollowsAttempt
    <2> QED BY <2>1, <2>2, <2>3
  <1> QED BY <1>1, Inductive, PTL

\* The attempts that a step may change: the one it inserts, or an unresolved
\* one that it was validated for.
LEMMA StepKeepsDecisions ==
    ASSUME IndInv, [Next]_vars, NEW a \in 1..made, ~OpenAttempt(a)
    PROVE  attempt'[a] = attempt[a]
  <1>1. a \in Attempt \ {made + 1}
    BY DEF IndInv, TypeOK, Attempt
  <1>2. ASSUME NEW f \in Run, NewAttempt(proc[f].item, "applying")
               \/ NewAttempt(proc[f].item, "retry_wait")
        PROVE  attempt'[a] = attempt[a]
    BY <1>1, <1>2 DEF NewAttempt, IndInv, TypeOK
  <1>3. ASSUME NEW f \in Run, proc[f].pc \in {"posting", "reading"}, Valid(f),
               \/ \E status : FinishAttempt(proc[f].attempt, status)
                              \/ Checked(proc[f].attempt, status)
               \/ \E told : attempt' = [attempt EXCEPT ![proc[f].attempt].status = "reconciling",
                                                       ![proc[f].attempt].duplicate = told]
        PROVE  attempt'[a] = attempt[a]
    <2>1. proc[f].attempt # a
      BY <1>3, ValidCarries
    <2> QED BY <1>1, <1>3, <2>1 DEF FinishAttempt, Checked, IndInv, TypeOK
  <1>4. ASSUME NEW f \in Run, Reconcile(f)
        PROVE  \E status : FinishAttempt(proc[f].attempt, status)
                           \/ Checked(proc[f].attempt, status)
    BY <1>4 DEF Reconcile, ReconciledApplied, ReconciledExternal, CheckPending,
                CheckAmbiguous, CheckAbsent
  <1>5. CASE \E f \in Run : RenderFails(f) \/ PrepareDispatch(f)
    BY <1>2, <1>5 DEF RenderFails, PrepareDispatch
  <1>6. CASE \E f \in Run : \/ Reconcile(f) \/ FinalizeApplied(f)
                            \/ RecordPossiblySent(f) \/ FinalizeDefiniteFailure(f)
    <2>1. PICK f \in Run : \/ Reconcile(f) \/ FinalizeApplied(f)
                           \/ RecordPossiblySent(f) \/ FinalizeDefiniteFailure(f)
      BY <1>6
    <2>2. CASE Reconcile(f)
      BY <1>3, <1>4, <2>2 DEF Reconcile
    <2>3. CASE FinalizeApplied(f)
      BY <1>3, <2>3 DEF FinalizeApplied
    <2>4. CASE RecordPossiblySent(f)
      BY <1>3, <2>4 DEF RecordPossiblySent
    <2>5. CASE FinalizeDefiniteFailure(f)
      BY <1>3, <2>5 DEF FinalizeDefiniteFailure
    <2> QED BY <2>1, <2>2, <2>3, <2>4, <2>5
  <1>7. CASE UNCHANGED attempt
    BY <1>7
  <1>8. \/ UNCHANGED attempt
        \/ \E f \in Run : RenderFails(f) \/ PrepareDispatch(f)
        \/ \E f \in Run : \/ Reconcile(f) \/ FinalizeApplied(f)
                          \/ RecordPossiblySent(f) \/ FinalizeDefiniteFailure(f)
    BY ZenonT(30) DEF Next, RunStep, vars, history, StartRun, EndRun, Crash, RecoverStaleApplying,
           LoadContext, LoadRaises, OpenReconciliationAuth, ReconcileRaises,
           StartDispatch, NextPass, AdoptReadyItems, ActivateDueRetry, SkipReady,
           BeginExecute, ExecuteRaises, SendPost, FinalizeRaises, Arrive, Refuse,
           ApplyExternally, BecomeDue
  <1> QED BY <1>5, <1>6, <1>7, <1>8

\* A decided attempt is never decided again, not even by an executor that
\* wakes up after its successor settled the dispatch.
THEOREM DecisionsStand == Spec => DecisionsAreFinal
  <1>1. IndInv /\ [Next]_vars =>
          [\A a \in 1..made : ~OpenAttempt(a) => attempt'[a] = attempt[a]]_vars
    BY StepKeepsDecisions
  <1> QED BY <1>1, Inductive, PTL DEF Spec, DecisionsAreFinal
------------------------------------------------------------------------------
(* What HH receives: the rows, related to each other above, are related to *)
(* the POSTs and to what HH holds.                                         *)

\* Only an attempt that was inserted is posted.
OnlyMadeIsPosted == \A a \in Attempt : post[a] # "none" => a <= made

\* What HH accepted it holds, created after the attempt was inserted.
AcceptedIsHeld ==
    \A a \in Attempt : post[a] = "accepted" => negotiation[attempt[a].item] >= a

PostInv == OnlyMadeIsPosted /\ AcceptedIsHeld

\* The guard of a vacancy the account applied to stays closed.
GuardStaysClosed ==
    \A a \in Attempt :
        attempt[a].status = "applied" =>
            guard[VacancyOf[attempt[a].item]].status \in {"applied", "external_applied"}
------------------------------------------------------------------------------
(* What a transaction that decides a dispatch says of it *)

Decision(f) ==
    \/ Reconcile(f)
    \/ OpenReconciliationAuth(f)
    \/ FinalizeApplied(f)
    \/ RecordPossiblySent(f)
    \/ FinalizeDefiniteFailure(f)

\* The rows move to one outcome.
Applied(f) ==
    /\ ItemMoves(proc[f].item, {"applied"})
    /\ AttemptMoves(proc[f].attempt, {"applied"})
    /\ GuardMoves(proc[f].item, {"applied"})
    /\ negotiation[proc[f].item] # NoNegotiation
    /\ proc[f].pc = "posting" => post[proc[f].attempt] = "accepted"
ExternallyApplied(f) ==
    /\ proc[f].pc = "reading"
    /\ ItemMoves(proc[f].item, {"skipped"})
    /\ AttemptMoves(proc[f].attempt, {"skipped"})
    /\ GuardMoves(proc[f].item, {"external_applied"})
Absent(f) ==
    /\ proc[f].pc = "reading"
    /\ negotiation[proc[f].item] = NoNegotiation
    /\ ItemMoves(proc[f].item, {"ready", "dead"})
    /\ AttemptMoves(proc[f].attempt, {"ready", "dead"})
    /\ GuardMoves(proc[f].item, {"none"})
Refused(f) ==
    /\ proc[f].pc = "posting"
    /\ post[proc[f].attempt] = "refused"
    /\ ItemMoves(proc[f].item, {"manual_challenge", "skipped", "retry_wait", "dead"})
    /\ AttemptMoves(proc[f].attempt, {"manual_challenge", "skipped", "retry_wait", "dead"})
    /\ GuardMoves(proc[f].item, {"none"})
Undecided(f) ==
    /\ proc[f].pc = "reading"
    /\ ItemMoves(proc[f].item, {"applying", "reconciling", "manual_challenge"})
    /\ AttemptMoves(proc[f].attempt, Unresolved)
    /\ guard' = guard
Unknown(f) ==
    /\ proc[f].pc = "posting"
    /\ ItemMoves(proc[f].item, {"reconciling"})
    /\ ~item'[proc[f].item].due
    /\ AttemptMoves(proc[f].attempt, Unresolved)
    /\ guard' = guard
Outcome(f) ==
    \/ Applied(f) \/ ExternallyApplied(f) \/ Absent(f)
    \/ Refused(f) \/ Undecided(f) \/ Unknown(f)

\* The process returns to its loop.
Returns(f) ==
    /\ ProcMoves(f, {IF proc[f].pc = "posting" THEN "dispatch" ELSE "reconcile"})
    /\ proc'[f].todo = proc[f].todo

\* What the reconciler's verdict does.
LEMMA ReconcileOutcome ==
    ASSUME IndInv, NEW f \in Run, Reconcile(f)
    PROVE  Outcome(f)
  <1> DEFINE i == proc[f].item
             a == proc[f].attempt
  <1>1. /\ proc[f].pc \in {"posting", "reading"} /\ proc[f].pc = "reading"
        /\ Valid(f) /\ TypeOK
        /\ i \in Item /\ a \in Attempt /\ a \in 1..MaxAttempt
        /\ item[i].state \in Unresolved /\ attempt[a].status \in Unresolved
    BY ValidCarries DEF Reconcile, IndInv, OpenAttempt, Attempt
  <1>2. PICK readable \in SUBSET Shown(i) :
          \/ ReconciledApplied(f, readable)
          \/ ReconciledExternal(f, readable)
          \/ CheckPending(f)
          \/ CheckAmbiguous(f, readable)
          \/ readable = {} /\ CheckAbsent(f, readable)
    BY DEF Reconcile
  <1>3. CASE ReconciledApplied(f, readable)
    <2>1. AttemptMoves(a, {"applied"})
      BY <1>1, <1>3, FinishMoves DEF ReconciledApplied, ItemState
    <2>2. ItemMoves(i, {"applied"})
      BY <1>1, <1>3, ItemTyped, MoveItemMoves DEF ReconciledApplied, ItemState, Challenge
    <2>3. GuardMoves(i, {"applied"})
      BY <1>1, <1>3, MarkMoves DEF ReconciledApplied
    <2>4. negotiation[i] # NoNegotiation
      BY <1>1, <1>3 DEF ReconciledApplied, Exact, Shown
    <2> QED BY <1>1, <2>1, <2>2, <2>3, <2>4 DEF Outcome, Applied
  <1>4. CASE ReconciledExternal(f, readable)
    <2>1. AttemptMoves(a, {"skipped"})
      BY <1>1, <1>4, FinishMoves DEF ReconciledExternal, ItemState
    <2>2. ItemMoves(i, {"skipped"})
      BY <1>1, <1>4, MoveItemMoves DEF ReconciledExternal, ItemState, Challenge
    <2>3. GuardMoves(i, {"external_applied"})
      BY <1>1, <1>4 DEF ReconciledExternal, TypeOK, GuardRecord, GuardMoves
    <2> QED BY <1>1, <2>1, <2>2, <2>3 DEF Outcome, ExternallyApplied
  <1>5. CASE CheckPending(f)
    <2>1. AttemptMoves(a, {attempt[a].status})
      BY <1>1, <1>5, FinishMoves DEF CheckPending, ItemState, Unresolved
    <2>2. ItemMoves(i, {item[i].state})
      BY <1>1, <1>5, ItemTyped, CheckedItemMoves DEF CheckPending, Unresolved
    <2>3. guard' = guard
      BY <1>5 DEF CheckPending
    <2> QED BY <1>1, <2>1, <2>2, <2>3, Widen DEF Outcome, Undecided, Unresolved
  <1>6. CASE CheckAmbiguous(f, readable)
    <2>1. AttemptMoves(a, {attempt[a].status})
      BY <1>1, <1>6, FinishMoves DEF CheckAmbiguous, ItemState, Unresolved
    <2>2. ItemMoves(i, {"manual_challenge"})
      BY <1>1, <1>6, ItemTyped, CheckedItemMoves DEF CheckAmbiguous, ItemState, Challenge
    <2>3. guard' = guard
      BY <1>6 DEF CheckAmbiguous
    <2> QED BY <1>1, <2>1, <2>2, <2>3, Widen DEF Outcome, Undecided, Unresolved
  <1>7. CASE readable = {} /\ CheckAbsent(f, readable)
    <2> DEFINE target == IF item[i].tries < MaxAttempts THEN "ready" ELSE "dead"
    <2>0. /\ target \in ItemState /\ target # "retry_wait"
          /\ {target} \subseteq {"ready", "dead"}
      BY DEF ItemState
    <2>1. AttemptMoves(a, {target})
      BY <1>1, <1>7, <2>0, FinishMoves DEF CheckAbsent
    <2>2. ItemMoves(i, {target})
      BY <1>1, <1>7, <2>0, CheckedItemMoves DEF CheckAbsent, Challenge
    <2>3. GuardMoves(i, {"none"})
      BY <1>1, <1>7, DropMoves DEF CheckAbsent
    <2>4. negotiation[i] = NoNegotiation
      BY <1>1, <1>7 DEF CheckAbsent, MustAsk, Shown
    <2> HIDE DEF target
    <2> QED BY <1>1, <2>0, <2>1, <2>2, <2>3, <2>4, Widen DEF Outcome, Absent
  <1> QED BY <1>2, <1>3, <1>4, <1>5, <1>6, <1>7

\* What the executor's last transaction does.
LEMMA FinalizeOutcome ==
    ASSUME IndInv, AcceptedIsHeld, NEW f \in Run,
           \/ FinalizeApplied(f) \/ RecordPossiblySent(f) \/ FinalizeDefiniteFailure(f)
    PROVE  Outcome(f)
  <1> DEFINE i == proc[f].item
             a == proc[f].attempt
  <1>1. /\ proc[f].pc \in {"posting", "reading"} /\ proc[f].pc = "posting"
        /\ Valid(f) /\ TypeOK
        /\ i \in Item /\ a \in Attempt /\ attempt[a].item = i
    BY ValidCarries DEF FinalizeApplied, RecordPossiblySent, FinalizeDefiniteFailure,
                        IndInv, ProcessCarriesAttempt, Carries
  <1>2. CASE FinalizeApplied(f)
    <2>1. AttemptMoves(a, {"applied"})
      BY <1>1, <1>2, FinishMoves DEF FinalizeApplied, ItemState
    <2>2. ItemMoves(i, {"applied"})
      BY <1>1, <1>2, ItemTyped, MoveItemMoves DEF FinalizeApplied, ItemState, Challenge
    <2>3. GuardMoves(i, {"applied"})
      BY <1>1, <1>2, MarkMoves DEF FinalizeApplied
    <2>4. post[a] = "accepted" /\ negotiation[i] >= a /\ a \in 1..MaxAttempt
      BY <1>1, <1>2 DEF FinalizeApplied, AcceptedIsHeld, Attempt
    <2>5. negotiation[i] # NoNegotiation
      BY <2>4 DEF NoNegotiation
    <2> QED BY <1>1, <2>1, <2>2, <2>3, <2>4, <2>5 DEF Outcome, Applied
  <1>3. CASE RecordPossiblySent(f)
    <2>1. PICK told \in BOOLEAN :
            attempt' = [attempt EXCEPT ![a].status = "reconciling", ![a].duplicate = told]
      BY <1>3 DEF RecordPossiblySent
    <2>2. AttemptMoves(a, {"reconciling"})
      BY <1>1, <2>1 DEF AttemptMoves, TypeOK, AttemptRecord, ItemState
    <2>3. ItemMoves(i, {"reconciling"})
      BY <1>1, <1>3, ItemTyped, MoveItemMoves DEF RecordPossiblySent, ItemState
    <2>4. ~item'[i].due /\ guard' = guard
      BY <1>1, <1>3 DEF RecordPossiblySent, MoveItem, TypeOK, ItemRecord
    <2> QED BY <1>1, <2>2, <2>3, <2>4, Widen DEF Outcome, Unknown, Unresolved
  <1>4. CASE FinalizeDefiniteFailure(f)
    <2>1. PICK target \in FailureTargets(i) :
            /\ FinishAttempt(a, target)
            /\ MoveItem(i, target, "application", target # "retry_wait",
                        IF target = "manual_challenge" THEN "manual" ELSE "none")
      BY <1>4 DEF FinalizeDefiniteFailure
    <2>2. /\ target \in ItemState
          /\ {target} \subseteq {"manual_challenge", "skipped", "retry_wait", "dead"}
      BY DEF FailureTargets, ItemState
    <2>3. AttemptMoves(a, {target})
      BY <1>1, <2>1, <2>2, FinishMoves
    <2>4. ItemMoves(i, {target})
      <3>1. (target # "retry_wait") \in BOOLEAN
            /\ (IF target = "manual_challenge" THEN "manual" ELSE "none") \in Challenge
        BY DEF Challenge
      <3> QED BY <1>1, <2>1, <2>2, <3>1, MoveItemMoves
    <2>5. GuardMoves(i, {"none"}) /\ post[a] = "refused"
      BY <1>1, <1>4, DropMoves DEF FinalizeDefiniteFailure
    <2> QED BY <1>1, <2>2, <2>3, <2>4, <2>5, Widen DEF Outcome, Refused
  <1> QED BY <1>2, <1>3, <1>4

\* Every decision finds what its process prepared or loaded, moves the rows to
\* an outcome and tells HH nothing.
LEMMA DecisionStep ==
    ASSUME IndInv, AcceptedIsHeld, NEW f \in Run, Decision(f)
    PROVE  /\ proc[f].pc \in {"posting", "reading"} /\ Valid(f)
           /\ proc[f].item \in Item /\ proc[f].attempt \in Attempt
           /\ attempt[proc[f].attempt].item = proc[f].item
           /\ Outcome(f)
           /\ Returns(f)
           /\ UNCHANGED <<lease, made, remote>>
  <1>1. proc[f].pc \in {"posting", "reading"} /\ Valid(f) /\ TypeOK
    BY DEF Decision, Reconcile, OpenReconciliationAuth, FinalizeApplied,
           RecordPossiblySent, FinalizeDefiniteFailure, IndInv
  <1>2. /\ proc[f].item \in Item /\ proc[f].attempt \in Attempt
        /\ attempt[proc[f].attempt].item = proc[f].item
        /\ item[proc[f].item].state \in Unresolved
        /\ attempt[proc[f].attempt].status \in Unresolved
    BY <1>1, ValidCarries DEF IndInv, ProcessCarriesAttempt, Carries, OpenAttempt
  <1>3. Outcome(f)
    <2>1. CASE OpenReconciliationAuth(f)
      <3>1. ItemMoves(proc[f].item, {"manual_challenge"})
        BY <1>1, <1>2, <2>1, ItemTyped, MoveItemMoves
           DEF OpenReconciliationAuth, ItemState, Challenge
      <3>2. AttemptMoves(proc[f].attempt, Unresolved) /\ guard' = guard
        BY <1>1, <1>2, <2>1 DEF OpenReconciliationAuth, history, AttemptMoves, TypeOK
      <3> QED BY <2>1, <3>1, <3>2, Widen DEF OpenReconciliationAuth, Outcome, Undecided
    <2> QED BY <2>1, ReconcileOutcome, FinalizeOutcome DEF Decision
  <1>4. Returns(f)
    <2>1. Return(f, IF proc[f].pc = "posting" THEN "dispatch" ELSE "reconcile")
      BY DEF Decision, Reconcile, OpenReconciliationAuth, FinalizeApplied,
             RecordPossiblySent, FinalizeDefiniteFailure
    <2>2. ProcMoves(f, {IF proc[f].pc = "posting" THEN "dispatch" ELSE "reconcile"})
      BY <1>1, <2>1, ReturnMoves DEF Pc
    <2> QED BY <1>1, <2>1, <2>2 DEF Return, Returns, TypeOK
  <1>5. UNCHANGED <<lease, made, remote>>
    BY DEF Decision, Reconcile, OpenReconciliationAuth, FinalizeApplied,
           RecordPossiblySent, FinalizeDefiniteFailure, history
  <1> QED BY <1>1, <1>2, <1>3, <1>4, <1>5
------------------------------------------------------------------------------
(* The other steps, as far as HH's books and the attempts are concerned *)

\* A process inserts an attempt, to be posted or to record that it cannot be.
Inserts(f) == RenderFails(f) \/ PrepareDispatch(f)
LEMMA InsertStep ==
    ASSUME IndInv, NEW f \in Run, Inserts(f)
    PROVE  /\ proc[f].pc = "rendering" /\ Current(f)
           /\ proc[f].item \in Item /\ item[proc[f].item].state = "ready"
           /\ made + 1 \in Attempt /\ made' = made + 1
           /\ attempt'[made + 1].item = proc[f].item
           /\ attempt'[made + 1].status \in {"applying", "retry_wait"}
           /\ \A b \in Attempt \ {made + 1} : attempt'[b] = attempt[b]
           /\ item'[proc[f].item].state = attempt'[made + 1].status
           /\ item'[proc[f].item].attempt = made + 1
           /\ \A j \in Item \ {proc[f].item} : item'[j] = item[j]
           /\ UNCHANGED <<lease, synced, remote>>
  <1>1. /\ proc[f].pc = "rendering" /\ Current(f)
        /\ proc[f].item \in Item /\ item[proc[f].item].state = "ready"
    BY DEF Inserts, RenderFails, PrepareDispatch, ReadyAsRead, IndInv,
           ProcessCarriesAttempt, Carries
  <1>2. \E status \in {"applying", "retry_wait"} : NewAttempt(proc[f].item, status)
    BY DEF Inserts, RenderFails, PrepareDispatch
  <1>3. /\ made + 1 \in Attempt /\ made' = made + 1
        /\ attempt'[made + 1].item = proc[f].item
        /\ attempt'[made + 1].status \in {"applying", "retry_wait"}
        /\ \A b \in Attempt \ {made + 1} : attempt'[b] = attempt[b]
    BY <1>1, <1>2, NewAttemptIsNext DEF IndInv, ItemState
  <1>4. /\ item'[proc[f].item].state = attempt'[made + 1].status
        /\ item'[proc[f].item].attempt = made + 1
        /\ \A j \in Item \ {proc[f].item} : item'[j] = item[j]
    <2>1. CASE RenderFails(f)
      <3>1. attempt'[made + 1].status = "retry_wait"
        BY <1>1, <2>1, NewAttemptIsNext DEF RenderFails, IndInv, ItemState
      <3> QED BY <1>1, <2>1, <3>1 DEF RenderFails, IndInv, TypeOK, ItemRecord
    <2>2. CASE PrepareDispatch(f)
      <3>1. attempt'[made + 1].status = "applying"
        BY <1>1, <2>2, NewAttemptIsNext DEF PrepareDispatch, IndInv, ItemState
      <3> QED BY <1>1, <2>2, <3>1 DEF PrepareDispatch, IndInv, TypeOK
    <2> QED BY <2>1, <2>2 DEF Inserts
  <1>5. UNCHANGED <<lease, synced, remote>>
    BY DEF Inserts, RenderFails, PrepareDispatch
  <1> QED BY <1>1, <1>3, <1>4, <1>5

\* The step touches neither attempts nor guards nor HH; items leave the queue,
\* or go from flight to reconciliation, at the stage they are.
Quiet ==
    /\ UNCHANGED <<history, guard, remote>>
    /\ \A i \in Item :
         /\ item'[i].attempt = item[i].attempt
         /\ item'[i].stage = item[i].stage
         /\ \/ item'[i].state = item[i].state
            \/ item[i].state = "applying" /\ item'[i].state = "reconciling"
            \/ item[i].state \in {"ready", "retry_wait"} /\ item'[i].state \in {"ready", "skipped"}

\* Steps that only change items and processes.
LEMMA QuietStep ==
    ASSUME IndInv,
           \/ \E t \in Trigger : StartRun(t)
           \/ \E f \in Run :
                \/ EndRun(f) \/ Crash(f) \/ RecoverStaleApplying(f) \/ ReconcileRaises(f)
                \/ StartDispatch(f) \/ NextPass(f) \/ AdoptReadyItems(f)
                \/ ExecuteRaises(f) \/ FinalizeRaises(f)
           \/ \E f \in Run, i \in Item :
                \/ LoadContext(f, i) \/ LoadRaises(f, i) \/ ActivateDueRetry(f, i)
                \/ SkipReady(f, i) \/ BeginExecute(f, i)
           \/ \E i \in Item : BecomeDue(i)
    PROVE  Quiet
  <1>1. UNCHANGED <<history, guard, remote>>
    BY DEF StartRun, EndRun, Crash, RecoverStaleApplying, ReconcileRaises, StartDispatch,
           NextPass, AdoptReadyItems, ExecuteRaises, FinalizeRaises, LoadContext, LoadRaises,
           ActivateDueRetry, SkipReady, BeginExecute, BecomeDue
  <1>2. CASE UNCHANGED item
    BY <1>1, <1>2 DEF Quiet
  <1>3. ASSUME NEW f \in Run, RecoverStaleApplying(f) PROVE Quiet
    <2>1. ASSUME NEW i \in Item
          PROVE  /\ item'[i].attempt = item[i].attempt
                 /\ item'[i].stage = item[i].stage
                 /\ \/ item'[i].state = item[i].state
                    \/ item[i].state = "applying" /\ item'[i].state = "reconciling"
      <3>1. item'[i] = IF item[i].state = "applying" THEN RecoveredItem(f, i) ELSE item[i]
        BY <1>3 DEF RecoverStaleApplying
      <3>2. /\ RecoveredItem(f, i).attempt = item[i].attempt
            /\ RecoveredItem(f, i).stage = item[i].stage
            /\ RecoveredItem(f, i).state = "reconciling"
        BY DEF RecoveredItem, IndInv, TypeOK, ItemRecord
      <3> QED BY <3>1, <3>2
    <2> QED BY <1>1, <2>1 DEF Quiet
  <1>4. ASSUME NEW f \in Run, AdoptReadyItems(f) PROVE Quiet
    BY <1>1, <1>4 DEF AdoptReadyItems, Quiet, IndInv, TypeOK, ItemRecord
  <1>5. ASSUME NEW f \in Run, NEW i \in Item, ActivateDueRetry(f, i) \/ SkipReady(f, i)
        PROVE  Quiet
    <2>1. CASE ActivateDueRetry(f, i)
      <3>1. item[i].state = "retry_wait" /\ item'[i].state = "ready"
        BY <2>1 DEF ActivateDueRetry, IndInv, RetryApplies, TypeOK, ItemRecord
      <3>2. /\ item'[i].attempt = item[i].attempt /\ item'[i].stage = item[i].stage
            /\ \A j \in Item \ {i} : item'[j] = item[j]
        <4>1. item' = [item EXCEPT ![i].state = "ready", ![i].version = @ + 1, ![i].run = f]
          BY <2>1 DEF ActivateDueRetry, IndInv, RetryApplies
        <4>2. item[i] \in ItemRecord /\ item \in [Item -> ItemRecord]
          BY DEF IndInv, TypeOK
        <4> QED BY <4>1, <4>2 DEF ItemRecord
      <3> QED BY <1>1, <3>1, <3>2 DEF Quiet
    <2>2. CASE SkipReady(f, i)
      BY <1>1, <2>2 DEF SkipReady, Quiet, IndInv, TypeOK, ItemRecord
    <2> QED BY <1>5, <2>1, <2>2
  <1>6. ASSUME NEW i \in Item, BecomeDue(i) PROVE Quiet
    BY <1>1, <1>6 DEF BecomeDue, Quiet, IndInv, TypeOK, ItemRecord
  <1>7. \/ UNCHANGED item
        \/ \E f \in Run : RecoverStaleApplying(f) \/ AdoptReadyItems(f)
        \/ \E f \in Run, i \in Item : ActivateDueRetry(f, i) \/ SkipReady(f, i)
        \/ \E i \in Item : BecomeDue(i)
    BY DEF StartRun, EndRun, Crash, ReconcileRaises, StartDispatch, NextPass,
           ExecuteRaises, FinalizeRaises, LoadContext, LoadRaises, BeginExecute
  <1> QED BY <1>2, <1>3, <1>4, <1>5, <1>6, <1>7

\* Every step is of one of these kinds.
LEMMA StepKinds ==
    ASSUME IndInv, [Next]_vars
    PROVE  \/ \E f \in Run : Decision(f) \/ Inserts(f) \/ SendPost(f)
           \/ \E a \in Attempt : Arrive(a) \/ Refuse(a)
           \/ \E i \in Item : ApplyExternally(i)
           \/ Quiet
  <1>1. CASE Next
    BY <1>1, QuietStep DEF Next, RunStep, Decision, Inserts
  <1>2. CASE UNCHANGED vars
    BY <1>2 DEF vars, Quiet
  <1> QED BY <1>1, <1>2

\* Attempts are never taken back and keep their item.
LEMMA HistoryKept ==
    ASSUME IndInv, AcceptedIsHeld, [Next]_vars
    PROVE  /\ made' \in Nat /\ made' >= made
           /\ \A b \in 1..made : attempt'[b].item = attempt[b].item
  <1>1. made \in Nat
    BY DEF IndInv, TypeOK
  <1>2. ASSUME NEW f \in Run, Decision(f)
        PROVE  made' = made /\ \A b \in 1..made : attempt'[b].item = attempt[b].item
    <2>1. \A b \in 1..made : b \in Attempt
      BY DEF IndInv, TypeOK, Attempt
    <2> QED BY <1>2, <2>1, DecisionStep
            DEF Outcome, Applied, ExternallyApplied, Absent, Refused, Undecided, Unknown,
                AttemptMoves
  <1>3. ASSUME NEW f \in Run, Inserts(f)
        PROVE  made' = made + 1 /\ \A b \in 1..made : attempt'[b].item = attempt[b].item
    <2>1. \A b \in 1..made : b \in Attempt \ {made + 1}
      BY DEF IndInv, TypeOK, Attempt
    <2> QED BY <1>3, <2>1, InsertStep
  <1>4. CASE UNCHANGED history
    BY <1>1, <1>4 DEF history
  <1>5. \/ UNCHANGED history
        \/ \E f \in Run : Decision(f) \/ Inserts(f)
    BY StepKinds DEF SendPost, Arrive, Refuse, ApplyExternally, Quiet
  <1> QED BY <1>1, <1>2, <1>3, <1>4, <1>5
------------------------------------------------------------------------------
(* The item of an unresolved attempt waits for its outcome *)

\* Such an item points back at the attempt and cannot be dispatched again.
ItemRests ==
    \A a \in Attempt : OpenAttempt(a) =>
        /\ item[attempt[a].item].attempt = a
        /\ item[attempt[a].item].state \in {"applying", "reconciling", "manual_challenge"}

LEMMA StepRests ==
    ASSUME IndInv, PostInv, ItemRests, [Next]_vars
    PROVE  ItemRests'
  <1>0. \A a \in Attempt : OpenAttempt(a) => attempt[a].item \in Item /\ a # made + 1
    BY OpenHasItem
       DEF IndInv, TypeOK, Coherent, AttemptsInOrder, OpenAttempt, Unresolved, Attempt
  <1>1. ASSUME NEW f \in Run, Decision(f) PROVE ItemRests'
    <2> DEFINE i == proc[f].item
               a == proc[f].attempt
    <2>1. /\ i \in Item /\ a \in Attempt /\ attempt[a].item = i /\ Outcome(f) /\ Valid(f)
      BY <1>1, DecisionStep DEF PostInv
    <2>2. /\ item[i].attempt = a /\ item'[i].attempt = a
          /\ \A j \in Item \ {i} : item'[j] = item[j]
          /\ \A b \in Attempt \ {a} : attempt'[b] = attempt[b]
          /\ attempt'[a].item = i
      BY <2>1 DEF Outcome, Applied, ExternallyApplied, Absent, Refused, Undecided, Unknown,
                  ItemMoves, AttemptMoves, Valid
    <2>3. attempt'[a].status \in Unresolved =>
            item'[i].state \in {"applying", "reconciling", "manual_challenge"}
      BY <2>1 DEF Outcome, Applied, ExternallyApplied, Absent, Refused, Undecided, Unknown,
                  ItemMoves, AttemptMoves, Unresolved
    <2>4. ASSUME NEW b \in Attempt \ {a}, OpenAttempt(b)
          PROVE  item'[attempt[b].item] = item[attempt[b].item]
      BY <1>0, <2>2, <2>4 DEF ItemRests
    <2> QED BY <2>1, <2>2, <2>3, <2>4 DEF ItemRests, OpenAttempt
  <1>2. ASSUME NEW f \in Run, Inserts(f) PROVE ItemRests'
    <2> DEFINE i == proc[f].item
               a == made + 1
    <2>1. /\ item[i].state = "ready" /\ i \in Item
          /\ a \in Attempt /\ attempt'[a].item = i
          /\ attempt'[a].status \in {"applying", "retry_wait"}
          /\ \A b \in Attempt \ {a} : attempt'[b] = attempt[b]
          /\ item'[i].state = attempt'[a].status /\ item'[i].attempt = a
          /\ \A j \in Item \ {i} : item'[j] = item[j]
      BY <1>2, InsertStep
    <2>2. ASSUME NEW b \in Attempt \ {a}, OpenAttempt(b)
          PROVE  item'[attempt[b].item] = item[attempt[b].item]
      BY <1>0, <2>1, <2>2 DEF ItemRests
    <2> QED BY <2>1, <2>2 DEF ItemRests, OpenAttempt, Unresolved
  <1>3. CASE Quiet
    <2>1. ASSUME NEW b \in Attempt, OpenAttempt(b)
          PROVE  /\ item'[attempt[b].item].attempt = b
                 /\ item'[attempt[b].item].state \in {"applying", "reconciling", "manual_challenge"}
      <3>1. /\ attempt[b].item \in Item /\ item[attempt[b].item].attempt = b
            /\ item[attempt[b].item].state \in {"applying", "reconciling", "manual_challenge"}
        BY <1>0, <2>1 DEF ItemRests
      <3> QED BY <1>3, <3>1 DEF Quiet
    <2> QED BY <1>3, <2>1 DEF Quiet, history, ItemRests, OpenAttempt
  <1>4. CASE UNCHANGED <<item, attempt>>
    BY <1>4 DEF ItemRests, OpenAttempt
  <1> QED BY <1>1, <1>2, <1>3, <1>4, StepKinds
          DEF SendPost, Arrive, Refuse, ApplyExternally, history
------------------------------------------------------------------------------
(* HH holds what it accepted *)

\* What HH does with the POSTs and the applications by hand.
LEMMA RemotePost ==
    ASSUME IndInv, PostInv,
           \/ \E a \in Attempt : Arrive(a) \/ Refuse(a)
           \/ \E i \in Item : ApplyExternally(i)
    PROVE  PostInv'
  <1>1. UNCHANGED <<item, made, attempt>> /\ made \in Nat
    BY DEF Arrive, Refuse, ApplyExternally, history, IndInv, TypeOK
  <1>2. \A i \in Item : negotiation[i] # NoNegotiation => negotiation'[i] = negotiation[i]
    BY DEF Arrive, Refuse, ApplyExternally, IndInv, TypeOK
  <1>3. OnlyMadeIsPosted'
    BY <1>1 DEF PostInv, OnlyMadeIsPosted, Arrive, Refuse, ApplyExternally, IndInv, TypeOK
  <1>4. AcceptedIsHeld'
    <2>1. ASSUME NEW a \in Attempt, post'[a] = "accepted"
          PROVE  negotiation'[attempt[a].item] >= a
      <3>1. a <= made /\ attempt[a].item \in Item /\ a \in Nat \ {0}
        BY <1>1, <1>3, <2>1
           DEF OnlyMadeIsPosted, IndInv, Coherent, AttemptsInOrder, Attempt
      <3>2. CASE post[a] = "accepted"
        <4>1. negotiation[attempt[a].item] >= a
          BY <3>2 DEF PostInv, AcceptedIsHeld
        <4>2. negotiation[attempt[a].item] # NoNegotiation
          BY <3>1, <4>1 DEF NoNegotiation
        <4> QED BY <1>2, <3>1, <4>1, <4>2
      <3>3. CASE post[a] # "accepted"
        <4>1. negotiation'[attempt[a].item] = made
          BY <2>1, <3>1, <3>3 DEF Arrive, Refuse, ApplyExternally, IndInv, TypeOK
        <4> QED BY <1>1, <3>1, <4>1
      <3> QED BY <3>2, <3>3
    <2> QED BY <1>1, <2>1 DEF AcceptedIsHeld
  <1> QED BY <1>3, <1>4 DEF PostInv

LEMMA StepPost ==
    ASSUME IndInv, PostInv, [Next]_vars
    PROVE  PostInv'
  <1>0. AcceptedIsHeld /\ made \in Nat
    BY DEF PostInv, IndInv, TypeOK
  <1>1. \A a \in Attempt : a <= made => a \in 1..made /\ attempt[a].item \in Item
    BY DEF IndInv, Coherent, AttemptsInOrder, Attempt
  <1>2. ASSUME UNCHANGED negotiation,
               \A a \in Attempt : post'[a] # post[a] => a <= made /\ post'[a] # "accepted"
        PROVE  PostInv'
    <2>1. OnlyMadeIsPosted'
      BY <1>0, <1>2, HistoryKept DEF OnlyMadeIsPosted, PostInv, Attempt
    <2>2. AcceptedIsHeld'
      BY <1>0, <1>1, <1>2, HistoryKept DEF OnlyMadeIsPosted, AcceptedIsHeld, PostInv
    <2> QED BY <2>1, <2>2 DEF PostInv
  <1>3. CASE UNCHANGED remote
    BY <1>2, <1>3 DEF remote
  <1>4. ASSUME NEW f \in Run, SendPost(f) PROVE PostInv'
    <2>1. \A a \in Attempt : post'[a] # post[a] => a <= made /\ post'[a] # "accepted"
      BY <1>4 DEF SendPost, IndInv, TypeOK, ProcessCarriesAttempt, Carries
    <2> QED BY <1>2, <1>4, <2>1 DEF SendPost
  <1>5. ASSUME NEW f \in Run, Decision(f) \/ Inserts(f) PROVE UNCHANGED remote
    BY <1>0, <1>5, DecisionStep, InsertStep
  <1> QED BY <1>3, <1>4, <1>5, RemotePost, StepKinds DEF Quiet

LEMMA PostInductive == Spec => [](PostInv /\ ItemRests)
  <1>1. Init => PostInv /\ ItemRests
    BY DEF Init, PostInv, OnlyMadeIsPosted, AcceptedIsHeld, ItemRests, OpenAttempt,
           Unresolved, NoAttempt
  <1>2. IndInv /\ PostInv /\ ItemRests /\ [Next]_vars => (PostInv /\ ItemRests)'
    BY StepPost, StepRests
  <1> QED BY <1>1, <1>2, Inductive, PTL DEF Spec

\* The item of an unresolved attempt cannot be dispatched again.
THEOREM ItemsStayWithAttempts == Spec => []ItemFollowsAttempt
  <1>1. IndInv /\ ItemRests => ItemFollowsAttempt
    BY DEF IndInv, Coherent, UnresolvedHasAttempt, ItemRests, ItemFollowsAttempt
  <1> QED BY <1>1, Inductive, PostInductive, PTL

\* What the items call applied was read from HH, or answered by it.
LEMMA StepReal ==
    ASSUME IndInv, PostInv, AppliedIsReal, [Next]_vars
    PROVE  AppliedIsReal'
  <1>1. ASSUME NEW f \in Run, Decision(f) PROVE AppliedIsReal'
    <2>1. Outcome(f) /\ UNCHANGED <<made, remote>>
      BY <1>1, DecisionStep DEF PostInv
    <2> QED BY <2>1 DEF Outcome, Applied, ExternallyApplied, Absent, Refused, Undecided,
                        Unknown, ItemMoves, AppliedIsReal, remote
  <1>2. ASSUME NEW f \in Run, Inserts(f) PROVE AppliedIsReal'
    BY <1>2, InsertStep DEF AppliedIsReal, remote
  <1>3. CASE \/ \E a \in Attempt : Arrive(a) \/ Refuse(a)
             \/ \E i \in Item : ApplyExternally(i)
    <2>1. UNCHANGED item
      BY <1>3 DEF Arrive, Refuse, ApplyExternally
    <2>2. \A i \in Item : negotiation[i] # NoNegotiation => negotiation'[i] # NoNegotiation
      BY <1>3 DEF Arrive, Refuse, ApplyExternally, IndInv, TypeOK, NoNegotiation
    <2> QED BY <2>1, <2>2 DEF AppliedIsReal
  <1>4. CASE Quiet
    BY <1>4 DEF Quiet, AppliedIsReal, remote
  <1>5. ASSUME NEW f \in Run, SendPost(f) PROVE AppliedIsReal'
    BY <1>5 DEF SendPost, AppliedIsReal
  <1> QED BY <1>1, <1>2, <1>3, <1>4, <1>5, StepKinds

\* An item is called applied only when HH holds an application of its resume
\* to its vacancy, however the answer got lost or was reconciled.
THEOREM AppliedItemsAreReal == Spec => []AppliedIsReal
  <1>1. Init => AppliedIsReal
    BY DEF Init, AppliedIsReal
  <1>2. IndInv /\ PostInv /\ AppliedIsReal /\ [Next]_vars => AppliedIsReal'
    BY StepReal
  <1> QED BY <1>1, <1>2, Inductive, PostInductive, PTL DEF Spec
------------------------------------------------------------------------------
(* The guard remembers *)

\* With one resume per vacancy, a closed guard is never opened: the vacancy is
\* not prepared again, and only the owner of an active guard drops it.
LEMMA StepClosed ==
    ASSUME ResumePolicy = "best_resume_only", IndInv, PostInv, GuardStaysClosed, [Next]_vars
    PROVE  GuardStaysClosed'
  <1>0. AcceptedIsHeld
    BY DEF PostInv
  <1>1. \A a \in Attempt : attempt[a].status = "applied" => attempt[a].item \in Item
    BY DEF IndInv, TypeOK, Coherent, AttemptsInOrder, Attempt
  <1>2. ASSUME NEW f \in Run, Decision(f) PROVE GuardStaysClosed'
    <2> DEFINE i == proc[f].item
               a == proc[f].attempt
    <2>1. /\ Valid(f) /\ i \in Item /\ a \in Attempt /\ attempt[a].item = i
          /\ Outcome(f)
      BY <1>0, <1>2, DecisionStep
    <2>2. guard[VacancyOf[i]].status = "active"
      BY <2>1 DEF Valid
    <2>3. ASSUME NEW b \in Attempt, attempt'[b].status = "applied"
          PROVE  guard'[VacancyOf[attempt'[b].item]].status
                   \in {"applied", "external_applied"}
      <3>1. CASE b = a
        BY <2>1, <2>3, <3>1
           DEF Outcome, Applied, ExternallyApplied, Absent, Refused, Undecided, Unknown,
               Unresolved, AttemptMoves, GuardMoves
      <3>2. CASE b # a
        <4>1. attempt'[b] = attempt[b]
          BY <2>1, <3>2
             DEF Outcome, Applied, ExternallyApplied, Absent, Refused, Undecided, Unknown,
                 AttemptMoves
        <4>2. /\ guard[VacancyOf[attempt[b].item]].status \in {"applied", "external_applied"}
              /\ VacancyOf[attempt[b].item] \in Vacancy \ {VacancyOf[i]}
          BY <1>1, <2>2, <2>3, <4>1 DEF GuardStaysClosed
        <4>3. guard'[VacancyOf[attempt[b].item]] = guard[VacancyOf[attempt[b].item]]
          BY <2>1, <4>2
             DEF Outcome, Applied, ExternallyApplied, Absent, Refused, Undecided, Unknown,
                 GuardMoves
        <4> QED BY <4>1, <4>2, <4>3
      <3> QED BY <3>1, <3>2
    <2> QED BY <2>3 DEF GuardStaysClosed
  <1>3. ASSUME NEW f \in Run, Inserts(f) PROVE GuardStaysClosed'
    <2>1. \A v \in Vacancy : guard[v].status \in {"applied", "external_applied"} =>
            guard'[v] = guard[v]
      BY <1>3 DEF Inserts, RenderFails, PrepareDispatch, GuardAllows, IndInv, TypeOK
    <2>2. ASSUME NEW b \in Attempt, attempt'[b].status = "applied"
          PROVE  attempt'[b] = attempt[b]
      BY <1>3, <2>2, InsertStep
    <2> QED BY <1>1, <2>1, <2>2 DEF GuardStaysClosed
  <1>4. CASE UNCHANGED <<attempt, guard>>
    BY <1>4 DEF GuardStaysClosed
  <1> QED BY <1>2, <1>3, <1>4, StepKinds
          DEF SendPost, Arrive, Refuse, ApplyExternally, Quiet, history

\* With one resume per vacancy, the guard of a vacancy the account applied to
\* is never forgotten.
THEOREM GuardRemembers ==
    ASSUME ResumePolicy = "best_resume_only"
    PROVE  Spec => []ApplicationIsRemembered
  <1>1. Init => GuardStaysClosed
    BY DEF Init, GuardStaysClosed, NoAttempt
  <1>2. IndInv /\ PostInv /\ GuardStaysClosed /\ [Next]_vars => GuardStaysClosed'
    BY StepClosed
  <1>3. GuardStaysClosed => ApplicationIsRemembered
    BY DEF GuardStaysClosed, ApplicationIsRemembered
  <1> QED BY <1>1, <1>2, <1>3, Inductive, PostInductive, PTL DEF Spec
------------------------------------------------------------------------------
(* Under Timely: a lease outlives the POST made under it *)

\* The attempts of an item follow one another.
ItemHasLastAttempt == \A a \in 1..made : item[attempt[a].item].attempt >= a

\* A process between the preparation and its last transaction is in charge of
\* what it carries, the others wait for its lease.
Sending(f) == proc[f].pc \in {"prepared", "posting"}
SenderIsInCharge ==
    \A f \in Run : Sending(f) =>
        /\ Valid(f)
        /\ attempt[proc[f].attempt].run = f
        /\ item[proc[f].item].state = "applying"

\* Tokens not given out yet have no process; a process that dispatches has
\* done with its reconciliations.
ProcessesInOrder ==
    \A f \in Run :
        /\ f > fence => proc[f] = NoProc
        /\ proc[f].pc \in {"dispatch", "rendering", "prepared", "posting"} => proc[f].todo = {}

\* Who may still answer for a POST on the wire: its executor, or nobody while
\* the lease of the dead executor lasts ...
InFlight(a) ==
    /\ item[attempt[a].item].state = "applying"
    /\ held /\ attempt[a].run = fence /\ fence # 0
    /\ \/ proc[fence].pc = "crashed"
       \/ proc[fence].pc = "posting" /\ proc[fence].attempt = a

\* ... or time, until the item is due.
Deferred(a) ==
    /\ item[attempt[a].item].state = "reconciling"
    /\ ~item[attempt[a].item].due

WireIsAwaited ==
    \A a \in Attempt : post[a] = "wire" =>
        /\ OpenAttempt(a)
        /\ item[attempt[a].item].attempt = a
        /\ InFlight(a) \/ Deferred(a)

\* What the run in charge is about to decide, or is deciding, is not on the wire.
Deciding(f, i) == i \in proc[f].todo \/ (proc[f].pc = "reading" /\ proc[f].item = i)
DecidedIsSettled ==
    \A f \in Run : \A i \in Item : \A a \in Attempt :
        Current(f) /\ Deciding(f, i) /\ item[i].attempt = a => post[a] # "wire"

WireInv ==
    /\ ItemHasLastAttempt
    /\ SenderIsInCharge
    /\ ProcessesInOrder
    /\ WireIsAwaited
    /\ DecidedIsSettled

\* What an item that may reach HH is, for the steps below.
LEMMA ReachesItem ==
    ASSUME IndInv, OnlyMadeIsPosted, NEW a \in Attempt, post[a] # "none"
    PROVE  a \in 1..made /\ attempt[a].item \in Item
  BY DEF OnlyMadeIsPosted, IndInv, Coherent, AttemptsInOrder, Attempt

\* While the run in charge is elsewhere, nobody sends and nothing is in flight.
LEMMA NobodySends ==
    ASSUME IndInv, WireInv, NEW f \in Run, Current(f), ~Sending(f)
    PROVE  /\ \A g \in Run : ~Sending(g)
           /\ proc[f].pc # "crashed" =>
                \A a \in Attempt : post[a] = "wire" =>
                  OpenAttempt(a) /\ Deferred(a) /\ item[attempt[a].item].attempt = a
  <1>1. \A g \in Run : ~Sending(g)
    BY DEF WireInv, SenderIsInCharge, Valid, Current
  <1>2. ASSUME proc[f].pc # "crashed", NEW a \in Attempt, post[a] = "wire"
        PROVE  OpenAttempt(a) /\ Deferred(a) /\ item[attempt[a].item].attempt = a
    BY <1>2 DEF WireInv, WireIsAwaited, InFlight, Current, Sending
  <1> QED BY <1>1, <1>2

LEMMA InitWire == Init => WireInv
  BY DEF Init, WireInv, ItemHasLastAttempt, SenderIsInCharge,
         ProcessesInOrder, WireIsAwaited, DecidedIsSettled, Sending, Deciding, Current, NoProc

\* A lease changes hands when nobody sends and nothing sent under it is out.
LEMMA StartWire ==
    ASSUME Timely, IndInv, WireInv, NEW t \in Trigger, StartRun(t)
    PROVE  WireInv'
  <1>1. /\ fence + 1 \in Run /\ fence' = fence + 1 /\ fence \in 0..MaxFence /\ held'
        /\ UNCHANGED <<item, made, attempt, reservation, guard, post>>
    BY DEF StartRun, IndInv, TypeOK, Run, history, remote
  <1>2. held => /\ proc[fence].pc \notin {"prepared", "posting"}
                /\ \A a \in Attempt : attempt[a].run = fence => post[a] # "wire"
    BY DEF StartRun, Expired
  <1>3. /\ proc[fence + 1] = NoProc
        /\ proc'[fence + 1].todo = {} /\ proc'[fence + 1].pc \in {"dispatch", "recover"}
        /\ \A g \in Run \ {fence + 1} : proc'[g] = proc[g]
    <2>1. proc[fence + 1] = NoProc
      BY <1>1 DEF WireInv, ProcessesInOrder
    <2> QED BY <1>1, <2>1 DEF StartRun, IndInv, TypeOK, NoProc, ProcRecord
  <1>4. \A g \in Run : proc'[g].pc \notin {"prepared", "posting"}
    <2>1. \A g \in Run : proc[g].pc \in {"prepared", "posting"} => held /\ fence = g
      BY DEF WireInv, SenderIsInCharge, Sending, Valid, Current
    <2> QED BY <1>2, <1>3, <2>1
  <1>5. ItemHasLastAttempt'
    BY <1>1 DEF WireInv, ItemHasLastAttempt
  <1>6. SenderIsInCharge'
    BY <1>4 DEF SenderIsInCharge, Sending
  <1>7. ProcessesInOrder'
    BY <1>1, <1>3 DEF WireInv, ProcessesInOrder, Run
  <1>8. WireIsAwaited'
    BY <1>1, <1>2 DEF WireInv, WireIsAwaited, InFlight, Deferred, OpenAttempt
  <1>9. DecidedIsSettled'
    BY <1>1, <1>3 DEF DecidedIsSettled, Current, Deciding
  <1> QED BY <1>5, <1>6, <1>7, <1>8, <1>9 DEF WireInv

\* Steps of a process that writes no row: it may not stop awaiting a POST of
\* its own while it is in charge, except by its death.
LEMMA ProcWire ==
    ASSUME IndInv, WireInv, NEW f \in Run,
           UNCHANGED <<fence, item, history, reservation, guard, post>>,
           \/ held' = held
           \/ held' = (held /\ fence # f) /\ proc[f].pc # "posting",
           \A g \in Run \ {f} : proc'[g] = proc[g],
           proc[f].pc \notin {"none", "crashed"},
           proc'[f].pc \notin {"prepared", "posting", "reading", "none"},
           proc'[f].todo \subseteq proc[f].todo,
           proc'[f].pc \in {"dispatch", "rendering"} => proc'[f].todo = {},
           proc[f].pc = "posting" /\ proc'[f].pc # "crashed" =>
             \A a \in Attempt : post[a] = "wire" => proc[f].attempt # a
    PROVE  WireInv'
  <1>1. f <= fence /\ fence \in 0..MaxFence /\ held \in BOOLEAN
    BY DEF WireInv, ProcessesInOrder, NoProc, IndInv, TypeOK, Run
  <1>2. ItemHasLastAttempt'
    BY DEF WireInv, ItemHasLastAttempt, history
  <1>3. SenderIsInCharge'
    <2>1. ASSUME NEW g \in Run, proc'[g].pc \in {"prepared", "posting"}
          PROVE  g # f /\ proc'[g] = proc[g] /\ Valid(g)' 
                 /\ attempt'[proc'[g].attempt].run = g
                 /\ item'[proc'[g].item].state = "applying"
      <3>1. g # f /\ proc'[g] = proc[g]
        BY <2>1
      <3>2. Valid(g) /\ attempt[proc[g].attempt].run = g /\ item[proc[g].item].state = "applying"
        BY <2>1, <3>1 DEF WireInv, SenderIsInCharge, Sending
      <3>3. Current(g)'
        BY <3>1, <3>2 DEF Valid, Current
      <3> QED BY <3>1, <3>2, <3>3 DEF Valid, history
    <2> QED BY <2>1 DEF SenderIsInCharge, Sending
  <1>4. ProcessesInOrder'
    <2>1. ASSUME NEW g \in Run, g > fence PROVE proc'[g] = NoProc
      BY <1>1, <2>1 DEF WireInv, ProcessesInOrder, Run
    <2>2. ASSUME NEW g \in Run,
                 proc'[g].pc \in {"dispatch", "rendering", "prepared", "posting"}
          PROVE  proc'[g].todo = {}
      BY <2>2 DEF WireInv, ProcessesInOrder
    <2> QED BY <2>1, <2>2 DEF ProcessesInOrder
  <1>5. WireIsAwaited'
    <2>1. ASSUME NEW a \in Attempt, post[a] = "wire"
          PROVE  /\ OpenAttempt(a)' /\ item'[attempt'[a].item].attempt = a
                 /\ InFlight(a)' \/ Deferred(a)'
      <3>1. /\ OpenAttempt(a)' /\ item'[attempt'[a].item].attempt = a
            /\ InFlight(a) \/ Deferred(a)
        BY <2>1 DEF WireInv, WireIsAwaited, OpenAttempt, history
      <3>2. CASE Deferred(a)
        BY <3>1, <3>2 DEF Deferred, history
      <3>3. CASE InFlight(a)
        <4>1. CASE fence = f
          BY <1>1, <2>1, <3>1, <3>3, <4>1 DEF InFlight, history
        <4>2. CASE fence # f
          <5>1. proc'[fence] = proc[fence] /\ held'
            <6>1. fence \in Run \ {f} /\ held
              BY <1>1, <3>3, <4>2, BoundAssumption DEF InFlight, Run
            <6> QED BY <4>2, <6>1
          <5> QED BY <3>1, <3>3, <5>1 DEF InFlight, history
        <4> QED BY <4>1, <4>2
      <3> QED BY <3>1, <3>2, <3>3
    <2> QED BY <2>1 DEF WireIsAwaited
  <1>6. DecidedIsSettled'
    <2>1. ASSUME NEW g \in Run, NEW i \in Item, NEW a \in Attempt,
                 Current(g)', Deciding(g, i)', item[i].attempt = a
          PROVE  post[a] # "wire"
      <3>1. Current(g) /\ Deciding(g, i)
        BY <2>1 DEF Current, Deciding
      <3> QED BY <2>1, <3>1 DEF WireInv, DecidedIsSettled
    <2> QED BY <2>1 DEF DecidedIsSettled
  <1> QED BY <1>2, <1>3, <1>4, <1>5, <1>6 DEF WireInv

\* The steps of that kind.
LEMMA ProcessStepsWire ==
    ASSUME IndInv, WireInv, NEW f \in Run,
           \/ EndRun(f) \/ Crash(f) \/ ReconcileRaises(f) \/ StartDispatch(f)
           \/ NextPass(f) \/ ExecuteRaises(f) \/ FinalizeRaises(f)
           \/ \E i \in Item : LoadRaises(f, i) \/ BeginExecute(f, i)
    PROVE  WireInv'
  <1>0. UNCHANGED <<fence, item, history, reservation, guard, post>> /\ TypeOK
    BY DEF EndRun, Crash, ReconcileRaises, StartDispatch, NextPass, ExecuteRaises,
           FinalizeRaises, LoadRaises, BeginExecute, lease, remote, IndInv
  <1>1. proc[f].pc \in {"dispatch", "rendering"} => proc[f].todo = {}
    BY DEF WireInv, ProcessesInOrder
  <1>2. CASE EndRun(f)
    BY <1>0, <1>1, <1>2, ProcWire DEF EndRun, TypeOK, ProcRecord
  <1>3. CASE Crash(f)
    BY <1>0, <1>1, <1>3, ProcWire DEF Crash, TypeOK, ProcRecord, NoProc, lease
  <1>4. CASE ReconcileRaises(f)
    BY <1>0, <1>1, <1>4, ProcWire DEF ReconcileRaises, Return, TypeOK, ProcRecord, lease
  <1>5. CASE StartDispatch(f)
    BY <1>0, <1>1, <1>5, ProcWire DEF StartDispatch, TypeOK, ProcRecord, lease
  <1>6. CASE NextPass(f)
    BY <1>0, <1>1, <1>6, ProcWire DEF NextPass, TypeOK, ProcRecord, lease
  <1>7. CASE ExecuteRaises(f)
    BY <1>0, <1>1, <1>7, ProcWire DEF ExecuteRaises, Return, TypeOK, ProcRecord, lease
  <1>8. CASE FinalizeRaises(f)
    <2>1. proc[f].pc = "posting" /\ Valid(f) /\ proc[f].todo = {}
      BY <1>8 DEF FinalizeRaises, WireInv, SenderIsInCharge, Sending, ProcessesInOrder
    <2>2. post[proc[f].attempt] = "refused"
      BY <1>8, <2>1 DEF FinalizeRaises
    <2> QED BY <1>0, <1>8, <2>1, <2>2, ProcWire
            DEF FinalizeRaises, Return, TypeOK, ProcRecord, lease
  <1>9. ASSUME NEW i \in Item, LoadRaises(f, i) PROVE WireInv'
    BY <1>0, <1>1, <1>9, ProcWire DEF LoadRaises, TypeOK, ProcRecord, lease
  <1>10. ASSUME NEW i \in Item, BeginExecute(f, i) PROVE WireInv'
    BY <1>0, <1>1, <1>10, ProcWire DEF BeginExecute, TypeOK, ProcRecord, lease
  <1> QED BY <1>2, <1>3, <1>4, <1>5, <1>6, <1>7, <1>8, <1>9, <1>10

\* recover_stale_applying: nothing is in flight, so what becomes a
\* reconciliation here, or is one that is due, is not on the wire.
LEMMA RecoverWire ==
    ASSUME IndInv, PostInv, WireInv, NEW f \in Run, RecoverStaleApplying(f)
    PROVE  WireInv'
  <1>1. /\ Current(f) /\ proc[f].pc = "recover" /\ ~Sending(f) /\ f <= fence
        /\ UNCHANGED <<fence, held, made, attempt, reservation, guard, post>>
    BY DEF RecoverStaleApplying, Sending, lease, history, remote, Current, IndInv, TypeOK
  <1>2. \A i \in Item : item'[i] = IF item[i].state = "applying"
                                   THEN RecoveredItem(f, i) ELSE item[i]
    BY <1>1 DEF RecoverStaleApplying
  <1>3. \A i \in Item :
          /\ item'[i].attempt = item[i].attempt /\ item'[i].due = item[i].due
          /\ item[i].state = "applying" => item'[i].state = "reconciling"
          /\ item[i].state # "applying" => item'[i] = item[i]
    <2>1. \A i \in Item : /\ RecoveredItem(f, i).attempt = item[i].attempt
                          /\ RecoveredItem(f, i).due = item[i].due
                          /\ RecoveredItem(f, i).state = "reconciling"
      BY DEF RecoveredItem, IndInv, TypeOK, ItemRecord
    <2> QED BY <1>2, <2>1
  <1>4. /\ proc'[f].pc = "reconcile"
        /\ \A i \in proc'[f].todo : i \in Item /\ item'[i].state = "reconciling" /\ item'[i].due
        /\ \A g \in Run \ {f} : proc'[g] = proc[g]
    BY DEF RecoverStaleApplying, IndInv, TypeOK, ProcRecord
  <1>5. \A a \in Attempt : post[a] = "wire" =>
          OpenAttempt(a) /\ Deferred(a) /\ item[attempt[a].item].attempt = a
    BY <1>1, NobodySends
  <1>6. OnlyMadeIsPosted /\ \A a \in 1..made : a \in Attempt /\ attempt[a].item \in Item
    BY DEF PostInv, IndInv, TypeOK, Coherent, AttemptsInOrder, Attempt
  <1>8. ItemHasLastAttempt'
    BY <1>1, <1>3, <1>6 DEF WireInv, ItemHasLastAttempt
  <1>9. SenderIsInCharge'
    BY <1>1, <1>4, NobodySends DEF SenderIsInCharge, Sending
  <1>10. ProcessesInOrder'
    <2>1. proc'[f].pc \notin {"dispatch", "rendering", "prepared", "posting"} /\ ~(f > fence)
      BY <1>1, <1>4 DEF IndInv, TypeOK, Run
    <2> QED BY <1>1, <1>4, <2>1 DEF WireInv, ProcessesInOrder
  <1>11. WireIsAwaited'
    <2>1. ASSUME NEW a \in Attempt, post[a] = "wire"
          PROVE  OpenAttempt(a)' /\ Deferred(a)' /\ item'[attempt'[a].item].attempt = a
      <3>1. /\ attempt[a].item \in Item /\ OpenAttempt(a) /\ Deferred(a)
            /\ item[attempt[a].item].attempt = a
        BY <1>5, <1>6, <2>1, ReachesItem
      <3>2. item'[attempt[a].item] = item[attempt[a].item]
        BY <1>3, <3>1 DEF Deferred
      <3> QED BY <1>1, <3>1, <3>2 DEF Deferred, OpenAttempt
    <2> QED BY <1>1, <2>1 DEF WireIsAwaited
  <1>12. DecidedIsSettled'
    <2>1. ASSUME NEW g \in Run, NEW i \in Item, NEW a \in Attempt,
                 Current(g)', Deciding(g, i)', item'[i].attempt = a, post[a] = "wire"
          PROVE  FALSE
      <3>1. g = f /\ item'[i].due
        BY <1>1, <1>4, <2>1 DEF Current, Deciding
      <3>2. item[i].due /\ attempt[a].item = i
        BY <1>3, <2>1, <3>1, OwnAttempt DEF IndInv
      <3> QED BY <1>5, <2>1, <3>2 DEF Deferred
    <2> QED BY <1>1, <2>1 DEF DecidedIsSettled
  <1> QED BY <1>8, <1>9, <1>10, <1>11, <1>12 DEF WireInv

\* load_reconciliation_context.
LEMMA LoadWire ==
    ASSUME IndInv, WireInv, NEW f \in Run, NEW i \in Item, LoadContext(f, i)
    PROVE  WireInv'
  <1>1. /\ Current(f) /\ proc[f].pc = "reconcile" /\ ~Sending(f) /\ i \in proc[f].todo
        /\ UNCHANGED <<fence, held, item, made, attempt, guard, post>>
    BY DEF LoadContext, Loadable, Sending, lease, history, remote
  <1>2. /\ proc'[f].pc = "reading" /\ proc'[f].item = i
        /\ proc'[f].todo \subseteq proc[f].todo
        /\ \A g \in Run \ {f} : proc'[g] = proc[g]
    BY DEF LoadContext, IndInv, TypeOK, ProcRecord
  <1>3. ItemHasLastAttempt'
    BY <1>1 DEF WireInv, ItemHasLastAttempt
  <1>4. SenderIsInCharge'
    BY <1>1, <1>2, NobodySends DEF SenderIsInCharge, Sending
  <1>5. ProcessesInOrder'
    <2>1. proc'[f].pc \notin {"dispatch", "rendering", "prepared", "posting"} /\ ~(f > fence)
      BY <1>1, <1>2 DEF IndInv, TypeOK, Run, Current
    <2> QED BY <1>1, <1>2, <2>1 DEF WireInv, ProcessesInOrder
  <1>6. WireIsAwaited'
    <2>1. \A a \in Attempt : post[a] = "wire" =>
            OpenAttempt(a) /\ Deferred(a) /\ item[attempt[a].item].attempt = a
      BY <1>1, NobodySends
    <2> QED BY <1>1, <2>1 DEF WireIsAwaited, OpenAttempt, Deferred
  <1>7. DecidedIsSettled'
    <2>1. ASSUME NEW g \in Run, NEW j \in Item, Current(g)', Deciding(g, j)'
          PROVE  Current(g) /\ Deciding(g, j)
      BY <1>1, <1>2, <2>1 DEF Current, Deciding
    <2> QED BY <1>1, <2>1 DEF WireInv, DecidedIsSettled
  <1> QED BY <1>3, <1>4, <1>5, <1>6, <1>7 DEF WireInv

\* Steps that only change items: one in the queue stays out of reach, and an
\* item becomes due when nothing of it is on the wire.
LEMMA ItemStepsWire ==
    ASSUME Timely, IndInv, PostInv, WireInv,
           \/ \E f \in Run : AdoptReadyItems(f)
           \/ \E f \in Run, i \in Item : ActivateDueRetry(f, i) \/ SkipReady(f, i)
           \/ \E i \in Item : BecomeDue(i)
    PROVE  WireInv'
  <1>1. UNCHANGED <<fence, held, proc, made, attempt, reservation, guard, post>>
    BY DEF AdoptReadyItems, ActivateDueRetry, SkipReady, BecomeDue, lease, history, remote
  <1>2. \A j \in Item :
          /\ item'[j].attempt = item[j].attempt
          /\ \/ /\ item'[j].state = item[j].state
                /\ item'[j].version = item[j].version
                /\ item'[j].due = item[j].due
             \/ /\ item'[j].state = item[j].state
                /\ item'[j].version = item[j].version
                /\ \A a \in Attempt : attempt[a].item = j => post[a] # "wire"
             \/ item[j].state \in {"ready", "retry_wait"} /\ item'[j].state \in {"ready", "skipped"}
    <2>1. ASSUME NEW f \in Run, AdoptReadyItems(f) PROVE <1>2!:
      <3>1. \A j \in Item : item'[j] = IF item[j].state = "ready"
                                       THEN [item[j] EXCEPT !.run = f] ELSE item[j]
        BY <2>1 DEF AdoptReadyItems
      <3>2. ASSUME NEW j \in Item
            PROVE  /\ item'[j].attempt = item[j].attempt /\ item'[j].state = item[j].state
                   /\ item'[j].version = item[j].version /\ item'[j].due = item[j].due
        BY ZenonT(30), <3>1 DEF IndInv, TypeOK, ItemRecord
      <3> QED BY <3>2
    <2>2. ASSUME NEW f \in Run, NEW i \in Item, ActivateDueRetry(f, i) PROVE <1>2!:
      <3>1. /\ item' = [item EXCEPT ![i].state = "ready", ![i].version = @ + 1, ![i].run = f]
            /\ item[i].state = "retry_wait"
        BY <2>2 DEF ActivateDueRetry, IndInv, RetryApplies
      <3>2. /\ item'[i].state = "ready" /\ item'[i].attempt = item[i].attempt
            /\ \A j \in Item \ {i} : item'[j] = item[j]
        BY <3>1 DEF IndInv, TypeOK, ItemRecord
      <3> QED BY <3>1, <3>2
    <2>3. ASSUME NEW f \in Run, NEW i \in Item, SkipReady(f, i) PROVE <1>2!:
      BY <2>3 DEF SkipReady, IndInv, TypeOK, ItemRecord
    <2>4. ASSUME NEW i \in Item, BecomeDue(i) PROVE <1>2!:
      <3>1. /\ item'[i].attempt = item[i].attempt /\ item'[i].state = item[i].state
            /\ item'[i].version = item[i].version
            /\ \A j \in Item \ {i} : item'[j] = item[j]
        BY <2>4 DEF BecomeDue, IndInv, TypeOK, ItemRecord
      <3>2. \A a \in Attempt : attempt[a].item = i => post[a] # "wire"
        BY <2>4 DEF BecomeDue
      <3> QED BY <3>1, <3>2
    <2> QED BY <2>1, <2>2, <2>3, <2>4
  <1>3. OnlyMadeIsPosted /\ \A a \in 1..made : a \in Attempt /\ attempt[a].item \in Item
    BY DEF PostInv, IndInv, TypeOK, Coherent, AttemptsInOrder, Attempt
  <1>5. ItemHasLastAttempt'
    BY <1>1, <1>2, <1>3 DEF WireInv, ItemHasLastAttempt
  <1>6. SenderIsInCharge'
    <2>1. ASSUME NEW f \in Run, Sending(f)
          PROVE  /\ Valid(f)'
                 /\ attempt[proc[f].attempt].run = f
                 /\ item'[proc[f].item].state = "applying"
      <3>1. /\ Valid(f) /\ attempt[proc[f].attempt].run = f
            /\ item[proc[f].item].state = "applying" /\ proc[f].item \in Item
        BY <2>1 DEF WireInv, SenderIsInCharge, Sending, IndInv, ProcessCarriesAttempt, Carries
      <3>2. /\ item'[proc[f].item].state = item[proc[f].item].state
            /\ item'[proc[f].item].version = item[proc[f].item].version
            /\ item'[proc[f].item].attempt = item[proc[f].item].attempt
        BY <1>2, <3>1
      <3> QED BY <1>1, <3>1, <3>2 DEF Valid, Current
    <2> QED BY <1>1, <2>1 DEF SenderIsInCharge, Sending
  <1>7. ProcessesInOrder'
    BY <1>1 DEF WireInv, ProcessesInOrder
  <1>8. WireIsAwaited'
    <2>1. ASSUME NEW a \in Attempt, post[a] = "wire"
          PROVE  /\ OpenAttempt(a)' /\ item'[attempt'[a].item].attempt = a
                 /\ InFlight(a)' \/ Deferred(a)'
      <3>1. /\ attempt[a].item \in Item /\ OpenAttempt(a)
            /\ item[attempt[a].item].attempt = a
            /\ InFlight(a) \/ Deferred(a)
        BY <1>3, <2>1, ReachesItem DEF WireInv, WireIsAwaited
      <3>2. item[attempt[a].item].state \in {"applying", "reconciling"}
        BY <3>1 DEF InFlight, Deferred
      <3>3. /\ item'[attempt[a].item].state = item[attempt[a].item].state
            /\ item'[attempt[a].item].due = item[attempt[a].item].due
            /\ item'[attempt[a].item].attempt = item[attempt[a].item].attempt
        BY <1>2, <2>1, <3>1, <3>2
      <3> QED BY <1>1, <3>1, <3>3 DEF InFlight, Deferred, OpenAttempt
    <2> QED BY <1>1, <2>1 DEF WireIsAwaited
  <1>9. DecidedIsSettled'
    BY <1>1, <1>2 DEF WireInv, DecidedIsSettled, Current, Deciding
  <1> QED BY <1>5, <1>6, <1>7, <1>8, <1>9 DEF WireInv

\* What HH and the candidate do puts nothing on the wire.
LEMMA RemoteWire ==
    ASSUME IndInv, WireInv,
           \/ \E a \in Attempt : Arrive(a) \/ Refuse(a)
           \/ \E i \in Item : ApplyExternally(i)
    PROVE  WireInv'
  <1>1. UNCHANGED <<fence, held, proc, item, made, attempt, reservation, guard>>
    BY DEF Arrive, Refuse, ApplyExternally, lease, history
  <1>2. \A a \in Attempt : /\ post'[a] = "wire" => post[a] = "wire"
                           /\ post'[a] = "accepted" => post[a] \in {"wire", "accepted"}
    BY DEF Arrive, Refuse, ApplyExternally, IndInv, TypeOK
  <1>3. ItemHasLastAttempt'
    BY <1>1 DEF WireInv, ItemHasLastAttempt
  <1>4. SenderIsInCharge' /\ ProcessesInOrder'
    BY <1>1 DEF WireInv, SenderIsInCharge, ProcessesInOrder, Sending, Valid, Current
  <1>5. WireIsAwaited'
    BY <1>1, <1>2 DEF WireInv, WireIsAwaited, InFlight, Deferred, OpenAttempt
  <1>6. DecidedIsSettled'
    BY <1>1, <1>2 DEF WireInv, DecidedIsSettled, Current, Deciding
  <1> QED BY <1>3, <1>4, <1>5, <1>6 DEF WireInv

\* HH has the application of attempt a or may still get it.
MayReach(a) == post[a] \in {"wire", "accepted"}

\* A dispatch that goes back to the queue, or drops its guard, has not
\* reached HH.
LEMMA NotReached ==
    ASSUME IndInv, PostInv, WireInv, NEW f \in Run, Valid(f), Outcome(f),
           proc[f].pc \in {"posting", "reading"},
           \/ item'[proc[f].item].state \in {"ready", "retry_wait"}
           \/ guard'[VacancyOf[proc[f].item]].status = "none"
    PROVE  ~MayReach(proc[f].attempt)
  <1> DEFINE i == proc[f].item
             a == proc[f].attempt
  <1>1. /\ i \in Item /\ a \in Attempt /\ a \in Nat \ {0}
        /\ item[i].attempt = a /\ attempt[a].item = i
        /\ guard[VacancyOf[i]].status = "active"
    <2>1. /\ i \in Item /\ a \in Attempt /\ item[i].attempt = a
          /\ guard[VacancyOf[i]] = [status |-> "active", owner |-> a]
      BY ValidCarries
    <2>2. attempt[a].item = i
      BY DEF IndInv, ProcessCarriesAttempt, Carries
    <2> QED BY <2>1, <2>2 DEF Attempt
  <1>2. CASE Refused(f)
    BY <1>2 DEF Refused, MayReach
  <1>3. CASE Absent(f)
    <2>1. post[a] # "wire"
      BY <1>1, <1>3 DEF Absent, Valid, WireInv, DecidedIsSettled, Deciding
    <2>2. ~(negotiation[i] >= a)
      BY <1>1, <1>3 DEF Absent, NoNegotiation
    <2>3. post[a] # "accepted"
      BY <1>1, <2>2 DEF PostInv, AcceptedIsHeld
    <2> QED BY <2>1, <2>3 DEF MayReach
  <1>4. ~(Applied(f) \/ ExternallyApplied(f) \/ Undecided(f) \/ Unknown(f))
    BY <1>1 DEF Applied, ExternallyApplied, Undecided, Unknown, ItemMoves, GuardMoves
  <1> QED BY <1>2, <1>3, <1>4 DEF Outcome

\* A decision is about what is settled, or leaves it to time.
LEMMA DecisionWire ==
    ASSUME IndInv, PostInv, WireInv, NEW f \in Run, Decision(f)
    PROVE  WireInv'
  <1> DEFINE i == proc[f].item
             a == proc[f].attempt
  <1>1. /\ proc[f].pc \in {"posting", "reading"} /\ Valid(f)
        /\ i \in Item /\ a \in Attempt /\ attempt[a].item = i
        /\ Outcome(f) /\ Returns(f)
        /\ UNCHANGED <<fence, held, made, post>>
    BY DecisionStep DEF PostInv, lease, remote
  <1>2. Current(f) /\ item[i].attempt = a
    BY <1>1 DEF Valid
  <1>3. /\ \A j \in Item : item'[j].attempt = item[j].attempt
        /\ \A j \in Item \ {i} : item'[j] = item[j]
        /\ \A b \in Attempt : attempt'[b].item = attempt[b].item
        /\ \A b \in Attempt \ {a} : attempt'[b] = attempt[b]
    BY <1>1 DEF Outcome, Applied, ExternallyApplied, Absent, Refused, Undecided, Unknown,
                ItemMoves, AttemptMoves
  <1>4. /\ proc'[f].pc \in {"dispatch", "reconcile"}
        /\ proc'[f].pc = "dispatch" => proc[f].pc = "posting"
        /\ proc'[f].todo = proc[f].todo
        /\ \A g \in Run \ {f} : proc'[g] = proc[g]
    BY <1>1 DEF Returns, ProcMoves
  <1>5. OnlyMadeIsPosted /\ \A b \in 1..made : b \in Attempt /\ attempt[b].item \in Item
    BY DEF PostInv, IndInv, TypeOK, Coherent, AttemptsInOrder, Attempt
  <1>7. ItemHasLastAttempt'
    BY <1>1, <1>3, <1>5 DEF WireInv, ItemHasLastAttempt
  <1>8. SenderIsInCharge'
    <2>1. ASSUME NEW g \in Run \ {f} PROVE ~Sending(g)
      BY <1>2 DEF WireInv, SenderIsInCharge, Valid, Current
    <2> QED BY <1>4, <2>1 DEF SenderIsInCharge, Sending
  <1>9. ProcessesInOrder'
    <2>1. ~(f > fence)
      BY <1>2 DEF Current, IndInv, TypeOK, Run
    <2> QED BY <1>1, <1>4, <2>1 DEF WireInv, ProcessesInOrder
  <1>10. WireIsAwaited'
    <2>1. ASSUME NEW b \in Attempt, post[b] = "wire"
          PROVE  OpenAttempt(b)' /\ Deferred(b)' /\ item'[attempt'[b].item].attempt = b
      <3>1. /\ b \in 1..made /\ attempt[b].item \in Item
            /\ item[attempt[b].item].attempt = b
            /\ OpenAttempt(b) /\ (InFlight(b) \/ Deferred(b))
        BY <1>5, <2>1, ReachesItem
           DEF WireInv, WireIsAwaited
      <3>2. CASE b # a
        <4>1. ~InFlight(b)
          BY <1>1, <1>2, <3>2 DEF InFlight, Current
        <4>2. attempt[b].item # i
          BY <1>2, <3>1, <3>2
        <4> QED BY <1>3, <3>1, <3>2, <4>1, <4>2 DEF Deferred, OpenAttempt
      <3>3. CASE b = a
        <4>1. Unknown(f)
          <5>1. proc[f].pc # "reading"
            BY <1>1, <1>2, <2>1, <3>3 DEF WireInv, DecidedIsSettled, Deciding
          <5> QED BY <1>1, <2>1, <3>3, <5>1
                  DEF Outcome, Applied, ExternallyApplied, Absent, Refused, Undecided
        <4>2. item'[attempt'[b].item].attempt = b
          BY <1>1, <1>2, <1>3, <3>3
        <4>3. attempt'[b].item = i
          BY <1>1, <1>3, <3>3
        <4>4. OpenAttempt(b)'
          BY <1>1, <3>3, <4>1 DEF Unknown, AttemptMoves, OpenAttempt
        <4>5. item'[i].state = "reconciling" /\ ~item'[i].due
          BY <1>1, <4>1 DEF Unknown, ItemMoves
        <4> HIDE DEF i, a
        <4> QED BY <4>2, <4>3, <4>4, <4>5 DEF Deferred
      <3> QED BY <3>2, <3>3
    <2> QED BY <1>1, <2>1 DEF WireIsAwaited
  <1>11. DecidedIsSettled'
    <2>1. ASSUME NEW g \in Run, NEW j \in Item, Current(g)', Deciding(g, j)'
          PROVE  Current(g) /\ Deciding(g, j)
      BY <1>1, <1>2, <1>4, <2>1 DEF Current, Deciding
    <2> QED BY <1>1, <1>3, <2>1 DEF WireInv, DecidedIsSettled
  <1> QED BY <1>7, <1>8, <1>9, <1>10, <1>11 DEF WireInv

\* What prepare_dispatch leaves its process with.
LEMMA PreparedIsValid ==
    ASSUME IndInv, NEW f \in Run, PrepareDispatch(f)
    PROVE  /\ Valid(f)' /\ attempt'[proc'[f].attempt].run = f
           /\ item'[proc'[f].item].state = "applying"
           /\ proc'[f].pc = "prepared" /\ proc'[f].todo = proc[f].todo
           /\ \A g \in Run \ {f} : proc'[g] = proc[g]
  <1> DEFINE i == proc[f].item
             a == made + 1
  <1>1. /\ Current(f) /\ i \in Item /\ a \in Attempt /\ UNCHANGED lease
        /\ VacancyOf[i] \in Vacancy
    BY InsertStep DEF Inserts
  <1>2. proc'[f] = [pc |-> "prepared", item |-> i, attempt |-> a,
                    version |-> proc[f].version + 1, todo |-> proc[f].todo]
        /\ \A g \in Run \ {f} : proc'[g] = proc[g]
    BY DEF PrepareDispatch, IndInv, TypeOK
  <1>3. /\ item'[i].version = proc[f].version + 1
        /\ item'[i].attempt = a /\ item'[i].state = "applying"
    BY <1>1 DEF PrepareDispatch, ReadyAsRead, IndInv, TypeOK
  <1>4. attempt'[a].status = "applying" /\ attempt'[a].run = f
    BY <1>1 DEF PrepareDispatch, NewAttempt, IndInv, TypeOK
  <1>5. reservation'[a] = [state |-> "reserved", fence |-> f]
    BY <1>1 DEF PrepareDispatch, IndInv, TypeOK
  <1>6. guard'[VacancyOf[i]] = [status |-> "active", owner |-> a]
    BY <1>1 DEF PrepareDispatch, IndInv, TypeOK
  <1>7. Valid(f)'
    BY <1>1, <1>2, <1>3, <1>4, <1>5, <1>6 DEF Valid, Current, lease, Unresolved, Open
  <1> QED BY <1>2, <1>3, <1>4, <1>7

\* What record_pre_dispatch_failure leaves its process with.
LEMMA NotPreparedReturns ==
    ASSUME IndInv, NEW f \in Run, RenderFails(f)
    PROVE  /\ proc'[f].pc = "dispatch" /\ proc'[f].todo = proc[f].todo
           /\ \A g \in Run \ {f} : proc'[g] = proc[g]
  BY DEF RenderFails, Return, IndInv, TypeOK, ProcRecord

\* A new attempt is for an item that reaches HH with no earlier one.
LEMMA InsertWire ==
    ASSUME IndInv, PostInv, WireInv, NEW f \in Run, Inserts(f)
    PROVE  WireInv'
  <1> DEFINE i == proc[f].item
             a == made + 1
  <1>1. /\ proc[f].pc = "rendering" /\ Current(f) /\ ~Sending(f)
        /\ i \in Item /\ item[i].state = "ready"
        /\ a \in Attempt /\ made' = a /\ attempt'[a].item = i
        /\ \A b \in Attempt \ {a} : attempt'[b] = attempt[b]
        /\ item'[i].attempt = a
        /\ \A j \in Item \ {i} : item'[j] = item[j]
        /\ UNCHANGED <<fence, held, post>>
    BY InsertStep DEF Sending, lease, remote
  <1>2. /\ proc'[f].pc \in {"dispatch", "prepared"} /\ proc'[f].todo = {}
        /\ \A g \in Run \ {f} : proc'[g] = proc[g]
    <2>1. proc[f].todo = {}
      BY <1>1 DEF WireInv, ProcessesInOrder
    <2> QED BY <2>1, PreparedIsValid, NotPreparedReturns DEF Inserts
  <1>3. /\ OnlyMadeIsPosted /\ post[a] = "none"
        /\ \A b \in 1..made : b \in Attempt \ {a} /\ attempt[b].item \in Item
    BY <1>1 DEF PostInv, OnlyMadeIsPosted, IndInv, TypeOK, Coherent, AttemptsInOrder, Attempt
  <1>4. \A g \in Run : ~Sending(g)
    BY <1>1, NobodySends
  <1>5. \A b \in Attempt : post[b] = "wire" =>
          /\ attempt'[b] = attempt[b]
          /\ item'[attempt[b].item] = item[attempt[b].item]
          /\ OpenAttempt(b) /\ Deferred(b) /\ item[attempt[b].item].attempt = b
    <2>1. ASSUME NEW b \in Attempt, post[b] = "wire"
          PROVE  /\ b # a /\ attempt[b].item \in Item /\ item[attempt[b].item].state # "ready"
                 /\ OpenAttempt(b) /\ Deferred(b) /\ item[attempt[b].item].attempt = b
      BY <1>1, <1>3, <2>1, ReachesItem, NobodySends DEF Deferred
    <2> QED BY <1>1, <2>1
  <1>7. ItemHasLastAttempt'
    <2>1. ASSUME NEW b \in 1..made' PROVE item'[attempt'[b].item].attempt >= b
      <3>1. CASE b = a
        BY <1>1, <3>1 DEF Attempt
      <3>2. CASE b # a
        <4>1. b \in 1..made /\ b <= a /\ item[attempt[b].item].attempt >= b
          BY <1>1, <2>1, <3>2 DEF WireInv, ItemHasLastAttempt, IndInv, TypeOK
        <4>2. attempt'[b] = attempt[b] /\ attempt[b].item \in Item
          BY <1>1, <1>3, <4>1
        <4> QED BY <1>1, <4>1, <4>2
      <3> QED BY <3>1, <3>2
    <2> QED BY <2>1 DEF ItemHasLastAttempt
  <1>8. SenderIsInCharge'
    <2>1. CASE PrepareDispatch(f)
      BY <1>2, <1>4, <2>1, PreparedIsValid DEF SenderIsInCharge, Sending
    <2>2. CASE RenderFails(f)
      BY <1>2, <1>4, <2>2, NotPreparedReturns DEF SenderIsInCharge, Sending
    <2> QED BY <2>1, <2>2 DEF Inserts
  <1>9. ProcessesInOrder'
    <2>1. ~(f > fence)
      BY <1>1 DEF Current, IndInv, TypeOK, Run
    <2> QED BY <1>1, <1>2, <2>1 DEF WireInv, ProcessesInOrder
  <1>10. WireIsAwaited'
    BY <1>1, <1>5 DEF WireIsAwaited, OpenAttempt, Deferred
  <1>11. DecidedIsSettled'
    BY <1>1, <1>2 DEF DecidedIsSettled, Current, Deciding
  <1> QED BY <1>7, <1>8, <1>9, <1>10, <1>11 DEF WireInv

\* The POST is its process's, which is in charge.
LEMMA SendWire ==
    ASSUME IndInv, PostInv, WireInv, NEW f \in Run, SendPost(f)
    PROVE  WireInv'
  <1> DEFINE a == proc[f].attempt
  <1>1. /\ UNCHANGED <<fence, held, item, made, attempt, reservation, guard>>
        /\ a \in Attempt /\ attempt[a].item = proc[f].item /\ proc[f].item \in Item
        /\ post'[a] = "wire" /\ \A b \in Attempt \ {a} : post'[b] = post[b]
    BY DEF SendPost, lease, history, IndInv, TypeOK, ProcessCarriesAttempt, Carries, Attempt
  <1>2. /\ Current(f) /\ fence = f /\ held /\ f # 0
        /\ attempt[a].run = f /\ item[proc[f].item].state = "applying"
        /\ item[proc[f].item].attempt = a
        /\ attempt[a].status \in Unresolved /\ proc[f].todo = {}
    <2>1. /\ Valid(f) /\ attempt[a].run = f /\ item[proc[f].item].state = "applying"
          /\ proc[f].todo = {}
      BY DEF SendPost, WireInv, SenderIsInCharge, Sending, ProcessesInOrder
    <2> QED BY <2>1 DEF Valid, Current, Run
  <1>3. /\ proc'[f].pc = "posting" /\ proc'[f].item = proc[f].item /\ proc'[f].attempt = a
        /\ proc'[f].version = proc[f].version /\ proc'[f].todo = proc[f].todo
        /\ \A g \in Run \ {f} : proc'[g] = proc[g]
    BY DEF SendPost, IndInv, TypeOK, ProcRecord
  <1>4. ItemHasLastAttempt'
    BY <1>1 DEF WireInv, ItemHasLastAttempt
  <1>5. SenderIsInCharge'
    <2>1. ASSUME NEW g \in Run, Sending(g)'
          PROVE  /\ Valid(g)' /\ attempt'[proc'[g].attempt].run = g
                 /\ item'[proc'[g].item].state = "applying"
      <3>1. Sending(g)
        BY <1>3, <2>1 DEF Sending, SendPost
      <3>2. /\ Valid(g) /\ attempt[proc[g].attempt].run = g
            /\ item[proc[g].item].state = "applying"
        BY <3>1 DEF WireInv, SenderIsInCharge
      <3>3. /\ proc'[g].item = proc[g].item /\ proc'[g].attempt = proc[g].attempt
            /\ proc'[g].version = proc[g].version
        BY <1>3
      <3> QED BY <1>1, <3>2, <3>3 DEF Valid, Current
    <2> QED BY <2>1 DEF SenderIsInCharge
  <1>6. ProcessesInOrder'
    <2>1. ~(f > fence)
      BY <1>2 DEF Run
    <2> QED BY <1>1, <1>2, <1>3, <2>1 DEF WireInv, ProcessesInOrder
  <1>7. WireIsAwaited'
    <2>1. ASSUME NEW b \in Attempt, post'[b] = "wire"
          PROVE  /\ OpenAttempt(b)' /\ item'[attempt'[b].item].attempt = b
                 /\ InFlight(b)' \/ Deferred(b)'
      <3>1. CASE b = a
        BY <1>1, <1>2, <1>3, <3>1 DEF OpenAttempt, InFlight
      <3>2. CASE b # a
        <4>1. post[b] = "wire"
          BY <1>1, <2>1, <3>2
        <4>2. /\ OpenAttempt(b) /\ ~InFlight(b) /\ Deferred(b)
              /\ item[attempt[b].item].attempt = b
          BY <1>2, <4>1 DEF SendPost, WireInv, WireIsAwaited, InFlight
        <4> QED BY <1>1, <4>2 DEF OpenAttempt, Deferred
      <3> QED BY <3>1, <3>2
    <2> QED BY <2>1 DEF WireIsAwaited
  <1>8. DecidedIsSettled'
    BY <1>1, <1>2, <1>3 DEF DecidedIsSettled, Current, Deciding
  <1> QED BY <1>4, <1>5, <1>6, <1>7, <1>8 DEF WireInv

\* Every step keeps what is on the wire awaited.
LEMMA StepWire ==
    ASSUME Timely, IndInv, PostInv, WireInv, [Next]_vars
    PROVE  WireInv'
  <1>1. CASE Next
    BY <1>1, StartWire, ProcessStepsWire, RecoverWire, LoadWire, ItemStepsWire,
       RemoteWire, DecisionWire, InsertWire, SendWire
       DEF Next, RunStep, Decision, Inserts
  <1>2. CASE UNCHANGED vars
    BY <1>2 DEF vars, lease, history, remote, WireInv, ItemHasLastAttempt,
           SenderIsInCharge, ProcessesInOrder, WireIsAwaited, DecidedIsSettled, Sending,
           Valid, Current, InFlight, Deferred, OpenAttempt, Deciding
  <1> QED BY <1>1, <1>2

LEMMA WireInductive == ASSUME Timely PROVE Spec => []WireInv
  <1>1. IndInv /\ PostInv /\ WireInv /\ [Next]_vars => WireInv'
    BY StepWire
  <1> QED BY <1>1, InitWire, Inductive, PostInductive, PTL DEF Spec

------------------------------------------------------------------------------
(* No item is sent twice *)

\* The item of an attempt that may reach HH keeps it and is not on its way to
\* another one.
ReachedItemRests ==
    \A a \in Attempt : MayReach(a) =>
        /\ item[attempt[a].item].attempt = a
        /\ item[attempt[a].item].state \notin {"ready", "retry_wait"}

LEMMA StepReached ==
    ASSUME Timely, IndInv, PostInv, WireInv, ReachedItemRests, [Next]_vars
    PROVE  ReachedItemRests'
  <1>0. \A a \in Attempt : MayReach(a) => a \in 1..made /\ attempt[a].item \in Item
    BY ReachesItem DEF MayReach, PostInv
  <1>1. ASSUME NEW f \in Run, Decision(f) PROVE ReachedItemRests'
    <2> DEFINE i == proc[f].item
               a == proc[f].attempt
    <2>1. /\ proc[f].pc \in {"posting", "reading"} /\ Valid(f) /\ item[i].attempt = a
          /\ i \in Item /\ a \in Attempt /\ attempt[a].item = i
          /\ Outcome(f) /\ UNCHANGED post
      BY <1>1, DecisionStep DEF PostInv, Valid, remote
    <2>2. /\ \A j \in Item : item'[j].attempt = item[j].attempt
          /\ \A j \in Item \ {i} : item'[j] = item[j]
          /\ \A b \in Attempt : attempt'[b].item = attempt[b].item
      BY <2>1 DEF Outcome, Applied, ExternallyApplied, Absent, Refused, Undecided, Unknown,
                  ItemMoves, AttemptMoves
    <2>3. ASSUME NEW b \in Attempt, MayReach(b)
          PROVE  /\ item'[attempt'[b].item].attempt = b
                 /\ item'[attempt'[b].item].state \notin {"ready", "retry_wait"}
      <3>1. /\ attempt[b].item \in Item /\ attempt'[b].item = attempt[b].item
            /\ item[attempt[b].item].attempt = b
            /\ item[attempt[b].item].state \notin {"ready", "retry_wait"}
        BY <1>0, <2>2, <2>3 DEF ReachedItemRests
      <3>2. CASE attempt[b].item # i
        BY <2>2, <3>1, <3>2
      <3>3. CASE attempt[b].item = i
        <4>1. b = a
          BY <2>1, <3>1, <3>3
        <4> QED BY <2>1, <2>2, <2>3, <3>1, <3>3, <4>1, NotReached
      <3> QED BY <3>2, <3>3
    <2> QED BY <2>1, <2>3 DEF ReachedItemRests, MayReach
  <1>2. ASSUME NEW f \in Run, Inserts(f) PROVE ReachedItemRests'
    <2> DEFINE i == proc[f].item
               a == made + 1
    <2>1. /\ i \in Item /\ item[i].state = "ready"
          /\ \A b \in Attempt \ {a} : attempt'[b] = attempt[b]
          /\ \A j \in Item \ {i} : item'[j] = item[j]
          /\ UNCHANGED post
      BY <1>2, InsertStep DEF remote
    <2>2. ASSUME NEW b \in Attempt, MayReach(b)
          PROVE  /\ attempt'[b] = attempt[b]
                 /\ item'[attempt[b].item] = item[attempt[b].item]
      <3>1. b # a /\ attempt[b].item \in Item \ {i}
        BY <1>0, <2>1, <2>2 DEF ReachedItemRests, IndInv, TypeOK
      <3> QED BY <2>1, <3>1
    <2> QED BY <2>1, <2>2 DEF ReachedItemRests, MayReach
  <1>3. ASSUME NEW f \in Run, SendPost(f) PROVE ReachedItemRests'
    <2> DEFINE a == proc[f].attempt
    <2>1. /\ UNCHANGED <<item, attempt>>
          /\ a \in Attempt /\ attempt[a].item = proc[f].item
          /\ \A b \in Attempt \ {a} : post'[b] = post[b]
      BY <1>3 DEF SendPost, history, IndInv, TypeOK, ProcessCarriesAttempt, Carries, Attempt
    <2>2. item[attempt[a].item].attempt = a /\ item[attempt[a].item].state = "applying"
      <3>1. Valid(f) /\ item[proc[f].item].state = "applying"
        BY <1>3 DEF SendPost, WireInv, SenderIsInCharge, Sending
      <3> QED BY <2>1, <3>1 DEF Valid
    <2> QED BY <2>1, <2>2 DEF ReachedItemRests, MayReach
  <1>4. CASE \/ \E b \in Attempt : Arrive(b) \/ Refuse(b)
             \/ \E i \in Item : ApplyExternally(i)
             \/ Quiet
    <2>1. UNCHANGED attempt
      BY <1>4 DEF Arrive, Refuse, ApplyExternally, Quiet, history
    <2>2. \A b \in Attempt : MayReach(b)' => MayReach(b)
      BY <1>4 DEF Arrive, Refuse, ApplyExternally, Quiet, remote, MayReach, IndInv, TypeOK
    <2>3. \A j \in Item :
            /\ item'[j].attempt = item[j].attempt
            /\ item'[j].state \in {"ready", "retry_wait"} =>
                 item[j].state \in {"ready", "retry_wait"}
      BY <1>4 DEF Arrive, Refuse, ApplyExternally, Quiet
    <2> QED BY <1>0, <2>1, <2>2, <2>3 DEF ReachedItemRests
  <1> QED BY <1>1, <1>2, <1>3, <1>4, StepKinds

\* An item HH has accepted is never posted again, whatever crashes, lost
\* answers, takeovers, retries and reconciliations come after.
THEOREM NothingIsSentTwice ==
    ASSUME Timely PROVE Spec => []NoRepeatedApplication
  <1>1. Init => ReachedItemRests
    BY DEF Init, ReachedItemRests, MayReach
  <1>2. IndInv /\ PostInv /\ WireInv /\ ReachedItemRests /\ [Next]_vars => ReachedItemRests'
    BY StepReached
  <1>3. IndInv /\ PostInv /\ WireInv /\ ReachedItemRests => NoRepeatedApplication
    <2> SUFFICES ASSUME IndInv, PostInv, WireInv, ReachedItemRests,
                        NEW a \in Attempt, NEW b \in Attempt,
                        a < b, attempt[a].item = attempt[b].item,
                        post[a] = "accepted", post[b] # "none"
                 PROVE  FALSE
      BY DEF NoRepeatedApplication
    <2>1. item[attempt[a].item].attempt = a
      BY DEF ReachedItemRests, MayReach
    <2>2. item[attempt[b].item].attempt >= b
      BY ReachesItem DEF PostInv, WireInv, ItemHasLastAttempt
    <2> QED BY <2>1, <2>2 DEF Attempt
  <1> QED BY <1>1, <1>2, <1>3, Inductive, PostInductive, WireInductive, PTL DEF Spec
------------------------------------------------------------------------------
(* With one resume per vacancy *)

\* The guard of a vacancy that HH may get an application for is the guard of
\* that attempt, or is closed.
ReachedIsGuarded ==
    \A a \in Attempt : MayReach(a) =>
        LET g == guard[VacancyOf[attempt[a].item]]
        IN  \/ g = [status |-> "active", owner |-> a]
            \/ g.status \in {"applied", "external_applied"}

\* A vacancy has one such attempt.
ReachesVacancyOnce ==
    \A a, b \in Attempt :
        MayReach(a) /\ MayReach(b)
            /\ VacancyOf[attempt[a].item] = VacancyOf[attempt[b].item] => a = b

VacancyInv == ReachedIsGuarded /\ ReachesVacancyOnce

\* The owner of an active guard drops it only when its POST did not get
\* through, and a closed guard admits nobody.
LEMMA StepVacancy ==
    ASSUME Timely, ResumePolicy = "best_resume_only",
           IndInv, PostInv, WireInv, VacancyInv, [Next]_vars
    PROVE  VacancyInv'
  <1>0. /\ OnlyMadeIsPosted /\ AcceptedIsHeld
        /\ \A b \in 1..made : b \in Attempt /\ attempt[b].item \in Item
        /\ \A b \in Attempt : MayReach(b) => b \in 1..made /\ attempt[b].item \in Item
    <2>1. OnlyMadeIsPosted /\ AcceptedIsHeld
      BY DEF PostInv
    <2> QED BY <2>1, ReachesItem
            DEF MayReach, IndInv, TypeOK, Coherent, AttemptsInOrder, Attempt
  <1>1. ASSUME NEW f \in Run, Decision(f) PROVE VacancyInv'
    <2> DEFINE i == proc[f].item
               a == proc[f].attempt
    <2>1. /\ proc[f].pc \in {"posting", "reading"} /\ Valid(f)
          /\ i \in Item /\ a \in Attempt
          /\ Outcome(f) /\ UNCHANGED post
      BY <1>0, <1>1, DecisionStep DEF remote
    <2>2. \A b \in Attempt : attempt'[b].item = attempt[b].item
      BY <2>1 DEF Outcome, Applied, ExternallyApplied, Absent, Refused, Undecided, Unknown,
                  AttemptMoves
    <2>3. guard[VacancyOf[i]] = [status |-> "active", owner |-> a]
      BY <2>1 DEF Valid
    <2>4. /\ \A v \in Vacancy \ {VacancyOf[i]} : guard'[v] = guard[v]
          /\ \/ guard' = guard
             \/ guard'[VacancyOf[i]].status \in {"none", "applied", "external_applied"}
      BY <2>1 DEF Outcome, Applied, ExternallyApplied, Absent, Refused, Undecided, Unknown,
                  GuardMoves
    <2>5. ASSUME NEW b \in Attempt, MayReach(b)
          PROVE  \/ guard'[VacancyOf[attempt[b].item]] = [status |-> "active", owner |-> b]
                 \/ guard'[VacancyOf[attempt[b].item]].status \in {"applied", "external_applied"}
      <3>1. /\ VacancyOf[attempt[b].item] \in Vacancy
            /\ \/ guard[VacancyOf[attempt[b].item]] = [status |-> "active", owner |-> b]
               \/ guard[VacancyOf[attempt[b].item]].status \in {"applied", "external_applied"}
        BY <1>0, <2>5 DEF VacancyInv, ReachedIsGuarded
      <3>2. CASE VacancyOf[attempt[b].item] # VacancyOf[i]
        BY <2>4, <3>1, <3>2
      <3>3. CASE VacancyOf[attempt[b].item] = VacancyOf[i]
        <4>1. b = a
          BY <2>3, <3>1, <3>3
        <4>2. guard'[VacancyOf[i]].status # "none"
          BY <2>1, <2>5, <4>1, NotReached
        <4> QED BY <2>4, <3>1, <3>3, <4>2
      <3> QED BY <3>2, <3>3
    <2>6. ReachedIsGuarded'
      BY <2>1, <2>2, <2>5 DEF ReachedIsGuarded, MayReach
    <2>7. ReachesVacancyOnce'
      BY <2>1, <2>2 DEF VacancyInv, ReachesVacancyOnce, MayReach
    <2> QED BY <2>6, <2>7 DEF VacancyInv
  <1>2. ASSUME NEW f \in Run, Inserts(f) PROVE VacancyInv'
    <2>1. /\ UNCHANGED post
          /\ \A b \in Attempt \ {made + 1} : attempt'[b] = attempt[b]
      BY <1>2, InsertStep DEF remote
    <2>2. \A b \in Attempt : MayReach(b) => attempt'[b] = attempt[b] /\ b \in 1..made
      BY <1>0, <2>1 DEF IndInv, TypeOK
    <2>3. \A v \in Vacancy : guard[v].status # "none" => guard'[v] = guard[v]
      BY <1>2 DEF Inserts, RenderFails, PrepareDispatch, GuardAllows, IndInv, TypeOK
    <2>4. \A b \in Attempt : MayReach(b) =>
            guard'[VacancyOf[attempt[b].item]] = guard[VacancyOf[attempt[b].item]]
      <3>1. ASSUME NEW b \in Attempt, MayReach(b)
            PROVE  /\ VacancyOf[attempt[b].item] \in Vacancy
                   /\ guard[VacancyOf[attempt[b].item]].status # "none"
        <4>1. attempt[b].item \in Item /\ VacancyOf[attempt[b].item] \in Vacancy
          BY <1>0, <3>1
        <4>2. \/ guard[VacancyOf[attempt[b].item]] = [status |-> "active", owner |-> b]
              \/ guard[VacancyOf[attempt[b].item]].status \in {"applied", "external_applied"}
          BY <3>1 DEF VacancyInv, ReachedIsGuarded
        <4>3. guard[VacancyOf[attempt[b].item]] = [status |-> "active", owner |-> b]
                => guard[VacancyOf[attempt[b].item]].status = "active"
          OBVIOUS
        <4> QED BY <4>1, <4>2, <4>3
      <3> QED BY <2>3, <3>1
    <2>5. ReachedIsGuarded'
      BY <2>1, <2>2, <2>4 DEF VacancyInv, ReachedIsGuarded, MayReach
    <2>6. ReachesVacancyOnce'
      BY <2>1, <2>2 DEF VacancyInv, ReachesVacancyOnce, MayReach
    <2> QED BY <2>5, <2>6 DEF VacancyInv
  <1>3. ASSUME NEW f \in Run, SendPost(f) PROVE VacancyInv'
    <2> DEFINE a == proc[f].attempt
    <2>1. /\ UNCHANGED <<attempt, guard>>
          /\ a \in Attempt /\ attempt[a].item = proc[f].item
          /\ \A b \in Attempt \ {a} : post'[b] = post[b]
      BY <1>3 DEF SendPost, history, IndInv, TypeOK, ProcessCarriesAttempt, Carries, Attempt
    <2>2. guard[VacancyOf[attempt[a].item]] = [status |-> "active", owner |-> a]
      <3>1. Valid(f)
        BY <1>3 DEF SendPost, WireInv, SenderIsInCharge, Sending
      <3> QED BY <2>1, <3>1 DEF Valid
    <2>3. ReachedIsGuarded'
      BY <2>1, <2>2 DEF VacancyInv, ReachedIsGuarded, MayReach
    <2>4. ASSUME NEW b \in Attempt, MayReach(b),
                 VacancyOf[attempt[b].item] = VacancyOf[attempt[a].item]
          PROVE  b = a
      <3>1. \/ guard[VacancyOf[attempt[a].item]] = [status |-> "active", owner |-> b]
            \/ guard[VacancyOf[attempt[a].item]].status \in {"applied", "external_applied"}
        BY <2>4 DEF VacancyInv, ReachedIsGuarded
      <3>2. /\ guard[VacancyOf[attempt[a].item]].status = "active"
            /\ guard[VacancyOf[attempt[a].item]].owner = a
        BY <2>2
      <3> QED BY <3>1, <3>2
    <2>5. ReachesVacancyOnce'
      BY <2>1, <2>4 DEF VacancyInv, ReachesVacancyOnce, MayReach
    <2> QED BY <2>3, <2>5 DEF VacancyInv
  <1>4. ASSUME UNCHANGED <<attempt, guard>>,
               \A b \in Attempt : MayReach(b)' => MayReach(b)
        PROVE  VacancyInv'
    BY <1>4 DEF VacancyInv, ReachedIsGuarded, ReachesVacancyOnce
  <1>5. CASE \/ \E b \in Attempt : Arrive(b) \/ Refuse(b)
             \/ \E i \in Item : ApplyExternally(i)
             \/ Quiet
    <2>1. UNCHANGED <<attempt, guard>>
      BY <1>5 DEF Arrive, Refuse, ApplyExternally, Quiet, history
    <2>2. \A b \in Attempt : MayReach(b)' => MayReach(b)
      BY <1>5 DEF Arrive, Refuse, ApplyExternally, Quiet, remote, MayReach, IndInv, TypeOK
    <2> QED BY <1>4, <2>1, <2>2
  <1> QED BY <1>1, <1>2, <1>3, <1>5, StepKinds

\* With one resume per vacancy, HH accepts one application of the account to a
\* vacancy, whichever of its items they are for.
THEOREM VacanciesAreAppliedToOnce ==
    ASSUME Timely PROVE Spec => []OneApplicationPerVacancy
  <1>1. CASE ResumePolicy = "best_resume_only"
    <2>1. Init => VacancyInv
      BY DEF Init, VacancyInv, ReachedIsGuarded, ReachesVacancyOnce, MayReach
    <2>2. IndInv /\ PostInv /\ WireInv /\ VacancyInv /\ [Next]_vars => VacancyInv'
      BY <1>1, StepVacancy
    <2>3. VacancyInv => OneApplicationPerVacancy
      BY DEF VacancyInv, ReachesVacancyOnce, OneApplicationPerVacancy, MayReach
    <2> QED BY <2>1, <2>2, <2>3, Inductive, PostInductive, WireInductive, PTL DEF Spec
  <1>2. CASE ResumePolicy # "best_resume_only"
    <2>1. OneApplicationPerVacancy
      BY <1>2 DEF OneApplicationPerVacancy
    <2> QED BY <2>1, PTL
  <1> QED BY <1>1, <1>2
------------------------------------------------------------------------------
(* Who may still decide an item under reconciliation.  The load of a       *)
(* reconciliation context asks which runs have touched the item and its    *)
(* reservation; when only the scheduler starts runs after its sweep, and   *)
(* recovery runs come to their end, the answer never excludes every run to *)
(* come.                                                                   *)

\* No item belongs to a run to come.
RunsKnown == \A i \in Item : item[i].run <= fence

\* An item in flight, its attempt and its slot belong to one run, which
\* dispatches; it is the run in charge unless a recovery is.
FlightOwned ==
    \A i \in Item : item[i].state = "applying" =>
        LET a == item[i].attempt
        IN  /\ item[i].due
            /\ item[i].run \in Run
            /\ attempt[a].run = item[i].run
            /\ reservation[a].fence = item[i].run
            /\ trigger[item[i].run] # "recovery"
            /\ item[i].run = fence \/ trigger[fence] = "recovery"

\* A recovery run to come may adopt the reservation of item i ...
Inheritable(i) ==
    LET a == item[i].attempt
    IN  /\ attempt[a].run <= reservation[a].fence
        /\ \/ item[i].run = attempt[a].run
           \/ trigger[item[i].run] = "recovery" /\ item[i].run <= reservation[a].fence

\* ... or the recovery run in charge recovered it and has it on its list.
OnTheList(i) ==
    LET a == item[i].attempt
    IN  /\ held /\ fence \in Run /\ trigger[fence] = "recovery"
        /\ proc[fence].pc \in {"reconcile", "reading"}
        /\ i \in proc[fence].todo
        /\ item[i].run = fence
        /\ attempt[a].run <= reservation[a].fence
        /\ reservation[a].fence < fence

ReconciliationOwned ==
    \A i \in Item : item[i].state = "reconciling" => Inheritable(i) \/ OnTheList(i)

OwnerInv == RunsKnown /\ FlightOwned /\ ReconciliationOwned

\* The run in charge reads HH for an item that recovery took out of flight.
ReadsReconciling ==
    \A f \in Run :
        Current(f) /\ proc[f].pc = "reading" => item[proc[f].item].state # "applying"
------------------------------------------------------------------------------
\* Whose items are, and which fence reservations carry, no decision changes.
LEMMA DecisionKeepsOwners ==
    ASSUME IndInv, NEW f \in Run, Decision(f)
    PROVE  /\ \A i \in Item : item'[i].run = item[i].run
           /\ \A a \in Attempt : attempt'[a].run = attempt[a].run
           /\ \A a \in Attempt : reservation'[a].fence = reservation[a].fence
  <1>1. /\ proc[f].pc \in {"posting", "reading"} /\ Valid(f)
        /\ proc[f].item \in Item /\ proc[f].attempt \in Attempt /\ TypeOK
    <2>1. proc[f].pc \in {"posting", "reading"} /\ Valid(f)
      BY DEF Decision, Reconcile, OpenReconciliationAuth, FinalizeApplied,
             RecordPossiblySent, FinalizeDefiniteFailure
    <2> QED BY <2>1, ValidCarries DEF IndInv
  <1>2. \A state : Reserve(proc[f].attempt, state) =>
          \A a \in Attempt : reservation'[a].fence = reservation[a].fence
    BY <1>1 DEF Reserve, TypeOK, ReservationRecord
  <1>3. \A state, stage, due, challenge :
          MoveItem(proc[f].item, state, stage, due, challenge)
            \/ CheckedItem(proc[f].item, state, stage, due, challenge) =>
          \A i \in Item : item'[i].run = item[i].run
    <2>1. ASSUME NEW state, NEW stage, NEW due, NEW challenge,
                 MoveItem(proc[f].item, state, stage, due, challenge)
          PROVE  \A i \in Item : item'[i].run = item[i].run
      BY <1>1, <2>1 DEF MoveItem, TypeOK, ItemRecord
    <2>2. ASSUME NEW state, NEW stage, NEW due, NEW challenge,
                 CheckedItem(proc[f].item, state, stage, due, challenge)
          PROVE  \A i \in Item : item'[i].run = item[i].run
      BY <1>1, <2>2 DEF CheckedItem, TypeOK, ItemRecord
    <2> QED BY <2>1, <2>2
  <1>4. \A status : FinishAttempt(proc[f].attempt, status) \/ Checked(proc[f].attempt, status) =>
          \A a \in Attempt : attempt'[a].run = attempt[a].run
    BY SMTT(30), <1>1 DEF FinishAttempt, Checked, TypeOK, AttemptRecord
  <1>5. CASE Reconcile(f)
    <2>1. \/ \E readable : \/ ReconciledApplied(f, readable)
                           \/ ReconciledExternal(f, readable)
                           \/ CheckAmbiguous(f, readable)
                           \/ CheckAbsent(f, readable)
          \/ CheckPending(f)
      BY <1>5 DEF Reconcile
    <2> QED BY <2>1, <1>2, <1>3, <1>4
            DEF ReconciledApplied, ReconciledExternal, CheckPending, CheckAmbiguous, CheckAbsent
  <1>6. CASE OpenReconciliationAuth(f)
    BY <1>2, <1>3, <1>6 DEF OpenReconciliationAuth, history
  <1>7. CASE FinalizeApplied(f)
    BY <1>2, <1>3, <1>4, <1>7 DEF FinalizeApplied
  <1>8. CASE RecordPossiblySent(f)
    <2>1. \A a \in Attempt : attempt'[a].run = attempt[a].run
      BY <1>1, <1>8 DEF RecordPossiblySent, TypeOK, AttemptRecord
    <2> QED BY <1>2, <1>3, <1>8, <2>1 DEF RecordPossiblySent
  <1>9. CASE FinalizeDefiniteFailure(f)
    BY <1>2, <1>3, <1>4, <1>9 DEF FinalizeDefiniteFailure
  <1> QED BY <1>5, <1>6, <1>7, <1>8, <1>9 DEF Decision

\* What is owned before a step stays owned when the step leaves the rows of
\* the item alone and does not end, replace or strike from the list of the
\* recovery run that has it.
LEMMA OwnedStays ==
    ASSUME NEW i \in Item, item[i].state = "reconciling", ReconciliationOwned,
           item'[i] = item[i],
           attempt'[item[i].attempt].run = attempt[item[i].attempt].run,
           reservation'[item[i].attempt].fence = reservation[item[i].attempt].fence,
           item[i].run <= fence => trigger'[item[i].run] = trigger[item[i].run],
           RunsKnown,
           OnTheList(i) =>
             /\ held' /\ fence' = fence
             /\ proc'[fence].pc \in {"reconcile", "reading"}
             /\ i \in proc'[fence].todo
    PROVE  Inheritable(i)' \/ OnTheList(i)'
  <1>0. trigger'[item[i].run] = trigger[item[i].run]
    BY DEF RunsKnown
  <1>1. CASE Inheritable(i)
    BY <1>0, <1>1 DEF Inheritable
  <1>2. CASE OnTheList(i)
    BY <1>0, <1>2 DEF OnTheList
  <1> QED BY <1>1, <1>2 DEF ReconciliationOwned

\* A step that leaves the items and their owners alone.
LEMMA RowsRest ==
    ASSUME IndInv, OwnerInv,
           UNCHANGED <<fence, trigger, item, attempt, reservation>>,
           \A i \in Item : OnTheList(i) =>
             /\ held'
             /\ proc'[fence].pc \in {"reconcile", "reading"}
             /\ i \in proc'[fence].todo
    PROVE  OwnerInv'
  <1>1. RunsKnown' /\ FlightOwned'
    BY DEF OwnerInv, RunsKnown, FlightOwned
  <1>2. ReconciliationOwned'
    <2>1. ASSUME NEW i \in Item, item[i].state = "reconciling"
          PROVE  Inheritable(i)' \/ OnTheList(i)'
      BY <2>1, OwnedStays DEF OwnerInv
    <2> QED BY <2>1 DEF ReconciliationOwned
  <1> QED BY <1>1, <1>2 DEF OwnerInv

LEMMA InitOwner == Init => OwnerInv
  BY DEF Init, OwnerInv, RunsKnown, FlightOwned, ReconciliationOwned

\* A run starts after the sweep, and takes no lease from a recovery.
LEMMA StartOwner ==
    ASSUME SweepFirst, "recovery" \notin Interruptible,
           IndInv, OwnerInv, NEW t \in Trigger, StartRun(t)
    PROVE  OwnerInv'
  <1>1. /\ fence' = fence + 1 /\ fence \in 0..MaxFence /\ fence + 1 \in Run
        /\ trigger'[fence + 1] = t
        /\ \A g \in Run \ {fence + 1} : trigger'[g] = trigger[g]
        /\ t # "recovery" => \A i \in Item : item[i].state # "applying"
        /\ UNCHANGED <<item, attempt, reservation>>
    BY DEF StartRun, IndInv, TypeOK, Run, history
  <1>2. ~(held /\ trigger[fence] = "recovery")
    BY DEF StartRun, Expired
  <1>3. \A i \in Item : item[i].run \in 0..fence /\ trigger'[item[i].run] = trigger[item[i].run]
    <2>1. ASSUME NEW i \in Item
          PROVE  item[i].run \in 0..fence
      BY <1>1 DEF OwnerInv, RunsKnown, IndInv, TypeOK, ItemRecord
    <2>2. DOMAIN trigger' = Run /\ DOMAIN trigger = Run
          /\ trigger' = [trigger EXCEPT ![fence + 1] = t]
      BY DEF StartRun, IndInv, TypeOK
    <2>3. \A g \in 0..fence : g # fence + 1
      BY <1>1
    <2>4. \A g : g # fence + 1 => trigger'[g] = trigger[g]
      BY <2>2
    <2> QED BY <2>1, <2>3, <2>4
  <1>4. RunsKnown'
    BY <1>1, <1>3 DEF RunsKnown
  <1>5. FlightOwned'
    BY <1>1, <1>3 DEF OwnerInv, FlightOwned
  <1>6. ReconciliationOwned'
    BY <1>1, <1>2, <1>3, OwnedStays DEF OwnerInv, OnTheList, ReconciliationOwned
  <1> QED BY <1>4, <1>5, <1>6 DEF OwnerInv

\* Processes that write no row.
LEMMA ProcessOwner ==
    ASSUME "recovery" \notin Interruptible, IndInv, OwnerInv, NEW f \in Run,
           \/ EndRun(f) \/ Crash(f) \/ ReconcileRaises(f) \/ StartDispatch(f)
           \/ NextPass(f) \/ ExecuteRaises(f) \/ FinalizeRaises(f) \/ SendPost(f)
           \/ \E i \in Item : LoadRaises(f, i) \/ BeginExecute(f, i)
    PROVE  OwnerInv'
  <1>1. /\ UNCHANGED <<fence, trigger, item, attempt, reservation>>
        /\ \A g \in Run \ {f} : proc'[g] = proc[g]
    BY DEF EndRun, Crash, ReconcileRaises, StartDispatch, NextPass, ExecuteRaises, SendPost,
           FinalizeRaises, LoadRaises, BeginExecute, lease, history, Return, IndInv, TypeOK
  <1>2. held' = held \/ held' = (held /\ fence # f)
    BY DEF EndRun, Crash, ReconcileRaises, StartDispatch, NextPass, ExecuteRaises, SendPost,
           FinalizeRaises, LoadRaises, BeginExecute, lease
  <1>3. ASSUME NEW i \in Item, OnTheList(i), item[i].state = "reconciling"
        PROVE  /\ held'
               /\ proc'[fence].pc \in {"reconcile", "reading"}
               /\ i \in proc'[fence].todo
    <2>1. /\ held /\ fence \in Run /\ trigger[fence] = "recovery"
          /\ proc[fence].pc \in {"reconcile", "reading"} /\ i \in proc[fence].todo
      BY <1>3 DEF OnTheList
    <2>2. CASE f # fence
      BY <1>1, <1>2, <2>1, <2>2
    <2>3. CASE f = fence
      <3>1. Current(f)
        BY <2>1, <2>3 DEF Current
      <3>2. ReconcileRaises(f) \/ \E j \in Item : LoadRaises(f, j)
        BY <2>1, <2>3, <3>1
           DEF EndRun, Crash, StartDispatch, NextPass, ExecuteRaises, SendPost,
               FinalizeRaises, BeginExecute
      <3>3. CASE ReconcileRaises(f)
        BY <2>1, <2>3, <3>3 DEF ReconcileRaises, Return, lease, IndInv, TypeOK, ProcRecord
      <3>4. ASSUME NEW j \in Item, LoadRaises(f, j)
            PROVE  /\ held' /\ proc'[fence].pc = "reconcile" /\ i \in proc'[fence].todo
        <4>1. Loadable(f, i)
          <5>1. /\ item[i].attempt \in Attempt /\ OpenAttempt(item[i].attempt)
                /\ reservation[item[i].attempt].state \in Open
            BY <1>3 DEF IndInv, Coherent, UnresolvedHasAttempt, SlotFollowsAttempt, Unresolved
          <5> QED BY <1>3, <2>3, <3>1, <5>1 DEF OnTheList, Loadable, Adoptable, OpenAttempt
        <4>2. i # j
          BY <3>4, <4>1 DEF LoadRaises
        <4> QED BY <2>1, <2>3, <3>4, <4>2 DEF LoadRaises, lease, IndInv, TypeOK, ProcRecord
      <3> QED BY <3>2, <3>3, <3>4
    <2> QED BY <2>2, <2>3
  <1>4. RunsKnown' /\ FlightOwned'
    BY <1>1 DEF OwnerInv, RunsKnown, FlightOwned
  <1>5. ReconciliationOwned'
    BY <1>1, <1>3, OwnedStays DEF OwnerInv, ReconciliationOwned
  <1> QED BY <1>4, <1>5 DEF OwnerInv

\* Steps of HH and of the candidate.
LEMMA RemoteOwner ==
    ASSUME IndInv, OwnerInv,
           \/ \E a \in Attempt : Arrive(a) \/ Refuse(a)
           \/ \E i \in Item : ApplyExternally(i)
    PROVE  OwnerInv'
  <1>1. UNCHANGED <<fence, held, trigger, proc, item, attempt, reservation>>
    BY DEF Arrive, Refuse, ApplyExternally, lease, history
  <1> QED BY <1>1, RowsRest DEF OnTheList

\* The run in charge takes over items of the queue.
LEMMA ItemOwner ==
    ASSUME IndInv, OwnerInv,
           \/ \E f \in Run : AdoptReadyItems(f)
           \/ \E f \in Run, i \in Item : ActivateDueRetry(f, i) \/ SkipReady(f, i)
           \/ \E i \in Item : BecomeDue(i)
    PROVE  OwnerInv'
  <1>1. UNCHANGED <<fence, held, trigger, proc, attempt, reservation>>
    BY DEF AdoptReadyItems, ActivateDueRetry, SkipReady, BecomeDue, lease, history
  <1>2. \A j \in Item :
          /\ item'[j].attempt = item[j].attempt
          /\ item'[j].run \in {item[j].run, fence}
          /\ \/ /\ item'[j].state = item[j].state /\ item'[j].run = item[j].run
                /\ item[j].due => item'[j].due
             \/ item'[j].state \in {"ready", "skipped"}
    <2>1. ASSUME NEW f \in Run, AdoptReadyItems(f) PROVE <1>2!:
      <3>1. /\ \A j \in Item : item'[j] = IF item[j].state = "ready"
                                          THEN [item[j] EXCEPT !.run = f] ELSE item[j]
            /\ f = fence
        BY <2>1 DEF AdoptReadyItems, Current
      <3>2. ASSUME NEW j \in Item, item[j].state = "ready"
            PROVE  /\ item'[j].attempt = item[j].attempt /\ item'[j].state = "ready"
                   /\ item'[j].run = fence
        <4>1. item[j] \in ItemRecord
          BY DEF IndInv, TypeOK
        <4>2. item'[j] = [item[j] EXCEPT !.run = fence]
          BY <3>1, <3>2
        <4> QED BY <4>1, <4>2, <3>2 DEF ItemRecord
      <3> QED BY <3>1, <3>2
    <2>2. ASSUME NEW f \in Run, NEW i \in Item, ActivateDueRetry(f, i) PROVE <1>2!:
      <3>1. /\ item' = [item EXCEPT ![i].state = "ready", ![i].version = @ + 1, ![i].run = f]
            /\ f = fence
        BY <2>2 DEF ActivateDueRetry, IndInv, RetryApplies, Current
      <3>2. /\ item'[i].state = "ready" /\ item'[i].attempt = item[i].attempt
            /\ item'[i].run = fence
            /\ \A j \in Item \ {i} : item'[j] = item[j]
        BY <3>1 DEF IndInv, TypeOK, ItemRecord
      <3> QED BY <3>2
    <2>3. ASSUME NEW f \in Run, NEW i \in Item, SkipReady(f, i) PROVE <1>2!:
      BY <2>3 DEF SkipReady, IndInv, TypeOK, ItemRecord
    <2>4. ASSUME NEW i \in Item, BecomeDue(i) PROVE <1>2!:
      <3>1. /\ item'[i].attempt = item[i].attempt /\ item'[i].state = item[i].state
            /\ item'[i].run = item[i].run /\ item'[i].due
            /\ \A j \in Item \ {i} : item'[j] = item[j]
        BY <2>4 DEF BecomeDue, IndInv, TypeOK, ItemRecord
      <3> QED BY <3>1
    <2> QED BY <2>1, <2>2, <2>3, <2>4
  <1>3. RunsKnown'
    BY <1>1, <1>2 DEF OwnerInv, RunsKnown, IndInv, TypeOK
  <1>4. FlightOwned'
    BY <1>1, <1>2 DEF OwnerInv, FlightOwned
  <1>5. ReconciliationOwned'
    <2>1. ASSUME NEW i \in Item, item'[i].state = "reconciling"
          PROVE  Inheritable(i)' \/ OnTheList(i)'
      <3>1. /\ item[i].state = "reconciling" /\ item'[i].run = item[i].run
            /\ item'[i].attempt = item[i].attempt
        BY <1>2, <2>1
      <3>2. Inheritable(i) \/ OnTheList(i)
        BY <3>1 DEF OwnerInv, ReconciliationOwned
      <3> QED BY <1>1, <3>1, <3>2 DEF Inheritable, OnTheList
    <2> QED BY <2>1 DEF ReconciliationOwned
  <1> QED BY <1>3, <1>4, <1>5 DEF OwnerInv

\* recover_stale_applying puts what it finds on the list of its run, unless
\* the items are the run's own.
LEMMA RecoverOwner ==
    ASSUME IndInv, OwnerInv, NEW f \in Run, RecoverStaleApplying(f)
    PROVE  OwnerInv'
  <1>1. /\ Current(f) /\ proc[f].pc = "recover" /\ f = fence /\ held /\ fence \in Run
        /\ UNCHANGED <<fence, held, trigger, attempt, reservation>>
    BY DEF RecoverStaleApplying, lease, history, Current
  <1>2. \A i \in Item : item'[i] = IF item[i].state = "applying"
                                   THEN RecoveredItem(f, i) ELSE item[i]
    BY DEF RecoverStaleApplying
  <1>3. \A i \in Item : item[i].state = "applying" =>
          /\ item'[i].attempt = item[i].attempt /\ item'[i].due = item[i].due
          /\ item'[i].state = "reconciling" /\ item'[i].run = fence
    <2>1. \A i \in Item : /\ RecoveredItem(f, i).attempt = item[i].attempt
                          /\ RecoveredItem(f, i).due = item[i].due
                          /\ RecoveredItem(f, i).state = "reconciling"
                          /\ RecoveredItem(f, i).run = f
      BY DEF RecoveredItem, IndInv, TypeOK, ItemRecord
    <2> QED BY <1>1, <1>2, <2>1
  <1>4. /\ proc'[f].pc = "reconcile"
        /\ proc'[f].todo = {i \in Item : item'[i].state = "reconciling" /\ item'[i].due}
    BY DEF RecoverStaleApplying, IndInv, TypeOK, ProcRecord
  <1>5. RunsKnown'
    BY <1>1, <1>2, <1>3 DEF OwnerInv, RunsKnown, IndInv, TypeOK
  <1>6. FlightOwned'
    BY <1>2, <1>3 DEF FlightOwned
  <1>7. ReconciliationOwned'
    <2>1. ASSUME NEW i \in Item, item'[i].state = "reconciling"
          PROVE  Inheritable(i)' \/ OnTheList(i)'
      <3>1. CASE item[i].state = "applying"
        <4> DEFINE a == item[i].attempt
        <4>1. /\ item[i].due /\ item[i].run \in Run
              /\ attempt[a].run = item[i].run /\ reservation[a].fence = item[i].run
              /\ trigger[item[i].run] # "recovery"
              /\ item[i].run = fence \/ trigger[fence] = "recovery"
              /\ item[i].run <= fence
          BY <3>1 DEF OwnerInv, FlightOwned, RunsKnown
        <4>2. CASE item[i].run = fence
          BY <1>1, <1>3, <3>1, <4>1, <4>2 DEF Inheritable, Run
        <4>3. CASE item[i].run # fence
          <5>1. item[i].run < fence
            BY <1>1, <4>1, <4>3 DEF Run
          <5>2. i \in proc'[f].todo
            BY <1>3, <1>4, <3>1, <4>1
          <5> QED BY <1>1, <1>3, <1>4, <3>1, <4>1, <4>3, <5>1, <5>2 DEF OnTheList, Run
        <4> QED BY <4>2, <4>3
      <3>2. CASE item[i].state # "applying"
        <4>1. item'[i] = item[i]
          BY <1>2, <3>2
        <4>2. ~OnTheList(i)
          BY <1>1 DEF OnTheList
        <4> QED BY <1>1, <2>1, <4>1, <4>2, OwnedStays DEF OwnerInv
      <3> QED BY <3>1, <3>2
    <2> QED BY <2>1 DEF ReconciliationOwned
  <1> QED BY <1>5, <1>6, <1>7 DEF OwnerInv

\* A loaded reservation belongs to the run that loaded it.
LEMMA LoadOwner ==
    ASSUME IndInv, OwnerInv, NEW f \in Run, NEW i \in Item, LoadContext(f, i)
    PROVE  OwnerInv'
  <1> DEFINE a == item[i].attempt
  <1>1. /\ Current(f) /\ f = fence /\ held /\ item[i].state = "reconciling" /\ a \in Attempt
        /\ UNCHANGED <<fence, held, trigger, item, attempt>>
    BY DEF LoadContext, Loadable, lease, history, Current
  <1>2. /\ reservation'[a].fence = f
        /\ \A b \in Attempt \ {a} : reservation'[b] = reservation[b]
    BY <1>1 DEF LoadContext, IndInv, TypeOK, ReservationRecord
  <1>3. /\ proc'[f].pc = "reading" /\ proc'[f].todo = proc[f].todo \ {i}
    BY DEF LoadContext, IndInv, TypeOK, ProcRecord
  <1>4. \A j \in Item : item[j].state \in Unresolved /\ j # i =>
          item[j].attempt \in Attempt \ {a}
    BY <1>1, OwnAttempt DEF IndInv, Coherent, UnresolvedHasAttempt
  <1>5. RunsKnown' /\ FlightOwned'
    BY <1>1, <1>2, <1>4 DEF OwnerInv, RunsKnown, FlightOwned, Unresolved
  <1>6. Inheritable(i)'
    <2>1. Inheritable(i) \/ OnTheList(i)
      BY <1>1 DEF OwnerInv, ReconciliationOwned
    <2>2. reservation[a].fence = f \/ reservation[a].fence < f
      BY DEF LoadContext, Loadable, Adoptable
    <2>3. /\ reservation[a].fence \in Nat /\ attempt[a].run \in Nat /\ item[i].run \in Nat
          /\ f \in Nat
      BY <1>1 DEF IndInv, TypeOK, ReservationRecord, AttemptRecord, ItemRecord, Run
    <2>4. attempt[a].run <= f
      BY <2>1, <2>2, <2>3 DEF Inheritable, OnTheList
    <2>5. CASE Inheritable(i)
      BY <1>1, <1>2, <2>2, <2>3, <2>4, <2>5 DEF Inheritable
    <2>6. CASE OnTheList(i)
      BY <1>1, <1>2, <2>3, <2>4, <2>6 DEF Inheritable, OnTheList
    <2> QED BY <2>1, <2>5, <2>6
  <1>7. ReconciliationOwned'
    <2>1. ASSUME NEW j \in Item, item[j].state = "reconciling", j # i
          PROVE  Inheritable(j)' \/ OnTheList(j)'
      <3>1. reservation'[item[j].attempt] = reservation[item[j].attempt]
        BY <1>2, <1>4, <2>1 DEF Unresolved
      <3>2. OnTheList(j) => proc'[fence].pc \in {"reconcile", "reading"} /\ j \in proc'[fence].todo
        BY <1>1, <1>3, <2>1 DEF OnTheList
      <3> QED BY <1>1, <2>1, <3>1, <3>2, OwnedStays DEF OwnerInv
    <2> QED BY <1>1, <1>6, <2>1 DEF ReconciliationOwned
  <1> QED BY <1>5, <1>7 DEF OwnerInv

\* No decision puts an item in flight.
LEMMA DecisionLands ==
    ASSUME IndInv, NEW f \in Run, Decision(f), item'[proc[f].item].state = "applying"
    PROVE  item[proc[f].item].state = "applying"
  <1>1. /\ proc[f].pc \in {"posting", "reading"} /\ Valid(f)
        /\ proc[f].item \in Item /\ TypeOK
    <2>1. proc[f].pc \in {"posting", "reading"} /\ Valid(f)
      BY DEF Decision, Reconcile, OpenReconciliationAuth, FinalizeApplied,
             RecordPossiblySent, FinalizeDefiniteFailure
    <2> QED BY <2>1, ValidCarries DEF IndInv
  <1>2. \A state, stage, due, challenge :
          MoveItem(proc[f].item, state, stage, due, challenge)
            \/ CheckedItem(proc[f].item, state, stage, due, challenge) =>
          item'[proc[f].item].state = state
    <2>1. ASSUME NEW state, NEW stage, NEW due, NEW challenge,
                 MoveItem(proc[f].item, state, stage, due, challenge)
          PROVE  item'[proc[f].item].state = state
      BY <1>1, <2>1 DEF MoveItem, TypeOK, ItemRecord
    <2>2. ASSUME NEW state, NEW stage, NEW due, NEW challenge,
                 CheckedItem(proc[f].item, state, stage, due, challenge)
          PROVE  item'[proc[f].item].state = state
      BY <1>1, <2>2 DEF CheckedItem, TypeOK, ItemRecord
    <2> QED BY <2>1, <2>2
  <1>3. CASE Reconcile(f)
    <2>1. \/ \E readable : \/ ReconciledApplied(f, readable)
                           \/ ReconciledExternal(f, readable)
                           \/ CheckAmbiguous(f, readable)
                           \/ CheckAbsent(f, readable)
          \/ CheckPending(f)
      BY <1>3 DEF Reconcile
    <2> QED BY <2>1, <1>2
            DEF ReconciledApplied, ReconciledExternal, CheckPending, CheckAmbiguous, CheckAbsent
  <1>4. CASE OpenReconciliationAuth(f)
    BY <1>2, <1>4 DEF OpenReconciliationAuth
  <1>5. CASE FinalizeApplied(f)
    BY <1>2, <1>5 DEF FinalizeApplied
  <1>6. CASE RecordPossiblySent(f)
    BY <1>2, <1>6 DEF RecordPossiblySent
  <1>7. CASE FinalizeDefiniteFailure(f)
    BY <1>2, <1>7 DEF FinalizeDefiniteFailure, FailureTargets
  <1> QED BY <1>3, <1>4, <1>5, <1>6, <1>7 DEF Decision

\* What a decision leaves under reconciliation was its run's, so a recovery to
\* come may adopt it.
LEMMA DecisionOwner ==
    ASSUME IndInv, PostInv, OwnerInv, ReadsReconciling, NEW f \in Run, Decision(f)
    PROVE  OwnerInv'
  <1> DEFINE i == proc[f].item
             a == proc[f].attempt
  <1>1. /\ proc[f].pc \in {"posting", "reading"} /\ Valid(f)
        /\ i \in Item /\ a \in Attempt
        /\ Outcome(f) /\ Returns(f)
        /\ UNCHANGED <<fence, held, trigger>>
    BY DecisionStep DEF PostInv, lease
  <1>2. /\ Current(f) /\ f = fence /\ held /\ item[i].attempt = a
        /\ reservation[a].fence = f /\ item[i].state \in Unresolved
    BY <1>1 DEF Valid, Current
  <1>3. /\ \A j \in Item : item'[j].run = item[j].run
        /\ \A b \in Attempt : attempt'[b].run = attempt[b].run
        /\ \A b \in Attempt : reservation'[b].fence = reservation[b].fence
    BY DecisionKeepsOwners
  <1>4. /\ \A j \in Item : item'[j].attempt = item[j].attempt
        /\ \A j \in Item \ {i} : item'[j] = item[j]
    BY <1>1 DEF Outcome, Applied, ExternallyApplied, Absent, Refused, Undecided, Unknown,
                ItemMoves
  <1>5. \A j \in Item : item[j].state \in Unresolved => item[j].attempt \in Attempt
    BY DEF IndInv, Coherent, UnresolvedHasAttempt
  <1>6. item'[i].state # "applying"
    <2>1. SUFFICES ASSUME item'[i].state = "applying" PROVE FALSE
      OBVIOUS
    <2>2. item[i].state = "applying"
      BY <2>1, DecisionLands
    <2>3. proc[f].pc = "posting"
      BY <1>1, <1>2, <2>2 DEF ReadsReconciling
    <2> QED BY <1>1, <2>1, <2>3
            DEF Outcome, Applied, ExternallyApplied, Absent, Refused, Undecided, Unknown,
                ItemMoves
  <1>7. RunsKnown'
    BY <1>1, <1>3 DEF OwnerInv, RunsKnown
  <1>8. FlightOwned'
    <2>1. ASSUME NEW j \in Item, item'[j].state = "applying"
          PROVE  j # i /\ item'[j] = item[j] /\ item[j].attempt \in Attempt
      BY <1>4, <1>5, <1>6, <2>1 DEF Unresolved
    <2> QED BY <1>1, <1>3, <2>1 DEF OwnerInv, FlightOwned
  <1>9. ReconciliationOwned'
    <2>1. ASSUME NEW j \in Item \ {i}, item[j].state = "reconciling"
          PROVE  Inheritable(j)' \/ OnTheList(j)'
      <3>1. item[j].attempt \in Attempt /\ item'[j] = item[j]
        BY <1>4, <1>5, <2>1 DEF Unresolved
      <3>2. OnTheList(j) => proc'[fence].pc = "reconcile" /\ j \in proc'[fence].todo
        <4>1. OnTheList(j) => proc[f].pc # "posting" /\ j \in proc[f].todo
          BY <1>2 DEF OnTheList
        <4> QED BY <1>1, <1>2, <4>1 DEF Returns, ProcMoves
      <3> QED BY <1>1, <1>2, <1>3, <2>1, <3>1, <3>2, OwnedStays DEF OwnerInv
    <2>2. ASSUME NEW k \in Item, k = i PROVE Inheritable(k)'
      <3>1. ~OnTheList(k)
        BY <1>1, <1>2, <2>2 DEF OnTheList, Run
      <3>2. CASE item[k].state = "reconciling"
        <4>1. Inheritable(k)
          BY <3>1, <3>2 DEF OwnerInv, ReconciliationOwned
        <4> QED BY <1>1, <1>2, <1>3, <1>4, <2>2, <4>1 DEF Inheritable
      <3>3. CASE item[k].state = "applying"
        <4>1. /\ attempt[a].run = item[k].run /\ reservation[a].fence = item[k].run
              /\ item[k].run \in Run
          BY <1>2, <2>2, <3>3 DEF OwnerInv, FlightOwned
        <4>2. item'[k].attempt = a /\ item'[k].run = item[k].run
          BY <1>2, <1>3, <1>4, <2>2
        <4>3. attempt'[a].run = item[k].run /\ reservation'[a].fence = item[k].run
          BY <1>1, <1>3, <4>1
        <4>4. item[k].run <= item[k].run
          BY <4>1 DEF Run
        <4> QED BY <4>2, <4>3, <4>4 DEF Inheritable
      <3> QED BY <1>2, <2>2, <3>2, <3>3 DEF Unresolved
    <2>3. \A j \in Item \ {i} : item'[j].state = item[j].state
      BY <1>4
    <2> QED BY <2>1, <2>2, <2>3 DEF ReconciliationOwned
  <1> QED BY <1>7, <1>8, <1>9 DEF OwnerInv

\* A dispatch is prepared by a run that dispatches, for its own item.
LEMMA InsertOwner ==
    ASSUME IndInv, OwnerInv, NEW f \in Run, Inserts(f)
    PROVE  OwnerInv'
  <1> DEFINE i == proc[f].item
             a == made + 1
  <1>1. /\ proc[f].pc = "rendering" /\ Current(f) /\ f = fence
        /\ i \in Item /\ item[i].state = "ready"
        /\ a \in Attempt
        /\ \A b \in Attempt \ {a} : attempt'[b] = attempt[b]
        /\ item'[i].state \in {"applying", "retry_wait"}
        /\ item'[i].attempt = a
        /\ \A j \in Item \ {i} : item'[j] = item[j]
        /\ UNCHANGED <<fence, held, trigger>>
    BY InsertStep DEF lease, Current
  <1>2. \A b \in Attempt \ {a} : reservation'[b] = reservation[b]
    BY <1>1 DEF Inserts, RenderFails, PrepareDispatch, IndInv, TypeOK
  <1>3. item'[i].run = item[i].run
    <2>1. CASE RenderFails(f)
      BY <1>1, <2>1 DEF RenderFails, IndInv, TypeOK, ItemRecord
    <2>2. CASE PrepareDispatch(f)
      BY <1>1, <2>2 DEF PrepareDispatch, IndInv, TypeOK
    <2> QED BY <2>1, <2>2 DEF Inserts
  <1>4. \A j \in Item : item[j].state \in Unresolved =>
          j # i /\ item'[j] = item[j] /\ item[j].attempt \in Attempt \ {a}
    <2>1. ASSUME NEW j \in Item, item[j].state \in Unresolved
          PROVE  item[j].attempt \in Attempt /\ item[j].attempt <= made
      BY <2>1 DEF IndInv, Coherent, UnresolvedHasAttempt, ItemOwnsAttempt, Attempt
    <2>2. made < a
      BY DEF IndInv, TypeOK
    <2> QED BY <1>1, <2>1, <2>2 DEF Unresolved, IndInv, TypeOK, Attempt
  <1>5. RunsKnown'
    BY <1>1, <1>3 DEF OwnerInv, RunsKnown
  <1>6. ReconciliationOwned'
    <2>1. ASSUME NEW j \in Item, item[j].state = "reconciling"
          PROVE  Inheritable(j)' \/ OnTheList(j)'
      <3>1. ~OnTheList(j)
        BY <1>1 DEF OnTheList
      <3>2. item'[j] = item[j] /\ item[j].attempt \in Attempt \ {a}
        BY <1>4, <2>1 DEF Unresolved
      <3> QED BY <1>1, <1>2, <2>1, <3>1, <3>2, OwnedStays DEF OwnerInv
    <2> QED BY <1>1, <2>1 DEF ReconciliationOwned
  <1>7. CASE RenderFails(f)
    <2>1. item'[i].state = "retry_wait"
      BY <1>1, <1>7 DEF RenderFails, IndInv, TypeOK, ItemRecord
    <2>2. FlightOwned'
      <3>1. ASSUME NEW j \in Item, item'[j].state = "applying"
            PROVE  /\ item'[j] = item[j] /\ item[j].state = "applying"
                   /\ item[j].attempt \in Attempt \ {a}
        BY <1>1, <1>4, <2>1, <3>1 DEF Unresolved
      <3> QED BY <1>1, <1>2, <3>1 DEF OwnerInv, FlightOwned
    <2> QED BY <1>5, <1>6, <2>2 DEF OwnerInv
  <1>8. CASE PrepareDispatch(f)
    <2>1. /\ item'[i].run = f /\ item'[i].due /\ trigger[f] # "recovery"
      BY <1>1, <1>8 DEF PrepareDispatch, IndInv, TypeOK
    <2>2. reservation'[a].fence = f
      BY <1>1, <1>8 DEF PrepareDispatch, IndInv, TypeOK
    <2>3. attempt'[a].run = f
      BY <1>1, <1>8 DEF PrepareDispatch, NewAttempt, IndInv, TypeOK
    <2>4. FlightOwned'
      <3>1. ASSUME NEW j \in Item \ {i}, item'[j].state = "applying"
            PROVE  /\ item'[j] = item[j] /\ item[j].state = "applying"
                   /\ item[j].attempt \in Attempt \ {a}
        BY <1>1, <1>4, <3>1 DEF Unresolved
      <3> QED BY <1>1, <1>2, <2>1, <2>2, <2>3, <3>1 DEF OwnerInv, FlightOwned
    <2> QED BY <1>5, <1>6, <2>4 DEF OwnerInv
  <1> QED BY <1>7, <1>8 DEF Inserts
------------------------------------------------------------------------------
(* The whole next-state relation *)

\* The run in charge never reads for an item in flight.
LEMMA StepReads ==
    ASSUME IndInv, PostInv, ReadsReconciling, [Next]_vars
    PROVE  ReadsReconciling'
  <1>1. ASSUME NEW f \in Run, Decision(f) PROVE ReadsReconciling'
    <2>1. /\ Current(f) /\ UNCHANGED <<fence, held>>
          /\ proc'[f].pc \in {"dispatch", "reconcile"}
      BY <1>1, DecisionStep DEF Valid, PostInv, lease, Returns, ProcMoves
    <2> QED BY <2>1 DEF ReadsReconciling, Current
  <1>2. ASSUME NEW f \in Run, Inserts(f) PROVE ReadsReconciling'
    <2>1. /\ Current(f) /\ UNCHANGED <<fence, held>>
          /\ proc'[f].pc \in {"dispatch", "prepared"}
      BY <1>2, InsertStep, PreparedIsValid, NotPreparedReturns DEF Inserts, lease
    <2> QED BY <2>1 DEF ReadsReconciling, Current
  <1>3. ASSUME NEW t \in Trigger, StartRun(t) PROVE ReadsReconciling'
    <2>1. /\ fence' = fence + 1 /\ fence + 1 \in Run
          /\ proc'[fence + 1].pc \in {"dispatch", "recover"}
      BY <1>3 DEF StartRun, IndInv, TypeOK, Run, ProcRecord
    <2> QED BY <2>1 DEF ReadsReconciling, Current
  <1>4. ASSUME NEW f \in Run, RecoverStaleApplying(f) PROVE ReadsReconciling'
    <2>1. Current(f) /\ UNCHANGED <<fence, held>> /\ proc'[f].pc = "reconcile"
      BY <1>4 DEF RecoverStaleApplying, lease, IndInv, TypeOK, ProcRecord
    <2> QED BY <2>1 DEF ReadsReconciling, Current
  <1>5. ASSUME NEW f \in Run, NEW i \in Item, LoadContext(f, i) PROVE ReadsReconciling'
    <2>1. /\ Current(f) /\ UNCHANGED <<fence, held, item>> /\ item[i].state = "reconciling"
          /\ proc'[f].item = i
      BY <1>5 DEF LoadContext, Loadable, lease, IndInv, TypeOK, ProcRecord
    <2> QED BY <2>1 DEF ReadsReconciling, Current
  <1>6. CASE \/ \E f \in Run :
                  \/ EndRun(f) \/ Crash(f) \/ ReconcileRaises(f) \/ StartDispatch(f)
                  \/ NextPass(f) \/ ExecuteRaises(f) \/ FinalizeRaises(f) \/ SendPost(f)
             \/ \E f \in Run, i \in Item : LoadRaises(f, i) \/ BeginExecute(f, i)
    <2>1. /\ UNCHANGED <<fence, item>> /\ (held' => held)
          /\ \A g \in Run : proc'[g].pc = "reading" =>
               proc[g].pc = "reading" /\ proc'[g].item = proc[g].item
      BY <1>6 DEF EndRun, Crash, ReconcileRaises, StartDispatch, NextPass, ExecuteRaises,
                  FinalizeRaises, SendPost, LoadRaises, BeginExecute, Return, lease, NoProc,
                  IndInv, TypeOK, ProcRecord
    <2> QED BY <2>1 DEF ReadsReconciling, Current
  <1>7. CASE \/ \E f \in Run : AdoptReadyItems(f)
             \/ \E f \in Run, i \in Item : ActivateDueRetry(f, i) \/ SkipReady(f, i)
             \/ \E i \in Item : BecomeDue(i)
    <2>1. UNCHANGED <<fence, held, proc>>
      BY <1>7 DEF AdoptReadyItems, ActivateDueRetry, SkipReady, BecomeDue, lease
    <2>2. \A j \in Item : item'[j].state = "applying" => item[j].state = "applying"
      <3>1. ASSUME NEW f \in Run, AdoptReadyItems(f) PROVE <2>2!:
        BY <3>1 DEF AdoptReadyItems, IndInv, TypeOK, ItemRecord
      <3>2. ASSUME NEW f \in Run, NEW i \in Item, ActivateDueRetry(f, i) PROVE <2>2!:
        <4>1. item'[i].state # "applying" /\ \A j \in Item \ {i} : item'[j] = item[j]
          BY <3>2 DEF ActivateDueRetry, IndInv, TypeOK, ItemRecord
        <4> QED BY <4>1
      <3>3. ASSUME NEW f \in Run, NEW i \in Item, SkipReady(f, i) PROVE <2>2!:
        BY <3>3 DEF SkipReady, IndInv, TypeOK, ItemRecord
      <3>4. ASSUME NEW i \in Item, BecomeDue(i) PROVE <2>2!:
        BY <3>4 DEF BecomeDue, IndInv, TypeOK, ItemRecord
      <3> QED BY <1>7, <3>1, <3>2, <3>3, <3>4
    <2>3. \A g \in Run : proc[g].pc = "reading" => proc[g].item \in Item
      BY DEF IndInv, ProcessCarriesAttempt, Carries
    <2> QED BY <2>1, <2>2, <2>3 DEF ReadsReconciling, Current
  <1>8. CASE \/ \E a \in Attempt : Arrive(a) \/ Refuse(a)
             \/ \E i \in Item : ApplyExternally(i)
             \/ UNCHANGED vars
    BY <1>8 DEF Arrive, Refuse, ApplyExternally, vars, lease, ReadsReconciling, Current
  <1> QED BY <1>1, <1>2, <1>3, <1>4, <1>5, <1>6, <1>7, <1>8
          DEF Next, RunStep, Decision, Inserts

LEMMA StepOwner ==
    ASSUME SweepFirst, "recovery" \notin Interruptible,
           IndInv, PostInv, OwnerInv, ReadsReconciling, [Next]_vars
    PROVE  OwnerInv'
  <1>1. CASE UNCHANGED vars
    BY <1>1, RowsRest DEF vars, lease, history, OnTheList
  <1> QED BY <1>1, StartOwner, ProcessOwner, RemoteOwner, ItemOwner, RecoverOwner,
             LoadOwner, DecisionOwner, InsertOwner
          DEF Next, RunStep, Decision, Inserts

LEMMA OwnerInductive ==
    ASSUME SweepFirst, "recovery" \notin Interruptible
    PROVE  Spec => [](OwnerInv /\ ReadsReconciling)
  <1>1. Init => OwnerInv /\ ReadsReconciling
    BY InitOwner DEF Init, NoProc, ReadsReconciling
  <1>2. IndInv /\ PostInv /\ OwnerInv /\ ReadsReconciling /\ [Next]_vars
          => (OwnerInv /\ ReadsReconciling)'
    BY StepOwner, StepReads
  <1> QED BY <1>1, <1>2, Inductive, PostInductive, PTL DEF Spec

\* An item under reconciliation can always still be decided, whichever runs
\* died on it: the reservation of load_reconciliation_context may be adopted by
\* the recovery run in charge, or by the next one.  Recovery runs come to their
\* end and the scheduler starts other runs after its sweep; without either, a
\* run takes the item over and leaves a reservation nobody can adopt.
THEOREM NoItemIsStranded ==
    ASSUME SweepFirst, "recovery" \notin Interruptible
    PROVE  Spec => []NoStrandedItem
  <1>1. IndInv /\ OwnerInv => NoStrandedItem
    <2>1. SUFFICES ASSUME IndInv, OwnerInv, NEW i \in Item, item[i].state = "reconciling"
                   PROVE  CanStillBeDecided(i)
      BY DEF NoStrandedItem
    <2>2. CASE Inheritable(i)
      BY <2>2 DEF Inheritable, CanStillBeDecided
    <2>3. CASE OnTheList(i)
      <3>1. /\ item[i].attempt \in Attempt /\ OpenAttempt(item[i].attempt)
            /\ reservation[item[i].attempt].state \in Open
        BY <2>1 DEF IndInv, Coherent, UnresolvedHasAttempt, SlotFollowsAttempt, Unresolved
      <3>2. Current(fence) /\ i \in proc[fence].todo
        BY <2>3 DEF OnTheList, Current
      <3>3. Loadable(fence, i)
        BY <2>1, <2>3, <3>1, <3>2 DEF OnTheList, Loadable, Adoptable, OpenAttempt
      <3> QED BY <3>2, <3>3 DEF CanStillBeDecided
    <2> QED BY <2>1, <2>2, <2>3 DEF OwnerInv, ReconciliationOwned
  <1> QED BY <1>1, Inductive, OwnerInductive, PTL
------------------------------------------------------------------------------
(* The operator's desk: what the runs keep, the desk keeps too.             *)

\* The token of the desk has no run, nor has one that was not given out.
DeskHasNoRun ==
    /\ desk \in 0..fence
    /\ \A g \in Run : g = desk \/ g > fence => proc[g] = NoProc

\* An item the operator sends back to the reconciler, or requeues to it, has an
\* unresolved attempt.
HasOpenAttempt(i) == item[i].attempt \in Attempt /\ OpenAttempt(item[i].attempt)
AskedHasAttempt ==
    \A i \in Item :
        item[i].state \in {"manual_challenge", "dead"} /\ item[i].stage = "reconciliation"
            => HasOpenAttempt(i)

DeskInv == IndInv /\ PostInv /\ DeskHasNoRun /\ AskedHasAttempt

DeskRowStep ==
    \E i \in Item :
        \/ CompleteManual(i)
        \/ DropManual(i)
        \/ ExpireAmbiguous(i)
        \/ ConfirmApplied(i)
        \/ \E target \in {"ready", "skipped"} : DenyApplied(i, target)
        \/ LookAgain(i)
        \/ RequeueDead(i)
DeskComesAndGoes ==
    \/ AcquireDesk
    \/ LeaveDesk
    \/ DeskLeaseExpires
    \/ \E i \in Item : TicketExpires(i)

LEMMA DeskKinds == DeskStep => DeskRowStep \/ DeskComesAndGoes
  BY DEF DeskStep, DeskRowStep, DeskComesAndGoes
------------------------------------------------------------------------------
(* What runs do to the desk's books *)

\* A run stays on its own token, and the tokens only grow.
LEMMA RunsLeaveDesk ==
    ASSUME IndInv, DeskHasNoRun, [Next]_vars, UNCHANGED desk
    PROVE  DeskHasNoRun'
  <1>1. fence \in 0..MaxFence
    BY DEF IndInv, TypeOK
  <1>2. ASSUME NEW t \in Trigger, StartRun(t)
        PROVE  fence' = fence + 1 /\ \A g \in Run \ {fence + 1} : proc'[g] = proc[g]
    BY <1>2 DEF StartRun, IndInv, TypeOK
  <1>3. ASSUME NEW f \in Run, RunStep(f)
        PROVE  /\ fence' = fence /\ proc[f] # NoProc
               /\ \A g \in Run \ {f} : proc'[g] = proc[g]
    <2>1. fence' = fence
      BY <1>3 DEF RunStep, EndRun, Crash, RecoverStaleApplying, LoadContext, LoadRaises,
             Reconcile, OpenReconciliationAuth, ReconcileRaises, StartDispatch, NextPass,
             AdoptReadyItems, ActivateDueRetry, SkipReady, BeginExecute, RenderFails,
             PrepareDispatch, ExecuteRaises, SendPost, FinalizeApplied,
             RecordPossiblySent, FinalizeDefiniteFailure, FinalizeRaises, lease
    <2>2. proc[f].pc # "none"
      BY <1>3 DEF RunStep, EndRun, Crash, RecoverStaleApplying, LoadContext, LoadRaises,
             Reconcile, OpenReconciliationAuth, ReconcileRaises, StartDispatch, NextPass,
             AdoptReadyItems, ActivateDueRetry, SkipReady, BeginExecute, RenderFails,
             ReadyAsRead, PrepareDispatch, ExecuteRaises, SendPost, FinalizeApplied,
             RecordPossiblySent, FinalizeDefiniteFailure, FinalizeRaises
    <2>3. \A g \in Run \ {f} : proc'[g] = proc[g]
      BY <1>3 DEF RunStep, EndRun, Crash, RecoverStaleApplying, LoadContext, LoadRaises,
             Reconcile, OpenReconciliationAuth, ReconcileRaises, StartDispatch, NextPass,
             AdoptReadyItems, ActivateDueRetry, SkipReady, BeginExecute, RenderFails,
             PrepareDispatch, ExecuteRaises, SendPost, FinalizeApplied,
             RecordPossiblySent, FinalizeDefiniteFailure, FinalizeRaises, Return,
             IndInv, TypeOK
    <2> QED BY <2>1, <2>2, <2>3 DEF NoProc
  <1>4. CASE UNCHANGED <<fence, proc>>
    BY <1>4 DEF DeskHasNoRun
  <1>5. CASE \E t \in Trigger : StartRun(t)
    BY <1>1, <1>2, <1>5 DEF DeskHasNoRun, Run
  <1>6. CASE \E f \in Run : RunStep(f)
    BY <1>1, <1>3, <1>6 DEF DeskHasNoRun
  <1> QED BY <1>4, <1>5, <1>6
          DEF Next, vars, lease, Arrive, Refuse, ApplyExternally, BecomeDue

\* A decision that leaves the item to the reconciler leaves its attempt open.
LEMMA DecisionAsks ==
    ASSUME IndInv, NEW f \in Run, Decision(f),
           proc[f].item \in Item, proc[f].attempt \in Attempt, Valid(f)
    PROVE  \/ attempt'[proc[f].attempt].status \in Unresolved
           \/ item'[proc[f].item].stage = "application"
           \/ item'[proc[f].item].state \in {"applied", "reconciling"}
  <1> DEFINE i == proc[f].item
             a == proc[f].attempt
  <1>1. TypeOK /\ attempt[a].status \in Unresolved /\ attempt \in [Attempt -> AttemptRecord]
    BY DEF IndInv, TypeOK, Valid
  <1>2. ASSUME NEW state, NEW stage, NEW due, NEW challenge,
               MoveItem(i, state, stage, due, challenge)
                 \/ CheckedItem(i, state, stage, due, challenge)
        PROVE  item'[i].state = state /\ item'[i].stage = stage
    <2>1. CASE MoveItem(i, state, stage, due, challenge)
      BY <1>1, <2>1 DEF MoveItem, TypeOK, ItemRecord
    <2>2. CASE CheckedItem(i, state, stage, due, challenge)
      BY <1>1, <2>2 DEF CheckedItem, TypeOK
    <2> QED BY <1>2, <2>1, <2>2
  <1>3. CASE Reconcile(f)
    <2>1. PICK readable \in SUBSET Shown(i) :
            \/ ReconciledApplied(f, readable)
            \/ ReconciledExternal(f, readable)
            \/ CheckPending(f)
            \/ CheckAmbiguous(f, readable)
            \/ CheckAbsent(f, readable)
      BY <1>3 DEF Reconcile
    <2>2. CASE ReconciledApplied(f, readable)
      BY <1>2, <2>2 DEF ReconciledApplied
    <2>3. CASE ReconciledExternal(f, readable)
      BY <1>2, <2>3 DEF ReconciledExternal
    <2>4. CASE CheckPending(f) \/ CheckAmbiguous(f, readable)
      <3>1. Checked(a, attempt[a].status)
        BY <2>4 DEF CheckPending, CheckAmbiguous
      <3> QED BY <1>1, <3>1 DEF Checked, AttemptRecord
    <2>5. CASE CheckAbsent(f, readable)
      BY <1>2, <2>5 DEF CheckAbsent
    <2> QED BY <2>1, <2>2, <2>3, <2>4, <2>5
  <1>4. CASE OpenReconciliationAuth(f)
    BY <1>1, <1>4 DEF OpenReconciliationAuth, history
  <1>5. CASE FinalizeApplied(f)
    BY <1>2, <1>5 DEF FinalizeApplied
  <1>6. CASE RecordPossiblySent(f)
    BY <1>2, <1>6 DEF RecordPossiblySent
  <1>7. CASE FinalizeDefiniteFailure(f)
    BY <1>2, <1>7 DEF FinalizeDefiniteFailure
  <1> QED BY <1>3, <1>4, <1>5, <1>6, <1>7 DEF Decision

LEMMA RunsAsk ==
    ASSUME IndInv, PostInv, AskedHasAttempt, [Next]_vars
    PROVE  AskedHasAttempt'
  <1>0. \A a \in Attempt : OpenAttempt(a) => a # made + 1
    BY DEF IndInv, TypeOK, Coherent, AttemptsInOrder, OpenAttempt, Unresolved, Attempt
  <1>1. ASSUME NEW f \in Run, Decision(f) PROVE AskedHasAttempt'
    <2> DEFINE i == proc[f].item
               a == proc[f].attempt
    <2>1. /\ i \in Item /\ a \in Attempt /\ attempt[a].item = i /\ Outcome(f) /\ Valid(f)
      BY <1>1, DecisionStep DEF PostInv
    <2>2. /\ item[i].attempt = a /\ item'[i].attempt = a
          /\ \A j \in Item \ {i} : item'[j] = item[j]
          /\ \A b \in Attempt \ {a} : attempt'[b] = attempt[b]
      BY <2>1 DEF Outcome, Applied, ExternallyApplied, Absent, Refused, Undecided, Unknown,
                  ItemMoves, AttemptMoves, Valid
    <2>3. ASSUME NEW j \in Item, item'[j].state \in {"manual_challenge", "dead"},
                 item'[j].stage = "reconciliation"
          PROVE  /\ item'[j].attempt \in Attempt
                 /\ attempt'[item'[j].attempt].status \in Unresolved
      <3>1. CASE j = i
        BY <1>1, <2>1, <2>2, <2>3, <3>1, DecisionAsks
      <3>2. CASE j # i
        <4>1. item'[j] = item[j] /\ HasOpenAttempt(j)
          BY <2>2, <2>3, <3>2 DEF AskedHasAttempt
        <4>2. item[j].attempt # a
          BY <2>1, <3>2, OwnAttempt DEF IndInv
        <4> QED BY <2>2, <4>1, <4>2 DEF HasOpenAttempt, OpenAttempt
      <3> QED BY <3>1, <3>2
    <2> QED BY <2>3 DEF AskedHasAttempt, HasOpenAttempt, OpenAttempt
  <1>2. ASSUME NEW f \in Run, Inserts(f) PROVE AskedHasAttempt'
    <2> DEFINE i == proc[f].item
               a == made + 1
    <2>1. /\ i \in Item /\ item'[i].state \in {"applying", "retry_wait"}
          /\ \A b \in Attempt \ {a} : attempt'[b] = attempt[b]
          /\ \A j \in Item \ {i} : item'[j] = item[j]
      BY <1>2, InsertStep
    <2> QED BY <1>0, <2>1 DEF AskedHasAttempt, HasOpenAttempt, OpenAttempt
  <1>3. CASE Quiet
    BY <1>3 DEF Quiet, AskedHasAttempt, HasOpenAttempt, OpenAttempt, history
  <1>4. CASE UNCHANGED <<item, attempt>>
    BY <1>4 DEF AskedHasAttempt, HasOpenAttempt, OpenAttempt
  <1> QED BY <1>1, <1>2, <1>3, <1>4, StepKinds
          DEF SendPost, Arrive, Refuse, ApplyExternally, history
------------------------------------------------------------------------------
(* What the desk does to the rows *)

\* The desk is in charge, and what it touches waits for the operator.
DeskMoves ==
    /\ desk # 0 /\ Current(desk)
    /\ UNCHANGED <<lease, proc, made, synced, remote, desk>>
    /\ \A i \in Item :
         /\ item'[i].attempt = item[i].attempt
         /\ item'[i] = item[i] \/ item[i].state \in {"manual_challenge", "dead"}
    /\ \A a \in Attempt :
         \/ attempt'[a] = attempt[a]
         \/ /\ OpenAttempt(a) /\ attempt'[a].item = attempt[a].item
            /\ item[attempt[a].item].attempt = a
            /\ item[attempt[a].item].state \in {"manual_challenge", "dead"}

\* Items go where their stage sends them; attempts, slots and guards stay.
DeskItems ==
    /\ item' \in [Item -> ItemRecord]
    /\ \A i \in Item :
         \/ item'[i] = item[i]
         \/ /\ item[i].state \in {"manual_challenge", "dead"}
            /\ item'[i].attempt = item[i].attempt
            /\ item'[i].stage = item[i].stage
            /\ \/ item'[i].state \in {"ready", "skipped", "dead"}
               \/ item'[i].state = "reconciling" /\ item[i].stage = "reconciliation"
    /\ reservation' \in [Attempt -> ReservationRecord]
    /\ \A a \in Attempt : reservation'[a].state = reservation[a].state
    /\ UNCHANGED <<history, guard, word>>

\* The operator's word on item i's attempt.
Verdict(i) ==
    LET a == item[i].attempt
    IN  /\ a \in Attempt /\ OpenAttempt(a)
        /\ item[i].state \in {"manual_challenge", "dead"}
        /\ \/ /\ ItemMoves(i, {"applied"})
              /\ AttemptMoves(a, {"applied"})
              /\ SlotMoves(a, {"consumed"})
              /\ GuardMoves(i, {"applied"})
              /\ word' = word
           \/ /\ ItemMoves(i, {"ready", "skipped"})
              /\ AttemptMoves(a, {"ready", "skipped"})
              /\ SlotMoves(a, {"released"})
              /\ GuardMoves(i, {"none"})
              /\ word' = word \cup {a}
           \/ /\ ItemMoves(i, {"reconciling"})
              /\ SlotMoves(a, {"held"})
              /\ UNCHANGED <<attempt, guard, word>>

\* A reservation changes hands and state.
LEMMA AdoptMoves ==
    ASSUME DeskInv, NEW i \in Item, item[i].attempt \in Attempt,
           NEW state \in Counted \cup {"released"}, AdoptAs(i, state)
    PROVE  SlotMoves(item[i].attempt, {state})
  <1>1. desk \in 0..MaxFence
    BY DEF DeskInv, DeskHasNoRun, IndInv, TypeOK
  <1>2. [state |-> state, fence |-> desk] \in ReservationRecord
    BY <1>1 DEF ReservationRecord
  <1> QED BY <1>2 DEF AdoptAs, SlotMoves, DeskInv, IndInv, TypeOK

\* confirm, deny and look again.
LEMMA VerdictAction ==
    ASSUME DeskInv, NEW i \in Item,
           \/ ConfirmApplied(i) \/ LookAgain(i)
           \/ \E target \in {"ready", "skipped"} : DenyApplied(i, target)
    PROVE  Verdict(i) /\ desk # 0 /\ Current(desk)
           /\ UNCHANGED <<lease, proc, made, synced, remote, desk>>
  <1> DEFINE a == item[i].attempt
  <1>1. /\ a \in Attempt /\ OpenAttempt(a) /\ item[i].state \in {"manual_challenge", "dead"}
        /\ desk # 0 /\ Current(desk) /\ TypeOK
    BY DEF ConfirmApplied, LookAgain, DenyApplied, Answerable, Ambiguous, DeskInv, IndInv
  <1>2. UNCHANGED <<lease, proc, made, synced, remote, desk>>
    BY DEF ConfirmApplied, LookAgain, DenyApplied, history
  <1>3. CASE ConfirmApplied(i)
    <2>1. ItemMoves(i, {"applied"})
      BY <1>1, <1>3, ItemTyped, MoveItemMoves DEF ConfirmApplied, ItemState, Challenge
    <2>2. AttemptMoves(a, {"applied"})
      BY <1>1, <1>3, FinishMoves DEF ConfirmApplied, ItemState
    <2>3. SlotMoves(a, {"consumed"})
      BY <1>1, <1>3, AdoptMoves DEF ConfirmApplied, Counted
    <2>4. GuardMoves(i, {"applied"}) /\ word' = word
      BY <1>1, <1>3, MarkMoves DEF ConfirmApplied
    <2> QED BY <1>1, <1>2, <2>1, <2>2, <2>3, <2>4 DEF Verdict
  <1>4. ASSUME NEW target \in {"ready", "skipped"}, DenyApplied(i, target)
        PROVE  Verdict(i)
    <2>1. target \in ItemState /\ {target} \subseteq {"ready", "skipped"}
      BY DEF ItemState
    <2>2. ItemMoves(i, {target})
      BY <1>1, <1>4, <2>1, MoveItemMoves DEF DenyApplied, Challenge
    <2>3. AttemptMoves(a, {target})
      BY <1>1, <1>4, <2>1, FinishMoves DEF DenyApplied
    <2>4. SlotMoves(a, {"released"})
      BY <1>1, <1>4, AdoptMoves DEF DenyApplied
    <2>5. GuardMoves(i, {"none"}) /\ word' = word \cup {a}
      BY <1>1, <1>4, DropMoves DEF DenyApplied, VerdictDropsGuard
    <2> QED BY <1>1, <2>1, <2>2, <2>3, <2>4, <2>5, Widen DEF Verdict
  <1>5. CASE LookAgain(i)
    <2>1. ItemMoves(i, {"reconciling"})
      BY <1>1, <1>5, MoveItemMoves DEF LookAgain, ItemState, Challenge
    <2>2. SlotMoves(a, {"held"})
      BY <1>1, <1>5, AdoptMoves DEF LookAgain, Counted
    <2> QED BY <1>1, <1>5, <2>1, <2>2 DEF Verdict, LookAgain, history
  <1> QED BY <1>1, <1>2, <1>3, <1>4, <1>5

\* complete, drop, expire and requeue.
LEMMA ItemsAction ==
    ASSUME DeskInv, NEW i \in Item,
           CompleteManual(i) \/ DropManual(i) \/ ExpireAmbiguous(i) \/ RequeueDead(i)
    PROVE  DeskItems /\ desk # 0 /\ Current(desk)
           /\ UNCHANGED <<lease, proc, made, synced, remote, desk>>
  <1>1. /\ TypeOK /\ desk # 0 /\ Current(desk)
        /\ reservation \in [Attempt -> ReservationRecord]
        /\ item \in [Item -> ItemRecord]
    BY DEF CompleteManual, DropManual, ExpireAmbiguous, RequeueDead, ManualRow,
           Ambiguous, DeskInv, IndInv, TypeOK
  <1>2. UNCHANGED <<lease, proc, history, made, guard, synced, remote, desk, word>>
    BY DEF CompleteManual, DropManual, ExpireAmbiguous, RequeueDead, history
  <1>3. \A j \in Item : CompletedTarget(j) \in {"ready", "reconciling"}
    BY DEF CompletedTarget
  <1>4. ASSUME NEW target \in [Item -> {"ready", "skipped", "reconciling"}],
               MoveLinked(i, target), ManualRow(i),
               \A j \in Item : target[j] = "reconciling" => item[j].stage = "reconciliation",
               UNCHANGED reservation
        PROVE  DeskItems
    <2>1. ASSUME NEW j \in Item
          PROVE  /\ item'[j] \in ItemRecord
                 /\ \/ item'[j] = item[j]
                    \/ /\ item[j].state = "manual_challenge"
                       /\ item'[j].attempt = item[j].attempt
                       /\ item'[j].stage = item[j].stage
                       /\ item'[j].state = target[j]
      <3>1. CASE j \notin Linked(i)
        BY <1>1, <1>4, <3>1 DEF MoveLinked
      <3>2. CASE j \in Linked(i)
        <4>1. item'[j] = [item[j] EXCEPT !.state = target[j], !.version = @ + 1,
                                         !.due = TRUE, !.challenge = "none"]
          BY <1>4, <3>2 DEF MoveLinked
        <4>2. item[j] \in ItemRecord /\ target[j] \in ItemState
          BY <1>1 DEF ItemState
        <4>3. item'[j] = [state |-> target[j], version |-> item[j].version + 1,
                          run |-> item[j].run, attempt |-> item[j].attempt,
                          stage |-> item[j].stage, tries |-> item[j].tries,
                          checks |-> item[j].checks, due |-> TRUE, challenge |-> "none"]
          BY <4>1, <4>2 DEF ItemRecord
        <4>4. item'[j] \in ItemRecord
          BY <4>2, <4>3 DEF ItemRecord, Challenge
        <4> QED BY <1>4, <3>2, <4>3, <4>4 DEF ManualRow
      <3> QED BY <3>1, <3>2
    <2>2. item' \in [Item -> ItemRecord]
      <3>1. item' = [j \in Item |-> item'[j]]
        BY <1>4 DEF MoveLinked
      <3> QED BY <2>1, <3>1
    <2> QED BY <1>1, <1>2, <1>4, <2>1, <2>2 DEF DeskItems
  <1>5. CASE CompleteManual(i)
    <2>1. [j \in Item |-> CompletedTarget(j)] \in [Item -> {"ready", "skipped", "reconciling"}]
      BY <1>3
    <2> QED BY <1>1, <1>2, <1>4, <1>5, <2>1 DEF CompleteManual, CompletedTarget
  <1>6. CASE DropManual(i)
    BY <1>1, <1>2, <1>4, <1>6 DEF DropManual
  <1>7. CASE ExpireAmbiguous(i)
    <2>1. item' = [item EXCEPT ![i].state = "dead", ![i].version = @ + 1]
          /\ item[i].state = "manual_challenge"
      BY <1>7 DEF ExpireAmbiguous
    <2>2. /\ item' \in [Item -> ItemRecord] /\ item'[i].state = "dead"
          /\ item'[i].attempt = item[i].attempt /\ item'[i].stage = item[i].stage
          /\ \A j \in Item \ {i} : item'[j] = item[j]
      BY <1>1, <2>1 DEF ItemRecord, ItemState
    <2>3. /\ SlotMoves(item[i].attempt, {"held"})
          /\ reservation[item[i].attempt].state = "held"
      BY <1>7, AdoptMoves DEF ExpireAmbiguous, Ambiguous, Counted
    <2> QED BY <1>1, <1>2, <2>1, <2>2, <2>3 DEF DeskItems, SlotMoves
  <1>8. CASE RequeueDead(i)
    <2>1. /\ item' = [item EXCEPT ![i].state = CompletedTarget(i), ![i].version = @ + 1,
                                  ![i].due = TRUE, ![i].challenge = "none"]
          /\ item[i].state = "dead" /\ UNCHANGED reservation
      BY <1>8 DEF RequeueDead
    <2>2. CompletedTarget(i) \in ItemState
      BY <1>3 DEF ItemState
    <2>3. /\ item' \in [Item -> ItemRecord] /\ item'[i].state = CompletedTarget(i)
          /\ item'[i].attempt = item[i].attempt /\ item'[i].stage = item[i].stage
          /\ \A j \in Item \ {i} : item'[j] = item[j]
      BY <1>1, <2>1, <2>2 DEF ItemRecord, Challenge
    <2> QED BY <1>1, <1>2, <2>1, <2>3 DEF DeskItems, CompletedTarget
  <1> QED BY <1>1, <1>2, <1>5, <1>6, <1>7, <1>8

\* Every row step of the desk is of one of the two kinds.
LEMMA DeskRowKinds ==
    ASSUME DeskInv, DeskRowStep
    PROVE  /\ desk # 0 /\ Current(desk)
           /\ UNCHANGED <<lease, proc, made, synced, remote, desk>>
           /\ DeskItems \/ \E i \in Item : Verdict(i)
  BY VerdictAction, ItemsAction DEF DeskRowStep

\* The desk touches only what waits for the operator.
LEMMA DeskRowMoves == ASSUME DeskInv, DeskRowStep PROVE DeskMoves
  <1>1. /\ desk # 0 /\ Current(desk)
        /\ UNCHANGED <<lease, proc, made, synced, remote, desk>>
    BY DeskRowKinds
  <1>2. CASE DeskItems
    BY <1>1, <1>2 DEF DeskItems, DeskMoves, history
  <1>3. ASSUME NEW i \in Item, Verdict(i) PROVE DeskMoves
    <2> DEFINE a == item[i].attempt
    <2>1. a \in Attempt /\ OpenAttempt(a) /\ item[i].state \in {"manual_challenge", "dead"}
      BY <1>3 DEF Verdict
    <2>2. attempt[a].item = i
      BY <2>1, OwnAttempt DEF DeskInv, IndInv
    <2>3. item'[i].attempt = a /\ \A j \in Item \ {i} : item'[j] = item[j]
      BY <1>3 DEF Verdict, ItemMoves
    <2>4. attempt'[a].item = i /\ \A b \in Attempt \ {a} : attempt'[b] = attempt[b]
      BY <1>3, <2>2 DEF Verdict, AttemptMoves
    <2> QED BY <1>1, <2>1, <2>2, <2>3, <2>4 DEF DeskMoves
  <1> QED BY <1>2, <1>3, DeskRowKinds

\* The operator's word decides the rows of an attempt together.
LEMMA VerdictKeeps ==
    ASSUME DeskInv, DeskMoves, NEW i \in Item, Verdict(i)
    PROVE  IndInv' /\ AskedHasAttempt'
  <1> DEFINE a == item[i].attempt
  <1>1. /\ a \in Attempt /\ OpenAttempt(a) /\ TypeOK /\ Coherent
        /\ attempt[a].item = i /\ item[i].attempt = a
        /\ UNCHANGED <<lease, proc, made, synced, remote>>
    BY OwnAttempt DEF Verdict, DeskInv, IndInv, DeskMoves
  <1>2. /\ ItemMoves(i, {"applied", "ready", "skipped", "reconciling"})
        /\ AttemptMoves(a, ItemState)
        /\ SlotMoves(a, {"consumed", "released", "held"})
        /\ guard' \in [Vacancy -> GuardRecord]
    <2>1. attempt[a].status \in ItemState
      BY <1>1 DEF OpenAttempt, Unresolved, ItemState
    <2> QED BY <1>1, <2>1 DEF Verdict, ItemMoves, AttemptMoves, SlotMoves, GuardMoves, TypeOK,
                              ItemState
  <1>3. TypeOK'
    BY <1>1, <1>2 DEF TypeOK, ItemMoves, AttemptMoves, SlotMoves, lease, remote
  <1>4. Coherent'
    <2> HIDE DEF a
    <2>1. CASE guard' = guard /\ attempt' = attempt /\ ItemMoves(i, {"reconciling"})
               /\ SlotMoves(a, {"held"})
      <3>1. AttemptMoves(a, Unresolved)
        BY <1>1, <2>1 DEF AttemptMoves, TypeOK, OpenAttempt
      <3> QED BY <1>1, <2>1, <3>1, Widen, StillOpen DEF Open
    <2>2. CASE /\ ItemMoves(i, {"applied", "ready", "skipped"})
               /\ AttemptMoves(a, {"applied", "ready", "skipped"})
               /\ SlotMoves(a, {"consumed", "released"})
               /\ GuardMoves(i, {"applied", "none"})
      <3>1. {"applied", "ready", "skipped"} \subseteq ItemState \ Unresolved
        BY DEF ItemState, Unresolved
      <3>2. /\ ItemMoves(i, ItemState \ Unresolved)
            /\ AttemptMoves(a, ItemState \ Unresolved)
            /\ GuardMoves(i, {"none", "applied", "external_applied"})
        BY <2>2, <3>1, Widen
      <3> QED BY <1>1, <2>2, <3>2, Settled
    <2>3. \/ guard' = guard /\ attempt' = attempt /\ ItemMoves(i, {"reconciling"})
               /\ SlotMoves(a, {"held"})
          \/ /\ ItemMoves(i, {"applied", "ready", "skipped"})
             /\ AttemptMoves(a, {"applied", "ready", "skipped"})
             /\ SlotMoves(a, {"consumed", "released"})
             /\ GuardMoves(i, {"applied", "none"})
      BY DEF a, Verdict, ItemMoves, AttemptMoves, SlotMoves, GuardMoves
    <2> QED BY <2>1, <2>2, <2>3
  <1>5. ProcessCarriesAttempt' /\ RetryApplies'
    <2>1. \A b \in Attempt : attempt'[b].item = attempt[b].item
      BY DEF DeskMoves
    <2>2. ProcessCarriesAttempt'
      <3>1. \A b \in 1..made : b \in Attempt
        BY <1>1 DEF TypeOK, Attempt
      <3> QED BY <1>1, <2>1, <3>1 DEF DeskInv, IndInv, ProcessCarriesAttempt, Carries
    <2> QED BY <1>2, <2>2, RetryKept DEF DeskInv, IndInv
  <1>6. AskedHasAttempt'
    <2>1. ASSUME NEW j \in Item, item'[j].state \in {"manual_challenge", "dead"},
                 item'[j].stage = "reconciliation"
          PROVE  /\ item'[j].attempt \in Attempt
                 /\ attempt'[item'[j].attempt].status \in Unresolved
      <3>1. j # i /\ item'[j] = item[j]
        BY <1>2, <2>1 DEF ItemMoves
      <3>2. HasOpenAttempt(j)
        BY <2>1, <3>1 DEF DeskInv, AskedHasAttempt
      <3>3. item[j].attempt # a
        BY <1>1, <3>1, OwnAttempt
      <3> QED BY <1>2, <3>1, <3>2, <3>3 DEF HasOpenAttempt, OpenAttempt, AttemptMoves
    <2> QED BY <2>1 DEF AskedHasAttempt, HasOpenAttempt, OpenAttempt
  <1> QED BY <1>3, <1>4, <1>5, <1>6 DEF IndInv

\* Items the operator sends on keep their attempts.
LEMMA DeskItemsKeep ==
    ASSUME DeskInv, DeskMoves, DeskItems
    PROVE  IndInv' /\ AskedHasAttempt'
  <1>1. /\ TypeOK /\ Coherent
        /\ UNCHANGED <<lease, proc, history, synced, guard, remote>>
    BY DEF DeskInv, IndInv, DeskMoves, DeskItems
  <1>2. TypeOK'
    BY <1>1 DEF TypeOK, DeskItems, lease, remote, history
  <1>3. AttemptsInOrder' /\ SlotFollowsAttempt' /\ GuardFollowsAttempt' /\ ItemOwnsAttempt'
    BY <1>1 DEF Coherent, AttemptsInOrder, SlotFollowsAttempt, GuardFollowsAttempt,
                ItemOwnsAttempt, OpenAttempt, DeskItems, history
  <1>4. \A i \in Item : item'[i].state \in Unresolved =>
          HasOpenAttempt(i) /\ item'[i].attempt = item[i].attempt
    BY <1>1 DEF Coherent, UnresolvedHasAttempt, DeskItems, DeskInv, AskedHasAttempt,
                HasOpenAttempt, Unresolved
  <1>5. Coherent'
    BY <1>1, <1>3, <1>4 DEF Coherent, UnresolvedHasAttempt, HasOpenAttempt, OpenAttempt, history
  <1>6. ProcessCarriesAttempt' /\ RetryApplies'
    BY <1>1 DEF DeskInv, IndInv, ProcessCarriesAttempt, Carries, RetryApplies, DeskItems,
                history
  <1>7. AskedHasAttempt'
    BY <1>1 DEF DeskInv, AskedHasAttempt, HasOpenAttempt, OpenAttempt, DeskItems, history
  <1> QED BY <1>2, <1>5, <1>6, <1>7 DEF IndInv

\* The desk comes and goes, and rows expire.
LEMMA DeskLease ==
    ASSUME DeskInv, DeskComesAndGoes
    PROVE  /\ UNCHANGED <<trigger, proc, item, history, reservation, synced, guard, remote, word>>
           /\ \/ UNCHANGED <<fence, held, desk>>
              \/ /\ fence + 1 \in Run /\ fence' = fence + 1 /\ held' = TRUE
                 /\ desk' = fence + 1
                 /\ held => Expired
              \/ /\ fence' = fence /\ desk' \in {0, desk} /\ desk # 0 /\ held' \in BOOLEAN
                 /\ held' => held /\ fence # desk
                 /\ held /\ fence # desk => held'
  <1>1. fence \in 0..MaxFence /\ held \in BOOLEAN
    BY DEF DeskInv, IndInv, TypeOK
  <1>2. CASE AcquireDesk
    <2>1. /\ fence < MaxFence /\ fence' = fence + 1 /\ held' = TRUE /\ desk' = fence + 1
          /\ UNCHANGED <<word, trigger, proc, item, history, reservation, synced, guard, remote>>
      BY <1>2 DEF AcquireDesk
    <2>2. fence + 1 \in Run
      BY <1>1, <2>1 DEF Run
    <2>3. held => Expired
      BY <1>2 DEF AcquireDesk
    <2> QED BY <2>1, <2>2, <2>3
  <1>3. CASE LeaveDesk
    <2>1. held' \in BOOLEAN /\ (held' <=> held /\ fence # desk)
      BY <1>3 DEF LeaveDesk
    <2> QED BY <1>3, <2>1 DEF LeaveDesk
  <1>4. CASE DeskLeaseExpires
    <2>1. /\ desk # 0 /\ fence = desk /\ held' = FALSE
          /\ UNCHANGED <<fence, desk, word, trigger, proc, item, history, reservation,
                         synced, guard, remote>>
      BY <1>4 DEF DeskLeaseExpires, Current, desks
    <2>2. ~held' /\ held' \in BOOLEAN /\ desk' \in {0, desk}
      BY <2>1
    <2> QED BY <2>1, <2>2
  <1>5. ASSUME NEW i \in Item, TicketExpires(i)
        PROVE  UNCHANGED <<lease, proc, item, history, reservation, synced, guard, remote,
                           word, desk>>
    BY <1>5 DEF TicketExpires, vars
  <1> QED BY <1>2, <1>3, <1>4, <1>5 DEF DeskComesAndGoes, lease

LEMMA DeskLeaseKeeps ==
    ASSUME DeskInv, DeskComesAndGoes
    PROVE  DeskInv'
  <1>1. UNCHANGED <<trigger, proc, item, history, reservation, synced, guard, remote>>
    BY DeskLease
  <1>2. TypeOK'
    <2>1. fence \in 0..MaxFence /\ held \in BOOLEAN
      BY DEF DeskInv, IndInv, TypeOK
    <2>2. held' \in BOOLEAN
      BY <2>1, DeskLease
    <2>3. fence' = fence \/ fence' \in Run
      BY DeskLease
    <2>4. fence' \in 0..MaxFence
      BY <2>1, <2>3 DEF Run
    <2> QED BY <1>1, <2>2, <2>4 DEF DeskInv, IndInv, TypeOK, history, remote
  <1>3. Coherent'
    BY <1>1, Untouched DEF DeskInv, IndInv
  <1>4. ProcessCarriesAttempt' /\ RetryApplies'
    BY <1>1 DEF DeskInv, IndInv, ProcessCarriesAttempt, Carries, RetryApplies, history
  <1>5. PostInv'
    BY <1>1 DEF DeskInv, PostInv, OnlyMadeIsPosted, AcceptedIsHeld, history, remote
  <1>6. AskedHasAttempt'
    BY <1>1 DEF DeskInv, AskedHasAttempt, HasOpenAttempt, OpenAttempt, history
  <1>7. DeskHasNoRun'
    <2>1. fence \in 0..MaxFence
      BY DEF DeskInv, IndInv, TypeOK
    <2>2. \/ fence' = fence + 1 /\ desk' = fence + 1
          \/ fence' = fence /\ desk' \in {0, desk}
      BY DeskLease
    <2>3. /\ desk' \in 0..fence'
          /\ \A g \in Run : g = desk' \/ g > fence' => g = desk \/ g > fence
      BY <2>1, <2>2 DEF DeskInv, DeskHasNoRun, Run
    <2> QED BY <1>1, <2>3 DEF DeskInv, DeskHasNoRun
  <1> QED BY <1>2, <1>3, <1>4, <1>5, <1>6, <1>7 DEF DeskInv, IndInv

\* Every step of the account and of its operator keeps the rows together.
LEMMA DeskNextInv == DeskInv /\ [DeskNext]_<<vars, desks>> => DeskInv'
  <1> SUFFICES ASSUME DeskInv, [DeskNext]_<<vars, desks>> PROVE DeskInv'
    OBVIOUS
  <1>1. CASE RunsStep \/ UNCHANGED <<vars, desks>>
    <2>1. [Next]_vars /\ UNCHANGED desk
      BY <1>1 DEF RunsStep, desks
    <2> QED BY <2>1, NextInv, StepPost, RunsLeaveDesk, RunsAsk DEF DeskInv
  <1>2. CASE DeskRowStep
    <2>1. DeskMoves
      BY <1>2, DeskRowMoves
    <2>2. IndInv' /\ AskedHasAttempt'
      BY <1>2, <2>1, DeskRowKinds, VerdictKeeps, DeskItemsKeep
    <2>3. PostInv'
      BY <2>1 DEF DeskMoves, DeskInv, PostInv, OnlyMadeIsPosted, AcceptedIsHeld, remote
    <2>4. DeskHasNoRun'
      BY <2>1 DEF DeskMoves, DeskInv, DeskHasNoRun, lease
    <2> QED BY <2>2, <2>3, <2>4 DEF DeskInv
  <1>3. CASE DeskComesAndGoes
    BY <1>3, DeskLeaseKeeps
  <1> QED BY <1>1, <1>2, <1>3, DeskKinds DEF DeskNext

LEMMA DeskInitInv == DeskInit => DeskInv
  <1> SUFFICES ASSUME DeskInit PROVE DeskInv
    OBVIOUS
  <1>1. Init /\ desk = 0
    BY DEF DeskInit
  <1>2. IndInv
    BY <1>1, InitInv
  <1>3. PostInv /\ DeskHasNoRun /\ AskedHasAttempt
    BY <1>1 DEF Init, PostInv, OnlyMadeIsPosted, AcceptedIsHeld, DeskHasNoRun,
                AskedHasAttempt
  <1> QED BY <1>2, <1>3 DEF DeskInv

\* The rows of an attempt stay together with an operator at the desk, too.
THEOREM DeskInductive == DeskSpec => []DeskInv
  BY DeskInitInv, DeskNextInv, PTL DEF DeskSpec

\* A verdict of the operator stands: neither a run nor the desk decides an
\* attempt again.
THEOREM VerdictsStand == DeskSpec => VerdictStands
  <1>1. DeskInv /\ [DeskNext]_<<vars, desks>> =>
          [\A a \in 1..made : ~OpenAttempt(a) => attempt'[a] = attempt[a]]_<<vars, desks>>
    <2> SUFFICES ASSUME DeskInv, DeskNext, NEW a \in 1..made, ~OpenAttempt(a)
                 PROVE  attempt'[a] = attempt[a]
      BY DEF vars, history
    <2>1. CASE RunsStep
      BY <2>1, StepKeepsDecisions DEF RunsStep, DeskInv
    <2>2. a \in Attempt
      BY DEF DeskInv, IndInv, TypeOK, Attempt
    <2>3. CASE DeskRowStep
      BY <2>2, <2>3, DeskRowMoves DEF DeskMoves
    <2>4. CASE DeskComesAndGoes
      BY <2>4, DeskLease DEF history
    <2> QED BY <2>1, <2>3, <2>4, DeskKinds DEF DeskNext
  <1> QED BY <1>1, DeskInductive, PTL DEF DeskSpec, VerdictStands
------------------------------------------------------------------------------
(* What is on the wire, with a desk *)

\* What the desk touches is not on the wire, and no run is in charge.
LEMMA DeskRowWire ==
    ASSUME DeskInv, WireInv, DeskRowStep
    PROVE  WireInv'
  <1>1. /\ DeskMoves /\ desk # 0 /\ held /\ fence = desk
        /\ UNCHANGED <<fence, held, proc, made, post>>
    BY DeskRowMoves DEF DeskMoves, Current, lease, remote
  <1>2. desk \in Run /\ proc[desk] = NoProc
    <2>1. desk \in Run
      BY <1>1 DEF DeskInv, IndInv, TypeOK, Run
    <2> QED BY <2>1 DEF DeskInv, DeskHasNoRun
  <1>3. \A b \in 1..made : b \in Attempt /\ attempt[b].item \in Item
    BY DEF DeskInv, IndInv, TypeOK, Coherent, AttemptsInOrder, Attempt
  <1>4. \A b \in Attempt : attempt'[b].item = attempt[b].item
    BY <1>1 DEF DeskMoves
  <1>5. \A g \in Run : ~Sending(g)
    <2>1. \A g \in Run : Sending(g) => g = desk
      BY <1>1 DEF WireInv, SenderIsInCharge, Valid, Current
    <2> QED BY <1>2, <2>1 DEF Sending, NoProc
  <1>6. ItemHasLastAttempt'
    BY <1>1, <1>3, <1>4 DEF WireInv, ItemHasLastAttempt, DeskMoves
  <1>7. SenderIsInCharge' /\ ProcessesInOrder'
    BY <1>1, <1>5 DEF WireInv, SenderIsInCharge, ProcessesInOrder, Sending
  <1>8. WireIsAwaited'
    <2>1. ASSUME NEW a \in Attempt, post[a] = "wire"
          PROVE  /\ OpenAttempt(a)' /\ item'[attempt'[a].item].attempt = a
                 /\ InFlight(a)' \/ Deferred(a)'
      <3>1. /\ attempt[a].item \in Item /\ OpenAttempt(a)
            /\ item[attempt[a].item].attempt = a
            /\ InFlight(a) \/ Deferred(a)
        BY <2>1, ReachesItem DEF WireInv, WireIsAwaited, DeskInv, PostInv
      <3>2. item[attempt[a].item].state \in {"applying", "reconciling"}
        BY <3>1 DEF InFlight, Deferred
      <3>3. item'[attempt[a].item] = item[attempt[a].item] /\ attempt'[a] = attempt[a]
        BY <1>1, <3>1, <3>2 DEF DeskMoves
      <3> QED BY <1>1, <3>1, <3>3 DEF InFlight, Deferred, OpenAttempt
    <2> QED BY <1>1, <2>1 DEF WireIsAwaited
  <1>9. DecidedIsSettled'
    <2>1. ASSUME NEW g \in Run, NEW i \in Item, Current(g)', Deciding(g, i)'
          PROVE  FALSE
      <3>1. g = desk /\ proc'[g] = NoProc
        BY <1>1, <1>2, <2>1 DEF Current
      <3> QED BY <2>1, <3>1 DEF Deciding, NoProc
    <2> QED BY <2>1 DEF DecidedIsSettled
  <1> QED BY <1>6, <1>7, <1>8, <1>9 DEF WireInv

\* The desk takes a lease as a run does, and gives up no run's.
LEMMA DeskLeaseWire ==
    ASSUME Timely, DeskInv, WireInv, DeskComesAndGoes
    PROVE  WireInv'
  <1>1. UNCHANGED <<trigger, proc, item, made, attempt, reservation, guard, post>>
    BY DeskLease DEF history, remote
  <1>2. fence \in 0..MaxFence /\ held \in BOOLEAN
    BY DEF DeskInv, IndInv, TypeOK
  <1>3. CASE UNCHANGED <<fence, held>>
    BY <1>1, <1>3 DEF WireInv, ItemHasLastAttempt, SenderIsInCharge, ProcessesInOrder,
                      WireIsAwaited, DecidedIsSettled, Sending, Valid, Current, InFlight,
                      Deferred, OpenAttempt, Deciding
  <1>4. CASE /\ fence + 1 \in Run /\ fence' = fence + 1
             /\ held => Expired
    <2>1. held => /\ proc[fence].pc \notin {"prepared", "posting"}
                  /\ \A a \in Attempt : attempt[a].run = fence => post[a] # "wire"
      BY <1>4 DEF Expired
    <2>2. \A g \in Run : ~Sending(g)
      <3>1. \A g \in Run : Sending(g) => held /\ fence = g
        BY DEF WireInv, SenderIsInCharge, Valid, Current
      <3> QED BY <2>1, <3>1 DEF Sending
    <2>3. ItemHasLastAttempt'
      BY <1>1 DEF WireInv, ItemHasLastAttempt
    <2>4. SenderIsInCharge'
      BY <1>1, <2>2 DEF SenderIsInCharge, Sending
    <2>5. ProcessesInOrder'
      BY <1>1, <1>2, <1>4 DEF WireInv, ProcessesInOrder, Run
    <2>6. WireIsAwaited'
      BY <1>1, <2>1 DEF WireInv, WireIsAwaited, InFlight, Deferred, OpenAttempt
    <2>7. DecidedIsSettled'
      <3>1. ASSUME NEW g \in Run, NEW i \in Item, Current(g)', Deciding(g, i)'
            PROVE  FALSE
        <4>1. proc[g] = NoProc
          BY <1>2, <1>4, <3>1 DEF Current, DeskInv, DeskHasNoRun
        <4> QED BY <1>1, <3>1, <4>1 DEF Deciding, NoProc
      <3> QED BY <3>1 DEF DecidedIsSettled
    <2> QED BY <2>3, <2>4, <2>5, <2>6, <2>7 DEF WireInv
  <1>5. CASE /\ fence' = fence /\ desk # 0
             /\ held' => held /\ fence # desk
             /\ held /\ fence # desk => held'
    <2>1. desk \in Run /\ proc[desk] = NoProc
      <3>1. desk \in Run
        BY <1>2, <1>5 DEF DeskInv, DeskHasNoRun, Run
      <3> QED BY <3>1 DEF DeskInv, DeskHasNoRun
    <2>2. \A g \in Run : Sending(g) => held /\ fence = g /\ g # desk
      <3>1. \A g \in Run : Sending(g) => held /\ fence = g
        BY DEF WireInv, SenderIsInCharge, Valid, Current
      <3>2. ~Sending(desk)
        BY <2>1 DEF Sending, NoProc
      <3> QED BY <3>1, <3>2
    <2>3. \A a \in Attempt : InFlight(a) => held /\ fence # desk
      BY <2>1 DEF InFlight, NoProc
    <2>4. ItemHasLastAttempt' /\ ProcessesInOrder'
      BY <1>1, <1>5 DEF WireInv, ItemHasLastAttempt, ProcessesInOrder
    <2>5. SenderIsInCharge'
      <3>1. ASSUME NEW g \in Run, Sending(g)
            PROVE  /\ Valid(g)' /\ attempt'[proc'[g].attempt].run = g
                   /\ item'[proc'[g].item].state = "applying"
        <4>1. held' /\ fence' = g
          BY <1>5, <2>2, <3>1
        <4> QED BY <1>1, <3>1, <4>1 DEF WireInv, SenderIsInCharge, Valid, Current
      <3> QED BY <1>1, <3>1 DEF SenderIsInCharge, Sending
    <2>6. WireIsAwaited'
      BY <1>1, <1>5, <2>3 DEF WireInv, WireIsAwaited, InFlight, Deferred, OpenAttempt
    <2>7. DecidedIsSettled'
      BY <1>1, <1>5 DEF WireInv, DecidedIsSettled, Current, Deciding
    <2> QED BY <2>4, <2>5, <2>6, <2>7 DEF WireInv
  <1> QED BY <1>3, <1>4, <1>5, DeskLease

\* Every step of the account and of its operator keeps what is on the wire
\* awaited.
LEMMA DeskStepWire ==
    ASSUME Timely, DeskInv, WireInv, [DeskNext]_<<vars, desks>>
    PROVE  WireInv'
  <1>1. CASE RunsStep \/ UNCHANGED <<vars, desks>>
    <2>1. [Next]_vars
      BY <1>1 DEF RunsStep
    <2> QED BY <2>1, StepWire DEF DeskInv
  <1> QED BY <1>1, DeskRowWire, DeskLeaseWire, DeskKinds DEF DeskNext
------------------------------------------------------------------------------
(* A repeated application takes the operator's word *)

\* An application that HH has, or may still get, and that the operator did not
\* deny, keeps its vacancy shut, is on record, or has ended its item.
IsSettled(a) ==
    LET i == attempt[a].item
    IN  \/ guard[VacancyOf[i]] = [status |-> "active", owner |-> a]
        \/ attempt[a].status = "applied"
        \/ item[i].state = "skipped" /\ item[i].attempt = a
ReachedIsSettled == \A a \in Attempt : MayReach(a) /\ a \notin word => IsSettled(a)

\* A later attempt of its item is neither under way nor sent.
ReachedIsLast ==
    \A a, b \in Attempt :
        /\ a < b /\ attempt[a].item = attempt[b].item
        /\ MayReach(a) /\ a \notin word
        => ~OpenAttempt(b) /\ post[b] = "none"

WordInv == ReachedIsSettled /\ ReachedIsLast

\* Rows that leave an attempt settled.
LEMMA StaysSettled ==
    ASSUME NEW b \in Attempt, IsSettled(b), attempt'[b].item = attempt[b].item,
           guard[VacancyOf[attempt[b].item]] = [status |-> "active", owner |-> b] =>
             guard'[VacancyOf[attempt[b].item]] = guard[VacancyOf[attempt[b].item]],
           attempt[b].status = "applied" => attempt'[b] = attempt[b],
           item[attempt[b].item].state = "skipped" /\ item[attempt[b].item].attempt = b =>
             /\ item'[attempt[b].item].state = "skipped"
             /\ item'[attempt[b].item].attempt = b
    PROVE  IsSettled(b)'
  BY DEF IsSettled

\* A run decides an attempt with its vacancy's guard in hand.
LEMMA DecisionSettles ==
    ASSUME IndInv, PostInv, WireInv, WordInv, word' = word, NEW f \in Run, Decision(f)
    PROVE  WordInv'
  <1> DEFINE i == proc[f].item
             a == proc[f].attempt
  <1>1. /\ proc[f].pc \in {"posting", "reading"} /\ Valid(f) /\ item[i].attempt = a
        /\ i \in Item /\ a \in Attempt /\ attempt[a].item = i /\ OpenAttempt(a)
        /\ Outcome(f) /\ UNCHANGED <<made, post>>
        /\ guard[VacancyOf[i]] = [status |-> "active", owner |-> a]
    BY DecisionStep, ValidCarries DEF PostInv, Valid, remote
  <1>2. /\ \A j \in Item : item'[j].attempt = item[j].attempt
        /\ \A j \in Item \ {i} : item'[j] = item[j]
        /\ \A b \in Attempt : attempt'[b].item = attempt[b].item
        /\ \A b \in Attempt \ {a} : attempt'[b] = attempt[b]
        /\ \A v \in Vacancy \ {VacancyOf[i]} : guard'[v] = guard[v]
    BY <1>1 DEF Outcome, Applied, ExternallyApplied, Absent, Refused, Undecided, Unknown,
                ItemMoves, AttemptMoves, GuardMoves
  <1>3. \A b \in Attempt : MayReach(b) => b \in 1..made /\ attempt[b].item \in Item
    BY ReachesItem DEF MayReach, PostInv
  <1>4. ASSUME MayReach(a)
        PROVE  \/ guard'[VacancyOf[i]] = [status |-> "active", owner |-> a]
               \/ attempt'[a].status = "applied"
               \/ item'[i].state = "skipped" /\ item'[i].attempt = a
    <2>1. guard'[VacancyOf[i]].status # "none"
      BY <1>1, <1>4, NotReached
    <2>2. CASE Applied(f)
      BY <2>2 DEF Applied, AttemptMoves
    <2>3. CASE ExternallyApplied(f)
      BY <1>1, <1>2, <2>3 DEF ExternallyApplied, ItemMoves
    <2>4. CASE Absent(f) \/ Refused(f)
      BY <2>1, <2>4 DEF Absent, Refused, GuardMoves
    <2>5. CASE Undecided(f) \/ Unknown(f)
      BY <1>1, <2>5 DEF Undecided, Unknown
    <2> QED BY <1>1, <2>2, <2>3, <2>4, <2>5 DEF Outcome
  <1>5. ASSUME NEW b \in Attempt, MayReach(b), b \notin word PROVE IsSettled(b)'
    <2>1. CASE b = a
      BY <1>1, <1>2, <1>4, <1>5, <2>1 DEF IsSettled
    <2>2. CASE b # a
      <3>1. IsSettled(b) /\ attempt[b].item \in Item /\ VacancyOf[attempt[b].item] \in Vacancy
        BY <1>3, <1>5 DEF WordInv, ReachedIsSettled
      <3>2. guard[VacancyOf[attempt[b].item]] = [status |-> "active", owner |-> b] =>
              VacancyOf[attempt[b].item] # VacancyOf[i]
        BY <1>1, <2>2
      <3>3. item[attempt[b].item].attempt = b => attempt[b].item # i
        BY <1>1, <2>2
      <3> QED BY <1>2, <2>2, <3>1, <3>2, <3>3, StaysSettled
    <2> QED BY <2>1, <2>2
  <1>6. \A b \in Attempt : OpenAttempt(b)' => OpenAttempt(b)
    BY <1>1, <1>2 DEF OpenAttempt
  <1>7. ReachedIsSettled'
    <2>1. \A b \in Attempt : MayReach(b)' => MayReach(b)
      BY <1>1 DEF MayReach
    <2> QED BY <1>5, <2>1 DEF ReachedIsSettled
  <1>8. ReachedIsLast'
    BY <1>1, <1>2, <1>6 DEF WordInv, ReachedIsLast, MayReach
  <1> QED BY <1>7, <1>8 DEF WordInv

\* A new attempt finds nothing of its item at HH that was not denied.
LEMMA InsertSettles ==
    ASSUME IndInv, PostInv, WireInv, WordInv, word' = word, NEW f \in Run, Inserts(f)
    PROVE  WordInv'
  <1> DEFINE i == proc[f].item
             a == made + 1
  <1>1. /\ i \in Item /\ item[i].state = "ready" /\ VacancyOf[i] \in Vacancy
        /\ a \in Attempt /\ made' = a /\ attempt'[a].item = i
        /\ attempt'[a].status \in {"applying", "retry_wait"}
        /\ \A b \in Attempt \ {a} : attempt'[b] = attempt[b]
        /\ \A j \in Item \ {i} : item'[j] = item[j]
        /\ UNCHANGED post
    BY InsertStep DEF remote
  <1>2. /\ post[a] = "none"
        /\ \A b \in Attempt : MayReach(b) =>
             b \in 1..made /\ b # a /\ attempt[b].item \in Item
    <2>1. \A b \in Attempt : MayReach(b) => b \in 1..made /\ attempt[b].item \in Item
      BY ReachesItem DEF MayReach, PostInv
    <2> QED BY <1>1, <2>1 DEF PostInv, OnlyMadeIsPosted, IndInv, TypeOK
  <1>3. guard[VacancyOf[i]].status = "active" => guard' = guard
    BY DEF Inserts, RenderFails, PrepareDispatch, GuardAllows
  <1>4. \A v \in Vacancy \ {VacancyOf[i]} : guard'[v] = guard[v]
    BY DEF Inserts, RenderFails, PrepareDispatch, IndInv, TypeOK
  <1>5. ASSUME NEW b \in Attempt, MayReach(b), b \notin word PROVE IsSettled(b)'
    <2>1. /\ IsSettled(b) /\ attempt[b].item \in Item /\ VacancyOf[attempt[b].item] \in Vacancy
          /\ attempt'[b] = attempt[b]
      BY <1>1, <1>2, <1>5 DEF WordInv, ReachedIsSettled
    <2>2. guard[VacancyOf[attempt[b].item]] = [status |-> "active", owner |-> b] =>
            guard'[VacancyOf[attempt[b].item]] = guard[VacancyOf[attempt[b].item]]
      <3>1. ASSUME guard[VacancyOf[attempt[b].item]] = [status |-> "active", owner |-> b]
            PROVE  guard'[VacancyOf[attempt[b].item]] = guard[VacancyOf[attempt[b].item]]
        <4>1. guard[VacancyOf[attempt[b].item]].status = "active"
          BY <3>1
        <4> QED BY <1>3, <1>4, <2>1, <4>1
      <3> QED BY <3>1
    <2>3. item[attempt[b].item].state = "skipped" => item'[attempt[b].item] = item[attempt[b].item]
      BY <1>1, <2>1
    <2> QED BY <2>1, <2>2, <2>3, StaysSettled
  <1>6. ASSUME NEW b \in Attempt, MayReach(b), b \notin word, attempt[b].item = i
        PROVE  ~PrepareDispatch(f)
    <2>1. IsSettled(b)
      BY <1>6 DEF WordInv, ReachedIsSettled
    <2>2. guard[VacancyOf[i]] = [status |-> "active", owner |-> b] =>
            guard[VacancyOf[i]].status = "active"
      OBVIOUS
    <2> QED BY <1>1, <1>6, <2>1, <2>2 DEF IsSettled, PrepareDispatch, GuardAllows, AlreadyApplied
  <1>7. RenderFails(f) => attempt'[a].status = "retry_wait"
    BY <1>1, NewAttemptIsNext DEF RenderFails, IndInv, ItemState
  <1>8. ReachedIsSettled'
    <2>1. \A b \in Attempt : MayReach(b)' => MayReach(b)
      BY <1>1 DEF MayReach
    <2> QED BY <1>5, <2>1 DEF ReachedIsSettled
  <1>9. ReachedIsLast'
    <2>1. ASSUME NEW b \in Attempt, NEW c \in Attempt, b < c,
                 attempt'[b].item = attempt'[c].item, MayReach(b), b \notin word
          PROVE  ~OpenAttempt(c)' /\ post[c] = "none"
      <3>1. b # a /\ attempt'[b] = attempt[b]
        BY <1>1, <1>2, <2>1
      <3>2. CASE c = a
        <4>1. RenderFails(f)
          BY <1>1, <1>6, <2>1, <3>1, <3>2 DEF Inserts
        <4> QED BY <1>2, <1>7, <3>2, <4>1 DEF OpenAttempt, Unresolved
      <3>3. CASE c # a
        BY <1>1, <2>1, <3>1, <3>3 DEF WordInv, ReachedIsLast, OpenAttempt
      <3> QED BY <3>2, <3>3
    <2> QED BY <1>1, <2>1 DEF ReachedIsLast, MayReach
  <1> QED BY <1>8, <1>9 DEF WordInv

\* What is sent is the last attempt of its item, with the guard in hand.
LEMMA SendSettles ==
    ASSUME IndInv, PostInv, WireInv, WordInv, word' = word, NEW f \in Run, SendPost(f)
    PROVE  WordInv'
  <1> DEFINE a == proc[f].attempt
  <1>1. /\ UNCHANGED <<item, made, attempt, guard>>
        /\ a \in Attempt /\ attempt[a].item = proc[f].item
        /\ \A b \in Attempt \ {a} : post'[b] = post[b]
    BY DEF SendPost, history, IndInv, TypeOK, ProcessCarriesAttempt, Carries, Attempt
  <1>2. /\ item[attempt[a].item].attempt = a /\ OpenAttempt(a)
        /\ guard[VacancyOf[attempt[a].item]] = [status |-> "active", owner |-> a]
    <2>1. Valid(f)
      BY DEF SendPost, WireInv, SenderIsInCharge, Sending
    <2> QED BY <1>1, <2>1 DEF Valid, OpenAttempt
  <1>3. \A b \in Attempt : OpenAttempt(b) \/ post[b] # "none" => b \in 1..made
    BY ReachesItem DEF PostInv, IndInv, TypeOK, Coherent, AttemptsInOrder, OpenAttempt,
                       Unresolved, Attempt
  <1>4. ReachedIsSettled'
    BY <1>1, <1>2 DEF WordInv, ReachedIsSettled, IsSettled, MayReach
  <1>5. ReachedIsLast'
    <2>1. ASSUME NEW b \in Attempt, NEW c \in Attempt, b < c,
                 attempt[b].item = attempt[c].item, MayReach(b)', b \notin word
          PROVE  ~OpenAttempt(c) /\ post'[c] = "none"
      <3>1. CASE b = a
        <4>1. ASSUME c \in 1..made PROVE FALSE
          <5>1. item[attempt[c].item].attempt >= c
            BY <4>1 DEF WireInv, ItemHasLastAttempt
          <5> QED BY <1>2, <2>1, <3>1, <5>1 DEF Attempt
        <4> QED BY <1>1, <1>3, <2>1, <3>1, <4>1 DEF Attempt
      <3>2. CASE b # a
        <4>1. ~OpenAttempt(c) /\ post[c] = "none"
          BY <1>1, <2>1, <3>2 DEF WordInv, ReachedIsLast, MayReach
        <4>2. c # a
          BY <1>2, <4>1
        <4> QED BY <1>1, <4>1, <4>2
      <3> QED BY <3>1, <3>2
    <2> QED BY <1>1, <2>1 DEF ReachedIsLast, OpenAttempt
  <1> QED BY <1>4, <1>5 DEF WordInv

\* HH, time and the steps that leave the attempts alone.
LEMMA RunsSettle ==
    ASSUME IndInv, PostInv, WireInv, WordInv, word' = word, [Next]_vars
    PROVE  WordInv'
  <1>1. CASE \/ \E b \in Attempt : Arrive(b) \/ Refuse(b)
             \/ \E i \in Item : ApplyExternally(i)
             \/ Quiet
    <2>1. UNCHANGED <<attempt, guard>>
      BY <1>1 DEF Arrive, Refuse, ApplyExternally, Quiet, history
    <2>2. \A b \in Attempt : /\ MayReach(b)' => MayReach(b)
                             /\ post[b] = "none" => post'[b] = "none"
      BY <1>1 DEF Arrive, Refuse, ApplyExternally, Quiet, remote, MayReach, IndInv, TypeOK
    <2>3. \A j \in Item :
            /\ item'[j].attempt = item[j].attempt
            /\ item[j].state = "skipped" => item'[j].state = "skipped"
      BY <1>1 DEF Arrive, Refuse, ApplyExternally, Quiet
    <2>4. \A b \in Attempt : MayReach(b) => attempt[b].item \in Item
      BY ReachesItem DEF MayReach, PostInv
    <2>5. ReachedIsSettled'
      BY <2>1, <2>2, <2>3, <2>4 DEF WordInv, ReachedIsSettled, IsSettled
    <2>6. ReachedIsLast'
      BY <2>1, <2>2 DEF WordInv, ReachedIsLast, OpenAttempt
    <2> QED BY <2>5, <2>6 DEF WordInv
  <1> QED BY <1>1, DecisionSettles, InsertSettles, SendSettles, StepKinds

\* The desk gives a guard back, or decides an attempt, only with a word on it.
LEMMA DeskSettles ==
    ASSUME DeskInv, WordInv, DeskStep
    PROVE  WordInv'
  <1>0. \A b \in Attempt : MayReach(b) => attempt[b].item \in Item
    BY ReachesItem DEF MayReach, DeskInv, PostInv
  <1>1. CASE DeskComesAndGoes
    <2>1. UNCHANGED <<item, attempt, guard, post, word>>
      BY <1>1, DeskLease DEF history, remote
    <2> QED BY <2>1 DEF WordInv, ReachedIsSettled, ReachedIsLast, IsSettled, MayReach,
                        OpenAttempt
  <1>2. CASE DeskRowStep /\ DeskItems
    <2>1. DeskMoves /\ UNCHANGED <<attempt, guard, post, word>>
      BY <1>2, DeskRowMoves DEF DeskMoves, DeskItems, history, remote
    <2>2. \A j \in Item : item[j].state = "skipped" => item'[j] = item[j]
      BY <2>1 DEF DeskMoves
    <2> QED BY <1>0, <2>1, <2>2 DEF WordInv, ReachedIsSettled, ReachedIsLast, IsSettled,
                                    MayReach, OpenAttempt
  <1>3. ASSUME DeskRowStep, NEW i \in Item, Verdict(i) PROVE WordInv'
    <2> DEFINE a == item[i].attempt
    <2>1. /\ DeskMoves /\ UNCHANGED post
          /\ a \in Attempt /\ OpenAttempt(a) /\ attempt[a].item = i
          /\ guard[VacancyOf[i]] = [status |-> "active", owner |-> a]
          /\ item[i].state \in {"manual_challenge", "dead"}
      <3>1. DeskMoves /\ UNCHANGED post
        BY <1>3, DeskRowMoves DEF DeskMoves, remote
      <3>2. /\ a \in Attempt /\ OpenAttempt(a)
            /\ item[i].state \in {"manual_challenge", "dead"}
        BY <1>3 DEF Verdict
      <3>3. attempt[a].item = i
        BY <3>2, OwnAttempt DEF DeskInv, IndInv
      <3> QED BY <3>1, <3>2, <3>3 DEF DeskInv, IndInv, Coherent, GuardFollowsAttempt
    <2>2. /\ item'[i].attempt = a
          /\ \A j \in Item \ {i} : item'[j] = item[j]
          /\ \A b \in Attempt \ {a} : attempt'[b] = attempt[b]
          /\ \A v \in Vacancy \ {VacancyOf[i]} : guard'[v] = guard[v]
          /\ attempt'[a].item = i
          /\ word \subseteq word'
      BY <1>3, <2>1 DEF Verdict, ItemMoves, AttemptMoves, GuardMoves
    <2>3. a \notin word' => \/ guard'[VacancyOf[i]] = guard[VacancyOf[i]]
                            \/ attempt'[a].status = "applied"
      BY <1>3 DEF Verdict, AttemptMoves
    <2>4. ASSUME NEW b \in Attempt, MayReach(b), b \notin word' PROVE IsSettled(b)'
      <3>1. CASE b = a
        BY <2>1, <2>2, <2>3, <2>4, <3>1 DEF IsSettled
      <3>2. CASE b # a
        <4>1. IsSettled(b) /\ attempt[b].item \in Item /\ VacancyOf[attempt[b].item] \in Vacancy
          BY <1>0, <2>2, <2>4 DEF WordInv, ReachedIsSettled
        <4>2. guard[VacancyOf[attempt[b].item]] = [status |-> "active", owner |-> b] =>
                VacancyOf[attempt[b].item] # VacancyOf[i]
          BY <2>1, <3>2
        <4>3. item[attempt[b].item].attempt = b => attempt[b].item # i
          BY <3>2
        <4> QED BY <2>2, <3>2, <4>1, <4>2, <4>3, StaysSettled
      <3> QED BY <3>1, <3>2
    <2>5. \A b \in Attempt : OpenAttempt(b)' => OpenAttempt(b)
      BY <2>1, <2>2 DEF OpenAttempt
    <2>6. ReachedIsSettled'
      <3>1. \A b \in Attempt : MayReach(b)' => MayReach(b)
        BY <2>1 DEF MayReach
      <3> QED BY <2>4, <3>1 DEF ReachedIsSettled
    <2>7. ReachedIsLast'
      <3>1. \A b \in Attempt : attempt'[b].item = attempt[b].item
        BY <2>1, <2>2
      <3> QED BY <2>1, <2>2, <2>5, <3>1 DEF WordInv, ReachedIsLast, MayReach
    <2> QED BY <2>6, <2>7 DEF WordInv
  <1> QED BY <1>1, <1>2, <1>3, DeskKinds, DeskRowKinds

\* A second POST for an item HH has accepted takes the operator's word that the
\* first was not applied; no crash, lost answer, expiry, requeue or completed
\* login lets one through.
THEOREM RepeatsTakeAVerdict ==
    ASSUME Timely PROVE DeskSpec => []RepeatNeedsVerdict
  <1>1. DeskInit => WireInv /\ WordInv
    <2>1. DeskInit => WireInv
      BY InitWire DEF DeskInit
    <2>2. DeskInit => WordInv
      BY DEF DeskInit, Init, WordInv, ReachedIsSettled, ReachedIsLast, MayReach
    <2> QED BY <2>1, <2>2
  <1>2. DeskInv /\ WireInv /\ WordInv /\ [DeskNext]_<<vars, desks>> => (WireInv /\ WordInv)'
    <2> SUFFICES ASSUME DeskInv, WireInv, WordInv, [DeskNext]_<<vars, desks>>
                 PROVE  (WireInv /\ WordInv)'
      OBVIOUS
    <2>1. WireInv'
      BY DeskStepWire
    <2>2. CASE RunsStep \/ UNCHANGED <<vars, desks>>
      <3>1. [Next]_vars /\ word' = word
        BY <2>2 DEF RunsStep, desks
      <3> QED BY <2>1, <3>1, RunsSettle DEF DeskInv
    <2> QED BY <2>1, <2>2, DeskSettles DEF DeskNext
  <1>3. WordInv => RepeatNeedsVerdict
    BY DEF WordInv, ReachedIsLast, RepeatNeedsVerdict, MayReach
  <1> QED BY <1>1, <1>2, <1>3, DeskInductive, PTL DEF DeskSpec
------------------------------------------------------------------------------
(* Held slots keep somebody who can decide them *)

\* An item that waits for the operator is linked to an open row, its own or an
\* account-wide one of another waiting item; a dead one only to its own question
\* that expired.
LinksInOrder ==
    \A i \in Item :
        /\ item[i].state = "manual_challenge" => link[i] # NoItem
        /\ OpenRow(i) => link[i] = i
        /\ link[i] # NoItem =>
             /\ link[link[i]] = link[i]
             /\ ticket[link[i]].kind = "ambiguous_application" => link[i] = i
             /\ \/ item[i].state = "manual_challenge" /\ OpenRow(link[i])
                \/ /\ item[i].state = "dead"
                   /\ ticket[link[i]].kind = "ambiguous_application"
                   /\ ticket[link[i]].status = "expired"

\* The row asks what the item waits for.
RowsAskForItems ==
    \A i \in Item : item[i].state = "manual_challenge" =>
        /\ item[i].challenge \in {"manual", "manual_auth", "ambiguous_application"}
        /\ ticket[link[i]].kind = "ambiguous_application"
             <=> item[i].challenge = "ambiguous_application"

\* An item is put before the operator because HH wants something more than the
\* application only after its attempt was closed.
RefusedIsClosed ==
    \A i \in Item : item[i].state = "manual_challenge" /\ item[i].challenge = "manual"
                       => ~HasOpenAttempt(i)

\* The item of an attempt is in flight, under reconciliation, or linked to a
\* row.
InSight(a) ==
    LET i == attempt[a].item
    IN  /\ item[i].attempt = a
        /\ item[i].state \in {"applying", "reconciling", "manual_challenge", "dead"}
        /\ item[i].state = "dead" => link[i] # NoItem
Sighted(a) == OpenAttempt(a) => InSight(a)

\* Reservations carry tokens that were given out, and the desk has made none of
\* a waiting item its own.
SlotsOfOthers ==
    /\ \A a \in Attempt : reservation[a].fence <= fence
    /\ \A a \in Attempt :
         OpenAttempt(a) /\ item[attempt[a].item].state = "manual_challenge"
             /\ desk # 0 /\ Current(desk) => reservation[a].fence # desk

RowsInv == DeskTypeOK /\ LinksInOrder /\ RowsAskForItems
HeldInv == RowsInv /\ RefusedIsClosed /\ SlotsOfOthers

\* What a run asks the operator, and whose reservations a decision touches.
LEMMA DecisionQuestion ==
    ASSUME IndInv, NEW f \in Run, Decision(f),
           proc[f].item \in Item, proc[f].attempt \in Attempt, Valid(f)
    PROVE  /\ \A a \in Attempt : reservation'[a].fence = reservation[a].fence
           /\ item'[proc[f].item].state = "manual_challenge" =>
                \/ item'[proc[f].item].challenge \in {"manual_auth", "ambiguous_application"}
                \/ /\ item'[proc[f].item].challenge = "manual"
                   /\ attempt'[proc[f].attempt].status \notin Unresolved
  <1> DEFINE i == proc[f].item
             a == proc[f].attempt
  <1>1. TypeOK /\ attempt \in [Attempt -> AttemptRecord] /\ item[i].state \in Unresolved
    BY DEF IndInv, TypeOK, Valid
  <1>2. \A state : Reserve(a, state) =>
          \A b \in Attempt : reservation'[b].fence = reservation[b].fence
    BY <1>1 DEF Reserve, TypeOK, ReservationRecord
  <1>3. ASSUME NEW state, NEW stage, NEW due, NEW challenge,
               MoveItem(i, state, stage, due, challenge)
                 \/ CheckedItem(i, state, stage, due, challenge)
        PROVE  item'[i].state = state /\ item'[i].challenge = challenge
    <2>1. CASE MoveItem(i, state, stage, due, challenge)
      BY <1>1, <2>1 DEF MoveItem, TypeOK, ItemRecord
    <2>2. CASE CheckedItem(i, state, stage, due, challenge)
      BY <1>1, <2>2 DEF CheckedItem, TypeOK
    <2> QED BY <1>3, <2>1, <2>2
  <1>4. CASE Reconcile(f)
    <2>1. PICK readable \in SUBSET Shown(i) :
            \/ ReconciledApplied(f, readable)
            \/ ReconciledExternal(f, readable)
            \/ CheckPending(f)
            \/ CheckAmbiguous(f, readable)
            \/ CheckAbsent(f, readable)
      BY <1>4 DEF Reconcile
    <2>2. CASE ReconciledApplied(f, readable)
      <3>1. Reserve(a, "consumed") /\ MoveItem(i, "applied", item[i].stage, TRUE, "none")
        BY <2>2 DEF ReconciledApplied
      <3>2. item'[i].state = "applied"
        BY <1>3, <3>1
      <3> QED BY <1>2, <3>1, <3>2
    <2>3. CASE ReconciledExternal(f, readable)
      <3>1. Reserve(a, "released") /\ MoveItem(i, "skipped", "application", TRUE, "none")
        BY <2>3 DEF ReconciledExternal
      <3>2. item'[i].state = "skipped"
        BY <1>3, <3>1
      <3> QED BY <1>2, <3>1, <3>2
    <2>4. CASE CheckPending(f)
      BY <1>1, <1>2, <1>3, <2>4 DEF CheckPending, Unresolved
    <2>5. CASE CheckAmbiguous(f, readable)
      BY <1>2, <1>3, <2>5 DEF CheckAmbiguous
    <2>6. CASE CheckAbsent(f, readable)
      BY <1>2, <1>3, <2>6 DEF CheckAbsent
    <2> QED BY <2>1, <2>2, <2>3, <2>4, <2>5, <2>6
  <1>5. CASE OpenReconciliationAuth(f)
    BY <1>2, <1>3, <1>5 DEF OpenReconciliationAuth
  <1>6. CASE FinalizeApplied(f)
    <2>1. Reserve(a, "consumed") /\ MoveItem(i, "applied", item[i].stage, TRUE, "none")
      BY <1>6 DEF FinalizeApplied
    <2>2. item'[i].state = "applied"
      BY <1>3, <2>1
    <2> QED BY <1>2, <2>1, <2>2
  <1>7. CASE RecordPossiblySent(f)
    BY <1>2, <1>3, <1>7 DEF RecordPossiblySent
  <1>8. CASE FinalizeDefiniteFailure(f)
    <2>1. PICK target \in FailureTargets(i) :
            /\ FinishAttempt(a, target)
            /\ MoveItem(i, target, "application", target # "retry_wait",
                        IF target = "manual_challenge" THEN "manual" ELSE "none")
      BY <1>8 DEF FinalizeDefiniteFailure
    <2>2. item'[i].state = target
          /\ item'[i].challenge = (IF target = "manual_challenge" THEN "manual" ELSE "none")
      BY <1>3, <2>1
    <2>3. attempt'[a].status = target
      BY <1>1, <2>1 DEF FinishAttempt, AttemptRecord
    <2> QED BY <1>2, <1>8, <2>2, <2>3 DEF FinalizeDefiniteFailure, Unresolved
  <1> QED BY <1>4, <1>5, <1>6, <1>7, <1>8 DEF Decision

\* No run moves what waits for the operator, and a run makes only reservations
\* of its own token its own, while it is in charge.
LEMMA RunsPassBy ==
    ASSUME IndInv, PostInv, [Next]_vars
    PROVE  /\ \A i \in Item : item[i].state \in {"manual_challenge", "dead"} => item'[i] = item[i]
           /\ \A a \in Attempt : \/ reservation'[a].fence = reservation[a].fence
                                 \/ /\ Current(reservation'[a].fence) /\ UNCHANGED lease
                                    /\ reservation'[a].fence \in Run
                                    /\ proc[reservation'[a].fence] # NoProc
  <1>1. ASSUME NEW f \in Run, Decision(f)
        PROVE  /\ \A i \in Item : item[i].state \in {"manual_challenge", "dead"} => item'[i] = item[i]
               /\ \A a \in Attempt : reservation'[a].fence = reservation[a].fence
    <2>1. /\ proc[f].item \in Item /\ proc[f].attempt \in Attempt /\ Outcome(f) /\ Valid(f)
      BY <1>1, DecisionStep DEF PostInv
    <2>2. item[proc[f].item].state \in Unresolved
          /\ \A j \in Item \ {proc[f].item} : item'[j] = item[j]
      BY <2>1 DEF Valid, Outcome, Applied, ExternallyApplied, Absent, Refused, Undecided,
                  Unknown, ItemMoves
    <2> QED BY <1>1, <2>1, <2>2, DecisionQuestion DEF Unresolved
  <1>2. ASSUME NEW f \in Run, Inserts(f)
        PROVE  /\ \A i \in Item : item[i].state \in {"manual_challenge", "dead"} => item'[i] = item[i]
               /\ \A a \in Attempt : \/ reservation'[a].fence = reservation[a].fence
                                     \/ reservation'[a].fence = f /\ Current(f)
                                        /\ UNCHANGED lease /\ proc[f] # NoProc
    <2>1. /\ proc[f].item \in Item /\ item[proc[f].item].state = "ready" /\ Current(f)
          /\ proc[f].pc = "rendering" /\ UNCHANGED lease
          /\ \A j \in Item \ {proc[f].item} : item'[j] = item[j]
      BY <1>2, InsertStep
    <2>2. proc[f] # NoProc
      BY <2>1 DEF NoProc
    <2>3. CASE RenderFails(f)
      BY <2>1, <2>3 DEF RenderFails
    <2>4. CASE PrepareDispatch(f)
      BY <2>1, <2>2, <2>4 DEF PrepareDispatch, IndInv, TypeOK
    <2> QED BY <1>2, <2>3, <2>4 DEF Inserts
  <1>3. ASSUME NEW f \in Run, NEW i \in Item, LoadContext(f, i)
        PROVE  \A a \in Attempt : \/ reservation'[a].fence = reservation[a].fence
                                  \/ reservation'[a].fence = f /\ Current(f)
                                     /\ UNCHANGED lease /\ proc[f] # NoProc
    <2>1. Current(f) /\ UNCHANGED lease /\ proc[f] # NoProc
      BY <1>3 DEF LoadContext, Loadable, NoProc
    <2>2. reservation' = [reservation EXCEPT ![item[i].attempt].fence = f]
      BY <1>3 DEF LoadContext
    <2> QED BY <2>1, <2>2 DEF IndInv, TypeOK, ReservationRecord
  <1>4. CASE Next
    <2>1. \/ \E f \in Run : Decision(f) \/ Inserts(f)
          \/ \E f \in Run, i \in Item : LoadContext(f, i)
          \/ reservation' = reservation
      BY ZenonT(30), <1>4 DEF Next, RunStep, Decision, Inserts, StartRun, EndRun, Crash,
             RecoverStaleApplying, LoadRaises, ReconcileRaises, StartDispatch, NextPass,
             AdoptReadyItems, ActivateDueRetry, SkipReady, BeginExecute, ExecuteRaises,
             SendPost, FinalizeRaises, Arrive, Refuse, ApplyExternally, BecomeDue
    <2>2. \/ \E f \in Run : Decision(f) \/ Inserts(f)
          \/ \A i \in Item : item[i].state \in {"manual_challenge", "dead"} => item'[i] = item[i]
      <3>1. ASSUME NEW f \in Run, RecoverStaleApplying(f) \/ AdoptReadyItems(f)
            PROVE  \A i \in Item : item[i].state \in {"manual_challenge", "dead"}
                                     => item'[i] = item[i]
        BY <3>1 DEF RecoverStaleApplying, AdoptReadyItems
      <3>2. ASSUME NEW f \in Run, NEW j \in Item, ActivateDueRetry(f, j) \/ SkipReady(f, j)
            PROVE  \A i \in Item : item[i].state \in {"manual_challenge", "dead"}
                                     => item'[i] = item[i]
        BY <3>2 DEF ActivateDueRetry, SkipReady, IndInv, TypeOK
      <3>3. ASSUME NEW j \in Item, BecomeDue(j)
            PROVE  \A i \in Item : item[i].state \in {"manual_challenge", "dead"}
                                     => item'[i] = item[i]
        BY <3>3 DEF BecomeDue, IndInv, TypeOK
      <3>4. \/ \E f \in Run : \/ Decision(f) \/ Inserts(f)
                              \/ RecoverStaleApplying(f) \/ AdoptReadyItems(f)
            \/ \E f \in Run, j \in Item : ActivateDueRetry(f, j) \/ SkipReady(f, j)
            \/ \E j \in Item : BecomeDue(j)
            \/ item' = item
        BY <1>4 DEF Next, RunStep, Decision, Inserts, StartRun, EndRun, Crash,
               LoadContext, LoadRaises, ReconcileRaises, StartDispatch, NextPass,
               BeginExecute, ExecuteRaises, SendPost, FinalizeRaises, Arrive, Refuse,
               ApplyExternally
      <3> QED BY <3>1, <3>2, <3>3, <3>4
    <2> QED BY <1>1, <1>2, <1>3, <2>1, <2>2
  <1>5. CASE UNCHANGED vars
    BY <1>5 DEF vars
  <1> QED BY <1>4, <1>5

\* A step of the runs asks about at most one item, which a decision left to the
\* operator.
Asks(i) ==
    /\ item[i].state \in Unresolved /\ item'[i].state = "manual_challenge"
    /\ TicketFor(i)
    /\ \/ item'[i].challenge \in {"manual_auth", "ambiguous_application"}
       \/ item'[i].challenge = "manual" /\ attempt'[item'[i].attempt].status \notin Unresolved
LEMMA RunsTicket ==
    ASSUME DeskInv, RunsStep
    PROVE  \/ \E i \in Item : Asks(i) /\ \A j \in Item \ {i} : item'[j] = item[j]
           \/ /\ UNCHANGED <<ticket, link>>
              /\ \A i \in Item : item'[i].state = "manual_challenge" => item'[i] = item[i]
  <1> DEFINE asked == {i \in Item : item'[i].state = "manual_challenge"
                                    /\ item[i].state # "manual_challenge"}
  <1>1. [Next]_vars /\ IndInv /\ PostInv
    BY DEF RunsStep, DeskInv
  <1>2. \A i \in Item : item[i].state = "manual_challenge" => item'[i] = item[i]
    BY <1>1, RunsPassBy
  <1>3. CASE asked = {}
    BY <1>2, <1>3 DEF RunsStep
  <1>4. ASSUME NEW i \in asked
        PROVE  Asks(i) /\ \A j \in Item \ {i} : item'[j] = item[j]
    <2>1. TicketFor(i)
      BY <1>4 DEF RunsStep
    <2>2. PICK f \in Run : Decision(f)
      <3>1. ASSUME NEW f \in Run, Inserts(f) PROVE FALSE
        BY <1>1, <1>4, <3>1, InsertStep
      <3>2. CASE Quiet
        BY <1>4, <3>2 DEF Quiet
      <3>3. CASE item' = item
        BY <1>4, <3>3
      <3> QED BY <1>1, <3>1, <3>2, <3>3, StepKinds DEF SendPost, Arrive, Refuse, ApplyExternally
    <2>3. /\ proc[f].item \in Item /\ proc[f].attempt \in Attempt /\ Outcome(f) /\ Valid(f)
      BY <1>1, <2>2, DecisionStep DEF PostInv
    <2>4. /\ item[proc[f].item].state \in Unresolved
          /\ item'[proc[f].item].attempt = proc[f].attempt
          /\ \A j \in Item \ {proc[f].item} : item'[j] = item[j]
      BY <2>3 DEF Valid, Outcome, Applied, ExternallyApplied, Absent, Refused, Undecided,
                  Unknown, ItemMoves
    <2>5. i = proc[f].item
      BY <1>4, <2>4
    <2> QED BY <1>1, <1>4, <2>1, <2>2, <2>3, <2>4, <2>5, DecisionQuestion DEF Asks
  <1> QED BY <1>3, <1>4

\* A new question gets a row of its own, or joins the open one for its account.
LEMMA AskKeepsRows ==
    ASSUME DeskInv, RowsInv, NEW i \in Item, Asks(i), TypeOK', UNCHANGED <<desk, word>>,
           \A j \in Item \ {i} : item'[j] = item[j]
    PROVE  RowsInv'
  <1>1. /\ ticket \in [Item -> [kind : Challenge,
                                status : {"none", "open", "resolved", "dismissed", "expired"},
                                due : BOOLEAN, ids : BOOLEAN]]
        /\ link \in [Item -> Item \cup {NoItem}] /\ NoItem \notin Item
    BY DEF RowsInv, DeskTypeOK
  <1>2. link[i] = NoItem
    BY DEF Asks, RowsInv, LinksInOrder, Unresolved
  <1>3. \A j \in Item : link[j] # i
    BY <1>1, <1>2 DEF RowsInv, LinksInOrder
  <1>4. ASSUME NEW kind \in {"manual", "manual_auth", "ambiguous_application"},
               NEW ids \in BOOLEAN, Opens(i, kind, ids),
               kind = "ambiguous_application" <=> item'[i].challenge = "ambiguous_application",
               item'[i].challenge \in {"manual", "manual_auth", "ambiguous_application"}
        PROVE  RowsInv'
    <2>1. /\ link'[i] = i /\ \A j \in Item \ {i} : link'[j] = link[j]
          /\ link' \in [Item -> Item \cup {NoItem}]
      BY <1>1, <1>4 DEF Opens
    <2>2. /\ ticket'[i] = [kind |-> kind, status |-> "open", due |-> FALSE, ids |-> ids]
          /\ \A j \in Item \ {i} : ticket'[j] = ticket[j]
          /\ ticket' \in [Item -> [kind : Challenge,
                                status : {"none", "open", "resolved", "dismissed", "expired"},
                                due : BOOLEAN, ids : BOOLEAN]]
      BY <1>1, <1>4 DEF Opens, Challenge
    <2>3. DeskTypeOK'
      BY <2>1, <2>2 DEF RowsInv, DeskTypeOK
    <2>4. ASSUME NEW j \in Item \ {i}
          PROVE  /\ item'[j] = item[j] /\ link'[j] = link[j] /\ link[j] # i
                 /\ link[j] # NoItem => /\ link[j] \in Item \ {i}
                                        /\ link'[link[j]] = link[link[j]]
                                        /\ ticket'[link[j]] = ticket[link[j]]
                 /\ ticket'[j] = ticket[j]
      BY <1>1, <1>3, <2>1, <2>2
    <2>5. LinksInOrder'
      <3>1. ASSUME NEW j \in Item \ {i}
            PROVE  /\ item'[j].state = "manual_challenge" => link'[j] # NoItem
                   /\ ticket'[j].status = "open" => link'[j] = j
                   /\ link'[j] # NoItem =>
                        /\ link'[link'[j]] = link'[j]
                        /\ ticket'[link'[j]].kind = "ambiguous_application" => link'[j] = j
                        /\ \/ item'[j].state = "manual_challenge"
                              /\ ticket'[link'[j]].status = "open"
                           \/ /\ item'[j].state = "dead"
                              /\ ticket'[link'[j]].kind = "ambiguous_application"
                              /\ ticket'[link'[j]].status = "expired"
        BY <2>4 DEF RowsInv, LinksInOrder, OpenRow
      <3>2. /\ link'[i] = i /\ i # NoItem /\ ticket'[i].status = "open"
            /\ item'[i].state = "manual_challenge"
        BY <1>1, <2>1, <2>2 DEF Asks
      <3> QED BY <3>1, <3>2 DEF LinksInOrder, OpenRow
    <2>6. RowsAskForItems'
      <3>1. ASSUME NEW j \in Item \ {i}, item'[j].state = "manual_challenge"
            PROVE  /\ item'[j].challenge \in {"manual", "manual_auth", "ambiguous_application"}
                   /\ ticket'[link'[j]].kind = "ambiguous_application"
                        <=> item'[j].challenge = "ambiguous_application"
        <4>1. item[j].state = "manual_challenge" /\ link[j] # NoItem
          BY <2>4, <3>1 DEF RowsInv, LinksInOrder
        <4> QED BY <2>4, <4>1 DEF RowsInv, RowsAskForItems
      <3>2. ticket'[link'[i]].kind = kind
        BY <2>1, <2>2
      <3> QED BY <1>4, <3>1, <3>2 DEF RowsAskForItems
    <2> QED BY <2>3, <2>5, <2>6 DEF RowsInv
  <1>5. ASSUME NEW j \in AuthRows, link' = [link EXCEPT ![i] = j], UNCHANGED ticket,
               item'[i].challenge = "manual_auth"
        PROVE  RowsInv'
    <2>1. j \in Item /\ OpenRow(j) /\ ticket[j].kind = "manual_auth" /\ link[j] = j /\ j # i
      BY <1>2, <1>1, <1>5 DEF AuthRows, RowsInv, LinksInOrder
    <2>2. /\ link'[i] = j /\ \A k \in Item \ {i} : link'[k] = link[k]
          /\ link' \in [Item -> Item \cup {NoItem}]
      BY <1>1, <1>5, <2>1
    <2>3. DeskTypeOK'
      BY <1>1, <1>5, <2>2 DEF RowsInv, DeskTypeOK
    <2>4. ASSUME NEW k \in Item \ {i}
          PROVE  /\ item'[k] = item[k] /\ link'[k] = link[k] /\ link[k] # i
                 /\ link[k] # NoItem => /\ link[k] \in Item \ {i}
                                        /\ link'[link[k]] = link[link[k]]
      BY <1>1, <1>3, <2>2
    <2>5. LinksInOrder'
      <3>1. ASSUME NEW k \in Item \ {i}
            PROVE  /\ item'[k].state = "manual_challenge" => link'[k] # NoItem
                   /\ ticket[k].status = "open" => link'[k] = k
                   /\ link'[k] # NoItem =>
                        /\ link'[link'[k]] = link'[k]
                        /\ ticket[link'[k]].kind = "ambiguous_application" => link'[k] = k
                        /\ \/ item'[k].state = "manual_challenge"
                              /\ ticket[link'[k]].status = "open"
                           \/ /\ item'[k].state = "dead"
                              /\ ticket[link'[k]].kind = "ambiguous_application"
                              /\ ticket[link'[k]].status = "expired"
        BY <2>4 DEF RowsInv, LinksInOrder, OpenRow
      <3>2. ticket[i].status # "open"
        BY <1>1, <1>2 DEF RowsInv, LinksInOrder, OpenRow
      <3>3. item'[i].state = "manual_challenge" /\ link'[j] = j /\ j # NoItem
        BY <1>1, <2>1, <2>2 DEF Asks
      <3> QED BY <1>5, <2>1, <2>2, <3>1, <3>2, <3>3 DEF LinksInOrder, OpenRow
    <2>6. RowsAskForItems'
      <3>1. ASSUME NEW k \in Item \ {i}, item'[k].state = "manual_challenge"
            PROVE  /\ item'[k].challenge \in {"manual", "manual_auth", "ambiguous_application"}
                   /\ ticket[link'[k]].kind = "ambiguous_application"
                        <=> item'[k].challenge = "ambiguous_application"
        BY <2>4, <3>1 DEF RowsInv, RowsAskForItems
      <3> QED BY <1>5, <2>1, <2>2, <3>1 DEF RowsAskForItems
    <2> QED BY <2>3, <2>5, <2>6 DEF RowsInv
  <1>6. \/ \E kind \in {"manual", "manual_auth", "ambiguous_application"}, ids \in BOOLEAN :
             /\ Opens(i, kind, ids)
             /\ kind = "ambiguous_application" <=> item'[i].challenge = "ambiguous_application"
        \/ /\ item'[i].challenge = "manual_auth"
           /\ \E j \in AuthRows : link' = [link EXCEPT ![i] = j] /\ UNCHANGED ticket
    <2>1. CASE item'[i].challenge = "manual"
      <3>1. \E kind \in {"manual", "manual_auth"} : Opens(i, kind, FALSE)
        BY <2>1 DEF Asks, TicketFor
      <3> QED BY <2>1, <3>1
    <2>2. CASE item'[i].challenge = "ambiguous_application"
      <3>1. \E ids \in {FALSE, Shown(i) # {}} : Opens(i, "ambiguous_application", ids)
        BY <2>2 DEF Asks, TicketFor
      <3>2. {FALSE, Shown(i) # {}} \subseteq BOOLEAN
        OBVIOUS
      <3> QED BY <2>2, <3>1, <3>2
    <2>3. CASE item'[i].challenge = "manual_auth"
      <3>1. IF AuthRows = {} THEN Opens(i, "manual_auth", FALSE)
            ELSE \E j \in AuthRows : link' = [link EXCEPT ![i] = j] /\ UNCHANGED ticket
        BY <2>3 DEF Asks, TicketFor
      <3> QED BY <2>3, <3>1
    <2> QED BY <2>1, <2>2, <2>3 DEF Asks
  <1>7. item'[i].challenge \in {"manual", "manual_auth", "ambiguous_application"}
    BY DEF Asks
  <1> QED BY <1>4, <1>5, <1>6, <1>7

\* Runs take the lease or leave it; they take it from nobody at the desk
\* without a new token.
LEMMA RunsTakeTurns ==
    ASSUME IndInv, [Next]_vars
    PROVE  \/ fence' = fence + 1
           \/ fence' = fence /\ (held' => held)
  <1>1. fence \in 0..MaxFence /\ held \in BOOLEAN
    BY DEF IndInv, TypeOK
  <1>2. ASSUME NEW f \in Run, RunStep(f)
        PROVE  EndRun(f) \/ UNCHANGED lease
    <2>1. CASE \/ Crash(f) \/ RecoverStaleApplying(f) \/ Reconcile(f)
               \/ OpenReconciliationAuth(f) \/ ReconcileRaises(f) \/ StartDispatch(f)
               \/ NextPass(f) \/ AdoptReadyItems(f)
      BY <2>1 DEF Crash, RecoverStaleApplying, Reconcile, OpenReconciliationAuth,
             ReconcileRaises, StartDispatch, NextPass, AdoptReadyItems
    <2>2. CASE \E i \in Item : \/ LoadContext(f, i) \/ LoadRaises(f, i)
                              \/ ActivateDueRetry(f, i) \/ SkipReady(f, i)
                              \/ BeginExecute(f, i)
      BY <2>2 DEF LoadContext, LoadRaises, ActivateDueRetry, SkipReady, BeginExecute
    <2>3. CASE \/ RenderFails(f) \/ PrepareDispatch(f) \/ ExecuteRaises(f) \/ SendPost(f)
               \/ FinalizeApplied(f) \/ RecordPossiblySent(f)
               \/ FinalizeDefiniteFailure(f) \/ FinalizeRaises(f)
      BY <2>3 DEF RenderFails, PrepareDispatch, ExecuteRaises, SendPost, FinalizeApplied,
             RecordPossiblySent, FinalizeDefiniteFailure, FinalizeRaises
    <2> QED BY <1>2, <2>1, <2>2, <2>3 DEF RunStep
  <1>3. ASSUME NEW t \in Trigger, StartRun(t)
        PROVE  fence' = fence + 1
    BY <1>3 DEF StartRun
  <1>4. ASSUME NEW f \in Run, EndRun(f)
        PROVE  fence' = fence /\ (held' => held)
    <2>1. fence' = fence
      BY <1>4 DEF EndRun
    <2>2. held' = (held /\ fence # f)
      BY <1>4 DEF EndRun
    <2>3. held' => held
      BY <2>2, Zenon
    <2> QED BY <2>1, <2>3
  <1>5. CASE UNCHANGED lease
    BY <1>5 DEF lease
  <1>6. ASSUME NEW a \in Attempt, Arrive(a) \/ Refuse(a)
        PROVE  UNCHANGED lease
    BY <1>6 DEF Arrive, Refuse
  <1>7. ASSUME NEW i \in Item, ApplyExternally(i) \/ BecomeDue(i)
        PROVE  UNCHANGED lease
    BY <1>7 DEF ApplyExternally, BecomeDue
  <1>8. CASE UNCHANGED vars
    BY <1>5, <1>8 DEF vars
  <1>9. CASE Next
    BY <1>2, <1>3, <1>4, <1>5, <1>6, <1>7, <1>9 DEF Next
  <1> QED BY <1>8, <1>9

\* While the desk is in charge, runs decide nothing and prepare nothing.
LEMMA DeskStopsRuns ==
    ASSUME DeskInv, [Next]_vars, UNCHANGED desk, desk # 0, Current(desk)'
    PROVE  /\ Current(desk)
           /\ UNCHANGED history
           /\ \A i \in Item : item'[i].state = "manual_challenge" => item'[i] = item[i]
           /\ \A a \in Attempt : reservation'[a].fence = reservation[a].fence
  <1>1. IndInv /\ PostInv /\ desk \in 0..fence /\ fence \in 0..MaxFence
    BY DEF DeskInv, DeskHasNoRun, IndInv, TypeOK
  <1>2. Current(desk)
    BY <1>1, RunsTakeTurns DEF Current
  <1>3. \A f \in Run : Current(f) => proc[f].pc = "none"
    BY <1>2 DEF DeskInv, DeskHasNoRun, Current, NoProc
  <1>4. \A f \in Run : ~Decision(f) /\ ~Inserts(f)
    BY <1>1, <1>3, DecisionStep, InsertStep DEF PostInv, Valid
  <1>5. \A i \in Item : item[i].state = "manual_challenge" => item'[i] = item[i]
    BY <1>1, RunsPassBy
  <1>6. UNCHANGED history
        /\ \A i \in Item : item'[i].state = "manual_challenge" => item'[i] = item[i]
    BY <1>1, <1>4, <1>5, StepKinds DEF Quiet, SendPost, Arrive, Refuse, ApplyExternally
  <1>7. \A a \in Attempt : reservation'[a].fence = reservation[a].fence
    <2>1. \A f \in Run : Current(f) => proc[f] = NoProc
      BY <1>2 DEF DeskInv, DeskHasNoRun, Current
    <2> QED BY <1>1, <2>1, RunsPassBy
  <1> QED BY <1>2, <1>6, <1>7

\* Runs lose sight of no slot.
LEMMA RunsKeepHeld ==
    ASSUME DeskInv, HeldInv, RunsStep, DeskInv'
    PROVE  HeldInv' /\ \A a \in Attempt : Sighted(a) => Sighted(a)'
  <1>1. /\ [Next]_vars /\ UNCHANGED <<desk, word>> /\ IndInv /\ PostInv
        /\ \A i \in Item : item[i].state \in {"manual_challenge", "dead"} => item'[i] = item[i]
    BY RunsPassBy DEF RunsStep, DeskInv
  <1>2. RowsInv'
    <2>1. TypeOK'
      BY DEF DeskInv, IndInv
    <2>2. ASSUME NEW i \in Item, Asks(i), \A j \in Item \ {i} : item'[j] = item[j]
          PROVE  RowsInv'
      BY <1>1, <2>1, <2>2, AskKeepsRows DEF HeldInv
    <2>3. CASE /\ UNCHANGED <<ticket, link>>
               /\ \A i \in Item : item'[i].state = "manual_challenge" => item'[i] = item[i]
      <3>1. DeskTypeOK'
        BY <1>1, <2>1, <2>3 DEF HeldInv, RowsInv, DeskTypeOK
      <3>2. LinksInOrder'
        <4>1. ASSUME NEW i \in Item
              PROVE  /\ item'[i].state = "manual_challenge" => link[i] # NoItem
                     /\ OpenRow(i) => link[i] = i
                     /\ link[i] # NoItem =>
                          /\ link[link[i]] = link[i]
                          /\ ticket[link[i]].kind = "ambiguous_application" => link[i] = i
                          /\ item'[i] = item[i]
                          /\ \/ item[i].state = "manual_challenge" /\ OpenRow(link[i])
                             \/ /\ item[i].state = "dead"
                                /\ ticket[link[i]].kind = "ambiguous_application"
                                /\ ticket[link[i]].status = "expired"
          BY <1>1, <2>3 DEF HeldInv, RowsInv, LinksInOrder
        <4> QED BY <2>3, <4>1 DEF LinksInOrder, OpenRow
      <3>3. RowsAskForItems'
        BY <2>3 DEF HeldInv, RowsInv, RowsAskForItems
      <3> QED BY <3>1, <3>2, <3>3 DEF RowsInv
    <2> QED BY <2>2, <2>3, RunsTicket
  <1>3. RefusedIsClosed'
    <2>1. ASSUME NEW i \in Item, item'[i].state = "manual_challenge",
                 item'[i].challenge = "manual", item'[i].attempt \in Attempt,
                 attempt'[item'[i].attempt].status \in Unresolved
          PROVE  FALSE
      <3>1. ~Asks(i)
        BY <2>1 DEF Asks
      <3>2. item'[i] = item[i]
        <4>1. CASE item[i].state = "manual_challenge"
          BY <1>1, <4>1
        <4>2. ASSUME NEW j \in Item, Asks(j), \A k \in Item \ {j} : item'[k] = item[k]
              PROVE  item'[i] = item[i]
          BY <3>1, <4>2
        <4> QED BY <2>1, <4>2, RunsTicket
      <3>3. item[i].attempt \in 1..made /\ ~OpenAttempt(item[i].attempt)
        <4>1. ~OpenAttempt(item[i].attempt)
          BY <2>1, <3>2 DEF HeldInv, RefusedIsClosed, HasOpenAttempt
        <4>2. item[i].attempt # 0 /\ item[i].attempt \in Nat /\ made \in Nat
          BY <1>1, <2>1, <3>2 DEF IndInv, TypeOK, Attempt
        <4> QED BY <1>1, <4>1, <4>2 DEF IndInv, Coherent, ItemOwnsAttempt
      <3>4. attempt'[item[i].attempt] = attempt[item[i].attempt]
        BY <1>1, <3>3, StepKeepsDecisions
      <3> QED BY <2>1, <3>2, <3>3, <3>4 DEF OpenAttempt
    <2> QED BY <2>1 DEF RefusedIsClosed, HasOpenAttempt, OpenAttempt
  <1>4. \A x \in Attempt : Sighted(x) => Sighted(x)'
    <2>0. /\ \A a \in Attempt : OpenAttempt(a) => attempt[a].item \in Item /\ a # made + 1
          /\ \A i \in Item : item[i].state = "dead" => link'[i] = link[i]
      <3>1. \A a \in Attempt : OpenAttempt(a) => attempt[a].item \in Item /\ a # made + 1
        BY <1>1, OpenHasItem
           DEF IndInv, TypeOK, Coherent, AttemptsInOrder, OpenAttempt, Unresolved, Attempt
      <3>2. ASSUME NEW i \in Item, Asks(i) PROVE \A j \in Item \ {i} : link'[j] = link[j]
        <4>1. \E j : link' = [link EXCEPT ![i] = j]
          BY <3>2 DEF Asks, TicketFor, Opens
        <4> QED BY <4>1 DEF HeldInv, RowsInv, DeskTypeOK
      <3> QED BY <3>1, <3>2, RunsTicket DEF Asks, Unresolved
    <2>1. ASSUME NEW f \in Run, Decision(f)
          PROVE  \A x \in Attempt : Sighted(x) => Sighted(x)'
      <3> DEFINE i == proc[f].item
                 a == proc[f].attempt
      <3>1. /\ i \in Item /\ a \in Attempt /\ attempt[a].item = i /\ Outcome(f) /\ Valid(f)
        BY <1>1, <2>1, DecisionStep DEF PostInv
      <3>2. /\ item[i].attempt = a /\ item'[i].attempt = a
            /\ \A j \in Item \ {i} : item'[j] = item[j]
            /\ \A b \in Attempt \ {a} : attempt'[b] = attempt[b]
            /\ attempt'[a].item = i
        BY <3>1 DEF Outcome, Applied, ExternallyApplied, Absent, Refused, Undecided, Unknown,
                    ItemMoves, AttemptMoves, Valid
      <3>3. attempt'[a].status \in Unresolved =>
              item'[i].state \in {"applying", "reconciling", "manual_challenge"}
        BY <3>1 DEF Outcome, Applied, ExternallyApplied, Absent, Refused, Undecided, Unknown,
                    ItemMoves, AttemptMoves, Unresolved
      <3>4. ASSUME NEW b \in Attempt \ {a}, OpenAttempt(b), InSight(b)
            PROVE  item'[attempt[b].item] = item[attempt[b].item]
        BY <2>0, <3>2, <3>4 DEF InSight
      <3> QED BY <2>0, <3>1, <3>2, <3>3, <3>4 DEF Sighted, InSight, OpenAttempt
    <2>2. ASSUME NEW f \in Run, Inserts(f)
          PROVE  \A x \in Attempt : Sighted(x) => Sighted(x)'
      <3> DEFINE i == proc[f].item
                 a == made + 1
      <3>1. /\ item[i].state = "ready" /\ i \in Item
            /\ a \in Attempt /\ attempt'[a].item = i
            /\ attempt'[a].status \in {"applying", "retry_wait"}
            /\ \A b \in Attempt \ {a} : attempt'[b] = attempt[b]
            /\ item'[i].state = attempt'[a].status /\ item'[i].attempt = a
            /\ \A j \in Item \ {i} : item'[j] = item[j]
        BY <1>1, <2>2, InsertStep
      <3>2. ASSUME NEW b \in Attempt \ {a}, OpenAttempt(b), InSight(b)
            PROVE  item'[attempt[b].item] = item[attempt[b].item]
        BY <2>0, <3>1, <3>2 DEF InSight
      <3> QED BY <2>0, <3>1, <3>2 DEF Sighted, InSight, OpenAttempt, Unresolved
    <2>3. CASE UNCHANGED attempt /\ (Quiet \/ UNCHANGED item)
      <3>1. ASSUME NEW b \in Attempt, OpenAttempt(b), InSight(b)
            PROVE  LET i == attempt[b].item
                   IN  /\ item'[i].attempt = b
                       /\ item'[i].state \in {"applying", "reconciling", "manual_challenge", "dead"}
                       /\ item'[i].state = "dead" => link'[i] # NoItem
        <4>1. /\ attempt[b].item \in Item /\ item[attempt[b].item].attempt = b
              /\ item[attempt[b].item].state \in {"applying", "reconciling", "manual_challenge",
                                                  "dead"}
              /\ item[attempt[b].item].state = "dead" => link'[attempt[b].item] # NoItem
          BY <2>0, <3>1 DEF InSight
        <4> QED BY <2>3, <4>1 DEF Quiet
      <3> QED BY <2>3, <3>1 DEF Sighted, InSight, OpenAttempt
    <2> QED BY <1>1, <2>1, <2>2, <2>3, StepKinds
            DEF Quiet, SendPost, Arrive, Refuse, ApplyExternally, history
  <1>5. SlotsOfOthers'
    <2>1. /\ fence \in Nat /\ fence' \in {fence, fence + 1}
          /\ \A a \in Attempt : reservation[a].fence \in Nat
      BY <1>1, RunsTakeTurns DEF IndInv, TypeOK, ReservationRecord
    <2>2. \A a \in Attempt : reservation'[a].fence <= fence'
      <3>1. ASSUME NEW a \in Attempt PROVE reservation'[a].fence <= fence
        <4>1. CASE reservation'[a].fence = reservation[a].fence
          BY <4>1 DEF HeldInv, SlotsOfOthers
        <4>2. CASE Current(reservation'[a].fence)
          BY <2>1, <4>2 DEF Current
        <4> QED BY <1>1, <4>1, <4>2, RunsPassBy
      <3>2. \A a \in Attempt : reservation'[a].fence \in Nat
        BY DEF DeskInv, IndInv, TypeOK, ReservationRecord
      <3> QED BY <2>1, <3>1, <3>2
    <2>3. ASSUME NEW a \in Attempt, attempt'[a].status \in Unresolved,
                 item'[attempt'[a].item].state = "manual_challenge", desk # 0, Current(desk)'
          PROVE  reservation'[a].fence # desk
      <3>1. /\ Current(desk) /\ attempt' = attempt
            /\ reservation'[a].fence = reservation[a].fence
            /\ \A i \in Item : item'[i].state = "manual_challenge" => item'[i] = item[i]
        BY <1>1, <2>3, DeskStopsRuns DEF history
      <3>2. attempt[a].item \in Item
        BY <1>1, <2>3, <3>1, OpenHasItem DEF IndInv, OpenAttempt
      <3> QED BY <2>3, <3>1, <3>2 DEF HeldInv, SlotsOfOthers, OpenAttempt
    <2>4. desk' = desk
      BY <1>1
    <2> QED BY <2>2, <2>3, <2>4 DEF SlotsOfOthers, OpenAttempt
  <1> QED BY <1>2, <1>3, <1>4, <1>5 DEF HeldInv

\* A row closes and everything linked to it goes on.
LEMMA RowCloses ==
    ASSUME RowsInv, TypeOK', UNCHANGED desk, word' \subseteq Attempt,
           NEW j \in Item, NEW status \in {"resolved", "dismissed", "expired"},
           Close(j, status),
           \A i \in Item :
             IF link[i] = j THEN link'[i] = NoItem /\ item'[i].state # "manual_challenge"
                            ELSE link'[i] = link[i] /\ item'[i] = item[i],
           link' \in [Item -> Item \cup {NoItem}]
    PROVE  RowsInv'
  <1>1. /\ ticket \in [Item -> [kind : Challenge,
                                status : {"none", "open", "resolved", "dismissed", "expired"},
                                due : BOOLEAN, ids : BOOLEAN]]
        /\ link \in [Item -> Item \cup {NoItem}] /\ NoItem \notin Item
    BY DEF RowsInv, DeskTypeOK
  <1>2. /\ ticket'[j].status = status /\ \A k \in Item \ {j} : ticket'[k] = ticket[k]
        /\ ticket' \in [Item -> [kind : Challenge,
                                status : {"none", "open", "resolved", "dismissed", "expired"},
                                due : BOOLEAN, ids : BOOLEAN]]
    BY <1>1 DEF Close
  <1>3. DeskTypeOK'
    BY <1>2 DEF RowsInv, DeskTypeOK
  <1>4. ASSUME NEW i \in Item, link'[i] # NoItem
        PROVE  /\ item'[i] = item[i] /\ link'[i] = link[i]
               /\ link[i] \in Item \ {j} /\ link[link[i]] = link[i]
               /\ link'[link[i]] = link[i] /\ ticket'[link[i]] = ticket[link[i]]
    <2>1. link[i] # j /\ link'[i] = link[i] /\ item'[i] = item[i]
      BY <1>4
    <2>2. link[i] \in Item \ {j} /\ link[link[i]] = link[i]
      BY <1>1, <1>4, <2>1 DEF RowsInv, LinksInOrder
    <2> QED BY <1>2, <2>1, <2>2
  <1>5. ASSUME NEW i \in Item, item'[i].state = "manual_challenge"
        PROVE  link'[i] # NoItem
    BY <1>5 DEF RowsInv, LinksInOrder
  <1>6. ASSUME NEW i \in Item, ticket'[i].status = "open" PROVE link'[i] = i
    <2>1. i # j /\ ticket[i].status = "open"
      BY <1>2, <1>6
    <2> QED BY <2>1 DEF RowsInv, LinksInOrder, OpenRow
  <1>7. LinksInOrder'
    BY <1>4, <1>5, <1>6 DEF RowsInv, LinksInOrder, OpenRow
  <1>8. RowsAskForItems'
    BY <1>4, <1>5 DEF RowsInv, RowsAskForItems
  <1> QED BY <1>3, <1>7, <1>8 DEF RowsInv

\* The items of a row that asks for the operator's hands: those with a slot
\* wait for a login, and the desk has not made the slot its own.
LEMMA LinkedItems ==
    ASSUME DeskInv, HeldInv, NEW j \in Item, ManualRow(j),
           NEW a \in Attempt, OpenAttempt(a), InSight(a), link[attempt[a].item] = j
    PROVE  LET i == attempt[a].item
           IN  /\ item[i].state = "manual_challenge" /\ item[i].challenge = "manual_auth"
               /\ item[i].attempt = a
               /\ ~SlotReleasable(i)
  <1> DEFINE i == attempt[a].item
  <1>1. i \in Item /\ item[i].attempt = a /\ item[i].state = "manual_challenge"
    BY OpenHasItem DEF DeskInv, IndInv, InSight, ManualRow, Linked
  <1>2. item[i].challenge = "manual_auth"
    BY <1>1 DEF HeldInv, RowsInv, RowsAskForItems, RefusedIsClosed, HasOpenAttempt, ManualRow
  <1>3. reservation[a].state \in Open /\ reservation[a].fence # desk /\ a # 0
    BY <1>1 DEF DeskInv, IndInv, Coherent, SlotFollowsAttempt, HeldInv, SlotsOfOthers,
                ManualRow, Attempt
  <1> QED BY <1>1, <1>2, <1>3 DEF SlotReleasable

\* Only one item is linked to a question about its application.
LEMMA OwnRow ==
    ASSUME RowsInv, NEW i \in Item, ticket[i].kind = "ambiguous_application",
           NEW k \in Item, link[k] = i
    PROVE  k = i
  <1>1. link[k] # NoItem
    BY DEF RowsInv, DeskTypeOK
  <1> QED BY <1>1 DEF RowsInv, LinksInOrder

\* A completed login sends the slot back to the reconciler or loses it; nothing
\* that is dropped has one.
LEMMA ManualKeepsHeld ==
    ASSUME DeskInv, HeldInv, DeskInv', NEW j \in Item,
           CompleteManual(j) \/ DropManual(j)
    PROVE  HeldInv' /\ \A a \in Attempt : Sighted(a) => Sighted(a)' \/ LoginLoses(a)
  <1>1. /\ ManualRow(j)
        /\ UNCHANGED <<lease, history, reservation, desk, word>>
        /\ link' = [i \in Item |-> IF i \in Linked(j) THEN NoItem ELSE link[i]]
    BY DEF CompleteManual, DropManual, MoveLinked
  <1>2. PICK status \in {"resolved", "dismissed", "expired"} : Close(j, status)
    BY DEF CompleteManual, DropManual
  <1>3. ASSUME NEW i \in Item
        PROVE  IF link[i] = j
               THEN /\ link'[i] = NoItem /\ item'[i].attempt = item[i].attempt
                    /\ \/ CompleteManual(j) /\ item'[i].state = CompletedTarget(i)
                       \/ DropManual(j) /\ item'[i].state = "skipped"
               ELSE link'[i] = link[i] /\ item'[i] = item[i]
    <2>1. item[i] \in ItemRecord
      BY DEF DeskInv, IndInv, TypeOK
    <2>2. ASSUME NEW target, MoveLinked(j, target)
          PROVE  IF link[i] = j
                 THEN item'[i].state = target[i] /\ item'[i].attempt = item[i].attempt
                 ELSE item'[i] = item[i]
      <3>1. CASE link[i] = j
        <4>1. item'[i] = [item[i] EXCEPT !.state = target[i], !.version = @ + 1,
                                         !.due = TRUE, !.challenge = "none"]
          BY <2>2, <3>1 DEF MoveLinked, Linked
        <4> QED BY <2>1, <3>1, <4>1 DEF ItemRecord
      <3>2. CASE link[i] # j
        BY <2>2, <3>2 DEF MoveLinked, Linked
      <3> QED BY <3>1, <3>2
    <2>3. IF link[i] = j THEN link'[i] = NoItem ELSE link'[i] = link[i]
      BY <1>1 DEF Linked
    <2>4. CASE CompleteManual(j)
      <3>1. MoveLinked(j, [k \in Item |-> CompletedTarget(k)])
        BY <2>4 DEF CompleteManual
      <3> QED BY <2>2, <2>3, <2>4, <3>1
    <2>5. CASE DropManual(j)
      <3>1. MoveLinked(j, [k \in Item |-> "skipped"])
        BY <2>5 DEF DropManual
      <3> QED BY <2>2, <2>3, <2>5, <3>1
    <2> QED BY <2>4, <2>5
  <1>4. RowsInv'
    <2>1. TypeOK' /\ word' \subseteq Attempt /\ link' \in [Item -> Item \cup {NoItem}]
      BY <1>1 DEF DeskInv, IndInv, HeldInv, RowsInv, DeskTypeOK
    <2>2. \A i \in Item :
             IF link[i] = j THEN link'[i] = NoItem /\ item'[i].state # "manual_challenge"
                            ELSE link'[i] = link[i] /\ item'[i] = item[i]
      BY <1>3 DEF CompletedTarget
    <2> QED BY <1>1, <1>2, <2>1, <2>2, RowCloses DEF HeldInv
  <1>5. RefusedIsClosed'
    BY <1>1, <1>3 DEF HeldInv, RefusedIsClosed, HasOpenAttempt, OpenAttempt, history,
                      CompletedTarget
  <1>6. ASSUME NEW a \in Attempt, Sighted(a), ~LoginLoses(a)
        PROVE  Sighted(a)'
    <2>1. SUFFICES ASSUME OpenAttempt(a), InSight(a)
                   PROVE  LET i == attempt[a].item
                          IN  /\ item'[i].attempt = a
                              /\ item'[i].state \in {"applying", "reconciling",
                                                     "manual_challenge", "dead"}
                              /\ item'[i].state = "dead" => link'[i] # NoItem
      BY <1>1, <1>6 DEF Sighted, InSight, OpenAttempt, history
    <2> DEFINE i == attempt[a].item
    <2>2. i \in Item
      BY <2>1, OpenHasItem DEF DeskInv, IndInv
    <2>3. CASE link[i] = j
      <3>1. /\ item[i].state = "manual_challenge" /\ item[i].challenge = "manual_auth"
            /\ item[i].attempt = a /\ ~SlotReleasable(i)
        BY <1>1, <2>1, <2>3, LinkedItems
      <3>2. i \in Linked(j)
        BY <2>2, <2>3 DEF Linked
      <3>3. CompleteManual(j) => CompletedTarget(i) = "reconciling"
        BY <1>6, <3>1, <3>2 DEF LoginLoses, CompletedTarget
      <3>4. ~DropManual(j)
        BY <3>1, <3>2 DEF DropManual
      <3> QED BY <1>3, <2>2, <2>3, <3>1, <3>3, <3>4
    <2>4. CASE link[i] # j
      BY <1>3, <2>1, <2>2, <2>4 DEF InSight
    <2> QED BY <2>3, <2>4
  <1>7. SlotsOfOthers'
    <2>1. ASSUME NEW a \in Attempt, OpenAttempt(a),
                 item'[attempt[a].item].state = "manual_challenge"
          PROVE  item[attempt[a].item].state = "manual_challenge"
      <3>1. attempt[a].item \in Item
        BY <2>1, OpenHasItem DEF DeskInv, IndInv
      <3> QED BY <1>3, <2>1, <3>1 DEF CompletedTarget
    <2> QED BY <1>1, <2>1 DEF HeldInv, SlotsOfOthers, OpenAttempt, Current, history, lease
  <1> QED BY <1>4, <1>5, <1>6, <1>7 DEF HeldInv

\* A question that expired leaves its item linked to it.
LEMMA ExpireKeepsHeld ==
    ASSUME DeskInv, HeldInv, DeskInv', NEW i \in Item, ExpireAmbiguous(i)
    PROVE  HeldInv' /\ \A a \in Attempt : Sighted(a) => Sighted(a)'
  <1>1. /\ item[i].state = "manual_challenge" /\ link[i] = i
        /\ ticket[i].kind = "ambiguous_application"
        /\ item[i].attempt \in Attempt
        /\ UNCHANGED <<lease, history, desk, link, word>>
    BY DEF ExpireAmbiguous, Ambiguous
  <1>2. /\ item'[i].state = "dead" /\ item'[i].attempt = item[i].attempt
        /\ \A k \in Item \ {i} : item'[k] = item[k]
    BY DEF ExpireAmbiguous, DeskInv, IndInv, TypeOK, ItemRecord
  <1>3. /\ reservation'[item[i].attempt].fence = desk
        /\ \A a \in Attempt \ {item[i].attempt} : reservation'[a] = reservation[a]
    BY <1>1 DEF ExpireAmbiguous, AdoptAs, DeskInv, IndInv, TypeOK
  <1>4. /\ ticket' \in [Item -> [kind : Challenge,
                                status : {"none", "open", "resolved", "dismissed", "expired"},
                                due : BOOLEAN, ids : BOOLEAN]]
        /\ ticket'[i].status = "expired" /\ ticket'[i].kind = "ambiguous_application"
        /\ \A k \in Item \ {i} : ticket'[k] = ticket[k]
    BY <1>1 DEF ExpireAmbiguous, Close, HeldInv, RowsInv, DeskTypeOK
  <1>5. \A k \in Item \ {i} : link[k] # i
    BY <1>1, OwnRow DEF HeldInv
  <1>6. RowsInv'
    <2>1. DeskTypeOK'
      BY <1>1, <1>4 DEF DeskInv, IndInv, HeldInv, RowsInv, DeskTypeOK
    <2>2. \A k \in Item : link[k] \in Item \cup {NoItem}
      BY DEF HeldInv, RowsInv, DeskTypeOK
    <2>3. LinksInOrder'
      <3>1. ASSUME NEW k \in Item \ {i}
            PROVE  /\ item'[k].state = "manual_challenge" => link[k] # NoItem
                   /\ ticket'[k].status = "open" => link[k] = k
                   /\ link[k] # NoItem =>
                        /\ link[link[k]] = link[k]
                        /\ ticket'[link[k]].kind = "ambiguous_application" => link[k] = k
                        /\ \/ item'[k].state = "manual_challenge"
                              /\ ticket'[link[k]].status = "open"
                           \/ /\ item'[k].state = "dead"
                              /\ ticket'[link[k]].kind = "ambiguous_application"
                              /\ ticket'[link[k]].status = "expired"
        BY <1>2, <1>4, <1>5, <2>2 DEF HeldInv, RowsInv, LinksInOrder, OpenRow
      <3> QED BY <1>1, <1>2, <1>4, <3>1 DEF LinksInOrder, OpenRow
    <2>4. RowsAskForItems'
      <3>1. ASSUME NEW k \in Item \ {i}, item[k].state = "manual_challenge"
            PROVE  ticket'[link[k]] = ticket[link[k]]
        BY <1>4, <1>5, <2>2, <3>1 DEF HeldInv, RowsInv, LinksInOrder
      <3> QED BY <1>1, <1>2, <3>1 DEF HeldInv, RowsInv, RowsAskForItems
    <2> QED BY <2>1, <2>3, <2>4 DEF RowsInv
  <1>7. RefusedIsClosed'
    BY <1>1, <1>2 DEF HeldInv, RefusedIsClosed, HasOpenAttempt, OpenAttempt, history
  <1>8. \A x \in Attempt : Sighted(x) => Sighted(x)'
    <2>1. ASSUME NEW a \in Attempt, OpenAttempt(a), InSight(a)
          PROVE  LET k == attempt[a].item
                 IN  /\ item'[k].attempt = a
                     /\ item'[k].state \in {"applying", "reconciling", "manual_challenge", "dead"}
                     /\ item'[k].state = "dead" => link[k] # NoItem
      <3>1. attempt[a].item \in Item /\ i # NoItem
        BY <2>1, OpenHasItem DEF DeskInv, IndInv
      <3> QED BY <1>1, <1>2, <2>1, <3>1 DEF InSight
    <2> QED BY <1>1, <2>1 DEF Sighted, InSight, OpenAttempt, history
  <1>9. SlotsOfOthers'
    <2>1. desk \in 0..fence /\ fence \in Nat
      BY DEF DeskInv, DeskHasNoRun, IndInv, TypeOK
    <2>2. \A a \in Attempt : OpenAttempt(a) => attempt[a].item \in Item
      BY OpenHasItem DEF DeskInv, IndInv
    <2>3. \A a \in Attempt : OpenAttempt(a) /\ item'[attempt[a].item].state = "manual_challenge"
             => /\ item[attempt[a].item].state = "manual_challenge"
                /\ a # item[i].attempt
      <3>1. ASSUME OpenAttempt(item[i].attempt)
            PROVE  attempt[item[i].attempt].item = i
        BY <1>1, <3>1, OwnAttempt DEF DeskInv, IndInv
      <3> QED BY <1>1, <1>2, <2>2, <3>1
    <2>4. \A a \in Attempt : reservation'[a].fence <= fence
      BY <1>3, <2>1 DEF HeldInv, SlotsOfOthers
    <2> QED BY <1>1, <1>3, <2>3, <2>4
            DEF HeldInv, SlotsOfOthers, OpenAttempt, Current, history, lease
  <1> QED BY <1>6, <1>7, <1>8, <1>9 DEF HeldInv

\* The operator's word ends the question and the slot, or sends it back.
LEMMA VerdictKeepsHeld ==
    ASSUME DeskInv, HeldInv, DeskInv', NEW i \in Item,
           \/ ConfirmApplied(i) \/ LookAgain(i)
           \/ \E target \in {"ready", "skipped"} : DenyApplied(i, target)
    PROVE  HeldInv' /\ \A b \in Attempt : Sighted(b) => Sighted(b)'
  <1> DEFINE a == item[i].attempt
  <1>1. /\ link[i] = i /\ ticket[i].kind = "ambiguous_application"
        /\ a \in Attempt /\ OpenAttempt(a) /\ Close(i, "resolved") /\ Unlink(i)
        /\ \E state : AdoptAs(i, state)
        /\ word' \in {word, word \cup {a}}
    BY DEF ConfirmApplied, LookAgain, DenyApplied, Answerable, Ambiguous
  <1>2. Verdict(i) /\ UNCHANGED <<lease, desk, made>>
    BY VerdictAction
  <1>3. attempt[a].item = i
    BY <1>1, OwnAttempt DEF DeskInv, IndInv
  <1>4. /\ \/ /\ item'[i].state \in {"applied", "ready", "skipped"}
              /\ attempt'[a].status \notin Unresolved
           \/ item'[i].state = "reconciling" /\ attempt' = attempt
        /\ item'[i].attempt = a
        /\ \A k \in Item \ {i} : item'[k] = item[k]
        /\ \A b \in Attempt \ {a} : attempt'[b] = attempt[b]
        /\ attempt'[a].item = i
    BY <1>2, <1>3 DEF Verdict, ItemMoves, AttemptMoves, Unresolved
  <1>5. /\ reservation'[a].fence = desk
        /\ \A b \in Attempt \ {a} : reservation'[b] = reservation[b]
    BY <1>1 DEF AdoptAs, DeskInv, IndInv, TypeOK
  <1>6. /\ link'[i] = NoItem /\ \A k \in Item \ {i} : link'[k] = link[k]
        /\ link' \in [Item -> Item \cup {NoItem}]
    BY <1>1 DEF Unlink, HeldInv, RowsInv, DeskTypeOK
  <1>7. RowsInv'
    <2>1. \A k \in Item :
             IF link[k] = i THEN link'[k] = NoItem /\ item'[k].state # "manual_challenge"
                            ELSE link'[k] = link[k] /\ item'[k] = item[k]
      <3>1. \A k \in Item : link[k] = i <=> k = i
        BY <1>1, OwnRow DEF HeldInv
      <3> QED BY <1>4, <1>6, <3>1
    <2>2. TypeOK' /\ word' \subseteq Attempt
      BY <1>1 DEF DeskInv, IndInv, HeldInv, RowsInv, DeskTypeOK
    <2> QED BY <1>1, <1>2, <1>6, <2>1, <2>2, RowCloses DEF HeldInv
  <1>8. \A b \in Attempt \ {a} :
          /\ OpenAttempt(b) => attempt[b].item \in Item
          /\ OpenAttempt(b) /\ InSight(b) => attempt[b].item # i
    <2>1. \A b \in Attempt : OpenAttempt(b) => attempt[b].item \in Item
      BY OpenHasItem DEF DeskInv, IndInv
    <2> QED BY <2>1 DEF InSight
  <1>9. RefusedIsClosed'
    <2>1. ASSUME NEW k \in Item \ {i}, item[k].attempt \in Attempt
          PROVE  item[k].attempt # a
      BY <1>3, <2>1, OwnAttempt DEF DeskInv, IndInv
    <2> QED BY <1>4, <2>1 DEF HeldInv, RefusedIsClosed, HasOpenAttempt, OpenAttempt
  <1>10. \A x \in Attempt : Sighted(x) => Sighted(x)'
    <2>1. ASSUME NEW b \in Attempt \ {a}, attempt'[b].status \in Unresolved, InSight(b)
          PROVE  LET k == attempt'[b].item
                 IN  /\ item'[k].attempt = b
                     /\ item'[k].state \in {"applying", "reconciling", "manual_challenge", "dead"}
                     /\ item'[k].state = "dead" => link'[k] # NoItem
      BY <1>4, <1>6, <1>8, <2>1 DEF InSight, OpenAttempt
    <2>2. attempt'[a].status \in Unresolved => item'[i].state = "reconciling"
      BY <1>4
    <2> QED BY <1>4, <2>1, <2>2 DEF Sighted, InSight, OpenAttempt
  <1>11. SlotsOfOthers'
    <2>1. desk \in 0..fence /\ fence \in Nat
      BY DEF DeskInv, DeskHasNoRun, IndInv, TypeOK
    <2>2. \A b \in Attempt : reservation'[b].fence <= fence
      BY <1>5, <2>1 DEF HeldInv, SlotsOfOthers
    <2>3. ASSUME NEW b \in Attempt, attempt'[b].status \in Unresolved,
                 item'[attempt'[b].item].state = "manual_challenge"
          PROVE  /\ b # a /\ attempt'[b] = attempt[b]
                 /\ item[attempt[b].item].state = "manual_challenge"
      BY <1>4, <1>8, <2>3 DEF OpenAttempt
    <2> QED BY <1>2, <1>5, <2>2, <2>3 DEF HeldInv, SlotsOfOthers, OpenAttempt, Current, lease
  <1> QED BY <1>7, <1>9, <1>10, <1>11 DEF HeldInv

\* What is requeued has no slot: a dead item that has one is linked to its
\* unanswered question.
LEMMA RequeueKeepsHeld ==
    ASSUME DeskInv, HeldInv, DeskInv', NEW i \in Item, RequeueDead(i)
    PROVE  HeldInv' /\ \A b \in Attempt : Sighted(b) => Sighted(b)'
  <1>1. /\ item[i].state = "dead" /\ Requeueable(i) /\ Unlink(i)
        /\ UNCHANGED <<lease, history, reservation, desk, ticket, word>>
    BY DEF RequeueDead
  <1>2. link[i] = NoItem
    BY <1>1 DEF Requeueable, HeldInv, RowsInv, LinksInOrder
  <1>3. link' = link
    BY <1>1, <1>2 DEF Unlink, HeldInv, RowsInv, DeskTypeOK
  <1>4. /\ item'[i].state \in {"ready", "reconciling"}
        /\ \A k \in Item \ {i} : item'[k] = item[k]
    BY DEF RequeueDead, CompletedTarget, DeskInv, IndInv, TypeOK, ItemRecord
  <1>5. ASSUME NEW b \in Attempt, OpenAttempt(b)
        PROVE  attempt[b].item \in Item /\ (InSight(b) => attempt[b].item # i)
    <2>1. attempt[b].item \in Item
      BY <1>5, OpenHasItem DEF DeskInv, IndInv
    <2> QED BY <1>1, <1>2, <1>5, <2>1 DEF InSight
  <1>6. RowsInv'
    <2>1. DeskTypeOK'
      BY <1>1, <1>3 DEF DeskInv, IndInv, HeldInv, RowsInv, DeskTypeOK
    <2>2. LinksInOrder'
      BY <1>1, <1>2, <1>3, <1>4 DEF HeldInv, RowsInv, LinksInOrder, OpenRow
    <2>3. RowsAskForItems'
      BY <1>1, <1>3, <1>4 DEF HeldInv, RowsInv, RowsAskForItems
    <2> QED BY <2>1, <2>2, <2>3 DEF RowsInv
  <1>7. RefusedIsClosed'
    BY <1>1, <1>4 DEF HeldInv, RefusedIsClosed, HasOpenAttempt, OpenAttempt, history
  <1>8. \A x \in Attempt : Sighted(x) => Sighted(x)'
    BY <1>1, <1>3, <1>4, <1>5 DEF Sighted, InSight, OpenAttempt, history
  <1>9. SlotsOfOthers'
    BY <1>1, <1>4, <1>5 DEF HeldInv, SlotsOfOthers, OpenAttempt, Current, history, lease
  <1> QED BY <1>6, <1>7, <1>8, <1>9 DEF HeldInv

\* A desk that comes has a token no reservation carries.
LEMMA LeaseKeepsHeld ==
    ASSUME DeskInv, HeldInv, DeskInv', DeskComesAndGoes
    PROVE  HeldInv' /\ \A b \in Attempt : Sighted(b) => Sighted(b)'
  <1>1. UNCHANGED <<item, history, reservation, word>>
    BY DeskLease
  <1>2. /\ link' = link
        /\ ticket' \in [Item -> [kind : Challenge,
                                status : {"none", "open", "resolved", "dismissed", "expired"},
                                due : BOOLEAN, ids : BOOLEAN]]
        /\ \A i \in Item : ticket'[i].kind = ticket[i].kind /\ ticket'[i].status = ticket[i].status
    <2>1. CASE UNCHANGED <<ticket, link>>
      BY <2>1 DEF HeldInv, RowsInv, DeskTypeOK
    <2>2. ASSUME NEW i \in Item, TicketExpires(i)
          PROVE  /\ link' = link
                 /\ ticket' \in [Item -> [kind : Challenge,
                                status : {"none", "open", "resolved", "dismissed", "expired"},
                                due : BOOLEAN, ids : BOOLEAN]]
                 /\ \A k \in Item : /\ ticket'[k].kind = ticket[k].kind
                                    /\ ticket'[k].status = ticket[k].status
      <3>1. /\ ticket \in [Item -> [kind : Challenge,
                                status : {"none", "open", "resolved", "dismissed", "expired"},
                                due : BOOLEAN, ids : BOOLEAN]]
            /\ link' = link /\ ticket' = [ticket EXCEPT ![i].due = TRUE]
        BY <2>2 DEF TicketExpires, HeldInv, RowsInv, DeskTypeOK
      <3>2. ticket'[i] = [kind |-> ticket[i].kind, status |-> ticket[i].status,
                          due |-> TRUE, ids |-> ticket[i].ids]
        BY <3>1
      <3>3. \A k \in Item \ {i} : ticket'[k] = ticket[k]
        BY <3>1
      <3>4. ticket'[i] \in [kind : Challenge,
                            status : {"none", "open", "resolved", "dismissed", "expired"},
                            due : BOOLEAN, ids : BOOLEAN]
        BY <3>1, <3>2
      <3> QED BY <3>1, <3>2, <3>3, <3>4
    <2> QED BY <2>1, <2>2 DEF DeskComesAndGoes, AcquireDesk, LeaveDesk, DeskLeaseExpires, desks
  <1>3. \A i \in Item : link[i] \in Item \cup {NoItem}
    BY DEF HeldInv, RowsInv, DeskTypeOK
  <1>4. /\ fence \in 0..MaxFence /\ fence' \in 0..MaxFence /\ desk' \in 0..fence'
    BY DEF DeskInv, DeskHasNoRun, IndInv, TypeOK
  <1>5. RowsInv'
    <2>1. DeskTypeOK'
      BY <1>1, <1>2, <1>4 DEF DeskInv, IndInv, HeldInv, RowsInv, DeskTypeOK
    <2>2. LinksInOrder'
      BY <1>1, <1>2, <1>3 DEF HeldInv, RowsInv, LinksInOrder, OpenRow
    <2>3. RowsAskForItems'
      BY <1>1, <1>2, <1>3 DEF HeldInv, RowsInv, RowsAskForItems, LinksInOrder
    <2> QED BY <2>1, <2>2, <2>3 DEF RowsInv
  <1>6. RefusedIsClosed' /\ \A x \in Attempt : Sighted(x) => Sighted(x)'
    BY <1>1, <1>2 DEF HeldInv, RefusedIsClosed, Sighted, InSight, HasOpenAttempt,
                      OpenAttempt, history
  <1>7. SlotsOfOthers'
    <2>1. \A a \in Attempt : reservation[a].fence \in Nat /\ reservation[a].fence <= fence
      BY DEF DeskInv, IndInv, TypeOK, ReservationRecord, HeldInv, SlotsOfOthers
    <2>2. \/ fence' = fence /\ (held' /\ fence' = desk' => held) /\ desk' \in {0, desk}
          \/ fence' = fence + 1 /\ desk' = fence + 1
      BY DeskLease
    <2>3. \A a \in Attempt : reservation[a].fence <= fence'
      BY <1>4, <2>1, <2>2
    <2>4. ASSUME NEW a \in Attempt, attempt[a].status \in Unresolved,
                 item[attempt[a].item].state = "manual_challenge", desk' # 0, Current(desk)'
          PROVE  reservation[a].fence # desk'
      <3>1. CASE fence' = fence + 1 /\ desk' = fence + 1
        BY <1>4, <2>1, <3>1
      <3>2. CASE fence' = fence /\ (held' /\ fence' = desk' => held) /\ desk' \in {0, desk}
        BY <2>4, <3>2 DEF HeldInv, SlotsOfOthers, OpenAttempt, Current
      <3> QED BY <2>2, <3>1, <3>2
    <2> QED BY <1>1, <2>3, <2>4 DEF SlotsOfOthers, OpenAttempt, history
  <1> QED BY <1>5, <1>6, <1>7 DEF HeldInv

LEMMA HeldNext ==
    ASSUME DeskInv, HeldInv, [DeskNext]_<<vars, desks>>
    PROVE  HeldInv' /\ \A a \in Attempt : Sighted(a) => Sighted(a)' \/ LoginLoses(a)
  <1>1. DeskInv'
    BY DeskNextInv
  <1>2. CASE RunsStep
    BY <1>1, <1>2, RunsKeepHeld
  <1>3. CASE DeskRowStep
    BY <1>1, <1>3, ManualKeepsHeld, ExpireKeepsHeld, VerdictKeepsHeld, RequeueKeepsHeld
       DEF DeskRowStep
  <1>4. CASE DeskComesAndGoes
    BY <1>1, <1>4, LeaseKeepsHeld
  <1>5. CASE UNCHANGED <<vars, desks>>
    <2>1. UNCHANGED <<fence, held, item, attempt, reservation, desk, ticket, link, word>>
      BY <1>5 DEF vars, desks, lease, history
    <2>2. TypeOK'
      BY <1>1 DEF DeskInv, IndInv
    <2> QED BY <2>1, <2>2
            DEF HeldInv, RowsInv, DeskTypeOK, LinksInOrder, OpenRow, RowsAskForItems,
                RefusedIsClosed, HasOpenAttempt, Sighted, InSight, SlotsOfOthers, OpenAttempt,
                Current
  <1> QED BY <1>2, <1>3, <1>4, <1>5, DeskKinds DEF DeskNext

LEMMA HeldInit == DeskInit => HeldInv
  <1> SUFFICES ASSUME DeskInit PROVE HeldInv
    OBVIOUS
  <1>1. /\ Init /\ desk = 0 /\ word = {} /\ link = [i \in Item |-> NoItem]
        /\ ticket = [i \in Item |-> NoTicket]
    BY DEF DeskInit
  <1>2. TypeOK
    BY <1>1, InitInv DEF IndInv
  <1>3. DeskTypeOK
    BY <1>1, <1>2 DEF DeskTypeOK, NoTicket, Challenge
  <1>4. LinksInOrder /\ RowsAskForItems /\ RefusedIsClosed
    BY <1>1 DEF Init, LinksInOrder, RowsAskForItems, RefusedIsClosed, OpenRow, NoTicket
  <1>5. SlotsOfOthers
    BY <1>1 DEF Init, SlotsOfOthers
  <1> QED BY <1>3, <1>4, <1>5 DEF HeldInv, RowsInv

\* What a slot needs to be decided is what was kept in sight.
StrayIsUnsighted == \A a \in Attempt : Stray(a) <=> ~Sighted(a)

LEMMA SightIsDecidable == DeskInv /\ HeldInv => StrayIsUnsighted
  <1> SUFFICES ASSUME DeskInv, HeldInv, NEW a \in Attempt, OpenAttempt(a)
               PROVE  InSight(a) <=> Decidable(a)
    BY DEF StrayIsUnsighted, Stray, Sighted
  <1>1. attempt[a].item \in Item
    BY OpenHasItem DEF DeskInv, IndInv
  <1> QED BY <1>1 DEF HeldInv, RowsInv, LinksInOrder, OpenRow, Unresolved, InSight, Decidable

\* A held slot stops having somebody who can decide it, the reconciler or an
\* operator with a row to answer, in one way only: HH asked for a login while it
\* was read for an item recovered out of flight, and the login is completed
\* (resolve_manual_challenge).  Runs may die, rows expire, dead items be
\* requeued and two items share a login; none of it loses a slot.
THEOREM OnlyALoginLosesSlots == DeskSpec => OnlyLoginsLoseSlots
  <1> DEFINE Kept == \A a \in Attempt : Sighted(a) => Sighted(a)' \/ LoginLoses(a)
             Step == \A a \in Attempt : Stray(a)' => Stray(a) \/ LoginLoses(a)
  <1>1. DeskInv /\ HeldInv /\ [DeskNext]_<<vars, desks>> => HeldInv' /\ Kept
    BY HeldNext
  <1>2. StrayIsUnsighted /\ StrayIsUnsighted' /\ Kept => Step
    BY DEF StrayIsUnsighted
  <1> HIDE DEF Kept, Step
  <1>3. DeskSpec => [][Step]_<<vars, desks>>
    BY <1>1, <1>2, HeldInit, SightIsDecidable, DeskInductive, PTL DEF DeskSpec
  <1> QED BY <1>3 DEF Step, OnlyLoginsLoseSlots
=============================================================================
