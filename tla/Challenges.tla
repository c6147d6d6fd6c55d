----------------------------- MODULE Challenges -----------------------------
(***************************************************************************)
(* The operator's side of the queue: the challenge rows that runs open and *)
(* the operator, or the scheduler's expiry, closes while other runs go on. *)
(*                                                                         *)
(* The desk is the process that closes challenges: the CLI or the web      *)
(* handler of one operator, or expire_due.  It takes the account lease     *)
(* like a run, without starting one, so its fencing token has no run and   *)
(* trigger stays "none" there.  A row is known by the item it was opened   *)
(* for; an account-wide manual_auth row is shared by every item linked to  *)
(* it.  Whether the operator tells the truth is not assumed.               *)
(***************************************************************************)
EXTENDS Dispatch

VARIABLES
    desk,      \* fencing token of the process at the desk, 0 when nobody is
    ticket,    \* hh_autopilot_challenges: the newest row opened for each item
    link,      \* challenge_id of each item: the item whose row it is
    word       \* attempts the operator declared not applied

desks == <<desk, ticket, link, word>>

NoTicket == [kind |-> "none", status |-> "none", due |-> FALSE, ids |-> FALSE]
OpenRow(j) == ticket[j].status = "open"
AuthRows == {j \in Item : ticket[j].kind = "manual_auth" /\ OpenRow(j)}

DeskTypeOK ==
    /\ TypeOK
    /\ desk \in 0..MaxFence
    /\ ticket \in [Item -> [kind : Challenge,
                            status : {"none", "open", "resolved", "dismissed", "expired"},
                            due : BOOLEAN, ids : BOOLEAN]]
    /\ link \in [Item -> Item \cup {NoItem}]
    /\ word \subseteq Attempt

DeskInit ==
    /\ Init
    /\ desk = 0
    /\ ticket = [i \in Item |-> NoTicket]
    /\ link = [i \in Item |-> NoItem]
    /\ word = {}
------------------------------------------------------------------------------
(* Runs open challenges *)

Opens(i, kind, ids) ==
    /\ ticket' = [ticket EXCEPT ![i] = [kind |-> kind, status |-> "open",
                                        due |-> FALSE, ids |-> ids]]
    /\ link' = [link EXCEPT ![i] = i]

\* Item i has just been put before the operator.  A read that HH refused joins
\* the manual_auth row that is already open; everything else gets its own row.
TicketFor(i) ==
    CASE item'[i].challenge = "manual" ->
             \E kind \in {"manual", "manual_auth"} : Opens(i, kind, FALSE)
      [] item'[i].challenge = "ambiguous_application" ->
             \E ids \in {FALSE, Shown(i) # {}} : Opens(i, "ambiguous_application", ids)
      [] item'[i].challenge = "manual_auth" ->
             IF AuthRows = {} THEN Opens(i, "manual_auth", FALSE)
             ELSE \E j \in AuthRows : link' = [link EXCEPT ![i] = j] /\ UNCHANGED ticket

RunsStep ==
    /\ Next
    /\ UNCHANGED <<desk, word>>
    /\ LET asked == {i \in Item : item'[i].state = "manual_challenge"
                                  /\ item[i].state # "manual_challenge"}
       IN  IF asked = {} THEN UNCHANGED <<ticket, link>>
           ELSE \A i \in asked : TicketFor(i)
------------------------------------------------------------------------------
(* The desk takes the lease and leaves *)

AcquireDesk ==
    /\ desk = 0
    /\ fence < MaxFence
    /\ held => Expired
    /\ fence' = fence + 1
    /\ held' = TRUE
    /\ desk' = fence + 1
    /\ UNCHANGED <<trigger, proc, item, history, reservation, synced, guard, remote,
                   ticket, link, word>>

LeaveDesk ==
    /\ desk # 0
    /\ desk' = 0
    /\ held' = (held /\ fence # desk)
    /\ UNCHANGED <<fence, trigger, proc, item, history, reservation, synced, guard,
                   remote, ticket, link, word>>

\* The process at the desk is slow or dead and its lease runs out.
DeskLeaseExpires ==
    /\ desk # 0
    /\ Current(desk)
    /\ held' = FALSE
    /\ UNCHANGED <<fence, trigger, proc, item, history, reservation, synced, guard,
                   remote, desks>>

\* expires_at passes; an account-wide challenge has none.
TicketExpires(j) ==
    /\ OpenRow(j)
    /\ ticket[j].kind # "manual_auth"
    /\ ~ticket[j].due
    /\ ticket' = [ticket EXCEPT ![j].due = TRUE]
    /\ UNCHANGED <<vars, desk, link, word>>
------------------------------------------------------------------------------
(* resolve_manual_challenge *)

Linked(j) == {i \in Item : link[i] = j}
Close(j, status) == ticket' = [ticket EXCEPT ![j].status = status]

\* Where a completed challenge sends its item.
CompletedTarget(i) == IF item[i].stage = "reconciliation" THEN "reconciling" ELSE "ready"

ManualRow(j) ==
    /\ desk # 0 /\ Current(desk)
    /\ ticket[j].kind \in {"manual", "manual_auth"}
    /\ OpenRow(j)
    /\ Linked(j) # {}
    /\ \A i \in Linked(j) : item[i].state = "manual_challenge"

\* Every item linked to the row goes to its target, the row is forgotten.
MoveLinked(j, target) ==
    /\ item' = [i \in Item |->
                  IF i \notin Linked(j) THEN item[i]
                  ELSE [item[i] EXCEPT !.state = target[i], !.version = @ + 1,
                                       !.due = TRUE, !.challenge = "none"]]
    /\ link' = [i \in Item |-> IF i \in Linked(j) THEN NoItem ELSE link[i]]

CompleteManual(j) ==
    /\ ManualRow(j)
    /\ MoveLinked(j, [i \in Item |-> CompletedTarget(i)])
    /\ Close(j, "resolved")
    /\ UNCHANGED <<lease, proc, history, reservation, synced, guard, remote, desk, word>>

\* Mutant: an open slot is no obstacle.
NoSlotCheck(i) == TRUE

\* _change_reservation_state_for_update accepts only the fence that made or
\* adopted the reservation, and a new desk never has it.
SlotReleasable(i) ==
    LET a == item[i].attempt
    IN  a = 0 \/ reservation[a].state \notin Open \/ reservation[a].fence = desk

\* dismiss, or expire once expires_at has passed.
DropManual(j) ==
    /\ ManualRow(j)
    /\ \A i \in Linked(j) : SlotReleasable(i)
    /\ \/ Close(j, "dismissed")
       \/ ticket[j].due /\ Close(j, "expired")
    /\ MoveLinked(j, [i \in Item |-> "skipped"])
    /\ UNCHANGED <<lease, proc, history, reservation, synced, guard, remote, desk, word>>
------------------------------------------------------------------------------
(* expire_challenge and resolve_challenge *)

\* Item i waits for a word on its possibly sent attempt, whose slot is held.
Ambiguous(i) ==
    /\ desk # 0 /\ Current(desk)
    /\ ticket[i].kind = "ambiguous_application"
    /\ link[i] = i
    /\ item[i].attempt \in Attempt
    /\ reservation[item[i].attempt].state = "held"

\* _adopt_challenge_reservation_for_update, then the new state of the slot.
AdoptAs(i, state) ==
    reservation' = [reservation EXCEPT ![item[i].attempt] =
                      [state |-> state, fence |-> desk]]

ExpireAmbiguous(i) ==
    /\ Ambiguous(i)
    /\ OpenRow(i) /\ ticket[i].due
    /\ item[i].state = "manual_challenge"
    /\ AdoptAs(i, "held")
    /\ item' = [item EXCEPT ![i].state = "dead", ![i].version = @ + 1]
    /\ Close(i, "expired")
    /\ UNCHANGED <<lease, proc, history, synced, guard, remote, desk, link, word>>

Answerable(i) ==
    /\ Ambiguous(i)
    /\ ticket[i].status \in {"open", "expired"}
    /\ item[i].state \in {"manual_challenge", "dead"}
    /\ OpenAttempt(item[i].attempt)

Unlink(i) == link' = [link EXCEPT ![i] = NoItem]

\* The word of an operator who read HH; it needs a negotiation to name.
ConfirmApplied(i) ==
    LET a == item[i].attempt
    IN  /\ Answerable(i)
        /\ ticket[i].ids
        /\ FinishAttempt(a, "applied")
        /\ AdoptAs(i, "consumed")
        /\ MoveItem(i, "applied", item[i].stage, TRUE, "none")
        /\ guard' = [guard EXCEPT ![VacancyOf[i]].status = "applied"]
        /\ Close(i, "resolved")
        /\ Unlink(i)
        /\ UNCHANGED <<lease, proc, made, synced, remote, desk, word>>

VerdictDropsGuard(i) == DropGuard(i)

\* confirmed_not_applied_retry and confirmed_not_applied_skip
DenyApplied(i, target) ==
    LET a == item[i].attempt
    IN  /\ Answerable(i)
        /\ AdoptAs(i, "released")
        /\ VerdictDropsGuard(i)
        /\ FinishAttempt(a, target)
        /\ MoveItem(i, target, "application", TRUE, "none")
        /\ Close(i, "resolved")
        /\ Unlink(i)
        /\ word' = word \cup {a}
        /\ UNCHANGED <<lease, proc, made, synced, remote, desk>>

\* Mutant: retry_reconciliation is served like a retry of the application.
LookAgainInQueue(i) ==
    LET a == item[i].attempt
    IN  /\ Answerable(i)
        /\ AdoptAs(i, "released")
        /\ VerdictDropsGuard(i)
        /\ FinishAttempt(a, "ready")
        /\ MoveItem(i, "ready", "application", TRUE, "none")
        /\ Close(i, "resolved")
        /\ Unlink(i)
        /\ UNCHANGED <<lease, proc, made, synced, remote, desk, word>>

\* retry_reconciliation: the attempt goes back to the reconciler.
LookAgain(i) ==
    /\ Answerable(i)
    /\ AdoptAs(i, "held")
    /\ MoveItem(i, "reconciling", "reconciliation", TRUE, "none")
    /\ Close(i, "resolved")
    /\ Unlink(i)
    /\ UNCHANGED <<lease, proc, history, synced, guard, remote, desk, word>>

\* No unanswered question and no slot that is still held.
Requeueable(i) ==
    LET a == item[i].attempt
    IN  /\ link[i] # NoItem /\ ticket[link[i]].kind = "ambiguous_application"
               => ticket[link[i]].status = "resolved"
        /\ a # 0 => reservation[a].state # "held"

\* requeue_dead
RequeueDead(i) ==
    /\ desk # 0 /\ Current(desk)
    /\ item[i].state = "dead"
    /\ Requeueable(i)
    /\ item' = [item EXCEPT ![i].state = CompletedTarget(i), ![i].version = @ + 1,
                            ![i].due = TRUE, ![i].challenge = "none"]
    /\ Unlink(i)
    /\ UNCHANGED <<lease, proc, history, reservation, synced, guard, remote, desk,
                   ticket, word>>

DeskStep ==
    \/ AcquireDesk
    \/ LeaveDesk
    \/ DeskLeaseExpires
    \/ \E i \in Item :
         \/ TicketExpires(i)
         \/ CompleteManual(i)
         \/ DropManual(i)
         \/ ExpireAmbiguous(i)
         \/ ConfirmApplied(i)
         \/ \E target \in {"ready", "skipped"} : DenyApplied(i, target)
         \/ LookAgain(i)
         \/ RequeueDead(i)

DeskNext == RunsStep \/ DeskStep
DeskSpec == DeskInit /\ [][DeskNext]_<<vars, desks>>
------------------------------------------------------------------------------
(* Properties *)

\* Somebody can decide attempt a: it is the current attempt of its item, and
\* the item is in flight, or before an operator who still has a row to answer,
\* even when the question expired and the item is dead.
Decidable(a) ==
    LET i == attempt[a].item
    IN  /\ item[i].attempt = a
        /\ \/ item[i].state \in Unresolved
           \/ /\ item[i].state \in {"manual_challenge", "dead"}
              /\ link[i] # NoItem
              /\ ticket[link[i]].status \in {"open", "expired"}

\* A held slot of quota nobody can decide.
Stray(a) == OpenAttempt(a) /\ ~Decidable(a)

\* The login that loses the slot of a: it is completed for an item recovered
\* out of flight, which keeps the stage it was dispatched from.
LoginLoses(a) ==
    \E j \in Item : /\ CompleteManual(j)
                    /\ attempt[a].item \in Linked(j)
                    /\ item[attempt[a].item].challenge = "manual_auth"
                    /\ item[attempt[a].item].stage # "reconciliation"

\* A held slot keeps somebody who can decide it: expiry, requeues, dismissals,
\* rows shared by two items and runs that die in between lose none.  The one
\* step that does is a completed login of an item recovered out of flight
\* (resolve_manual_challenge, against LoginReturnsToReconciling).
OnlyLoginsLoseSlots ==
    [][\A a \in Attempt : Stray(a)' => Stray(a) \/ LoginLoses(a)]_<<vars, desks>>

\* A second POST for an item HH has accepted happens only after an operator
\* said that the first was not applied (resolve_challenge); no expiry, requeue
\* or completed login lets one through.
RepeatNeedsVerdict ==
    \A a, b \in Attempt :
        a < b /\ attempt[a].item = attempt[b].item /\ post[a] = "accepted"
              /\ post[b] # "none" => a \in word

\* A verdict of the operator stands: whatever process carried the attempt, and
\* whichever of expiry and resolution came first, nothing decides it again.
VerdictStands ==
    [][\A a \in 1..made : ~OpenAttempt(a) => attempt'[a] = attempt[a]]_<<vars, desks>>

\* A completed login sends a possibly sent attempt back to the reconciler,
\* never to the dispatch queue (retry_stage of the item).
LoginReturnsToReconciling ==
    \A a \in Attempt : OpenAttempt(a) => item[attempt[a].item].state # "ready"

\* While the account waits for a login no application of it is dispatched.
LoginPausesDispatch ==
    [][AuthRows # {} =>
         \A a \in Attempt : attempt[a].status = "none" => attempt'[a].status # "applying"]_<<vars, desks>>
=============================================================================
