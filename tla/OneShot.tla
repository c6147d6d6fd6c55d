------------------------------ MODULE OneShot -------------------------------
(***************************************************************************)
(* Literal confirmations: the candidate confirms exact targets (resume and *)
(* vacancy, here an item) and a number of successes, and a command runs    *)
(* the targets one after the other.  Attempts whose answer is lost keep    *)
(* their target active until reconciliation or the operator decides them,  *)
(* in a later process and perhaps after the confirmation has expired.      *)
(*                                                                         *)
(* The lease lets one process work at a time (Lease); guards and slots are *)
(* the business of Dispatch.                                               *)
(***************************************************************************)
EXTENDS Integers, FiniteSets

CONSTANTS
    Item,       \* targets: one resume and one vacancy each
    Ref,        \* references of confirmations
    Live,       \* stands for the grant of autonomous runs
    NoItem,
    Most,       \* limits.per_run_success
    MaxTries,   \* limits.max_attempts
    MaxChecks   \* reconciliation readings before absence is believed

OneShotAssumption ==
    /\ IsFiniteSet(Item) /\ NoItem \notin Item
    /\ Live \notin Ref
    /\ Most \in Nat \ {0} /\ MaxTries \in Nat \ {0} /\ MaxChecks \in Nat \ {0}

VARIABLES
    conf,       \* hh_autopilot_one_shot_authorizations
    target,     \* hh_autopilot_one_shot_targets: status of each target
    owner,      \* ... and its active_attempt_id, the number of the item's attempt
    item,       \* hh_autopilot_items; by is the authorization of the active attempt
    todo,       \* targets the command of each confirmation has not run yet
    run,        \* the run that holds the lease
    sent        \* under what HH received the application of each item

vars == <<conf, target, owner, item, todo, run, sent>>

Nobody == "nobody"
Unsettled == {"applying", "reconciling", "manual_challenge"}
States == Unsettled \cup {"ready", "retry_wait", "applied", "skipped", "dead"}
NoRun == [by |-> Nobody, item |-> NoItem, pc |-> "none"]
MinOf(a, b) == IF a < b THEN a ELSE b

TypeOK ==
    /\ conf \in [Ref -> [active : BOOLEAN, expired : BOOLEAN,
                         most : Nat, consumed : Nat]]
    /\ target \in [Ref -> [Item -> {"none", "pending", "active", "succeeded", "closed"}]]
    /\ owner \in [Ref -> [Item -> 0..MaxTries]]
    /\ item \in [Item -> [state : States, tries : 0..MaxTries, checks : 0..(MaxChecks - 1),
                          by : Ref \cup {Live, Nobody},
                          challenge : {"none", "manual_captcha", "ambiguous_application"}]]
    /\ todo \in [Ref -> SUBSET Item]
    /\ run \in [by : Ref \cup {Live, Nobody}, item : Item \cup {NoItem},
                pc : {"none", "running", "posting", "landed"}]
    /\ sent \in [Item -> Ref \cup {Live, Nobody}]

NoConf == [active |-> FALSE, expired |-> FALSE, most |-> 0, consumed |-> 0]

Init ==
    /\ conf = [r \in Ref |-> NoConf]
    /\ target = [r \in Ref |-> [i \in Item |-> "none"]]
    /\ owner = [r \in Ref |-> [i \in Item |-> 0]]
    /\ item = [i \in Item |-> [state |-> "ready", tries |-> 0, checks |-> 0,
                               by |-> Nobody, challenge |-> "none"]]
    /\ todo = [r \in Ref |-> {}]
    /\ run = NoRun
    /\ sent = [i \in Item |-> Nobody]

Active(r) == {i \in Item : target[r][i] = "active"}
------------------------------------------------------------------------------
(* The command *)

\* create_one_shot_authorization with fresh targets; the command then runs as
\* many of them as one run may apply to.
Confirm(r) ==
    /\ conf[r].most = 0
    /\ \E T \in SUBSET Item : \E S \in SUBSET T :
         /\ T # {} /\ Cardinality(S) = MinOf(Cardinality(T), Most)
         /\ conf' = [conf EXCEPT ![r].active = TRUE, ![r].most = Cardinality(S)]
         /\ target' = [target EXCEPT ![r] =
                         [i \in Item |-> IF i \in T THEN "pending" ELSE "none"]]
         /\ todo' = [todo EXCEPT ![r] = S]
    /\ UNCHANGED <<owner, item, run, sent>>

\* An hour passes.
Expire(r) ==
    /\ conf[r].most > 0
    /\ conf' = [conf EXCEPT ![r].expired = TRUE]
    /\ UNCHANGED <<target, owner, item, todo, run, sent>>

\* A run begins with what dead runs left in applying.
Recovered ==
    [i \in Item |-> IF item[i].state = "applying"
                      THEN [item[i] EXCEPT !.state = "reconciling"] ELSE item[i]]

StartLiteral(r) ==
    /\ run = NoRun
    /\ \E i \in todo[r] :
         /\ todo' = [todo EXCEPT ![r] = @ \ {i}]
         /\ run' = [by |-> r, item |-> i, pc |-> "running"]
    /\ item' = Recovered
    /\ UNCHANGED <<conf, target, owner, sent>>

StartLive ==
    /\ run = NoRun
    /\ run' = [by |-> Live, item |-> NoItem, pc |-> "running"]
    /\ item' = Recovered
    /\ UNCHANGED <<conf, target, owner, todo, sent>>

EndRun ==
    /\ run.pc = "running"
    /\ run' = NoRun
    /\ UNCHANGED <<conf, target, owner, item, todo, sent>>

\* The process of the run dies, and with it the command that started it.
Die ==
    /\ run # NoRun
    /\ run' = NoRun
    /\ todo' = [r \in Ref |-> IF r = run.by THEN {} ELSE todo[r]]
    /\ UNCHANGED <<conf, target, owner, item, sent>>
------------------------------------------------------------------------------
(* Dispatch *)

Room(r) == conf[r].consumed + Cardinality(Active(r)) < conf[r].most

\* _finish_literal_target_for_update
Finishable(i) ==
    LET r == item[i].by
    IN  r \in Ref => target[r][i] = "active" /\ owner[r][i] = item[i].tries

Left(r) == {i \in Item : target[r][i] \in {"pending", "active"}}

Finish(i, status) ==
    LET r == item[i].by
        consumed == conf[r].consumed + IF status = "succeeded" THEN 1 ELSE 0
        left == (Left(r) \ {i}) \cup IF status = "pending" THEN {i} ELSE {}
    IN  IF r \notin Ref
          THEN UNCHANGED <<conf, target, owner>>
          ELSE /\ Finishable(i)
               /\ status = "succeeded" => conf[r].active /\ conf[r].consumed < conf[r].most
               /\ target' = [target EXCEPT ![r][i] = status]
               /\ owner' = [owner EXCEPT ![r][i] = 0]
               /\ conf' = [conf EXCEPT
                             ![r].consumed = consumed,
                             ![r].active = @ /\ consumed < conf[r].most /\ left # {}]

\* The literal branch of prepare_dispatch.
Confirmed(r, i) ==
    /\ conf[r].active /\ ~conf[r].expired /\ conf[r].consumed < conf[r].most
    /\ target[r][i] = "pending" /\ owner[r][i] = 0
    /\ Room(r)

Prepare(i) ==
    /\ run.pc = "running" /\ run.item \in {i, NoItem}
    /\ item[i].state = "ready" /\ item[i].tries < MaxTries
    /\ run.by \in Ref => Confirmed(run.by, i)
    /\ item' = [item EXCEPT ![i].state = "applying", ![i].tries = @ + 1,
                            ![i].by = run.by, ![i].checks = 0]
    /\ IF run.by \in Ref
         THEN /\ target' = [target EXCEPT ![run.by][i] = "active"]
              /\ owner' = [owner EXCEPT ![run.by][i] = item[i].tries + 1]
         ELSE UNCHANGED <<target, owner>>
    /\ run' = [run EXCEPT !.item = i, !.pc = "posting"]
    /\ UNCHANGED <<conf, todo, sent>>

\* HH takes the application, or does not; the answer may be lost either way.
Post ==
    /\ run.pc = "posting"
    /\ run' = [run EXCEPT !.pc = "landed"]
    /\ sent' \in {sent, [sent EXCEPT ![run.item] = IF @ = Nobody THEN run.by ELSE @]}
    /\ UNCHANGED <<conf, target, owner, item, todo>>

To(i, state) == item' = [item EXCEPT ![i].state = state, ![i].challenge = "none"]
Challenge(i, kind) ==
    item' = [item EXCEPT ![i].state = "manual_challenge", ![i].challenge = kind]

\* finalize_applied, finalize_failure and record_possibly_sent of a live run.
Answer ==
    /\ run.pc = "landed"
    /\ LET i == run.item
       IN  \/ /\ sent[i] = run.by
              /\ To(i, "applied") /\ Finish(i, "succeeded")
           \/ /\ sent[i] = Nobody
              /\ \/ item[i].tries < MaxTries /\ To(i, "retry_wait") /\ Finish(i, "pending")
                 \/ Challenge(i, "manual_captcha") /\ Finish(i, "pending")
                 \/ To(i, "skipped") /\ Finish(i, "closed")
                 \/ To(i, "dead") /\ Finish(i, "closed")
           \/ To(i, "reconciling") /\ UNCHANGED <<conf, target, owner>>
    /\ run' = [run EXCEPT !.pc = "running", !.item = IF run.by = Live THEN NoItem ELSE @]
    /\ UNCHANGED <<todo, sent>>

\* activate_due_retry
Retry(i) ==
    /\ run.pc = "running" /\ item[i].state = "retry_wait"
    /\ To(i, "ready")
    /\ UNCHANGED <<conf, target, owner, todo, run, sent>>
------------------------------------------------------------------------------
(* Reconciliation and the operator, under the lease of a run or of a sweep *)

CanReconcile(i) == run.pc \in {"none", "running"} /\ item[i].state = "reconciling"

\* The history of HH shows the application of this attempt, or another one.
Found(i) ==
    /\ CanReconcile(i) /\ sent[i] # Nobody
    /\ IF sent[i] = item[i].by THEN To(i, "applied") /\ Finish(i, "succeeded")
                               ELSE To(i, "skipped") /\ Finish(i, "closed")
    /\ UNCHANGED <<todo, run, sent>>

\* The candidate applied by hand while the attempt was undecided.
ByHand(i) ==
    /\ CanReconcile(i) /\ sent[i] = Nobody
    /\ To(i, "skipped") /\ Finish(i, "closed")
    /\ UNCHANGED <<todo, run, sent>>

Absent(i) ==
    /\ CanReconcile(i) /\ sent[i] = Nobody
    /\ IF item[i].checks + 1 < MaxChecks
         THEN /\ item' = [item EXCEPT ![i].checks = @ + 1]
              /\ UNCHANGED <<conf, target, owner>>
       ELSE IF item[i].tries < MaxTries
         THEN To(i, "ready") /\ Finish(i, "pending")
         ELSE To(i, "dead") /\ Finish(i, "closed")
    /\ UNCHANGED <<todo, run, sent>>

\* The readings contradict each other: the operator is asked.
Ask(i) ==
    /\ CanReconcile(i)
    /\ Challenge(i, "ambiguous_application")
    /\ UNCHANGED <<conf, target, owner, todo, run, sent>>

\* resolve_challenge of an operator who looked at HH, also after the question
\* has expired and the item is dead, and expire_challenge, which decides nothing.
Verdict(i) ==
    /\ run.pc \in {"none", "running"} /\ item[i].challenge = "ambiguous_application"
    /\ \/ sent[i] = item[i].by /\ To(i, "applied") /\ Finish(i, "succeeded")
       \/ sent[i] = Nobody /\ To(i, "ready") /\ Finish(i, "pending")
       \/ sent[i] # item[i].by /\ To(i, "skipped") /\ Finish(i, "closed")
       \/ /\ item' = [item EXCEPT ![i].state = "reconciling", ![i].challenge = "none",
                                   ![i].checks = 0]
          /\ UNCHANGED <<conf, target, owner>>
       \/ /\ item' = [item EXCEPT ![i].state = "dead"]
          /\ UNCHANGED <<conf, target, owner>>
    /\ UNCHANGED <<todo, run, sent>>

\* resolve_manual_challenge of a captcha or a test the refused POST met.
CloseManual(i) ==
    /\ run.pc \in {"none", "running"} /\ item[i].challenge = "manual_captcha"
    /\ \E s \in {"ready", "skipped"} : To(i, s)
    /\ UNCHANGED <<conf, target, owner, todo, run, sent>>
------------------------------------------------------------------------------
Next ==
    \/ \E r \in Ref : Confirm(r) \/ Expire(r) \/ StartLiteral(r)
    \/ StartLive \/ EndRun \/ Die \/ Post \/ Answer
    \/ \E i \in Item : \/ Prepare(i) \/ Retry(i) \/ Found(i) \/ ByHand(i) \/ Absent(i)
                       \/ Ask(i) \/ Verdict(i) \/ CloseManual(i)

Spec == Init /\ [][Next]_vars
------------------------------------------------------------------------------
(* Properties *)

\* Settling an attempt can never be refused for its confirmation: an undecided
\* attempt owns its active target, and the confirmation still has room for the
\* success of every active target (_finish_literal_target_for_update would
\* raise StaleWrite and roll the whole outcome back).
OutcomeCanBeRecorded ==
    /\ \A i \in Item : item[i].state \in {"applying", "reconciling"}
                        \/ item[i].challenge = "ambiguous_application" => Finishable(i)
    /\ \A r \in Ref : Active(r) # {} =>
            conf[r].active /\ conf[r].consumed + Cardinality(Active(r)) <= conf[r].most

\* The counter of a confirmation is the number of its targets that succeeded,
\* each with an application HH received under it.
SuccessIsReal ==
    \A r \in Ref :
        LET succeeded == {i \in Item : target[r][i] = "succeeded"}
        IN  /\ conf[r].consumed = Cardinality(succeeded)
            /\ \A i \in succeeded : sent[i] = r /\ item[i].state = "applied"
=============================================================================
