---------------------------- MODULE Authorization ----------------------------
(***************************************************************************)
(* Who may let the autopilot send: the operator's commands write a grant   *)
(* to the database and its projection to the configuration file, in two    *)
(* steps and from several processes; a run works from the configuration it *)
(* loaded when its process started.                                        *)
(*                                                                         *)
(* One account.  What a run sends is the business of Dispatch; here it     *)
(* only matters that a POST was prepared.                                  *)
(***************************************************************************)
EXTENDS Integers, FiniteSets

CONSTANTS
    Admin,        \* processes that run the operator's commands
    Policy,       \* hashes of the policy material
    Scope,        \* control scopes: account, global
    HandEdits,    \* the candidate edits the enabled flag in the file, or not
    MaxGrant,     \* bound: generations
    MaxEdit       \* bound: edits of the policy

AuthorizationAssumption ==
    /\ Admin # {} /\ Policy # {} /\ Scope # {}
    /\ HandEdits \in BOOLEAN
    /\ MaxGrant \in Nat /\ MaxEdit \in Nat

Generation == 0..MaxGrant     \* 0: none

VARIABLES
    grant,    \* the active row of hh_autopilot_grants
    high,     \* highest generation ever
    kill,     \* scopes whose kill switch is set
    pause,    \* paused of hh_autopilot_controls
    file,     \* the account's entry in the configuration file
    op,       \* what each administrative process is doing
    mem,      \* the configuration of the run's process
    run,      \* the run
    edits,    \* policy edits so far
    word,     \* history: the operator's last word, on or off
    shown     \* history: generations whose own enable wrote them to the file

db == <<grant, high, kill, pause>>
history == <<edits, word, shown>>
vars == <<db, file, op, mem, run, history>>

NoGrant(policy) == [gen |-> 0, policy |-> policy]
Quiet(policy) == [pc |-> "idle", gen |-> 0, policy |-> policy, paused |-> FALSE]
Entry == [enabled : BOOLEAN, gen : Generation, paused : BOOLEAN, policy : Policy]

TypeOK ==
    /\ grant \in [gen : Generation, policy : Policy] /\ high \in Generation
    /\ kill \subseteq Scope /\ pause \in BOOLEAN
    /\ file \in Entry /\ mem \in Entry
    /\ op \in [Admin -> [pc : {"idle", "grant", "project", "confirm", "undo", "hide", "mark"},
                         gen : Generation, policy : Policy, paused : BOOLEAN]]
    /\ run \in [pc : {"none", "begun", "live", "prepared"}, gen : Generation,
                policy : Policy, stop : BOOLEAN]
    /\ edits \in 0..MaxEdit /\ word \in {"on", "off"} /\ shown \subseteq Generation

NoRun(policy) == [pc |-> "none", gen |-> 0, policy |-> policy, stop |-> FALSE]

Init ==
    \E p \in Policy :
        /\ grant = NoGrant(p) /\ high = 0 /\ kill = {} /\ pause = FALSE
        /\ file = [enabled |-> FALSE, gen |-> 0, paused |-> FALSE, policy |-> p]
        /\ op = [a \in Admin |-> Quiet(p)]
        /\ mem = file
        /\ run = NoRun(p)
        /\ edits = 0 /\ word = "off" /\ shown = {}
------------------------------------------------------------------------------
(* Pieces of the transactions *)

Revoked == [grant EXCEPT !.gen = 0]
Stopped == [run EXCEPT !.stop = run.pc # "none"]

\* reconcile_authorization_projection
Mismatch == ~file.enabled \/ grant.gen = 0 \/ grant.gen # file.gen
Reconcile ==
    /\ grant' = IF Mismatch THEN Revoked ELSE grant
    /\ run' = IF Mismatch THEN Stopped ELSE run

Goes(a, pc) == op' = [op EXCEPT ![a].pc = pc]
Ends(a) == op' = [op EXCEPT ![a] = Quiet(@.policy)]
Writes(entry) == /\ file' = entry
                 /\ shown' = shown \cup {entry.gen}
------------------------------------------------------------------------------
(* Processes start *)

\* A process opens the storage: under the config lock the grants are
\* reconciled to the file.
Startup ==
    /\ Reconcile
    /\ UNCHANGED <<high, kill, pause, file, op, mem, history>>

\* A command starts from the configuration its process has loaded.
Load(a) ==
    /\ op[a].pc = "idle"
    /\ Reconcile
    /\ op' = [op EXCEPT ![a].policy = file.policy]
    /\ UNCHANGED <<high, kill, pause, file, mem, history>>

LoadRunner ==
    /\ run.pc = "none"
    /\ Reconcile
    /\ mem' = file
    /\ UNCHANGED <<high, kill, pause, file, op, history>>

Crash(a) ==
    /\ op[a].pc # "idle"
    /\ Ends(a)
    /\ UNCHANGED <<db, file, mem, run, history>>
------------------------------------------------------------------------------
(* enable: check, create the grant, write the projection, confirm or undo *)

BeginEnable(a) ==
    /\ op[a].pc = "idle"
    /\ kill = {}
    /\ Goes(a, "grant")
    /\ UNCHANGED <<db, file, mem, run, history>>

\* The kill switch is checked again in the transaction of create_grants.
MayGrant == kill = {}

\* The generation follows the highest ever, revoked ones included.
NextGeneration == high + 1

CreateGrants(a) ==
    /\ op[a].pc = "grant"
    /\ IF MayGrant
       THEN /\ NextGeneration <= MaxGrant
            /\ high' = IF NextGeneration > high THEN NextGeneration ELSE high
            /\ grant' = [gen |-> NextGeneration, policy |-> op[a].policy]
            /\ op' = [op EXCEPT ![a].pc = "project", ![a].gen = NextGeneration]
            /\ word' = "on"
            /\ shown' = shown \ {NextGeneration}
       ELSE /\ Ends(a)
            /\ UNCHANGED <<grant, high, word, shown>>
    /\ UNCHANGED <<kill, pause, file, mem, run, edits>>

WriteProjection(a) ==
    /\ op[a].pc = "project"
    /\ Writes([file EXCEPT !.enabled = TRUE, !.gen = op[a].gen])
    /\ Goes(a, "confirm")
    /\ UNCHANGED <<db, mem, run, edits, word>>

ProjectionFails(a) ==
    /\ op[a].pc = "project"
    /\ Goes(a, "undo")
    /\ UNCHANGED <<db, file, mem, run, history>>

\* File and database are compared under the config lock.
Confirmed(a) ==
    /\ file.enabled /\ file.gen = op[a].gen /\ file.policy = op[a].policy
    /\ grant = [gen |-> op[a].gen, policy |-> op[a].policy]

Confirm(a) ==
    /\ op[a].pc = "confirm"
    /\ IF Confirmed(a) THEN Ends(a) ELSE Goes(a, "undo")
    /\ UNCHANGED <<db, file, mem, run, history>>

\* revoke_exact_generations
RevokeOwn(a) == IF grant.gen = op[a].gen THEN Revoked ELSE grant

Undo(a) ==
    /\ op[a].pc = "undo"
    /\ grant' = RevokeOwn(a)
    /\ Ends(a)
    /\ UNCHANGED <<high, kill, pause, file, mem, run, history>>
------------------------------------------------------------------------------
(* disable, the kill switch, pause *)

\* Mutant: the generation the file shows is revoked.
RevokeShown == IF grant.gen = file.gen THEN Revoked ELSE grant

\* _revoke_accounts
RevokeAccount == Revoked

Disable(a) ==
    /\ op[a].pc = "idle"
    /\ grant' = RevokeAccount
    /\ run' = Stopped
    /\ word' = "off"
    /\ Goes(a, "hide")
    /\ UNCHANGED <<high, kill, pause, file, mem, edits, shown>>

SetKillSwitch(a, s) ==
    /\ op[a].pc = "idle"
    /\ kill' = kill \cup {s}
    /\ grant' = RevokeAccount
    /\ run' = Stopped
    /\ word' = "off"
    /\ Goes(a, "hide")
    /\ UNCHANGED <<high, pause, file, mem, edits, shown>>

\* The projection of disable and of the kill switch.
HideProjection(a) ==
    /\ op[a].pc = "hide"
    /\ Writes([file EXCEPT !.enabled = FALSE, !.gen = 0])
    /\ Ends(a)
    /\ UNCHANGED <<db, mem, run, edits, word>>

ClearKillSwitch(a, s) ==
    /\ op[a].pc = "idle" /\ s \in kill
    /\ kill' = kill \ {s}
    /\ UNCHANGED <<grant, high, pause, file, op, mem, run, history>>

SetPause(a, paused) ==
    /\ op[a].pc = "idle" /\ pause # paused
    /\ pause' = paused
    /\ op' = [op EXCEPT ![a].pc = "mark", ![a].paused = paused]
    /\ UNCHANGED <<grant, high, kill, file, mem, run, history>>

MarkPause(a) ==
    /\ op[a].pc = "mark"
    /\ file' = [file EXCEPT !.paused = op[a].paused]
    /\ Ends(a)
    /\ UNCHANGED <<db, mem, run, history>>
------------------------------------------------------------------------------
(* The file changes *)

\* An ordinary save keeps the managed fields and may change the policy.
EditPolicy ==
    /\ edits < MaxEdit
    /\ edits' = edits + 1
    /\ file' \in {[file EXCEPT !.policy = p] : p \in Policy \ {file.policy}}
    /\ UNCHANGED <<db, op, mem, run, word, shown>>

\* The candidate edits the flag with an editor.
EditFlag ==
    /\ HandEdits
    /\ file' = [file EXCEPT !.enabled = ~@]
    /\ UNCHANGED <<db, op, mem, run, history>>
------------------------------------------------------------------------------
(* The run *)

CreateRun ==
    /\ run.pc = "none"
    /\ grant.gen # 0
    /\ run' = [pc |-> "begun", gen |-> grant.gen, policy |-> mem.policy, stop |-> FALSE]
    /\ UNCHANGED <<db, file, op, mem, history>>

\* issue_live_authorization: the caller's configuration, the file under its
\* lock, and the database agree.
Authorizable ==
    /\ mem.enabled /\ ~mem.paused /\ mem.gen # 0
    /\ file.enabled /\ ~file.paused /\ file.gen = mem.gen /\ file.policy = mem.policy
    /\ grant = [gen |-> file.gen, policy |-> file.policy]
    /\ ~pause /\ kill = {}
    /\ ~run.stop /\ run.policy = grant.policy /\ run.gen = grant.gen

IssueLiveAuthorization ==
    /\ run.pc = "begun"
    /\ run' = IF Authorizable THEN [run EXCEPT !.pc = "live"] ELSE NoRun(run.policy)
    /\ UNCHANGED <<db, file, op, mem, history>>

\* prepare_dispatch: the snapshot of the process and the database agree.
Dispatchable ==
    /\ kill = {} /\ ~run.stop
    /\ mem.enabled /\ mem.gen # 0 /\ ~mem.paused
    /\ grant = [gen |-> run.gen, policy |-> mem.policy]
    /\ grant.gen = mem.gen /\ run.policy = grant.policy
    /\ ~pause

PrepareDispatch ==
    /\ run.pc = "live"
    /\ Dispatchable
    /\ run' = [run EXCEPT !.pc = "prepared"]
    /\ UNCHANGED <<db, file, op, mem, history>>

SendPost ==
    /\ run.pc = "prepared"
    /\ run' = [run EXCEPT !.pc = "live"]
    /\ UNCHANGED <<db, file, op, mem, history>>

\* Refused, stopped, finished, or dead.
EndRun ==
    /\ run.pc # "none"
    /\ run' = NoRun(run.policy)
    /\ UNCHANGED <<db, file, op, mem, history>>

Commands(a) ==
    \/ BeginEnable(a) \/ Disable(a)
    \/ \E s \in Scope : SetKillSwitch(a, s) \/ ClearKillSwitch(a, s)
    \/ \E paused \in BOOLEAN : SetPause(a, paused)

Continues(a) ==
    \/ CreateGrants(a) \/ WriteProjection(a) \/ ProjectionFails(a) \/ Confirm(a) \/ Undo(a)
    \/ HideProjection(a) \/ MarkPause(a)

Next ==
    \/ Startup \/ LoadRunner
    \/ \E a \in Admin : Load(a) \/ Commands(a) \/ Continues(a) \/ Crash(a)
    \/ EditPolicy \/ EditFlag
    \/ CreateRun \/ IssueLiveAuthorization \/ PrepareDispatch \/ SendPost \/ EndRun

Spec == Init /\ [][Next]_vars

\* The scheduled task keeps starting processes; nobody has to type a command.
FairSpec == Spec /\ WF_vars(Startup)
------------------------------------------------------------------------------
(* Properties *)

Dispatches == run.pc = "live" /\ run'.pc = "prepared"

\* No grant survives the kill switch or is made under it, however commands,
\* crashes and starting processes interleave; so clearing the switch alone
\* sends nothing (create_grants, set_kill_switch).
NoGrantUnderKill == kill # {} => grant.gen = 0

\* Nothing is prepared against the operator's last word: a disable or kill
\* that came after the grant holds whatever the configuration in memory, the
\* file or a half-done enable says (_revoke_accounts, prepare_dispatch).
SendsOnTheOperatorsWord == Dispatches => word = "on" /\ ~pause

\* A grant whose projection was never written sends nothing: a process that
\* died between the two steps of enable has authorized nobody.
SendsUnderShownGrant == Dispatches => run.gen \in shown

\* A failed enable takes back its own grant and no other (revoke_exact_generations).
UndoTakesBackItsOwn ==
    \A a \in Admin : op[a].pc = "undo" /\ op'[a].pc = "idle"
                            => grant' = grant \/ grant.gen = op[a].gen

\* A grant the file contradicts is revoked by the next process that starts,
\* or the commands settle it (reconcile_authorization_projection at startup).
Orphan == grant.gen # 0 /\ (~file.enabled \/ file.gen # grant.gen)
OrphanGrantIsRevoked == Orphan ~> ~Orphan

\* A change of the policy stops dispatch until the operator enables again.
PolicyChangeStopsDispatch == Dispatches => run.policy = file.policy

\* An entry disabled in the file sends nothing.
DisabledEntryStopsDispatch == Dispatches => file.enabled
==============================================================================
