------------------------------- MODULE Manual -------------------------------
(***************************************************************************)
(* Applications the operator confirms one by one (services.py): apply      *)
(* plans, campaigns and lists in a file.  Each goes through a run of the   *)
(* engine, which is kept to what a command sees of it: the lease, the      *)
(* letter it renders, the one POST and what becomes of the item (Dispatch  *)
(* and OneShot have the rest).  Every command writes down what it thinks   *)
(* happened, and that is what the operator and the next command read.      *)
(*                                                                         *)
(* One account; letters are rendered in template mode.                     *)
(***************************************************************************)
EXTENDS Naturals, SequencesExt

CONSTANTS
    Vacancy, Resume,
    Proc,           \* processes of the operator's commands
    Campaign, Plan, \* campaigns and apply plans
    Own,            \* letters the operator writes
    Lists,          \* contents of the file: sequences of vacancies
    Most,           \* limits.per_run_success
    FileLimit,      \* limit of the file's command
    Reuse,          \* application.reuse_saved_cover_letter
    Together,       \* other processes work during a command
    MaxCommands     \* bound: commands started

Rows == 1..2        \* bound: rows a file can have
ManualAssumption ==
    /\ IsFiniteSet(Vacancy) /\ Lists \subseteq Seq(Vacancy)
    /\ \A l \in Lists : DOMAIN l \subseteq Rows
    /\ Most \in Nat /\ FileLimit \in Nat

VARIABLES
    latest,         \* letters: the latest of each vacancy
    cached,         \* letters: items the autopilot has drafted one for
    item,           \* hh_autopilot_items: state of each vacancy and resume
    campaign,       \* hh_campaign_runs with their items
    plan,           \* apply_plans
    file,           \* the file as it is now
    state,          \* hh_apply_from_file_state, by row
    lease,          \* the process that runs the engine
    cmd,            \* what each process is at
    hh,             \* applications HH has received
    skipped,        \* vacancies passed over as already processed
    used
vars == <<latest, cached, item, campaign, plan, file, state, lease, cmd, hh, skipped, used>>

None == "none"
Nothing == [v |-> None, r |-> None, letter |-> None, status |-> None]
NoLetter == [by |-> None, r |-> None, body |-> None]
Idle == [is |-> "idle", ref |-> None, list |-> <<>>, r |-> None, pc |-> "idle", body |-> None, targets |-> <<>>, reports |-> <<>>,
         row |-> 0, count |-> 0, made |-> 0]

Delivered(v, r) == \E d \in hh : d.v = v /\ d.r = r
Quiet == Together \/ \A p \in Proc : cmd[p] = Idle

Init ==
    /\ latest = [v \in Vacancy |-> NoLetter] /\ cached = {}
    /\ item = [t \in Vacancy \X Resume |-> None]
    /\ campaign = [c \in Campaign |-> [status |-> None, rows |-> [v \in Vacancy |-> Nothing]]]
    /\ plan = [k \in Plan |-> Nothing]
    /\ file \in Lists /\ state = [k \in Rows |-> Nothing]
    /\ lease = None /\ cmd = [p \in Proc |-> Idle]
    /\ hh = {} /\ skipped = {} /\ used = 0

----------------------------------------------------------------------------
(* Planning                                                                *)

\* prepare_letter and prepare_letter_ai, or a letter the operator saves.
Draft ==
    /\ Quiet /\ \E v \in Vacancy, b \in Own : latest' = [latest EXCEPT ![v] = [by |-> "draft", r |-> None, body |-> b]]
    /\ UNCHANGED <<cached, item, campaign, plan, file, state, lease, cmd, hh, skipped, used>>

\* _application_letter: the latest letter, or one drafted and saved now.
Letter(v) == IF latest[v] = NoLetter THEN "drafted" ELSE latest[v].body
WithLetters(V) == [v \in Vacancy |-> IF v \in V /\ latest[v] = NoLetter
                                       THEN [by |-> "draft", r |-> None, body |-> "drafted"] ELSE latest[v]]

\* get_application: any row of the vacancy.
Applied(v) == \E r \in Resume : item[<<v, r>>] = "applied"

\* _plan_hh_campaign_item: ready with its letter, or skipped or an error.
PlannedRow(v, r, ready) ==
    IF v \in ready THEN [v |-> v, r |-> r, letter |-> Letter(v), status |-> "ready"]
                   ELSE [v |-> v, r |-> None, letter |-> None, status |-> "skipped"]
\* plan_hh_campaign and plan_hh_search_campaign, row after row.
PlanCampaign ==
    /\ Quiet
    /\ \E c \in Campaign, r \in Resume, ready \in SUBSET {v \in Vacancy : ~Applied(v)} :
         /\ campaign[c].status = None
         /\ campaign' = [campaign EXCEPT ![c] =
              [status |-> "planned",
               rows |-> [v \in Vacancy |-> PlannedRow(v, r, ready)]]]
         /\ latest' = WithLetters(ready)
    /\ UNCHANGED <<cached, item, plan, file, state, lease, cmd, hh, skipped, used>>

\* save_apply_plan.
SavedPlan(v, r, b) == [v |-> v, r |-> r, letter |-> IF b = None THEN Letter(v) ELSE b, status |-> "ready"]
\* prepare_apply_plan, with the operator's letter or without.
PreparePlan ==
    /\ Quiet
    /\ \E k \in Plan, v \in Vacancy, r \in Resume, b \in Own \cup {None} :
         /\ plan[k].status = None
         /\ plan' = [plan EXCEPT ![k] = SavedPlan(v, r, b)]
         /\ latest' = IF b = None THEN WithLetters({v}) ELSE latest
    /\ UNCHANGED <<cached, item, campaign, file, state, lease, cmd, hh, skipped, used>>

EditFile ==
    /\ Quiet /\ \E l \in Lists : l # file /\ file' = l
    /\ UNCHANGED <<latest, cached, item, campaign, plan, state, lease, cmd, hh, skipped, used>>

----------------------------------------------------------------------------
(* The commands                                                            *)

Begin(p, c) ==
    /\ Quiet /\ cmd[p] = Idle /\ used < MaxCommands /\ used' = used + 1
    /\ cmd' = [cmd EXCEPT ![p] = c]

\* confirm_hh_campaign: the ready rows become the targets.
ReadyRows(c) ==
    LET R == campaign[c].rows IN
    SetToSeq({R[v] : v \in {x \in Vacancy : R[x].status = "ready"}})
ConfirmCampaign(p) ==
    /\ \E c \in Campaign :
         /\ campaign[c].status # None
         /\ Begin(p, [Idle EXCEPT !.is = "campaign", !.ref = c, !.pc = "letters", !.targets = ReadyRows(c)])
    /\ UNCHANGED <<latest, cached, item, campaign, plan, file, state, lease, hh, skipped>>

\* confirm_apply_plan: only a ready plan; the vacancy may have changed.
ConfirmPlan(p) ==
    /\ \E k \in Plan :
         /\ plan[k].status = "ready"
         /\ Begin(p, [Idle EXCEPT !.is = "plan", !.ref = k, !.pc = "letters", !.targets = <<plan[k]>>])
    /\ UNCHANGED <<latest, cached, item, campaign, plan, file, state, lease, hh, skipped>>

\* apply_hh_from_file for real: the rows are read once, then one by one.
RunFile(p) ==
    /\ \E r \in Resume :
         Begin(p, [Idle EXCEPT !.is = "file", !.list = file, !.r = r, !.pc = "row", !.row = 1])
    /\ UNCHANGED <<latest, cached, item, campaign, plan, file, state, lease, hh, skipped>>

\* ... and without --real, when every row within the limit becomes planned.
DryRun ==
    /\ Quiet
    /\ \E r \in Resume :
         state' = [k \in Rows |-> IF k \in DOMAIN file /\ k <= FileLimit
                     THEN [v |-> file[k], r |-> r, letter |-> None, status |-> "planned"] ELSE state[k]]
    /\ UNCHANGED <<latest, cached, item, campaign, plan, file, lease, cmd, hh, skipped, used>>

\* _apply_hh_from_file_row: beyond the limit, done already, or to be sent.
Processed(status) == status = "applied"
Rest(p) == cmd[p].row \in DOMAIN cmd[p].list
FileRow(p) ==
    /\ cmd[p].pc = "row" /\ Rest(p)
    /\ LET k == cmd[p].row  v == cmd[p].list[k] IN
         CASE cmd[p].count >= FileLimit ->
                cmd' = [cmd EXCEPT ![p].row = @ + 1] /\ UNCHANGED skipped
           [] cmd[p].count < FileLimit /\ Processed(state[k].status) ->
                cmd' = [cmd EXCEPT ![p].row = @ + 1] /\ skipped' = skipped \cup {v}
           [] OTHER ->
                \E b \in Own \cup {None} :
                   /\ cmd' = [cmd EXCEPT ![p].pc = "letters", ![p].reports = <<>>,
                                ![p].targets = <<[v |-> v, r |-> cmd[p].r, letter |-> b, status |-> "ready"]>>]
                   /\ UNCHANGED skipped
    /\ UNCHANGED <<latest, cached, item, campaign, plan, file, state, lease, hh, used>>
EndFile(p) ==
    /\ cmd[p].pc = "row" /\ ~Rest(p) /\ cmd' = [cmd EXCEPT ![p] = Idle]
    /\ UNCHANGED <<latest, cached, item, campaign, plan, file, state, lease, hh, skipped, used>>

\* The letters that were confirmed are saved under the name of the resume.
SavedLetters(ts) == [v \in Vacancy |->
    IF \E i \in DOMAIN ts : ts[i].v = v /\ ts[i].letter # None
      THEN LET i == CHOOSE i \in DOMAIN ts : ts[i].v = v
           IN [by |-> "manual-confirmation", r |-> ts[i].r, body |-> ts[i].letter]
      ELSE latest[v]]
SaveLetters(p) ==
    /\ cmd[p].pc = "letters"
    /\ latest' = SavedLetters(cmd[p].targets)
    /\ cmd' = [cmd EXCEPT ![p].pc = "run"]
    /\ UNCHANGED <<cached, item, campaign, plan, file, state, lease, hh, skipped, used>>

----------------------------------------------------------------------------
(* _run_hh_literal_targets: one run of the engine for each target, no more *)
(* of them than one run may apply to.                                      *)

Ran(p) == Len(cmd[p].reports)
Target(p) == cmd[p].targets[Ran(p) + 1]
Key(p) == <<Target(p).v, Target(p).r>>
More(p) == Ran(p) < Len(cmd[p].targets) /\ Ran(p) < Most
Report(p, r) == cmd' = [cmd EXCEPT ![p].reports = Append(@, r), ![p].pc = "run"]

\* A run takes the lease, and what dead runs left in applying is uncertain.
StartRun(p) ==
    /\ cmd[p].pc = "run" /\ More(p)
    /\ \/ /\ lease = None /\ lease' = p
          /\ item' = [t \in DOMAIN item |-> IF item[t] = "applying" THEN "reconciling" ELSE item[t]]
          /\ cmd' = [cmd EXCEPT ![p].pc = "held"]
       \/ /\ lease # None /\ Report(p, "busy") /\ UNCHANGED <<lease, item>>
    /\ UNCHANGED <<latest, cached, campaign, plan, file, state, hh, skipped, used>>

\* Filters, quotas, pauses: the item is refused; one that is decided stays.
Settled(v) == \E r \in Resume : item[<<v, r>>] \in {"applying", "reconciling", "applied", "manual_challenge"}
Refuse(p) ==
    /\ cmd[p].pc = "held"
    /\ item' = IF item[Key(p)] \in {None, "skipped"} THEN [item EXCEPT ![Key(p)] = "skipped"] ELSE item
    /\ Report(p, "completed") /\ lease' = None
    /\ UNCHANGED <<latest, cached, campaign, plan, file, state, hh, skipped, used>>

\* _ConfiguredHHCoverLetters.render: the confirmed letter if it is the
\* latest, else the item's cached draft, else a new one.
TakesLatest(t) ==
    \/ latest[t[1]].by = "manual-confirmation" /\ latest[t[1]].r = t[2]
    \/ Reuse /\ latest[t[1]] # NoLetter /\ latest[t[1]].by # "autopilot"
LetterOf(t) == IF TakesLatest(t) THEN latest[t[1]].body ELSE "drafted"
Rendered(t) ==
    /\ cached' = IF TakesLatest(t) THEN cached ELSE cached \cup {t}
    /\ latest' = IF TakesLatest(t) \/ t \in cached THEN latest
                 ELSE [latest EXCEPT ![t[1]] = [by |-> "autopilot", r |-> None, body |-> "drafted"]]

\* The dispatch: the letter, the reservation and the POST on its way.
Dispatch(p) ==
    /\ cmd[p].pc = "held" /\ ~Settled(Target(p).v)
    /\ Rendered(Key(p))
    /\ item' = [item EXCEPT ![Key(p)] = "applying"]
    /\ cmd' = [cmd EXCEPT ![p].pc = "posting", ![p].body = LetterOf(Key(p))]
    /\ UNCHANGED <<campaign, plan, file, state, lease, hh, skipped, used>>
Deliver(p) ==
    /\ cmd[p].pc = "posting"
    /\ hh' = hh \cup {[v |-> Target(p).v, r |-> Target(p).r, body |-> cmd[p].body, wanted |-> Target(p).letter]}
    /\ cmd' = [cmd EXCEPT ![p].pc = "posted", ![p].made = @ + 1]
    /\ UNCHANGED <<latest, cached, item, campaign, plan, file, state, lease, skipped, used>>

\* The answer: confirmed, refused, a challenge, or lost on its way back.
Answer(p) ==
    /\ \E a \in {"applied", "skipped", "manual_challenge", "reconciling"} :
         /\ a = "applied" => cmd[p].pc = "posted"
         /\ a \in {"skipped", "manual_challenge"} => cmd[p].pc = "posting"
         /\ a = "reconciling" => cmd[p].pc \in {"posting", "posted"}
         /\ item' = [item EXCEPT ![Key(p)] = a]
         /\ Report(p, IF a = "skipped" THEN "completed" ELSE a)
    /\ lease' = None
    /\ UNCHANGED <<latest, cached, campaign, plan, file, state, hh, skipped, used>>

----------------------------------------------------------------------------
(* What the commands write down                                            *)

\* _legacy_hh_run_status: the report, else what the item says by now.
LegacyAnyResume(t, report) ==
    IF report \in {"applied", "manual_challenge"} THEN report
    ELSE IF \E r \in Resume : item[<<t.v, r>>] = "applied" THEN "applied"
    ELSE IF item[<<t.v, t.r>>] # None THEN item[<<t.v, t.r>>]
    ELSE IF report = "completed" THEN "skipped" ELSE report
Legacy(t, report) ==
    IF report \in {"applied", "manual_challenge"} THEN report
    ELSE IF item[<<t.v, t.r>>] # None THEN item[<<t.v, t.r>>]
    ELSE IF report = "completed" THEN "skipped" ELSE report

\* A target beyond the run's limit has no report.
Status(p, i) == IF i <= Ran(p) THEN Legacy(cmd[p].targets[i], cmd[p].reports[i]) ELSE "run_limit"

WriteCampaign(p) ==
    /\ cmd[p].is = "campaign" /\ cmd[p].pc = "run" /\ ~More(p)
    /\ LET c == cmd[p].ref  T == cmd[p].targets  R == campaign[c].rows
           At(v) == CHOOSE i \in DOMAIN T : T[i].v = v IN
         campaign' = [campaign EXCEPT ![c] =
           [status |-> "confirmed",
            rows |-> [v \in Vacancy |-> IF \E i \in DOMAIN T : T[i].v = v
                        THEN [R[v] EXCEPT !.status = IF Status(p, At(v)) = "applied" THEN "applied" ELSE "error"]
                        ELSE R[v]]]]
    /\ cmd' = [cmd EXCEPT ![p] = Idle]
    /\ UNCHANGED <<latest, cached, item, plan, file, state, lease, hh, skipped, used>>
WritePlan(p) ==
    /\ cmd[p].is = "plan" /\ cmd[p].pc = "run" /\ ~More(p)
    /\ plan' = [plan EXCEPT ![cmd[p].ref].status = Status(p, 1)]
    /\ cmd' = [cmd EXCEPT ![p] = Idle]
    /\ UNCHANGED <<latest, cached, item, campaign, file, state, lease, hh, skipped, used>>
WriteFileRow(p) ==
    /\ cmd[p].is = "file" /\ cmd[p].pc = "run" /\ ~More(p)
    /\ LET s == Status(p, 1) IN
         /\ state' = [state EXCEPT ![cmd[p].row] = [cmd[p].targets[1] EXCEPT !.status = s]]
         /\ cmd' = [cmd EXCEPT ![p].row = @ + 1, ![p].pc = "row",
                      ![p].count = IF s = "applied" THEN @ + 1 ELSE @]
    /\ UNCHANGED <<latest, cached, item, campaign, plan, file, lease, hh, skipped, used>>

\* A killed command has written nothing; its lease runs out.
Die(p) ==
    /\ cmd[p] # Idle
    /\ cmd' = [cmd EXCEPT ![p] = Idle]
    /\ lease' = IF lease = p THEN None ELSE lease
    /\ UNCHANGED <<latest, cached, item, campaign, plan, file, state, hh, skipped, used>>

----------------------------------------------------------------------------
(* The autopilot on its own: it drafts letters, applies, and finds out     *)
(* what became of uncertain applications.                                  *)
Autopilot ==
    /\ Quiet /\ lease = None
    /\ \E t \in DOMAIN item :
         \/ ~Settled(t[1]) /\ Rendered(t) /\ UNCHANGED <<item, hh>>
         \/ /\ ~Settled(t[1]) /\ Rendered(t)
            /\ hh' = hh \cup {[v |-> t[1], r |-> t[2], body |-> LetterOf(t), wanted |-> None]}
            /\ \E a \in {"applied", "reconciling"} : item' = [item EXCEPT ![t] = a]
         \/ /\ item[t] \in {"applying", "reconciling"}
            /\ item' = [item EXCEPT ![t] = IF Delivered(t[1], t[2]) THEN "applied" ELSE "absent"]
            /\ UNCHANGED <<latest, cached, hh>>
    /\ UNCHANGED <<campaign, plan, file, state, lease, cmd, skipped, used>>

Command(p) ==
    \/ ConfirmCampaign(p) \/ ConfirmPlan(p) \/ RunFile(p) \/ FileRow(p) \/ EndFile(p) \/ SaveLetters(p)
    \/ StartRun(p) \/ Refuse(p) \/ Dispatch(p) \/ Deliver(p) \/ Answer(p)
    \/ WriteCampaign(p) \/ WritePlan(p) \/ WriteFileRow(p) \/ Die(p)
Next ==
    \/ Draft \/ PlanCampaign \/ PreparePlan \/ EditFile \/ DryRun \/ Autopilot
    \/ \E p \in Proc : Command(p)
Spec == Init /\ [][Next]_vars

----------------------------------------------------------------------------
\* What any record calls applied has reached HH with that resume, though
\* commands die, answers are lost and other runs decide the item meanwhile.
AppliedIsReal ==
    /\ \A c \in Campaign, v \in Vacancy :
         campaign[c].rows[v].status = "applied" => Delivered(v, campaign[c].rows[v].r)
    /\ \A k \in Plan : plan[k].status = "applied" => Delivered(plan[k].v, plan[k].r)
    /\ \A k \in Rows : state[k].status = "applied" => Delivered(state[k].v, state[k].r)

\* An application that a command confirmed with a letter carries that letter.
ConfirmedLetterIsSent == \A d \in hh : d.wanted # None => d.body = d.wanted

\* The letters command p was confirmed with are the latest of their vacancies
\* until it is through, and the one on its way is the confirmed one.
KeepsLetters(p) ==
    /\ cmd[p].pc \in {"run", "held", "posting", "posted"} =>
         \A i \in DOMAIN cmd[p].targets : LET t == cmd[p].targets[i] IN t.letter # None =>
            latest[t.v] = [by |-> "manual-confirmation", r |-> t.r, body |-> t.letter]
    /\ cmd[p].pc \in {"posting", "posted"} /\ Target(p).letter # None => cmd[p].body = Target(p).letter

\* Whatever works beside it: a command loses a confirmed letter only to another
\* one that a draft, the autopilot or another command writes while it waits,
\* and an application leaves without the letter it was confirmed with only then.
OnlyOthersReplace ==
    /\ \A p \in Proc : KeepsLetters(p) => KeepsLetters(p)' \/ cmd'[p] = cmd[p]
    /\ \A d \in hh' \ hh : d.wanted # None /\ d.body # d.wanted =>
         \E p \in Proc : cmd[p].pc = "posting" /\ ~KeepsLetters(p)

\* A row passed over as processed names a vacancy that was applied to.
ProcessedRowIsSent == \A v \in skipped : \E r \in Resume : Delivered(v, r)

\* Once processed, a row of the file stays processed.
ProcessedIsKept == \A k \in Rows : state[k].status = "applied" => state'[k].status = "applied"

\* A command with a limit sends no more applications than that.
FileWithinLimit == \A p \in Proc : cmd[p].is = "file" => cmd[p].made <= FileLimit

=============================================================================
