---------------------------- MODULE ExternalApply ---------------------------
(***************************************************************************)
(* An application to a site other than HH (WorkHunter.confirm_apply).  The *)
(* user previews a plan, a bundle of letter, resume and settings, and      *)
(* confirms it; the bundle is prepared anew, compared with the preview,    *)
(* built once more for the adapter and claimed in the database before the  *)
(* adapter runs.  What the adapter did may stay unknown.  The web server   *)
(* and the command line may confirm at the same time, the candidate edits  *)
(* the profile meanwhile, and any of them may die.                         *)
(***************************************************************************)
EXTENDS Naturals, FiniteSets, Sequences

CONSTANTS
    Workers,        \* threads or processes that confirm
    Jobs,           \* vacancies of other sources
    Resumes,        \* local resume versions
    Versions,       \* bound on the edits of the profile, which change the hash of a bundle
    MaxPlans        \* bound on the rows of apply_plans

ExternalApplyAssumption ==
    /\ MaxPlans \in Nat /\ Versions \in Nat /\ Resumes # {}

VARIABLES
    plans,          \* apply_plans, in the order of the ids
    applications,   \* applications: [Jobs \X Rows -> [status, transport]]
    bundle,         \* what preparing an application would hash to now
    work,           \* what each worker is about
    delivered       \* the submissions each site took, oldest first
vars == <<plans, applications, bundle, work, delivered>>

NoBundle == 0

\* A row of the user's own has no resume.
ByHand == "by hand"
Rows == Resumes \union {ByHand}
NoRow == [status |-> "none", transport |-> FALSE]
Idle == [step |-> "idle", stored |-> 0, own |-> 0, expected |-> NoBundle, request |-> NoBundle,
         answer |-> "none", applied |-> FALSE]

Init ==
    /\ plans = <<>>
    /\ applications = [row \in Jobs \X Rows |-> NoRow]
    /\ bundle = 1
    /\ work = [w \in Workers |-> Idle]
    /\ delivered = [j \in Jobs |-> <<>>]

At(w, step) == work[w].step = step
Goto(w, step) == work' = [work EXCEPT ![w].step = step]
Answer(w, answer) == work' = [work EXCEPT ![w].step = "finishing", ![w].answer = answer]
SetStatus(p, status) == plans' = [plans EXCEPT ![p].status = status]
Own(w) == plans[work[w].own]

----------------------------------------------------------------------------
(* Preparing.                                                              *)

\* save_apply_plan; a plan is blocked when the resume is missing or no adapter
\* is configured.
NewPlan(j, r, shown) ==
    /\ Len(plans) < MaxPlans
    /\ \E status \in {"ready", "blocked"} :
          plans' = Append(plans, [job |-> j, resume |-> r, bundle |-> bundle, status |-> status, shown |-> shown])

Preview(j, r) ==
    /\ NewPlan(j, r, TRUE)
    /\ UNCHANGED <<applications, bundle, work, delivered>>

\* The candidate edits the profile, the answers or the settings.
Edit ==
    /\ bundle < Versions /\ bundle' = bundle + 1
    /\ UNCHANGED <<plans, applications, work, delivered>>

----------------------------------------------------------------------------
(* Confirming.                                                             *)

\* confirm_apply_plan; the user knows the id of a plan that was shown.
ConfirmPlan(w, p) ==
    /\ At(w, "idle") /\ plans[p].shown /\ plans[p].status = "ready"
    /\ work' = [work EXCEPT ![w] =
                  [Idle EXCEPT !.step = "preparing", !.stored = p, !.own = p, !.expected = plans[p].bundle]]
    /\ UNCHANGED <<plans, applications, bundle, delivered>>

\* confirm_apply without a preview: Own is the plan that Prepare makes.
Confirm(w, j, r) ==
    /\ At(w, "idle") /\ NewPlan(j, r, FALSE)
    /\ work' = [work EXCEPT ![w] = [Idle EXCEPT !.own = Len(plans) + 1,
                  !.step = IF plans'[Len(plans) + 1].status = "ready" THEN "requesting" ELSE "finishing"]]
    /\ UNCHANGED <<applications, bundle, delivered>>

\* The bundle is not the one that was previewed.
Changed(w) == work[w].expected \notin {NoBundle, plans'[Len(plans')].bundle}

Prepare(w) ==
    /\ At(w, "preparing") /\ NewPlan(Own(w).job, Own(w).resume, FALSE)
    /\ LET blocked == plans'[Len(plans')].status # "ready" IN
       work' = [work EXCEPT ![w].own = Len(plans'),
                            ![w].answer = "blocked",
                            ![w].step = IF blocked \/ Changed(w) THEN "finishing" ELSE "requesting"]
    /\ UNCHANGED <<applications, bundle, delivered>>

\* What the adapter gets is built from the profile as it is now.
SameRequestIgnored(w) == TRUE
SameRequest(w) == bundle = Own(w).bundle

Request(w) ==
    /\ At(w, "requesting")
    /\ IF SameRequest(w) THEN work' = [work EXCEPT ![w].step = "claiming", ![w].request = bundle]
       ELSE Answer(w, "blocked")
    /\ UNCHANGED <<plans, applications, bundle, delivered>>

\* Statuses after which the vacancy must not be tried again.
Spent == {"submitting", "submission_unknown", "applied", "already_applied"}
Harmless == {"none", "blocked", "needs_login", "needs_answers", "not_sent"}

PreviousOfResume(w) ==
    \/ \E p \in DOMAIN plans \ {work[w].own} :
          plans[p].job = Own(w).job /\ plans[p].resume = Own(w).resume /\ plans[p].status \in Spent
    \/ applications[<<Own(w).job, Own(w).resume>>].status \notin Harmless

\* An earlier attempt at the vacancy, whatever its resume.
Previous(w) ==
    \/ \E p \in DOMAIN plans \ {work[w].own} : plans[p].job = Own(w).job /\ plans[p].status \in Spent
    \/ \E r \in Rows : applications[<<Own(w).job, r>>].status \notin Harmless

\* claim_external_apply, one transaction.
Claim(w) ==
    /\ At(w, "claiming")
    /\ \/ Previous(w) /\ Goto(w, "refused") /\ UNCHANGED plans
       \/ ~Previous(w) /\ Goto(w, "sending") /\ SetStatus(work[w].own, "submitting")
    /\ UNCHANGED <<applications, bundle, delivered>>

Refused(w) ==
    /\ At(w, "refused")
    /\ SetStatus(work[w].own, "blocked") /\ Answer(w, "reconciliation_required")
    /\ UNCHANGED <<applications, bundle, delivered>>

----------------------------------------------------------------------------
(* The adapter and what is recorded of its answer.                         *)

\* What an adapter may answer, and whether the site took the application.  It
\* may also raise; a session adapter never knows.
Outcome(status, applied, sent) == [status |-> status, applied |-> applied, sent |-> sent]
Outcomes ==
    {Outcome("applied", TRUE, TRUE), Outcome("already_applied", TRUE, FALSE)}
      \union [status : {"blocked", "needs_login", "needs_answers"}, applied : {FALSE}, sent : {FALSE}]
      \union [status : {"submission_unknown", "error", "raised"}, applied : {FALSE}, sent : BOOLEAN]

\* A status that says nothing of the delivery means that it is unknown.
Recorded(o) ==
    IF o.applied \/ o.status \in {"blocked", "needs_login", "needs_answers"} THEN o.status
    ELSE "submission_unknown"

\* The page says already_applied when an application is there.
Send(w) ==
    /\ At(w, "sending")
    /\ \E o \in Outcomes :
          /\ o.status = "already_applied" => delivered[Own(w).job] # <<>>
          /\ work' = [work EXCEPT ![w].step = "recording", ![w].answer = Recorded(o), ![w].applied = o.applied]
          /\ delivered' = IF o.sent THEN [delivered EXCEPT ![Own(w).job] = Append(@,
                                           [by |-> "program", expected |-> work[w].expected, request |-> work[w].request])]
                          ELSE delivered
    /\ UNCHANGED <<plans, applications, bundle>>

\* The candidate applies on the site.
ApplyByHand(j) ==
    /\ delivered[j] = <<>> /\ delivered' = [delivered EXCEPT ![j] = <<[by |-> ByHand]>>]
    /\ UNCHANGED <<plans, applications, bundle, work>>

RowStatus(w) == IF work[w].applied THEN "applied" ELSE "submission_unknown"
Recordable(w) == work[w].applied \/ work[w].answer = "submission_unknown"

\* save_application
Record(w) ==
    /\ At(w, "recording") /\ Goto(w, "updating")
    /\ applications' =
          IF Recordable(w)
          THEN [applications EXCEPT ![<<Own(w).job, Own(w).resume>>] =
                  [status |-> RowStatus(w), transport |-> TRUE]]
          ELSE applications
    /\ UNCHANGED <<plans, bundle, delivered>>

Update(w) ==
    /\ At(w, "updating") /\ Goto(w, "finishing")
    /\ SetStatus(work[w].own, work[w].answer)
    /\ UNCHANGED <<applications, bundle, delivered>>

\* confirm_apply_plan writes the answer to the plan that was previewed as well; the
\* plan it made is in its result.
Finish(w) ==
    /\ At(w, "finishing") /\ work' = [work EXCEPT ![w] = Idle]
    /\ plans' = [p \in DOMAIN plans |->
                   IF p = work[w].stored THEN [plans[p] EXCEPT !.status = work[w].answer]
                   ELSE IF p = work[w].own THEN [plans[p] EXCEPT !.shown = TRUE] ELSE plans[p]]
    /\ UNCHANGED <<applications, bundle, delivered>>

Crash(w) ==
    /\ ~At(w, "idle") /\ work' = [work EXCEPT ![w] = Idle]
    /\ UNCHANGED <<plans, applications, bundle, delivered>>

\* POST /api/jobs/{id}/apply
Mark(j, status) ==
    /\ applications' = [applications EXCEPT ![<<j, ByHand>>] = [status |-> status, transport |-> FALSE]]
    /\ UNCHANGED <<plans, bundle, work, delivered>>

Next ==
    \/ Edit
    \/ \E j \in Jobs : ApplyByHand(j) \/ \E status \in {"applied", "not_sent"} : Mark(j, status)
    \/ \E j \in Jobs, r \in Resumes : Preview(j, r) \/ \E w \in Workers : Confirm(w, j, r)
    \/ \E w \in Workers :
          \/ \E p \in DOMAIN plans : ConfirmPlan(w, p)
          \/ Prepare(w) \/ Request(w) \/ Claim(w) \/ Refused(w) \/ Send(w) \/ Record(w) \/ Update(w)
          \/ Finish(w) \/ Crash(w)
Spec == Init /\ [][Next]_vars

----------------------------------------------------------------------------
(* Properties.                                                             *)

ByProgram(j) == {i \in DOMAIN delivered[j] : delivered[j][i].by = "program"}

\* claim_external_apply: the program submits at most one application to a
\* vacancy, under any number of workers, resumes, crashes and unknown answers.
SubmittedOnce == \A j \in Jobs : \A i, k \in ByProgram(j) : i = k

\* From the submission on something in the database bars another attempt, at
\* every point where a worker may die.
SubmissionIsRemembered ==
    \A j \in Jobs : ByProgram(j) # {} =>
        \/ \E p \in DOMAIN plans : plans[p].job = j /\ plans[p].status \in Spent
        \/ \E r \in Rows : applications[<<j, r>>].status \notin Harmless

\* What is submitted after a preview is what was previewed, although the
\* profile may change at any moment in between.
SentAsPreviewed ==
    \A j \in Jobs : \A i \in ByProgram(j) :
        LET d == delivered[j][i] IN d.expected \in {NoBundle, d.request}

\* application_ledger shows an application with a transport as sent, and the
\* statistics count it, only if the site has an application.
SentIsNeverOverstated ==
    \A j \in Jobs, r \in Rows :
        LET row == applications[<<j, r>>] IN row.status = "applied" /\ row.transport => delivered[j] # <<>>
=============================================================================
