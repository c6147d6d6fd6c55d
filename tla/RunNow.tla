------------------------------- MODULE RunNow -------------------------------
(***************************************************************************)
(* hh autopilot run-now (services._run_hh_with_restarts): one process runs *)
(* the engine again after a transient failure, with a growing delay, a     *)
(* shrinking success limit, the campaign ledger and the operator's Stop.   *)
(* A run of the engine is here its sends, each applied or in doubt, and    *)
(* its end.                                                                *)
(***************************************************************************)
EXTENDS Naturals

CONSTANTS
    PerRun,         \* limits.per_run_success
    Target,         \* target_new_applications of the campaign ledger
    HasLedger,      \* whether a campaign ledger is configured
    MaxSends,       \* bound on the sends of the process
    MaxFailures     \* bound on the failures in a row

RunNowAssumption ==
    /\ {PerRun, MaxSends, MaxFailures} \subseteq Nat \ {0} /\ Target \in Nat
    /\ HasLedger \in BOOLEAN

VARIABLES
    at,         \* where the process is
    remaining,  \* success limit of the next run
    failures,   \* failures in a row
    delay,      \* seconds of backoff, in the terms of Delay
    rowStatus,  \* status of the last run's row
    error,      \* what ended the last run
    inRun,      \* applications the current run has counted
    doubt,      \* attempts whose outcome is not known
    sure,       \* consumed reservations of this campaign
    others,     \* entries of the ledger made elsewhere
    reported,   \* applications reported by all runs
    paused,     \* the account is paused or the kill switch is set
    stopped     \* history: whether the operator pressed Stop in this process, and
                \* whether a run that failed wrote over it

vars == <<at, remaining, failures, delay, rowStatus, error, inRun, doubt, sure,
          others, reported, paused, stopped>>
sends == <<doubt, sure>>
ctl == <<paused, stopped>>

Errors == {"none", "transient", "rate", "permanent"}

Init ==
    /\ at = "top" /\ remaining = PerRun /\ failures = 0 /\ delay = 0
    /\ rowStatus = "none" /\ error = "none" /\ inRun = 0
    /\ doubt = 0 /\ sure = 0 /\ others \in 0 .. 1 /\ reported = 0
    /\ paused = FALSE /\ stopped = "no"

----------------------------------------------------------------------------
(* The loop of the process.                                                *)

\* A pause, the kill switch or a held lease ends the process at once.
Top ==
    /\ at = "top"
    /\ at' \in IF paused THEN {"done"} ELSE {"recover", "done"}
    /\ UNCHANGED <<remaining, failures, delay, rowStatus, error, inRun, sends, others, reported, ctl>>

\* The recovery sweep settles what it can; a sweep that fails or finds the
\* account busy ends the process.
Recover ==
    /\ at = "recover"
    /\ \/ \E settled \in 0 .. doubt : \E landed \in 0 .. settled :
             /\ doubt' = doubt - settled
             /\ sure' = sure + landed
             /\ at' = "budget"
       \/ at' = "done" /\ UNCHANGED sends
    /\ UNCHANGED <<remaining, failures, delay, rowStatus, error, inRun, others, reported, ctl>>

CampaignForgetsDoubt(ceiling) ==
    IF ~HasLedger THEN ceiling
    ELSE LET left == IF sure + others < Target THEN Target - sure - others ELSE 0
         IN  IF left < ceiling THEN left ELSE ceiling

\* _hh_campaign_remaining: applications in doubt and those made elsewhere count.
CampaignRemaining(ceiling) ==
    IF ~HasLedger THEN ceiling
    ELSE LET counted == sure + doubt + others
             left == IF counted < Target THEN Target - counted ELSE 0
         IN  IF left < ceiling THEN left ELSE ceiling

Budget ==
    /\ at = "budget"
    /\ remaining' = CampaignRemaining(remaining)
    /\ at' = IF remaining' = 0 THEN "done" ELSE "start"
    /\ UNCHANGED <<failures, delay, rowStatus, error, inRun, sends, others, reported, ctl>>

\* engine.run creates its row, or fails before it has one.
Start ==
    /\ at = "start"
    /\ \/ rowStatus' = "running" /\ at' = "run" /\ error' = "none"
       \/ rowStatus' = "none" /\ at' = "report" /\ error' \in {"transient", "rate"}
       \/ rowStatus' = "none" /\ at' = "done" /\ error' = "permanent"
    /\ inRun' = 0
    /\ UNCHANGED <<remaining, failures, delay, sends, others, reported, ctl>>

\* One dispatch of the run: counted when HH confirms it, else left in doubt.
MaySend == ~paused /\ rowStatus = "running" /\ inRun < remaining

Send ==
    /\ at = "run" /\ MaySend /\ sure + doubt < MaxSends
    /\ \/ sure' = sure + 1 /\ inRun' = inRun + 1 /\ UNCHANGED doubt
       \/ doubt' = doubt + 1 /\ UNCHANGED <<sure, inRun>>
    /\ UNCHANGED <<at, remaining, failures, delay, rowStatus, error, others, reported, ctl>>

\* The run ends: finish_run writes the status over whatever the row holds, a
\* Stop included.
Finish ==
    /\ at = "run"
    /\ \/ rowStatus' = (IF MaySend THEN "completed" ELSE "interrupted")
          /\ error' = "none"
       \/ rowStatus' = "failed" /\ error' \in Errors \ {"none"}
    /\ stopped' = (IF rowStatus = "stop_requested" /\ rowStatus' = "failed" THEN "lost" ELSE stopped)
    /\ at' = "report"
    /\ UNCHANGED <<remaining, failures, delay, inRun, sends, others, reported, paused>>

Delay(n) == IF n < 6 THEN <<1, 2, 4, 8, 16>>[n] ELSE 30   \* in units of 30 s, 900 s at most
RateDelay(n) == IF Delay(n) < 10 THEN 10 ELSE Delay(n)

\* Only a transient failure is repeated; a run that applied resets the count.
Report ==
    /\ at = "report"
    /\ reported' = reported + inRun
    /\ remaining' = IF inRun < remaining THEN remaining - inRun ELSE 0
    /\ IF rowStatus \in {"failed", "none"} /\ error \in {"transient", "rate"}
       THEN /\ failures' = IF inRun > 0 THEN 1
                           ELSE IF failures < MaxFailures THEN failures + 1 ELSE failures
            /\ delay' = IF error = "rate" THEN RateDelay(failures') ELSE Delay(failures')
            /\ at' = "wait"
       ELSE at' = "done" /\ UNCHANGED <<failures, delay>>
    /\ inRun' = 0
    /\ UNCHANGED <<rowStatus, error, sends, others, ctl>>

\* Every second of the delay looks at the controls.
Wait ==
    /\ at = "wait"
    /\ IF paused \/ rowStatus = "stop_requested" THEN at' = "done" /\ UNCHANGED delay
       ELSE /\ at' = IF delay = 0 THEN "top" ELSE "wait"
            /\ delay' = IF delay = 0 THEN 0 ELSE delay - 1
    /\ UNCHANGED <<remaining, failures, rowStatus, error, inRun, sends, others, reported, ctl>>

----------------------------------------------------------------------------
(* The operator.                                                           *)

Pause ==
    /\ ~paused /\ paused' = TRUE
    /\ UNCHANGED <<at, remaining, failures, delay, rowStatus, error, inRun, sends, others, reported, stopped>>

\* stop_hh_autopilot: a run that failed already is stopped by a pause, a run
\* that is going by its row.
Stop ==
    /\ rowStatus # "none" /\ stopped # "yes"
    /\ stopped' = "yes"
    /\ paused' = (paused \/ rowStatus = "failed")
    /\ rowStatus' = IF rowStatus = "running" THEN "stop_requested" ELSE rowStatus
    /\ UNCHANGED <<at, remaining, failures, delay, error, inRun, sends, others, reported>>

\* A run on another site is entered in the campaign ledger.
SentElsewhere ==
    /\ HasLedger /\ others < 1 /\ others' = others + 1
    /\ UNCHANGED <<at, remaining, failures, delay, rowStatus, error, inRun, sends, reported, ctl>>

Next == \/ Top \/ Recover \/ Budget \/ Start \/ Send \/ Finish \/ Report \/ Wait
        \/ Pause \/ Stop \/ SentElsewhere

Spec == Init /\ [][Next]_vars

----------------------------------------------------------------------------
(* Properties.                                                             *)

\* Types of the process.
TypeOK ==
    /\ at \in {"top", "recover", "budget", "start", "run", "report", "wait", "done"}
    /\ remaining \in 0 .. PerRun /\ failures \in 0 .. MaxFailures /\ delay \in 0 .. 30
    /\ rowStatus \in {"none", "running", "stop_requested", "completed", "interrupted", "failed"}
    /\ error \in Errors /\ inRun \in 0 .. PerRun
    /\ doubt \in 0 .. MaxSends /\ sure \in 0 .. MaxSends /\ others \in 0 .. 1
    /\ reported \in Nat /\ paused \in BOOLEAN /\ stopped \in {"no", "yes", "lost"}

\* However often the engine is restarted, the applications the runs of one
\* process count never exceed per_run_success.
ReportedWithinLimit == reported + inRun <= PerRun

\* The ledger never lets a run begin whose limit exceeds what the campaign has
\* left: what is in doubt counts until it is settled, and is counted once.
StartsWithinTarget ==
    HasLedger /\ at = "budget" /\ at' = "start"
         => sure + doubt + others + remaining' <= Target

\* docs/hh-autopilot.md: a manual Stop or Pause causes no automatic restart; a
\* Stop leaves the process without another send.
Sends == sure + doubt < sure' + doubt'
NoSendAfterStop == Sends => stopped = "no" /\ ~paused

\* A Stop is in vain only if it is pressed in the middle of a run and that run
\* then ends as failed, so that finish_run writes over the request: pressed in a
\* run that ends otherwise, between two runs or in the wait for the next one, and
\* with every pause, nothing more is sent.
OnlyAFailureForgetsStop == Sends => stopped # "yes" /\ ~paused

\* docs/hh-autopilot.md: confirmed and uncertain sends are counted, so the
\* target of the campaign is kept.
TargetKept == HasLedger => sure + doubt <= Target
=============================================================================
