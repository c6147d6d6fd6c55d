# WORK-HUNTER: specifications of the HH autopilot and what surrounds it

WORK-HUNTER is a personal job-hunting tool. Its hard part is the **HH
autopilot** (`work_hunter/hh_autopilot`, 22.8 k lines): unattended runs that
search HH, rank vacancies and *send applications in the owner's name*, with
every decision kept in SQLite so that a crash, a lost answer or a second
process never sends the same application twice and never exceeds the day's
limit. Around it stand the operator's own commands (plans, campaigns, files,
replies, e-mails, other sites) and the configuration they all share. These
modules specify that program, check it with TLC on small instances, and prove
the lease and the dispatch for every instance with TLAPS. Paths below are
relative to `src/`; without a directory they are in `work_hunter/` or in
`work_hunter/hh_autopilot/`.

## 1. Inventory

### 1.1 Components

| component | state it keeps | operations | what makes it correct |
|---|---|---|---|
| **Account lease, LeaseKeeper** (`repository.py` 4960-5124, 9625-9678) | one row of `hh_autopilot_leases`: owner, fencing token, expiry; a `LeaseRecord` in each process | acquire, renew, release (tombstone), assert_fence, ensure_current | tokens grow and name one owner; nobody takes a live lease; a write passes only with the newest token; a POST ends inside the lease |
| **Dispatch** (`executor.py`, `repository.py` 5126-6143) | `hh_application_attempts`, `hh_application_account_guards`, `hh_autopilot_quota_reservations`, `hh_autopilot_items` | prepare_dispatch, POST, finalize_applied, record_possibly_sent, finalize_definite_failure, record_pre_dispatch_failure | the four rows agree after every transaction; an outcome is decided once; no second POST for what HH has |
| **Recovery and reconciliation** (`reconcile.py`, `repository.py` 3366-4045, 6606-6757) | the same rows; a recovery run | recover_stale_applying, load_reconciliation_context (with adoption of the reservation), finalize_reconciled_applied, finalize_external_application, record_reconciliation_check, open_reconciliation_auth_challenge | what may have been sent is never sent again before HH was asked; every such item can still be decided |
| **Challenges** (`challenges.py`, `repository.py` 7328-8217) | `hh_autopilot_challenges`, held reservations | open, resolve, expire, requeue | one resolution per challenge; a held slot is neither lost nor used twice |
| **Quota** (`repository.py` 6385-6523, 6759-6846, 8248-8397, 4658-4771) | reservations, external rows, cooldown | reserve, consume, hold, release, sync external, cool down | the day's limit counts everything HH may have received |
| **Authorization, controls, literal confirmations** (`authorization.py`, `repository.py` 4084-4958, 6175-6380) | grants and generations, pause, kill switch, one-shot authorizations and targets | enable, disable, kill, pause, startup reconciliation, authorize; confirm, begin and finish a target | nothing leaves without the operator's last word; confirmed targets are not exceeded |
| **Configuration** (`config.py`, `services.py`, `hh_autopilot/config.py`) | one file, a copy in every process, the policy hash bound to a grant | load, three-way save, patch, token refresh, masked lists, parse, hash | no change is lost; a secret stays with its owner; a grant covers what the run does |
| **Run engine, sender pipeline** (`engine.py`) | the run's row, queue, futures, counters | find, hand over, render, send, drain, idle, end | producer and sender never wait for each other for ever; no item is taken twice |
| **Scheduler, outbox, run-now** (`scheduler.py`, `repository.py` 4580-4656, 7066-7311, `services.py` 2440-2600) | slots, deliveries, backoff | claim slot, run, deliver, restart | one run per slot; deliveries are neither lost nor doubled; Stop is Stop |
| **Search cycles** (`search.py`, `repository.py` 2044-2748, 8600-8780) | cycle, checkpoints, results | begin, commit page, resume, supersede, claim | a page is processed once by the owner of the cycle; nothing found is lost |
| **Selection, ranking, filter** (`engine.py`, `repository.py` 1400-2040, `ranking.py`, `policy.py`) | items, sealed vacancies, decisions | register, filter, rank, select, retry, revalidate | only judged items are selected, and the best of them |
| **Native transport** (`hh_autopilot/native_transport.py`, `browser.py`, `hh_transport`) | cookie jars, the answer so far | preflight, POST, CAPTCHA, form, test | the certainty it reports is true |
| **Other channels** (`services.py`, `external_apply.py`, `email_outreach.py`, `hh_agent`) | plans, campaigns, file rows, outbox, approvals, a campaign file | preview, confirm, send, record | what is sent is what was confirmed, once, and what is recorded is true |
| Sanitization, sources and scores, web UI, CLI, MCP, OS task scheduler, resume export, recon tools | - | pure functions, I/O, presentation | not modelled, section 6 |

### 1.2 How they interact

* Every process that acts for an account first takes the **lease**; its token
  goes into each repository call, which runs as one `BEGIN IMMEDIATE`
  transaction and compares it with the row (`_assert_fence`).
* The **engine** recovers what a dead run left, reconciles what is due, then
  searches; the **search** fills the queue page by page, **filter** and
  **ranking** judge every pair of vacancy and resume, the **selection** makes
  one of them ready, the **pipeline** hands it to the sender.
* The **executor** renders the letter, renews the lease, `prepare_dispatch`
  (authorization, quota, attempt, guard, reservation, item), POST over the
  **native transport**, one finalising transaction.
* A POST without a usable answer leaves the item `reconciling` with its
  reservation `held`. The **reconciler** of a later run adopts the reservation
  and decides from HH's list of negotiations; what cannot be decided becomes a
  **challenge** for the operator.
* The **scheduler** sweeps accounts that need recovery, starts due runs and
  empties the notification **outbox**.
* The operator **enables** accounts (a grant in the database, its projection in
  the configuration file), edits the **configuration** from several processes,
  and sends by hand through **Manual**, **Replies**, **ExternalApply** and
  **EmailOutreach**, the first two through the same leases and rows.
* Processes share only the database, the configuration file and HH; there are
  no messages between them.

### 1.3 What is hard to test here

Processes interleave at every transaction and can die between any two; instants
are read before the database lock is granted; the POST and its answer may be
lost or late; four tables are changed by a dozen methods that must keep them
consistent; the grant lives in two places; configuration is read long before it
is used; a listing moves while it is read; a vacancy is judged over several
runs; a click may be taken although it raises. `PROJECT.json` lists the hazards
at their lines with the properties that would catch each.

## 2. Modules

Each component module is parameterised by CONSTANTS with a named assumption,
has one action per transaction, handler or step, and states its properties: a
type invariant, safety invariants, and action properties as plain action
formulas, which the runs box. Section 3 says how they are put together.

| module | models | abstracts |
|---|---|---|
| `FencedLock` | what a lease promises: tokens grow, only the newest held token writes | |
| `Lease`, `Lease_proofs` | the row, the processes, the keeper and the executor's use of the lease, with time | |
| `Dispatch` | runs, dispatch, recovery and reconciliation of one account on one day | refusals of grants, cooldown and targets are `ExecuteRaises` |
| `Challenges`, `Dispatch_proofs` | extends `Dispatch` by the operator's desk and the expiry | whether the operator tells the truth is left open |
| `DayBudget` | what the quota promises: a budget of slots per local date | |
| `Quota` | reservations over several days and zones, external rows, cooldown | fences: one process at a time, which may die |
| `Authorization` | grants in database and file, kill, pause, startup, the authorization part of a dispatch | one account |
| `OneShot` | literal confirmations and their targets over crashes, reconciliation and expiry | guards and slots |
| `ConfigFile` | the shared file, three-way saves, tokens, managed fields | values; three kinds of keys |
| `MaskedConfig` | lists whose secrets are masked for the client | |
| `Settings` | parsing, policy hash, context of a run, validation, presets | modes, dates, value types |
| `Pipeline` | coordinator, letter pool, sender, queue of one run | a dispatch is an outcome |
| `Scheduler` | ticks of several processes, slots, windows | the engine is one step of any length |
| `Outbox` | events, deliveries, ticks, sinks | times are steps still to wait |
| `RunNow` | restarts with backoff, remaining limit, ledger, Stop | a run is its sends |
| `SearchCycle` | collector, checkpoints, takeover, supersession, claims | a vacancy is a value |
| `Selection` | register, filter, rank, select, retry, revalidate over several runs | verdicts are free |
| `HardFilter` | every check of the filter over sets of claimed values | phrases are words |
| `Ranking` | score, AI mode, decision, the two orders of resumes | scores in hundredths |
| `PromptFit` | the trimming of a prompt | a field is its length; every fifth character is a space |
| `ExternalApply` | preview, confirmation, claim, adapter, records | the bundle is its hash |
| `BrowserForm` | the adapter on a site: login, form, screens, click, receipt | a page is what the selectors find |
| `NativeTransport` | one call of `apply_outcome` | the site answers freely |
| `EmailOutreach` | the campaign file and every command on it | texts |
| `Replies` | automatic, Chatik and planned replies, approvals | one chat, a message is its place |
| `Manual` | apply plans, campaigns and files, and the engine as their commands see it | one account, template letters |
| `MCLease`, `MCDispatch`, `MCChallenges`, `MCOutbox` | instances of one module | |
| `MCControl`, `MCDiscovery`, `MCProcesses`, `MCChannels`, `MCProgress` | suites: instances of several modules | |
| `Control_proofs`, `Channels_proofs`, `Processes_proofs` | theorems about the components of three suites, each an instance with its constants left open (`Control_proofs` extends `Quota`) | |
| `MCControl_proofs`, `MCChannels_proofs`, `MCProcesses_proofs` | the properties of those suites, from the theorems about their parts | |

### 2.1 Lease

| state | code |
|---|---|
| `row` | the `hh_autopilot_leases` row; token 0 is "no row", owner `NoOwner` is `LEASE_TOMBSTONE_OWNER` |
| `handle[o]` | the `LeaseRecord` the keeper of process `o` holds |
| `phase[o]`, `instant[o]`, `posted[o]` | where the executor is, the `now` it fixed at entry (`executor.py` 217), when the POST went out |
| `clock` | real time |
| `lastWrite` | history: token of the last write that passed the fence |

`Instants` is the heart of the time model: methods read the clock before
`BEGIN IMMEDIATE` is granted, so a transaction may carry an instant up to
`MaxWait` old. The executor goes further: it renews, prepares and finalises
with the instant it read *before rendering the letter*. `EnsureCurrent` is the
keeper; the engine gives it its own TTL (`KeeperTTL`). `RenewBeforeDispatch`
updates the row and not `handle`, because the executor keeps the renewed record
to itself. `Tick` lets a POST last at most `RequestTimeout`; `PromptPrepare`
states that no time passes between the renewal and the POST, as the comment
in `execute` intends.

### 2.2 Dispatch and Challenges

| state | code |
|---|---|
| `fence`, `held`, `trigger` | newest token, whether the row has an owner, trigger of the run each token started |
| `proc[f]` | program counter and local variables of the process of run `f`: the item, attempt and version it carries (`PreparedDispatch`, `ReconciliationContext`), the list of due reconciliations |
| `item` | `hh_autopilot_items`: state, version, `last_run_id`, attempt, stage of retry, attempts, checks, whether `next_attempt_at` has passed, challenge |
| `attempt`, `made` | `hh_application_attempts` in order of insertion; `reads` is a history variable |
| `reservation`, `synced` | quota reservations with state and fence; external rows of the day |
| `guard` | `hh_application_account_guards` |
| `post`, `negotiation` | what happened to the request of an attempt, and what HH holds for an item |
| `desk`, `ticket`, `link`, `word` (`Challenges`) | the process that closes challenges, `hh_autopilot_challenges`, `challenge_id` of the items, history of verdicts |

A run starts with its lease (`acquire_lease`, then `create_run`), so the
fencing token identifies run and process. Each repository method is one action
with all its updates. `Valid` is `_validate_prepared_for_update`, which every
finalisation and every verdict must pass. `Crash` loses the local variables;
a process that lost the lease goes on until a check stops it. HH (`Arrive`,
`Refuse`), the candidate (`ApplyExternally`) and time (`BecomeDue`) are the
environment. `ExecuteRaises` and `ReconcileRaises` stand for every error after
which the loop goes on.

Three constants select the schedule of a run: `Timely` (a lease outlives the
POST made under it, and an item is not due again while its POST is on the
wire: what `Lease` establishes for a prompt POST), `SweepFirst` (only the
scheduler starts runs, after its sweep), `Interruptible` (which kinds of run
may die).

### 2.3 The other modules

What is particular to each, beyond the comments in the modules:

* `Quota`. Time passes between any two steps; `Zone` is the configured offset
  and may change; a reservation is dated by the instant fixed at the entry of
  the executor. `DayBudget` is its abstract specification: the refinement maps
  dates to the number of open or consumed slots and of outside applications.
* `Authorization`. An administrative process is a program counter over the
  steps of `enable` (check kill, new generation, write the projection, verify,
  undo); `mem` is the configuration the run's process loaded. `HandEdits` lets
  the operator edit the file. `OrphanGrantIsRevoked` (under weak fairness of
  `Startup`) is stated and was checked with one administrator, hand edits and
  both scopes; it is not part of a listed run.
* `OneShot`. The success count is also protected by the command, which runs
  only as many targets as were confirmed; dismissing a shared login challenge or
  its expiry leaves a target active.
* `Settings`. `PolicyHash` is the hash as an injective record of what the code
  hashes; `Fold` is the folding of case. `GrantCoversRun` compares what the
  grant meant when it was given with what the run means. In the passing run the
  preset names are in lower case: a preset renamed from "Backend" to "backend"
  keeps the hash but changes the search (section 4). `MaxEdits` bounds edits.
  The administrative maximum of the daily limit is 1..500 in the code;
  `docs/superpowers/specs/2026-07-15-hh-autopilot-design.md:315` says 1..200.
* `Pipeline`. `Cap` is 20 in the code. When the lease is lost while the sender
  lives, the join loop raises and the run's row stays `running` until recovery.
* `Scheduler`. `NextSlotIsExact` compares the slot that is computed with the
  first instant the window allows; an exception of one account ends the tick.
* `SearchCycle`. No code of the program calls `claim_search_cycle`,
  `interrupt_search_cycle` or `supersede_search_cycle`, only its tests do; part
  `claims` of the run has them. A claimed cycle gives what it finds to its
  origin run, which is dead.
* `Selection`. Production uses ten ranking workers (`services.py:2025`); the
  sequential mode is not modelled. `Limit` is the smaller of
  `limits.per_run_success` and the workers. An item revalidated to a late
  rejection or a 404 makes the finalisation raise ("malformed").
  `EveryItemIsDecided` exempts the second resume of a vacancy of which the first
  was tried in vain.
* `HardFilter`. A fact is the set of the values claimed for it under all its
  names; the three history categories are alike; the context always states the
  supported capabilities.
* `Ranking`. Names that disagree or are empty raise before anything is scored.
* `ExternalApply`. The user can confirm only plans that were shown; an unknown
  outcome bars the vacancy for ever.
* `BrowserForm`. Lever opens at `/apply`; only Habr's start button submits.
* `NativeTransport`. `wire` keeps each request that applies as it went out: what
  the site had said before, the cookies it carried, the CAPTCHAs solved by then;
  `jars` are the cookies of the browser session and of the API session. Assumed:
  refusals the site words itself, its requests to log in and its 201 are true,
  and a page that asks for more answers the last click. An error of the server
  (`failed`) may have been taken; the code calls it a definite answer. The
  preflight read after a solved CAPTCHA does not carry the browser's cookies.
* `EmailOutreach`. One review per command; the operator sends a printed payload
  once; `MaxMails` bounds the mails.
* `Replies`. Error rows of the automatic commands are left out, since nothing
  reads them. `scheduled` plans can be confirmed at once; `send_due_replies` is
  called only by tests and is not modelled. Approving may be killed between its
  two writes. The Chatik server is assumed to drop repeated keys.
* `Manual`. The engine is abstracted to lease, letter, POST and outcome, with
  the guard of `Dispatch` (`Settled`). Reading a status and writing the row is
  one step. `Together = FALSE` means one command at a time, with autopilot and
  operator between the steps of commands.

## 3. Runs

| run | question | result |
|---|---|---|
| `lease` | two processes with stale instants, expiries, crashes and slow letters: is the row a fenced lock, and does a prompt POST end inside the lease? | holds |
| `dispatch` | two resumes for one vacancy, runs of three triggers that may die or be overtaken, a candidate who applies by hand: does HH ever get a second application, is what is called applied real and remembered, do attempt, slot, guard and item stay together? | holds |
| `recovery` | when only the scheduler starts runs and no sweep is interrupted, can every reconciling item still be decided? | holds |
| `operator` | runs that die beside a desk that resolves, expires and requeues: is a second application possible without the operator's word, can a verdict be undone? | holds |
| `held_slots` | two items behind one shared login challenge, runs that may die anywhere: which step takes from a held slot everybody who could decide it? | only a completed login of an item recovered out of flight (section 4.2) |
| `control` | is everything that is sent allowed (grant, kill switch, confirmation, cooldown), and does what is written into the configuration survive its other writers? | holds |
| `discovery` | from the listing to the ready item: is nothing lost, taken twice, or selected without judgement? | holds |
| `processes` | do the threads of a run, two schedulers, the outbox and the run-now process do their work once? | holds |
| `channels` | the six ways out of the program, with commands side by side, crashes and lost answers: is anything sent twice, or recorded untruly? | holds |
| `progress` | does what was started end, under the fairness the code justifies? | holds |
| `live_run_strands` | the same question as `recovery` when other runs are started too | violated, section 4 |
| `outbox_clogged` | is a delivery of an enabled kind made when many of another kind were turned off? | violated, section 4 |

### 3.1 Suites

`MCControl`, `MCDiscovery`, `MCProcesses`, `MCChannels` and `MCProgress` each
instantiate several component modules. The components of a suite share no state
in the code either (different tables, files or processes), so composing them
would only multiply independent state spaces: instead one behaviour runs one
component, and the variable `part` says which. `Only(name)` leaves the
variables of the other parts alone, `XRests` gives them a constant. A property
of a suite says `part = "..." => property of that component`, for every part it
is about, and each suite's `Assumptions` collects the named assumptions of its
instances, so that TLC evaluates them. Two instances of one module (`Auth` and
`Auth1`, say) share its variables and differ in their constants.

Components that do interact are composed for real: `Challenges` extends
`Dispatch` (the desk works on the rows of the runs), `Dispatch` contains the
executor, the recovery and the reconciler of several overlapping runs, `Manual`
contains the part of the engine its commands start, `Settings` contains what the
run reads, `Pipeline` the producer, letter pool and sender, and `Quota` and
`Lease` are tied to the abstract `DayBudget` and `FencedLock` by refinement.

### 3.2 Bounds

Every bound is a constant with `Max` in its name, or the size of a set.

* `lease`: two owners, tokens up to 3 and a clock up to 7 with ttl 3, so that a
  lease expires twice and each owner takes it over from the other; instants up
  to one unit old. The keeper's TTL is longer than the executor's, as in the
  engine.
* `dispatch`: two items of one vacancy, two runs, two attempts: the smallest
  instance with a rival resume, a dead run with a successor and a retry after an
  absence. A third run or attempt repeats those relations; `MaxChecks` 2 lets an
  absence take more than one reading.
* `recovery`, `live_run_strands`: three runs, so that a run dies, one recovers
  and one more tries to adopt.
* `operator`: one item and four runs (dispatch, death, recovery, dispatch again
  after the word). `held_slots`: two items of two vacancies, because a shared
  login needs two; three tokens, because the slot is lost by a run that dies, a
  recovery and a desk; two tries, so that a limit can be answered on the last
  one, which leaves the item applying exactly as a dead run would.
* `control`: two administrators or processes, two policies, two generations, one
  or two edits, two targets per confirmation, three (four) edits of settings, two
  local days of two units each with two zones; two tries per item and three
  attempts, so that a limit is answered on a last try while another item can
  still be dispatched (`OnlyLastTryForgetsLimit`; `LimitBlocksAccount` is violated
  there, section 4.2).
* `discovery`: three vacancies on two pages that may move between readings, two
  runs and cycles; two resumes over two tries; some thousand postings and
  policies that restrict one thing each.
* `processes`: three items, a limit of two and a queue of two with the lease
  lost at any point; two schedulers over four instants, one over ten with
  weekends; two events and up to three failures of a sink; five sends and seven
  failures in a row, which passes the cap of the backoff. Stop may be pressed
  anywhere, also in the middle of a run (`OnlyAFailureForgetsStop`).
* `channels`: two commands side by side where the code allows them, two resumes
  and one or two vacancies, three leads with two addresses, a thread of two or
  three messages, forms of two screens with two fields. The letter is checked
  twice: with one command at a time it is the confirmed one
  (`ConfirmedLetterIsSent`), and with two of them, drafts and the autopilot it is
  lost only to a newer letter of somebody else (`OnlyOthersReplace`).
* `progress`: the same instances, one size smaller where a liveness check
  needs it.

Symmetry is used for values the modules only compare (owners, administrators,
vacancies of the search, resumes of `Manual`) and never in a run with a
liveness property. Deadlock is not checked: every instance is bounded (runs,
attempts, edits, time), so it stops when its bounds are used up. That threads do not wait for each other for ever is checked as
liveness instead (`WorkEnds`).

### 3.3 Fairness

`progress` and `outbox_clogged` are the only runs with liveness properties.

* *Pipeline*: weak fairness of the coordinator, the sender and each letter. They
  are threads of one process that never wait without a timeout, and each call to
  the model or to HH has one.
* *Outbox*: weak fairness of the tick and of passing time: the scheduler wakes
  at an interval. The safety runs let
  it crash; under fairness processes go on.
* *Selection*: weak fairness of starting runs, of the run's steps and of the
  sender, with a bound on how often a run ends early.
* *Quota*: weak fairness of time, of starting runs, of dispatch and of settling;
  strong fairness of recovery and of the reconciliation of an item, because a
  run may die before it gets there, but not every run does. One item is watched,
  since items differ only in whether the candidate applies by hand.
* *Form, native call, prompt*: weak fairness of their steps: each request,
  page operation and AI call has a timeout, and what a timeout does is one of
  the answers.

## 4. Where the code differs from what it says

### 4.1 Two violations kept as runs

1. **A live run strands the items it recovers** (`engine.py:598`, run
   `live_run_strands`). It writes its own run id into them; the adoption of the
   reservation accepts only ids of the attempt's run and of recovery runs
   (`repository.py:6725`), so once this run is gone no sweep can decide the item.
   The design says that no error may leave an item indefinitely in flight.
2. **Deliveries of a kind that was turned off clog the outbox**
   (`scheduler.py:259`, run `outbox_clogged`). The LIMIT is applied before
   disabled kinds are passed over, and those stay pending with the lowest ids;
   `docs/hh-autopilot.md:570` says that enabled kinds are delivered. In the
   passing run the batch is larger than the number of disabled rows.

### 4.2 Further divergences met while modelling

Each of these is a property stated in its module after a doc, comment or test,
which TLC finds violated on the instance given (constants not mentioned are those
of the runs above). They are no runs of their own, and no passing run lists them.

| property | module, instance | code | what happens |
|---|---|---|---|
| `NoOverlappingPosts` | `Lease`, ttl 3 for both, margin 1, request timeout 2, `PromptPrepare`, no wait | `executor.py:291` | renewal and preparation use the instant fixed before the letter was rendered, so a POST may outlive its lease |
| `NoStrandedItem` | `Dispatch`, as `recovery` with `Interruptible` both kinds | `repository.py:6725` | a sweep that dies strands what it recovered |
| `ApplicationIsRemembered` | `Dispatch`, `per_resume` | `repository.py:5823` | the failure of a second resume deletes the guard of the first |
| `DuplicateEndsVacancy` | `Dispatch`, `per_resume`, `External` one item | `repository.py:5373` | an account-wide duplicate does not bar the other resume |
| `AbsenceTakesAllChecks` | `Dispatch`, one item, `MaxChecks` 2, `MaxAttempts` 3 | `repository.py:3800` | the count of checks is never reset, so a second dispatch is declared absent by one check |
| `LoginReturnsToReconciling` | `Challenges`, runs and sweeps may die, `MaxFence` 5 | `repository.py:7567` | a completed login sends a possibly sent attempt to ready with its slot held |
| `LoginPausesDispatch` | `Challenges`, two items | `repository.py:5174` | an open login challenge does not pause dispatch |
| `LimitBlocksAccount` | `Quota`, as in run `control` | `repository.py:5884` | a limit on the last try stores no cooldown and leaves the item applying |
| `AnyApplicationCountedOnce` | `Quota`, two resumes of one vacancy, `External` empty | `repository.py:6795` | an answer without negotiation id is counted again through the other resume |
| `DayDeliveredWithinLimit` | `Quota`, limit 1, `MaxTime` 4 | `executor.py:217` | a POST after midnight is counted to the day before |
| `LimitBlocksFromAnswer` | `Quota`, two vacancies | `engine.py:1611` | Retry-After counts from before the letter was rendered |
| `PolicyChangeStopsDispatch` | `Authorization`, one administrator | `services.py:1859` | a run compares the grant with the configuration its process loaded |
| `DisabledEntryStopsDispatch` | `Authorization`, `HandEdits` | `executor.py:414` | the same for the flag in the file |
| `TakenIsHandled` | `Pipeline`, `N` 2, limit 1, `Cap` 2, one pass | `engine.py:1511` | an item outside the window of best items is taken and never handled in this pass |
| `StartsInWindow` | `Scheduler`, as part `week`, no raise, interval 2 | `scheduler.py:144` | after a long run the next account starts although the window closed |
| `DeliveredOnce` | `Outbox`, `MayCrash` | `scheduler.py:284` | a process that dies after the sink accepted sends the event again |
| `NoSendAfterStop` | `RunNow`, as in run `processes` | `repository.py:1210` | a transient error overwrites a requested Stop |
| `TargetKept` | `RunNow`, `HasLedger` | `engine.py:1647` | sends in doubt come on top of the target |
| `RunBudgetHolds` | `SearchCycle`, `Continuous` | `engine.py:1157` | a continuous run spends the budget once per pass |
| `NoJudgementAfterTheSeal` | `Selection`, `Flaky`, not `Steady`, limit 2 | `engine.py:1225` | a resume registered after the vacancy was sealed is judged |
| `EveryItemIsDecided` | `Selection`, two vacancies, `MaxTries` 1 | `engine.py:701` | waiting items with low ids fill the batch in every run |
| `RejectedSiblingIsTerminal` | `Ranking`, on failure skip or deterministic | `repository.py:1971` | a sibling rejected that way makes the finalisation raise |
| `ValidatedIsSearched` | `Settings`, preset names `{"Backend"}` | `services.py:1759` | a preset with capitals becomes a search without terms |
| `LiveRunsAreValid` | `Settings`, `Params` with a bad one | `services.py:2326` | `validate_runtime_dependencies` is called by no program code |
| `WorklistOrderKeepsGrant` | `Settings`, two orders of a worklist | `hh_autopilot/config.py:1745` | reordering the allowed vacancies revokes the grant |
| `UseResumeKeepsPresets` | `Settings`, two queries for one resume | `services.py:3652` | only the presets of the last survive |
| `NoConsentWithoutDecision` | `BrowserForm` | `external_apply.py:718` | an optional box the page prechecks stays checked |
| `RefusalAfterClicksIsTrue` | `NativeTransport` | `browser.py:307` | a click that raised may have been taken; the answer says it was refused |
| `RefusalIsTrue` without its exemption of `server_error` | `NativeTransport` | `native_transport.py:668`, `689` | a 5xx after the POST counts as a definite refusal and may be retried; the design (`2026-07-15-hh-autopilot-design.md:431`) asks for a retry only of a *definite* server error |
| `FormAppliedIsReal` | `NativeTransport` | `browser.py:193` | an error page after the click counts as applied |
| `OffAsksNobody` | `NativeTransport` | `native_transport.py:508` | a redirect without a location asks the operator although forms are off |
| `OneMailPerLead` | `EmailOutreach`, two processes | `email_outreach.py:46` | a command writes back the campaign it loaded minutes ago |
| `OneMailPerRecipient` | `EmailOutreach`, `Emails` `{"a", "a "}` | `email_outreach.py:199` | the comparison keeps spaces that the sending strips |
| `OneReplyPerMessage` | `Replies`, `MaxThread` 3 | `services.py:6337` | our own delivered reply is answered when its answer was lost |
| `PlanSentOnce` | `Replies`, `MaxThread` 3 | `services.py:6590` | a plan whose answer was lost can be confirmed again |
| `RejectedIsNotSent` | `Replies`, `MaxThread` 3 | `services.py:6562` | a cancelled plan can be confirmed |
| `ConfirmedLetterIsSent` | `Manual`, `Together` | `services.py:1359` | a letter drafted meanwhile replaces the confirmed one (`tests/test_apply_plan.py:112`) |
| `FileWithinLimit` | `Manual`, file limit 1, two vacancies | `services.py:4021` | applications whose answer was lost do not count |
| `ProcessedRowIsSent` | `Manual`, a file edited between commands | `hh_agent/apply_from_file.py:76` | rows without a key are remembered by position |
| `ProcessedIsKept` | `Manual`, with a dry run | `services.py:4073` | a dry run overwrites an applied row |

## 5. Proofs

`Lease_proofs` proves, for every set of owners and every TTL, margin, timeout,
wait and bound that meets the assumptions of `Lease`:

* `TypeCorrect`, `TokensAreUnique`, `KeeperIsCautious`, `PromptPostIsCovered`
  (`TokensAreUnique` and `PromptPostIsCovered`: the state invariants of run `lease`),
* `NoWriteGoesBack`, `TakeoverWaits` (its action properties),
* `Implements`: the row implements `FencedLock`.

*Assumptions.* `OwnerAssumption` (the tombstone is nobody's token),
`ParameterAssumption` (numbers are natural), `TTLAssumption` (the configuration
requires ttl >= request timeout + margin, and the keeper renews for no less
than the executor).

*Argument.* `TokenNamesOneOwner` is not inductive: a grant must know that no
process already holds the token it makes, and a renewal that the holder of the
newest token is the owner in the row. `HandlesOrdered` says both (no handle is
ahead of the row, and whoever holds the newest token owns the row unless it is
a tombstone). `RenewalHolds` carries the renewal to the POST: while the lease is
not lost, the row reaches a whole TTL beyond the executor's instant, and a POST
is no older than the request timeout. With `posted < instant + margin` this
puts the end of the POST before the expiry, so that no taker, whose instant is
never in the future, can pass the expiry check: `QuickPostIsCovered`.
`WritesBehindRow` gives the order of writes. `IndInv` joins them; `StepInv` has
one step per action. Refinement and action properties use `IndInv` in the state
before the step. `IndInv` was checked with TLC before it was proved.

`Dispatch_proofs` proves, for every set of items and vacancies, both resume
policies, every limit and every bound on runs and attempts:

* `TypeCorrect`, `RowsStayTogether` (types, and a state invariant of run
  `dispatch`),
* `DecisionsStand` (its action property `DecisionsAreFinal`).

*Assumptions.* `ItemAssumption` (every item has a vacancy), `PolicyAssumption`
(limits are positive, as the configuration demands), `TriggerAssumption`,
`BoundAssumption` (bounds are natural numbers). No fairness, and nothing about
how many runs overlap or where they crash.

*Argument.* What ties an attempt to its slot, its guard and its item is not
inductive one property at a time: closing a guard is safe only if it is the
guard of the attempt being closed, and that needs to know which item the attempt
belongs to. `Coherent` states the five ties together:

| part | says |
|---|---|
| `AttemptsInOrder` | attempts up to `made` have an item and a status, later ones do not exist and have no slot |
| `SlotFollowsAttempt` | a slot is open exactly as long as its attempt |
| `GuardFollowsAttempt` | the guard of an unresolved attempt's vacancy names it; an active guard names an unresolved attempt of its vacancy |
| `UnresolvedHasAttempt` | an item in flight or under reconciliation has an unresolved attempt of its own |
| `ItemOwnsAttempt` | an item points at an attempt of its own |

`ProcessCarriesAttempt` says what a process still knows after a transaction
ended: the attempt it holds exists and belongs to the item it holds. It says
nothing of the attempt's status, which recovery may have changed meanwhile; that
is what `_validate_prepared_for_update` asks again, and where `Valid` enters the
proof: a valid process's attempt is its item's current one. `RetryApplies` adds
that an item waiting for a retry waits to apply. `IndInv` is their conjunction
with `TypeOK`.

A transaction changes the rows in one of five ways, each a lemma: an unresolved
attempt is decided (`Settled`), stays open (`StillOpen`), is inserted
(`Dispatched`), is inserted already failed because nothing was sent (`NotSent`),
or only items move (`OnlyItems`). Every action of the model is one of the five;
there is one lemma per action. `IndInv` was checked with TLC, with late
answers, with applications by hand and under both resume policies, before it was
proved.
`DecisionsStand` follows because every write to an attempt either inserts it or
was validated for it.

*What HH receives.*

* `ItemsStayWithAttempts`: an unresolved attempt is its item's current one, and
  its item is nowhere from which it could be dispatched again.
* `AppliedItemsAreReal`: an item called applied is an application HH holds.
* `GuardRemembers`: under `best_resume_only` a vacancy that was applied to keeps
  its guard. Under `per_resume` it does not: the failure of another resume
  deletes the row.
* `NothingIsSentTwice`: no second POST for an item HH has accepted.
* `VacanciesAreAppliedToOnce`: one application per vacancy.

*Assumptions.* The last two need `Timely`: the lease, and the wait before an
unknown outcome is read, last longer than a POST. `Lease_proofs` shows the first
for a POST begun within the margin of the instant its renewal counts from
(`QuickPostIsCovered`); a letter that takes longer to render breaks it
(`NoOverlappingPosts`, section 4.2), and then a POST may take effect after its
item was declared absent.

*Argument.* The rows alone cannot say what is on the wire. `WireInv` ties them to
it in five parts, which hold together or not at all:

| part | says | needed because |
|---|---|---|
| `ItemHasLastAttempt` | an item points at the newest of its attempts | otherwise an older POST could be taken for the item's |
| `SenderIsInCharge` | a process between preparation and answer still has the lease, and nothing has overtaken its attempt | that is where `Timely` enters |
| `ProcessesInOrder` | no process is ahead of the fence | a new run must not inherit a place |
| `WireIsAwaited` | a POST on the wire is one of an item in flight in the hands of the run in charge, or of one whose reading is not due | so nobody reads HH before the POST arrives |
| `DecidedIsSettled` | an item on the reconciler's list has nothing on the wire | so "HH shows nothing" means that nothing will come |

From `WireInv`, `ReachedItemRests` follows step by step: the item of an accepted
attempt is never ready again. For the vacancy, `VacancyInv` says that an
attempt which reached HH, or still may, closes the guard of its vacancy
(`ReachedIsGuarded`); a second item cannot pass it.

*Recovery.* `NoItemIsStranded`: an item under reconciliation can
always be decided, by the recovery run in charge or by one to come. It assumes
`SweepFirst` (the scheduler sweeps before it starts runs) and that recovery runs
come to their end (`"recovery" \notin Interruptible`). Run `live_run_strands`
shows that the first is needed: a live run started by the command line recovers
the items of a dead run under its own id and nobody may adopt them afterwards.
`OwnerInv` is the invariant: an item in flight, its attempt and its slot belong to
one run that dispatches (`FlightOwned`), and one under reconciliation either
satisfies what `_adopt_reservation_for_recovery_for_update` will ask
(`Inheritable`) or is on the list of the run that recovered it (`OnTheList`).

*The operator's desk.* The second half of the module works on `Challenges`,
which extends `Dispatch`:

* `DeskInductive`: the ties of the first half hold with a desk, too.
* `VerdictsStand`: nobody decides an attempt again, whichever of expiry, late
  answer and verdict came first; no assumption.
* `RepeatsTakeAVerdict`: a second POST for an accepted item takes the
  operator's word that the first was not applied; under `Timely`.
* `OnlyALoginLosesSlots`: a held slot stops having somebody who can decide it in
  one way only, the one section 4.2 reports; no assumption.

The rows of the desk are tied to the items by `LinksInOrder` (a waiting item is
linked to an open row, its own or an account-wide one owned by another waiting
item) and `RowsAskForItems`; `SlotsOfOthers` says that the desk owns no slot of
a waiting item, which is why a manual row that holds a slot cannot be dropped.
The exception in `OnlyALoginLosesSlots` is what the code does: an item
*recovered* out of flight keeps the stage `application`, and a completed login
sends such an item back to the queue with its slot still held
(`repository.py:7562` asks for the stage only; `LoginReturnsToReconciling` of
section 4.2). The theorem says that nothing else does it: not a run that dies or
is overtaken anywhere, an expiry, a requeue of a dead item, a dismissal or a row
two items share. The proof keeps each held slot "in sight" (`Sighted`) step by
step and shows that this is what deciding it takes (`SightIsDecidable`). Run
`held_slots` checks the same property with runs that may die.

### 5.1 Control

`Control_proofs` extends `Quota` and instantiates the other components of the
suite; `MCControl_proofs` carries what it proves over to the suite.

*Grants*, for every number of administrative processes, policies and
generations: `KillSwitchHolds` (`NoGrantUnderKill`), `DispatchTakesTheWord`
(`SendsOnTheOperatorsWord`), `DispatchNeedsProjection` (`SendsUnderShownGrant`)
and `UndoIsOwn` (`UndoTakesBackItsOwn`). The inductive invariant `AuthInv` adds
to the kill switch that a grant lives on the operator's word (`GrantHasWord`:
whatever withdraws the word revokes the grant in the same transaction), that
nothing carries a generation that was not created (`NothingAhead`: so a new one
starts without a projection), and that file and memory show only generations
whose own enable wrote them (`ReadWasShown`). Assumption:
`AuthorizationAssumption`.

*Quota*, for every number of items, attempts, days and timezones and every limit:

* `Implements`: the reservations implement `DayBudget`, a budget of slots per
  local date.
* `LimitHolds`: no date ever has more slots than the limit.
* `NothingCountsTwice` (`CountedOnce`): an application whose answer named its
  negotiation is not counted again when HH lists it.
* `OnlyLastTriesForget` (`OnlyLastTryForgetsLimit`): nothing is dispatched for as
  long as HH asked for, through restarts, across midnight and over changes of the
  timezone. The one exception is what the code does: where the limit meets an
  item on its last try and is no plain limit of the day,
  `finalize_definite_failure` raises before the account is closed (section 4.2).
  The theorem, which has no hypothesis but `QuotaAssumption`, says that no other
  limit is forgotten.

*Assumptions.* `QuotaAssumption`; of a timezone it asks that its offset is
shorter than a day.
*Argument.* `Taken(d)` of the abstract budget is a sum of two cardinalities, of
the attempts with a counted slot on `d` and of the items counted as the
candidate's. Each transaction moves at most one attempt or one item in or out of
one of the sets, on one date (`FiniteSetTheorems`). That a release does not hit
the slot of another item is `UnresolvedHolds`; that the executor's answer belongs
to the slot it reserved, and was not counted meanwhile, is `ExecutorCarries`;
`SlotsInOrder` gives a new attempt a row nobody counts. `LimitHolds` follows from
the refinement: a slot is taken only while slots and outside applications of the
date together are below the limit. The applications HH shows may exceed it, the
program's own slots may not.

*Literal confirmations.* `ConfirmationsKeepCount`: what a confirmation started
can be recorded under it (`OutcomeCanBeRecorded`) and it counts what HH received
(`SuccessIsReal`), for any number of confirmations, items, tries and checks.
`ShotInv` says that targets move with their items and belong to the run that
claimed them (`TargetsFollow`), what a run remembers between its transactions
(`RunCarries`), that what is consumed and what is still owed fit into what was
confirmed (`RoomIsKept`, a bound on a sum of cardinalities), and that success is
counted where it arrived.

*The configuration file.* `FileIsNobodysToLose`: for any number of processes,
keys and values, a save loses nobody's update, refreshed tokens leave edits
alone and do not go back, and the grant changes through its command only. The
invariant (`Tracks`) says what a process that has loaded and not saved knows of
the file. Assumption: `ConfigAssumption`; tokens are numbered up to `MaxToken`.
`SecretsStayOwned` needs the types only: what a submission may do follows from
the merge of one list.

*Settings*, for every folding of names, every list of edits and every resume:

* `GrantsCoverRuns`: a run means what its grant meant when it was given
  (`GrantCoversRun`), and the numbers it took from the file fit each other
  (`RunNumbersFit`).
* `HashStays`: another order or spelling keeps the hash (`RespelledKeepsHash`), and
  an update or a choice of a resume that answers "unchanged" has kept it
  (`ReauthorizationIsAnnounced`).

*Assumptions.* `SettingsAssumption`: folding a folded name changes nothing.
`GrantsCoverRuns` also asks that presets are saved under folded names, `Fold[n] = n`
for every `n` of `PresetNames`; without it the two readers of a preset disagree
(`ValidatedIsSearched`, section 4.2) and a preset renamed in case only keeps the
hash and changes the search. `HashStays` needs no such condition.
*Argument.* `HashTellsMeaning` reads everything a run does off the hash alone:
what is searched, the candidate's facts, words, worklist and numbers
(`MeansTheHash`). `SettInv` keeps that for the grant, so nothing has to be known of
what was edited in between: a run starts with a file of the grant's hash, and both
mean what the hash says. `FileInOrder` says that a patch leaves a file with the
same fields, texts in its queries and integers as its numbers.

*The suite.* `AuthorityLasts` (`DispatchIsAllowed`), `BudgetIsImplemented`
(`ImplementsDayBudget`), `BooksAreExact` (`AuthorityIsExact`), `FileIsKept`
(`FileKeepsEdits`), `FileIsOwned` (`FileChangesAreOwned`), `RunsStayGranted`
(`RunsAsGranted`) and `HashKeepsItsMeaning` (`HashFollowsMeaning`): all
properties of run `control` are theorems.

### 5.2 The ways out

`Channels_proofs`, for every number of workers, leads, rows, screens, messages and
commands:

| theorem | says | invariant | assumes |
|---|---|---|---|
| `NativeAnswersAreTrue` | "not sent" is true; a refusal left nothing behind, but for one after several clicks or by a server error; "applied" is there, but for one read off the page of a form | `NativeInv`: what the clicks left is known from the answer (`ClicksAreKnown`) | |
| `NativeRequestsFollowAnswers` | API and test requests and first clicks follow what HH asked for, and each carries the cookies of the last CAPTCHA; clicks after a click that raised are not covered | `NativeInv` | |
| `FormAnswersAreTrue` | applied is there, another try only where the button was not touched, required answers given | `FormInv`: screens behind the sender are filled | `BrowserFormAssumption` |
| `VacancyIsAppliedToOnce`, `SubmissionIsAsPreviewed` | one submission per vacancy, remembered, as previewed | `ExtInv`: a claim is in the database before anything is sent (`ClaimedBeforeSent`), and what was sent bars another (`SubmissionBars`) | |
| `SentMailIsReal` | a mail called sent was sent, also with commands on old copies | `AllSentIsReal`, for file and copies | |
| `MailsGoOutOnce` | one mail per spelling, of a released lead | `MailInv`: one lead of an address is in flight (`OneInFlight`) | `Alone`: one command at a time |
| `RepliesAreInOrder` | one Chatik reply per message, a held plan needs a word, a sent row is in the chat | `ReplyInv`: what a sender carries fits its row | |
| `ConfirmedApplicationsAreReal` | what a command records as applied HH has | `HandInv`: reports agree with HH | `ManualAssumption` |
| `PassedOverWasSent` | a row passed over was applied to | `HandInv`, and the state file | the file is not edited |
| `LettersYieldToOthersOnly` | a confirmed letter is lost only to one that somebody else writes while the command waits, and only then an application leaves without it | `HandInv`, and `DistinctTargets`: a command lists a vacancy once | |
| `LettersAreAsConfirmed` | a confirmed letter is in the application | `HandInv`, and the plan of the command | `~Together`: one command at a time |

`Alone`, the unedited file and `~Together` are the conditions under which the
suite checks these parts; section 4.2 has the counterexamples without them.
`~Together` also keeps drafts and the autopilot out of a command, so
`LettersAreAsConfirmed` says only that a command does not lose letters by itself;
what holds when others work beside it is `LettersYieldToOthersOnly`. No fairness
is used.

`MCChannels_proofs` proves all four properties of run `channels`:
`RequestsFollow` (`RequestsFollowAnswers`), `NothingIsSentTwice` (`SentOnce`),
`RecordsTellTheTruth` (`RecordsAreReal`) and `WhatLeavesWasConfirmed`
(`SentAsConfirmed`).

### 5.3 The processes

`Processes_proofs`, for every number of vacancies, accounts, tickers, sinks,
events and restarts, and for every week and window:

* `RestartsShareTheLimit` and `TargetBoundsTheStart` (`RunNow`): runs of one
  process share the limit, and none starts beyond the campaign's target.
  `StopIsKept` (`OnlyAFailureForgetsStop`): no send after a pause or a Stop,
  wherever it meets the process, unless a run that fails writes over the request
  with `finish_run` (section 4.2).
* `HandoverIsOrderly` (`Pipeline`): the queue does not overflow, no item is
  dispatched twice, a run that ended leaves nothing going. `PipeInv` says that an
  item is in one place on its way and known to the pass (`OneWay`), that a pass
  nobody stopped is drained before the next (`PassIsDrained`), and that the record
  of the run is that of a quiet one (`RecordIsQuiet`).
* `TicksLeaveNobodyBehind` (`Scheduler`): when a tick ends, no account is due at
  its instant, unless it was leased, blocked or failed. `TicksInv` says of a tick
  what it has behind it (`Sound`). `SlotsNeverBunch`: slots are an interval apart
  (`SlotMoves`). `AnnouncedSlotIsExact`: the announced slot is the first moment an
  interval later at which the window is open. The code searches it minute by
  minute and gives up after a week; the model's loop is a bounded search, and that
  it ends where the definition says is proved with the least element of a
  well-founded order, in place of an induction (`AdvancesToFirst`).
* `OutboxKeepsItsBooks`: one delivery per event and sink, and what is recorded as
  sent was accepted. `OneTickerDeliversOnce`: a lone ticker that does not die gives
  a sink an event once, `Tickers = {t}` and `~MayCrash`; both hypotheses are needed
  (`DeliveredOnce`, section 4.2). `BoxInv` ties the batch a tick carries to the
  rows, which others may have changed.

`MCProcesses_proofs` proves all four properties of run `processes`:
`HandoverIsKept` (`HandoverHolds`), `WorkIsDone` (`ProcessesDoTheirWork`),
`SlotsKeepTheirDistance` (`SlotsAreKept`) and `OperatorIsObeyed`
(`RunsRespectTheOperator`).

### 5.4 From parts to suites

A suite is a disjunction of specifications over disjoint variables, chosen by
`part`. Its theorems take the part apart (`part` never changes), show that the
constants the suite gives meet the assumptions of the components, and equate the
two instances of a component by expanding both.


*Out of the prover's reach, left to TLC:* liveness and `ENABLED`; what recursive
definitions compute (none is used). *Model-checked only:* the properties of run
`discovery` and the liveness of run `progress`. `DeliveredWithinLimit` of `Dispatch` is listed by no run: `LimitHolds`
and the refinement of `DayBudget` say more, for several days.

## 6. What is not modelled

* *Sanitization, vacancy sources and scoring, web UI, CLI, MCP server,
  operating-system task registration, resume export, recon tools*: pure
  functions, parsers, presentation or single-step I/O without state to
  interleave. Their effect appears as free choices (a page lists anything, a
  verdict is any verdict).
* *Schema, migrations and CRUD of read models* in `storage.py`: they run before
  anything else or are read by nobody who decides.
* *HTTP*: reads of the HH client, login and the chat client. A request is what
  may come of it: answered, refused, lost before or after it took effect.
* *AI prompts and answers*: an answer is any answer, valid or not; only the
  trimming of prompts is modelled.
* *Several accounts* in one command, except in `Scheduler`; accounts share no
  row but the configuration file.
* *Code without a caller in the program*: `open_manual_challenge`,
  `send_due_replies`, the global pause, `assert_timezone_change_safe`; claims of
  search cycles are modelled although only tests make them.
* *The sequential ranking mode* (production uses ten workers), *jitter* of
  retries, *retention* of events and artifacts, migration of old configuration
  documents, the environment file.

## 7. What is left

1. *Composition*: `Authorization` and `Quota` with `Dispatch` in one
   specification. Today a refusal of a grant or of a cooldown is a step of
   `Dispatch` that any state allows (`ExecuteRaises`), which is sound for its
   safety properties but says nothing about how long a run goes on after a
   disable.
2. *Proofs* about discovery: the checkpoints of `SearchCycle` and the register of
   `Selection`.
3. *Several accounts* under one scheduler with a shared configuration file.
