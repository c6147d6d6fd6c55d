-------------------------- MODULE MCControl_proofs ---------------------------
(***************************************************************************)
(* The suite of what decides whether the autopilot may act.  Each part was *)
(* proved about for every value of its constants in a module of its own;   *)
(* here those modules are instantiated as the suite instantiates the       *)
(* parts, and their theorems become the properties of the suite.           *)
(***************************************************************************)
EXTENDS MCControl, TLAPS

ControlP == INSTANCE Control_proofs WITH
    Item <- {"i1", "i2"}, NoItem <- "noitem", Vacancy <- {"v1"},
    VacancyOf <- [i \in {"i1", "i2"} |-> "v1"], External <- {"i1"},
    DayLen <- 2, Zone <- {0, 1}, DailyLimit <- 1, RunLimit <- 3,
    MaxTries <- 2, MaxChecks <- 1, Backoff <- 1, Wait <- {2}, Tolerance <- 0,
    MaxTime <- 2, MaxRun <- 1, MaxAttempt <- 3, run <- quota1Run,
    item <- quota1Item, told <- quota1Told,
    Admin <- {one, two}, Policy <- {"p1", "p2"}, Scope <- {"account"},
    HandEdits <- FALSE, MaxGrant <- 2, MaxEdit <- 0, grant <- authGrant,
    Picked <- {one, two}, Ref <- {ref1, ref2}, Live <- "live",
    NoPicked <- "noitem", Most <- 2, PickedTries <- 2, PickedChecks <- 1,
    Proc <- {one, two}, Key <- {"about", "queries"}, Value <- {"v0", "v1"},
    Default <- "v0", MaxToken <- 1, FileGrants <- 1, MaxStart <- 2,
    Client <- {one, two}, Id <- {"x", "y"}, NoId <- "noid", Label <- {"l"},
    MaxLength <- 2, MaskEdits <- 4, confHh <- hh,
    Fold <- MCFold, PresetNames <- {"backend"}, Params <- {"p1"},
    ProfileNames <- {"main"}, WorkLists <- {<<>>}, Resumes <- {"r1", "r2"},
    Facts <- {"f1", "f2"}, QueryLists <- FewQueries, WordLists <- FewWords,
    Edits <- {}, MaxEdits <- 3
\* One command at a time, and a file that is edited by hand.
EditedP == INSTANCE Control_proofs WITH
    Item <- {"i1", "i2"}, NoItem <- "noitem", Vacancy <- {"v1"},
    VacancyOf <- [i \in {"i1", "i2"} |-> "v1"], External <- {"i1"},
    DayLen <- 2, Zone <- {0, 1}, DailyLimit <- 1, RunLimit <- 3,
    MaxTries <- 2, MaxChecks <- 1, Backoff <- 1, Wait <- {2}, Tolerance <- 0,
    MaxTime <- 2, MaxRun <- 1, MaxAttempt <- 3, run <- quota1Run,
    item <- quota1Item, told <- quota1Told,
    Admin <- {one}, Policy <- {"p1", "p2"}, Scope <- {"account", "global"},
    HandEdits <- FALSE, MaxGrant <- 2, MaxEdit <- 1, grant <- authGrant,
    Picked <- {one, two}, Ref <- {ref1, ref2}, Live <- "live",
    NoPicked <- "noitem", Most <- 2, PickedTries <- 2, PickedChecks <- 1,
    Proc <- {one, two}, Key <- {"about", "queries"}, Value <- {"v0", "v1"},
    Default <- "v0", MaxToken <- 1, FileGrants <- 1, MaxStart <- 2,
    Client <- {one, two}, Id <- {"x", "y"}, NoId <- "noid", Label <- {"l"},
    MaxLength <- 2, MaskEdits <- 4, confHh <- hh,
    Fold <- MCFold, PresetNames <- {"backend"}, Params <- {"p1"},
    ProfileNames <- {"main"}, WorkLists <- {<<>>}, Resumes <- {"r1"},
    Facts <- {"f1"}, QueryLists <- OneQuery, WordLists <- {<<>>},
    Edits <- SomeEdits, MaxEdits <- 4
------------------------------------------------------------------------------
(* A part of the suite behaves as the instance that was proved about.  The *)
(* two have the same definitions, so that each expands to the other.       *)

\* The grant of a suite without edits by hand.
LEMMA AuthCarries == Auth!Spec => ControlP!Auth!Spec
  <1>1. ASSUME Auth!Init PROVE ControlP!Auth!Init
    BY <1>1 DEF
        Auth!NoGrant, Auth!Quiet, Auth!NoRun, Auth!Init, ControlP!Auth!NoGrant, ControlP!Auth!Quiet,
        ControlP!Auth!NoRun, ControlP!Auth!Init
  <1>2. ASSUME Auth!Next PROVE ControlP!Auth!Next
    BY <1>2 DEF
        Auth!db, Auth!history, Auth!Quiet, Auth!NoRun, Auth!Revoked, Auth!Stopped,
        Auth!Mismatch, Auth!Reconcile, Auth!Goes, Auth!Ends, Auth!Writes, Auth!Startup,
        Auth!Load, Auth!LoadRunner, Auth!Crash, Auth!BeginEnable, Auth!MayGrant,
        Auth!NextGeneration, Auth!CreateGrants, Auth!WriteProjection,
        Auth!ProjectionFails, Auth!Confirmed, Auth!Confirm, Auth!RevokeOwn, Auth!Undo,
        Auth!RevokeAccount, Auth!Disable, Auth!SetKillSwitch, Auth!HideProjection,
        Auth!ClearKillSwitch, Auth!SetPause, Auth!MarkPause, Auth!EditPolicy,
        Auth!EditFlag, Auth!CreateRun, Auth!Authorizable, Auth!IssueLiveAuthorization,
        Auth!Dispatchable, Auth!PrepareDispatch, Auth!SendPost, Auth!EndRun,
        Auth!Commands, Auth!Continues, Auth!Next, ControlP!Auth!db, ControlP!Auth!history,
        ControlP!Auth!Quiet,
        ControlP!Auth!NoRun, ControlP!Auth!Revoked, ControlP!Auth!Stopped, ControlP!Auth!Mismatch,
        ControlP!Auth!Reconcile,
        ControlP!Auth!Goes, ControlP!Auth!Ends, ControlP!Auth!Writes, ControlP!Auth!Startup,
        ControlP!Auth!Load,
        ControlP!Auth!LoadRunner, ControlP!Auth!Crash, ControlP!Auth!BeginEnable,
        ControlP!Auth!MayGrant,
        ControlP!Auth!NextGeneration, ControlP!Auth!CreateGrants, ControlP!Auth!WriteProjection,
        ControlP!Auth!ProjectionFails, ControlP!Auth!Confirmed, ControlP!Auth!Confirm,
        ControlP!Auth!RevokeOwn,
        ControlP!Auth!Undo, ControlP!Auth!RevokeAccount, ControlP!Auth!Disable,
        ControlP!Auth!SetKillSwitch,
        ControlP!Auth!HideProjection, ControlP!Auth!ClearKillSwitch, ControlP!Auth!SetPause,
        ControlP!Auth!MarkPause,
        ControlP!Auth!EditPolicy, ControlP!Auth!EditFlag, ControlP!Auth!CreateRun,
        ControlP!Auth!Authorizable,
        ControlP!Auth!IssueLiveAuthorization, ControlP!Auth!Dispatchable,
        ControlP!Auth!PrepareDispatch,
        ControlP!Auth!SendPost, ControlP!Auth!EndRun, ControlP!Auth!Commands,
        ControlP!Auth!Continues, ControlP!Auth!Next
  <1>3. [Auth!Next]_(Auth!vars) => [ControlP!Auth!Next]_(ControlP!Auth!vars)
    BY <1>2 DEF
        Auth!db, Auth!history, Auth!vars, ControlP!Auth!db, ControlP!Auth!history,
        ControlP!Auth!vars
  <1> QED BY <1>1, <1>3, PTL DEF Auth!Spec, ControlP!Auth!Spec

\* The grant of a suite whose file is edited by hand.
LEMMA Auth1Carries == Auth1!Spec => EditedP!Auth!Spec
  <1>1. ASSUME Auth1!Init PROVE EditedP!Auth!Init
    BY <1>1 DEF
        Auth1!NoGrant, Auth1!Quiet, Auth1!NoRun, Auth1!Init, EditedP!Auth!NoGrant,
        EditedP!Auth!Quiet, EditedP!Auth!NoRun, EditedP!Auth!Init
  <1>2. ASSUME Auth1!Next PROVE EditedP!Auth!Next
    BY <1>2 DEF
        Auth1!db, Auth1!history, Auth1!Quiet, Auth1!NoRun, Auth1!Revoked,
        Auth1!Stopped, Auth1!Mismatch, Auth1!Reconcile, Auth1!Goes, Auth1!Ends,
        Auth1!Writes, Auth1!Startup, Auth1!Load, Auth1!LoadRunner, Auth1!Crash,
        Auth1!BeginEnable, Auth1!MayGrant, Auth1!NextGeneration, Auth1!CreateGrants,
        Auth1!WriteProjection, Auth1!ProjectionFails, Auth1!Confirmed, Auth1!Confirm,
        Auth1!RevokeOwn, Auth1!Undo, Auth1!RevokeAccount, Auth1!Disable,
        Auth1!SetKillSwitch, Auth1!HideProjection, Auth1!ClearKillSwitch,
        Auth1!SetPause, Auth1!MarkPause, Auth1!EditPolicy, Auth1!EditFlag,
        Auth1!CreateRun, Auth1!Authorizable, Auth1!IssueLiveAuthorization,
        Auth1!Dispatchable, Auth1!PrepareDispatch, Auth1!SendPost, Auth1!EndRun,
        Auth1!Commands, Auth1!Continues, Auth1!Next, EditedP!Auth!db, EditedP!Auth!history,
        EditedP!Auth!Quiet, EditedP!Auth!NoRun, EditedP!Auth!Revoked, EditedP!Auth!Stopped,
        EditedP!Auth!Mismatch,
        EditedP!Auth!Reconcile, EditedP!Auth!Goes, EditedP!Auth!Ends, EditedP!Auth!Writes,
        EditedP!Auth!Startup,
        EditedP!Auth!Load, EditedP!Auth!LoadRunner, EditedP!Auth!Crash, EditedP!Auth!BeginEnable,
        EditedP!Auth!MayGrant, EditedP!Auth!NextGeneration, EditedP!Auth!CreateGrants,
        EditedP!Auth!WriteProjection, EditedP!Auth!ProjectionFails, EditedP!Auth!Confirmed,
        EditedP!Auth!Confirm, EditedP!Auth!RevokeOwn, EditedP!Auth!Undo, EditedP!Auth!RevokeAccount,
        EditedP!Auth!Disable, EditedP!Auth!SetKillSwitch, EditedP!Auth!HideProjection,
        EditedP!Auth!ClearKillSwitch, EditedP!Auth!SetPause, EditedP!Auth!MarkPause,
        EditedP!Auth!EditPolicy,
        EditedP!Auth!EditFlag, EditedP!Auth!CreateRun, EditedP!Auth!Authorizable,
        EditedP!Auth!IssueLiveAuthorization, EditedP!Auth!Dispatchable,
        EditedP!Auth!PrepareDispatch,
        EditedP!Auth!SendPost, EditedP!Auth!EndRun, EditedP!Auth!Commands, EditedP!Auth!Continues,
        EditedP!Auth!Next
  <1>3. [Auth1!Next]_(Auth1!vars) => [EditedP!Auth!Next]_(EditedP!Auth!vars)
    BY <1>2 DEF
        Auth1!db, Auth1!history, Auth1!vars, EditedP!Auth!db, EditedP!Auth!history,
        EditedP!Auth!vars
  <1> QED BY <1>1, <1>3, PTL DEF Auth1!Spec, EditedP!Auth!Spec

\* The quota of the suite.
LEMMA Quota1Carries == Quota1!Spec => ControlP!Spec
  <1>1. ASSUME Quota1!Init PROVE ControlP!Init
    BY <1>1 DEF
        Quota1!Attempt, Quota1!Never, Quota1!NoSlot, Quota1!Idle, Quota1!Init,
        ControlP!Attempt, ControlP!Never, ControlP!NoSlot, ControlP!Idle, ControlP!Init
  <1>2. ASSUME Quota1!Next PROVE ControlP!Next
    BY <1>2 DEF
        Quota1!Attempt, Quota1!Never, Quota1!clock, Quota1!hh, Quota1!Idle,
        Quota1!Counted, Quota1!Open, Quota1!Date, Quota1!NextLocalDay, Quota1!Taken,
        Quota1!Outside, Quota1!DayCount, Quota1!RunCount, Quota1!CoolingDown,
        Quota1!Settle, Quota1!Settles, Quota1!StartRun, Quota1!Crash, Quota1!Stale,
        Quota1!Recover, Quota1!ActivateDueRetry, Quota1!BeginExecute, Quota1!GuardFree,
        Quota1!PrepareDispatch, Quota1!DispatchRefused, Quota1!Shown, Quota1!Answers,
        Quota1!Accept, Quota1!Decline, Quota1!NameLimit, Quota1!FinalizeApplied,
        Quota1!RecordPossiblySent, Quota1!FinalizeRefused, Quota1!WaitFrom,
        Quota1!HHWaits, Quota1!OnLastTry, Quota1!HasInstant, Quota1!RetryAt, Quota1!FinalizeLimited,
        Quota1!FinalizeRaises, Quota1!Reconciling, Quota1!Exact,
        Quota1!ReconcileApplied, Quota1!Latest, Quota1!Recorded, Quota1!NewRow,
        Quota1!ReconcileExternal, Quota1!ReconcileAbsent, Quota1!Reconcile,
        Quota1!ApplyExternally, Quota1!Tick, Quota1!ChangeTimezone, Quota1!Settling,
        Quota1!Next, Quota1!Cardinality, ControlP!Attempt, ControlP!Never, ControlP!clock,
        ControlP!hh, ControlP!Idle, ControlP!Counted, ControlP!Open, ControlP!Date,
        ControlP!NextLocalDay, ControlP!Taken, ControlP!Outside, ControlP!DayCount,
        ControlP!RunCount, ControlP!CoolingDown, ControlP!Settle, ControlP!Settles,
        ControlP!StartRun, ControlP!Crash, ControlP!Stale, ControlP!Recover,
        ControlP!ActivateDueRetry, ControlP!BeginExecute, ControlP!GuardFree,
        ControlP!PrepareDispatch, ControlP!DispatchRefused, ControlP!Shown,
        ControlP!Answers, ControlP!Accept, ControlP!Decline, ControlP!NameLimit,
        ControlP!FinalizeApplied, ControlP!RecordPossiblySent, ControlP!FinalizeRefused,
        ControlP!WaitFrom, ControlP!HHWaits, ControlP!OnLastTry, ControlP!HasInstant, ControlP!RetryAt,
        ControlP!FinalizeLimited, ControlP!FinalizeRaises, ControlP!Reconciling,
        ControlP!Exact, ControlP!ReconcileApplied, ControlP!Latest, ControlP!Recorded,
        ControlP!NewRow, ControlP!ReconcileExternal, ControlP!ReconcileAbsent,
        ControlP!Reconcile, ControlP!ApplyExternally, ControlP!Tick,
        ControlP!ChangeTimezone, ControlP!Settling, ControlP!Next, ControlP!Cardinality
  <1>3. [Quota1!Next]_(Quota1!vars) => [ControlP!Next]_(ControlP!vars)
    BY <1>2 DEF
        Quota1!clock, Quota1!hh, Quota1!vars, ControlP!clock, ControlP!hh, ControlP!vars
  <1> QED BY <1>1, <1>3, PTL DEF Quota1!Spec, ControlP!Spec

\* The literal confirmations of the suite.
LEMMA ShotCarries == Shot!Spec => ControlP!Shot!Spec
  <1>1. ASSUME Shot!Init PROVE ControlP!Shot!Init
    BY <1>1 DEF
        Shot!Nobody, Shot!NoRun, Shot!NoConf, Shot!Init, ControlP!Shot!Nobody,
        ControlP!Shot!NoRun, ControlP!Shot!NoConf, ControlP!Shot!Init
  <1>2. ASSUME Shot!Next PROVE ControlP!Shot!Next
    BY <1>2 DEF
        Shot!Nobody, Shot!NoRun, Shot!MinOf, Shot!Active, Shot!Confirm, Shot!Expire,
        Shot!Recovered, Shot!StartLiteral, Shot!StartLive, Shot!EndRun, Shot!Die,
        Shot!Room, Shot!Finishable, Shot!Left, Shot!Finish, Shot!Confirmed,
        Shot!Prepare, Shot!Post, Shot!To, Shot!Challenge, Shot!Answer, Shot!Retry,
        Shot!CanReconcile, Shot!Found, Shot!ByHand, Shot!Absent, Shot!Ask,
        Shot!Verdict, Shot!CloseManual, Shot!Next, Shot!Cardinality,
        ControlP!Shot!Nobody, ControlP!Shot!NoRun, ControlP!Shot!MinOf,
        ControlP!Shot!Active, ControlP!Shot!Confirm, ControlP!Shot!Expire,
        ControlP!Shot!Recovered, ControlP!Shot!StartLiteral, ControlP!Shot!StartLive,
        ControlP!Shot!EndRun, ControlP!Shot!Die, ControlP!Shot!Room,
        ControlP!Shot!Finishable, ControlP!Shot!Left, ControlP!Shot!Finish,
        ControlP!Shot!Confirmed, ControlP!Shot!Prepare, ControlP!Shot!Post,
        ControlP!Shot!To, ControlP!Shot!Challenge, ControlP!Shot!Answer,
        ControlP!Shot!Retry, ControlP!Shot!CanReconcile, ControlP!Shot!Found,
        ControlP!Shot!ByHand, ControlP!Shot!Absent, ControlP!Shot!Ask,
        ControlP!Shot!Verdict, ControlP!Shot!CloseManual, ControlP!Shot!Next,
        ControlP!Shot!Cardinality
  <1>3. [Shot!Next]_(Shot!vars) => [ControlP!Shot!Next]_(ControlP!Shot!vars)
    BY <1>2 DEF
        Shot!vars, ControlP!Shot!vars
  <1> QED BY <1>1, <1>3, PTL DEF Shot!Spec, ControlP!Shot!Spec

\* The configuration file of the suite.
LEMMA ConfCarries == Conf!Spec => ControlP!Conf!Spec
  <1>1. ASSUME Conf!Init PROVE ControlP!Conf!Init
    BY <1>1 DEF
        Conf!NoToken, Conf!NoClient, Conf!Blank, Conf!Init, ControlP!Conf!NoToken,
        ControlP!Conf!NoClient, ControlP!Conf!Blank, ControlP!Conf!Init
  <1>2. ASSUME Conf!Next PROVE ControlP!Conf!Next
    BY <1>2 DEF
        Conf!NoToken, Conf!NoClient, Conf!Absent, Conf!Blank, Conf!Pick, Conf!Merge,
        Conf!Preserve, Conf!Accept, Conf!Unwritten, Conf!Start, Conf!Die, Conf!Edit,
        Conf!Save, Conf!Patch, Conf!Reset, Conf!AddAccount, Conf!Project,
        Conf!NewClient, Conf!Refresh, Conf!Persist, Conf!Login, Conf!LoseAnswer,
        Conf!Next, ControlP!Conf!NoToken, ControlP!Conf!NoClient, ControlP!Conf!Absent,
        ControlP!Conf!Blank, ControlP!Conf!Pick, ControlP!Conf!Merge,
        ControlP!Conf!Preserve, ControlP!Conf!Accept, ControlP!Conf!Unwritten,
        ControlP!Conf!Start, ControlP!Conf!Die, ControlP!Conf!Edit, ControlP!Conf!Save,
        ControlP!Conf!Patch, ControlP!Conf!Reset, ControlP!Conf!AddAccount,
        ControlP!Conf!Project, ControlP!Conf!NewClient, ControlP!Conf!Refresh,
        ControlP!Conf!Persist, ControlP!Conf!Login, ControlP!Conf!LoseAnswer,
        ControlP!Conf!Next
  <1>3. [Conf!Next]_(Conf!vars) => [ControlP!Conf!Next]_(ControlP!Conf!vars)
    BY <1>2 DEF
        Conf!vars, ControlP!Conf!vars
  <1> QED BY <1>1, <1>3, PTL DEF Conf!Spec, ControlP!Conf!Spec

\* The masked lists of the suite.
LEMMA MaskCarries == Mask!Spec => ControlP!Mask!Spec
  <1>1. ASSUME Mask!Init PROVE ControlP!Mask!Init
    BY <1>1 DEF
        Mask!Secret, Mask!AnyId, Mask!Init, ControlP!Mask!Secret, ControlP!Mask!AnyId,
        ControlP!Mask!Init
  <1>2. ASSUME Mask!Next PROVE ControlP!Mask!Next
    BY <1>2 DEF
        Mask!None, Mask!Empty, Mask!Mask, Mask!Secret, Mask!AnyId, Mask!ItemOf,
        Mask!Masked, Mask!Sensitive, Mask!Named, Mask!Match, Mask!Typed, Mask!Merged,
        Mask!Read, Mask!Retyped, Mask!Changes, Mask!Edit, Mask!Submit, Mask!Next,
        Mask!Cardinality, Mask!RemoveAt, Mask!Reverse, ControlP!Mask!None,
        ControlP!Mask!Empty, ControlP!Mask!Mask,
        ControlP!Mask!Secret, ControlP!Mask!AnyId, ControlP!Mask!ItemOf,
        ControlP!Mask!Masked, ControlP!Mask!Sensitive, ControlP!Mask!Named,
        ControlP!Mask!Match, ControlP!Mask!Typed, ControlP!Mask!Merged,
        ControlP!Mask!Read, ControlP!Mask!Retyped, ControlP!Mask!Changes,
        ControlP!Mask!Edit, ControlP!Mask!Submit, ControlP!Mask!Next,
        ControlP!Mask!Cardinality, ControlP!Mask!RemoveAt, ControlP!Mask!Reverse
  <1>3. [Mask!Next]_(Mask!vars) => [ControlP!Mask!Next]_(ControlP!Mask!vars)
    BY <1>2 DEF
        Mask!vars, ControlP!Mask!vars
  <1> QED BY <1>1, <1>3, PTL DEF Mask!Spec, ControlP!Mask!Spec

\* The suite and the proved instance read the settings alike.
LEMMA SetParses ==
    ASSUME NEW f
    PROVE  Set!Parses(f) <=> ControlP!Sett!Parses(f)
  BY DEF
    Set!SetOf, Set!Folded, Set!Distinct, Set!Text, Set!ArrayOk, Set!QueryKey,
    Set!QueriesOk, Set!FiltersOk, Set!Defaults, Set!Filled, Set!LimitsOk,
    Set!RankingOk, Set!RetryOk, Set!LeaseOk, Set!NumbersOk, Set!Parses,
    Set!Cardinality, ControlP!Sett!SetOf, ControlP!Sett!Folded, ControlP!Sett!Distinct,
    ControlP!Sett!Text, ControlP!Sett!ArrayOk, ControlP!Sett!QueryKey,
    ControlP!Sett!QueriesOk, ControlP!Sett!FiltersOk, ControlP!Sett!Defaults,
    ControlP!Sett!Filled, ControlP!Sett!LimitsOk, ControlP!Sett!RankingOk,
    ControlP!Sett!RetryOk, ControlP!Sett!LeaseOk, ControlP!Sett!NumbersOk,
    ControlP!Sett!Parses, ControlP!Sett!Cardinality

LEMMA SetProjection ==
    ASSUME NEW f
    PROVE  Set!Projection(f) = ControlP!Sett!Projection(f)
  BY DEF
    Set!Folded, Set!ParsedQuery, Set!Defaults, Set!Filled, Set!Parsed, Set!Projection,
    ControlP!Sett!Folded, ControlP!Sett!ParsedQuery, ControlP!Sett!Defaults,
    ControlP!Sett!Filled, ControlP!Sett!Parsed, ControlP!Sett!Projection

LEMMA SetParsed ==
    ASSUME NEW f
    PROVE  Set!Parsed(f) = ControlP!Sett!Parsed(f)
  BY DEF
    Set!Folded, Set!ParsedQuery, Set!Defaults, Set!Filled, Set!Parsed,
    ControlP!Sett!Folded, ControlP!Sett!ParsedQuery, ControlP!Sett!Defaults,
    ControlP!Sett!Filled, ControlP!Sett!Parsed

LEMMA SetHashable ==
    ASSUME NEW f
    PROVE  Set!Hashable(f) <=> ControlP!Sett!Hashable(f)
  BY DEF
    Set!Spelled, Set!PolicyResumes, Set!Hashable, Set!Cardinality,
    ControlP!Sett!Spelled, ControlP!Sett!PolicyResumes, ControlP!Sett!Hashable,
    ControlP!Sett!Cardinality

LEMMA SetPolicyHash ==
    ASSUME NEW f
    PROVE  Set!PolicyHash(f) = ControlP!Sett!PolicyHash(f)
  BY DEF
    Set!SetOf, Set!Folded, Set!ParsedQuery, Set!Defaults, Set!Filled, Set!Parsed,
    Set!PolicyResumes, Set!CandidateFacts, Set!PolicyPresets, Set!CanonicalQueries,
    Set!PolicyHash, ControlP!Sett!SetOf, ControlP!Sett!Folded,
    ControlP!Sett!ParsedQuery, ControlP!Sett!Defaults, ControlP!Sett!Filled,
    ControlP!Sett!Parsed, ControlP!Sett!PolicyResumes, ControlP!Sett!CandidateFacts,
    ControlP!Sett!PolicyPresets, ControlP!Sett!CanonicalQueries,
    ControlP!Sett!PolicyHash

LEMMA SetMeaning ==
    ASSUME NEW f
    PROVE  Set!Meaning(f) = ControlP!Sett!Meaning(f)
  BY DEF
    Set!SetOf, Set!Folded, Set!Defaults, Set!Filled, Set!CandidateFacts, Set!Names,
    Set!ResumesOf, Set!ParamsOf, Set!Mappings, Set!RunMappings, Set!Searches,
    Set!Meaning, ControlP!Sett!SetOf, ControlP!Sett!Folded, ControlP!Sett!Defaults,
    ControlP!Sett!Filled, ControlP!Sett!CandidateFacts, ControlP!Sett!Names,
    ControlP!Sett!ResumesOf, ControlP!Sett!ParamsOf, ControlP!Sett!Mappings,
    ControlP!Sett!RunMappings, ControlP!Sett!Searches, ControlP!Sett!Meaning

LEMMA SetRuntimeValid ==
    ASSUME NEW f
    PROVE  Set!RuntimeValid(f) <=> ControlP!Sett!RuntimeValid(f)
  BY DEF
    Set!SetOf, Set!Folded, Set!Spelled, Set!PolicyResumes, Set!Hashable, Set!Names,
    Set!ResumesOf, Set!ParamsOf, Set!Mappings, Set!RunMappings, Set!PresetOk,
    Set!ResumeOk, Set!OncePerPair, Set!RuntimeValid, Set!Cardinality,
    ControlP!Sett!SetOf, ControlP!Sett!Folded, ControlP!Sett!Spelled,
    ControlP!Sett!PolicyResumes, ControlP!Sett!Hashable, ControlP!Sett!Names,
    ControlP!Sett!ResumesOf, ControlP!Sett!ParamsOf, ControlP!Sett!Mappings,
    ControlP!Sett!RunMappings, ControlP!Sett!PresetOk, ControlP!Sett!ResumeOk,
    ControlP!Sett!OncePerPair, ControlP!Sett!RuntimeValid, ControlP!Sett!Cardinality

LEMMA SetExpanded ==
    ASSUME NEW f
    PROVE  Set!Expanded(f) = ControlP!Sett!Expanded(f)
  BY DEF
    Set!SetOf, Set!Folded, Set!Spelled, Set!Names, Set!ResumesOf, Set!ParamsOf,
    Set!Mappings, Set!RunMappings, Set!Expanded, ControlP!Sett!SetOf,
    ControlP!Sett!Folded, ControlP!Sett!Spelled, ControlP!Sett!Names,
    ControlP!Sett!ResumesOf, ControlP!Sett!ParamsOf, ControlP!Sett!Mappings,
    ControlP!Sett!RunMappings, ControlP!Sett!Expanded

LEMMA SetPatches ==
    ASSUME NEW f
    PROVE  Set!Patches(f) = ControlP!Sett!Patches(f)
  BY DEF
    Set!Written, Set!Patches, ControlP!Sett!Written, ControlP!Sett!Patches

LEMMA SetExisting ==
    ASSUME NEW f
    PROVE  Set!Existing(f) = ControlP!Sett!Existing(f)
  BY DEF
    Set!LastOf, Set!FirstOf, Set!Existing, ControlP!Sett!LastOf, ControlP!Sett!FirstOf,
    ControlP!Sett!Existing

LEMMA SetAllPresets ==
    ASSUME NEW f
    PROVE  Set!AllPresets(f) = ControlP!Sett!AllPresets(f)
  BY DEF
    Set!Once, Set!AllPresets, Set!FlattenSeq, ControlP!Sett!Once,
    ControlP!Sett!AllPresets, ControlP!Sett!FlattenSeq

LEMMA SetChosenFirst ==
    ASSUME NEW f, NEW r, NEW p
    PROVE  Set!ChosenFirst(f, r, p) = ControlP!Sett!ChosenFirst(f, r, p)
  BY DEF
    Set!ChosenFirst, ControlP!Sett!ChosenFirst

LEMMA SetUsedQueries ==
    ASSUME NEW f, NEW r
    PROVE  Set!UsedQueries(f, r) = ControlP!Sett!UsedQueries(f, r)
  BY SetParsed, SetExisting, SetAllPresets, SetChosenFirst DEF
    Set!UsedQueries, ControlP!Sett!UsedQueries

LEMMA SetRespelled ==
    ASSUME NEW f, NEW r
    PROVE  Set!Respelled(f, r) <=> ControlP!Sett!Respelled(f, r)
  BY DEF
    Set!SetOf, Set!Folded, Set!ParsedQuery, Set!Defaults, Set!Filled, Set!Parsed,
    Set!CanonicalQueries, Set!SameApartFrom, Set!Respelled, ControlP!Sett!SetOf,
    ControlP!Sett!Folded, ControlP!Sett!ParsedQuery, ControlP!Sett!Defaults,
    ControlP!Sett!Filled, ControlP!Sett!Parsed, ControlP!Sett!CanonicalQueries,
    ControlP!Sett!SameApartFrom, ControlP!Sett!Respelled

\* The settings of the suite.
LEMMA SetCarries == Set!Spec => ControlP!Sett!Spec
  <1>1. ASSUME Set!Init PROVE ControlP!Sett!Init
    BY <1>1, SetParses DEF Set!Init, ControlP!Sett!Init, Set!None, ControlP!Sett!None
  <1>2. ASSUME Set!Next PROVE ControlP!Sett!Next
    <2>1. ASSUME Set!Update PROVE ControlP!Sett!Update
      BY <2>1, SetPatches, SetParses, SetProjection DEF
          Set!Edited, Set!Update, ControlP!Sett!Edited, ControlP!Sett!Update
    <2>2. ASSUME Set!UseResume PROVE ControlP!Sett!UseResume
      BY <2>2, SetUsedQueries, SetParses, SetParsed DEF
          Set!Edited, Set!Used, Set!UseResume, ControlP!Sett!Edited,
          ControlP!Sett!Used, ControlP!Sett!UseResume
    <2>3. ASSUME Set!EditPreset PROVE ControlP!Sett!EditPreset
      BY <2>3 DEF
          Set!Edited, Set!EditPreset, ControlP!Sett!Edited, ControlP!Sett!EditPreset
    <2>4. ASSUME Set!EditProfile PROVE ControlP!Sett!EditProfile
      BY <2>4 DEF
          Set!Edited, Set!EditProfile, ControlP!Sett!Edited, ControlP!Sett!EditProfile
    <2>5. ASSUME Set!Publish PROVE ControlP!Sett!Publish
      BY <2>5 DEF
          Set!Edited, Set!Publish, ControlP!Sett!Edited, ControlP!Sett!Publish
    <2>6. ASSUME Set!Enable PROVE ControlP!Sett!Enable
      BY <2>6, SetParses, SetHashable, SetPolicyHash, SetMeaning DEF
          Set!Enable, ControlP!Sett!Enable
    <2>7. ASSUME Set!StartRun PROVE ControlP!Sett!StartRun
      BY <2>7, SetParses, SetHashable, SetPolicyHash, SetMeaning, SetRuntimeValid, SetExpanded DEF
          Set!None, Set!StartRun, ControlP!Sett!None, ControlP!Sett!StartRun
    <2>8. ASSUME Set!EndRun PROVE ControlP!Sett!EndRun
      BY <2>8 DEF
          Set!None, Set!EndRun, ControlP!Sett!None, ControlP!Sett!EndRun
    <2> QED BY <1>2, <2>1, <2>2, <2>3, <2>4, <2>5, <2>6, <2>7, <2>8 DEF Set!Next, ControlP!Sett!Next
  <1>3. [Set!Next]_(Set!vars) => [ControlP!Sett!Next]_(ControlP!Sett!vars)
    BY <1>2 DEF
        Set!vars, ControlP!Sett!vars
  <1> QED BY <1>1, <1>3, PTL DEF Set!Spec, ControlP!Sett!Spec

\* The same where the numbers are edited.
LEMMA NumParses ==
    ASSUME NEW f
    PROVE  Num!Parses(f) <=> EditedP!Sett!Parses(f)
  BY DEF
    Num!SetOf, Num!Folded, Num!Distinct, Num!Text, Num!ArrayOk, Num!QueryKey,
    Num!QueriesOk, Num!FiltersOk, Num!Defaults, Num!Filled, Num!LimitsOk,
    Num!RankingOk, Num!RetryOk, Num!LeaseOk, Num!NumbersOk, Num!Parses,
    Num!Cardinality, EditedP!Sett!SetOf, EditedP!Sett!Folded, EditedP!Sett!Distinct,
    EditedP!Sett!Text, EditedP!Sett!ArrayOk, EditedP!Sett!QueryKey,
    EditedP!Sett!QueriesOk, EditedP!Sett!FiltersOk, EditedP!Sett!Defaults,
    EditedP!Sett!Filled, EditedP!Sett!LimitsOk, EditedP!Sett!RankingOk,
    EditedP!Sett!RetryOk, EditedP!Sett!LeaseOk, EditedP!Sett!NumbersOk,
    EditedP!Sett!Parses, EditedP!Sett!Cardinality

LEMMA NumProjection ==
    ASSUME NEW f
    PROVE  Num!Projection(f) = EditedP!Sett!Projection(f)
  BY DEF
    Num!Folded, Num!ParsedQuery, Num!Defaults, Num!Filled, Num!Parsed, Num!Projection,
    EditedP!Sett!Folded, EditedP!Sett!ParsedQuery, EditedP!Sett!Defaults,
    EditedP!Sett!Filled, EditedP!Sett!Parsed, EditedP!Sett!Projection

LEMMA NumParsed ==
    ASSUME NEW f
    PROVE  Num!Parsed(f) = EditedP!Sett!Parsed(f)
  BY DEF
    Num!Folded, Num!ParsedQuery, Num!Defaults, Num!Filled, Num!Parsed,
    EditedP!Sett!Folded, EditedP!Sett!ParsedQuery, EditedP!Sett!Defaults,
    EditedP!Sett!Filled, EditedP!Sett!Parsed

LEMMA NumHashable ==
    ASSUME NEW f
    PROVE  Num!Hashable(f) <=> EditedP!Sett!Hashable(f)
  BY DEF
    Num!Spelled, Num!PolicyResumes, Num!Hashable, Num!Cardinality,
    EditedP!Sett!Spelled, EditedP!Sett!PolicyResumes, EditedP!Sett!Hashable,
    EditedP!Sett!Cardinality

LEMMA NumPolicyHash ==
    ASSUME NEW f
    PROVE  Num!PolicyHash(f) = EditedP!Sett!PolicyHash(f)
  BY DEF
    Num!SetOf, Num!Folded, Num!ParsedQuery, Num!Defaults, Num!Filled, Num!Parsed,
    Num!PolicyResumes, Num!CandidateFacts, Num!PolicyPresets, Num!CanonicalQueries,
    Num!PolicyHash, EditedP!Sett!SetOf, EditedP!Sett!Folded, EditedP!Sett!ParsedQuery,
    EditedP!Sett!Defaults, EditedP!Sett!Filled, EditedP!Sett!Parsed,
    EditedP!Sett!PolicyResumes, EditedP!Sett!CandidateFacts,
    EditedP!Sett!PolicyPresets, EditedP!Sett!CanonicalQueries, EditedP!Sett!PolicyHash

LEMMA NumMeaning ==
    ASSUME NEW f
    PROVE  Num!Meaning(f) = EditedP!Sett!Meaning(f)
  BY DEF
    Num!SetOf, Num!Folded, Num!Defaults, Num!Filled, Num!CandidateFacts, Num!Names,
    Num!ResumesOf, Num!ParamsOf, Num!Mappings, Num!RunMappings, Num!Searches,
    Num!Meaning, EditedP!Sett!SetOf, EditedP!Sett!Folded, EditedP!Sett!Defaults,
    EditedP!Sett!Filled, EditedP!Sett!CandidateFacts, EditedP!Sett!Names,
    EditedP!Sett!ResumesOf, EditedP!Sett!ParamsOf, EditedP!Sett!Mappings,
    EditedP!Sett!RunMappings, EditedP!Sett!Searches, EditedP!Sett!Meaning

LEMMA NumRuntimeValid ==
    ASSUME NEW f
    PROVE  Num!RuntimeValid(f) <=> EditedP!Sett!RuntimeValid(f)
  BY DEF
    Num!SetOf, Num!Folded, Num!Spelled, Num!PolicyResumes, Num!Hashable, Num!Names,
    Num!ResumesOf, Num!ParamsOf, Num!Mappings, Num!RunMappings, Num!PresetOk,
    Num!ResumeOk, Num!OncePerPair, Num!RuntimeValid, Num!Cardinality,
    EditedP!Sett!SetOf, EditedP!Sett!Folded, EditedP!Sett!Spelled,
    EditedP!Sett!PolicyResumes, EditedP!Sett!Hashable, EditedP!Sett!Names,
    EditedP!Sett!ResumesOf, EditedP!Sett!ParamsOf, EditedP!Sett!Mappings,
    EditedP!Sett!RunMappings, EditedP!Sett!PresetOk, EditedP!Sett!ResumeOk,
    EditedP!Sett!OncePerPair, EditedP!Sett!RuntimeValid, EditedP!Sett!Cardinality

LEMMA NumExpanded ==
    ASSUME NEW f
    PROVE  Num!Expanded(f) = EditedP!Sett!Expanded(f)
  BY DEF
    Num!SetOf, Num!Folded, Num!Spelled, Num!Names, Num!ResumesOf, Num!ParamsOf,
    Num!Mappings, Num!RunMappings, Num!Expanded, EditedP!Sett!SetOf,
    EditedP!Sett!Folded, EditedP!Sett!Spelled, EditedP!Sett!Names,
    EditedP!Sett!ResumesOf, EditedP!Sett!ParamsOf, EditedP!Sett!Mappings,
    EditedP!Sett!RunMappings, EditedP!Sett!Expanded

LEMMA NumPatches ==
    ASSUME NEW f
    PROVE  Num!Patches(f) = EditedP!Sett!Patches(f)
  BY DEF
    Num!Written, Num!Patches, EditedP!Sett!Written, EditedP!Sett!Patches

LEMMA NumExisting ==
    ASSUME NEW f
    PROVE  Num!Existing(f) = EditedP!Sett!Existing(f)
  BY DEF
    Num!LastOf, Num!FirstOf, Num!Existing, EditedP!Sett!LastOf, EditedP!Sett!FirstOf,
    EditedP!Sett!Existing

LEMMA NumAllPresets ==
    ASSUME NEW f
    PROVE  Num!AllPresets(f) = EditedP!Sett!AllPresets(f)
  BY DEF
    Num!Once, Num!AllPresets, Num!FlattenSeq, EditedP!Sett!Once,
    EditedP!Sett!AllPresets, EditedP!Sett!FlattenSeq

LEMMA NumChosenFirst ==
    ASSUME NEW f, NEW r, NEW p
    PROVE  Num!ChosenFirst(f, r, p) = EditedP!Sett!ChosenFirst(f, r, p)
  BY DEF
    Num!ChosenFirst, EditedP!Sett!ChosenFirst

LEMMA NumUsedQueries ==
    ASSUME NEW f, NEW r
    PROVE  Num!UsedQueries(f, r) = EditedP!Sett!UsedQueries(f, r)
  BY NumParsed, NumExisting, NumAllPresets, NumChosenFirst DEF
    Num!UsedQueries, EditedP!Sett!UsedQueries

LEMMA NumRespelled ==
    ASSUME NEW f, NEW r
    PROVE  Num!Respelled(f, r) <=> EditedP!Sett!Respelled(f, r)
  BY DEF
    Num!SetOf, Num!Folded, Num!ParsedQuery, Num!Defaults, Num!Filled, Num!Parsed,
    Num!CanonicalQueries, Num!SameApartFrom, Num!Respelled, EditedP!Sett!SetOf,
    EditedP!Sett!Folded, EditedP!Sett!ParsedQuery, EditedP!Sett!Defaults,
    EditedP!Sett!Filled, EditedP!Sett!Parsed, EditedP!Sett!CanonicalQueries,
    EditedP!Sett!SameApartFrom, EditedP!Sett!Respelled

\* The settings whose numbers are edited.
LEMMA NumCarries == Num!Spec => EditedP!Sett!Spec
  <1>1. ASSUME Num!Init PROVE EditedP!Sett!Init
    BY <1>1, NumParses DEF Num!Init, EditedP!Sett!Init, Num!None, EditedP!Sett!None
  <1>2. ASSUME Num!Next PROVE EditedP!Sett!Next
    <2>1. ASSUME Num!Update PROVE EditedP!Sett!Update
      BY <2>1, NumPatches, NumParses, NumProjection DEF
          Num!Edited, Num!Update, EditedP!Sett!Edited, EditedP!Sett!Update
    <2>2. ASSUME Num!UseResume PROVE EditedP!Sett!UseResume
      BY <2>2, NumUsedQueries, NumParses, NumParsed DEF
          Num!Edited, Num!Used, Num!UseResume, EditedP!Sett!Edited, EditedP!Sett!Used,
          EditedP!Sett!UseResume
    <2>3. ASSUME Num!EditPreset PROVE EditedP!Sett!EditPreset
      BY <2>3 DEF
          Num!Edited, Num!EditPreset, EditedP!Sett!Edited, EditedP!Sett!EditPreset
    <2>4. ASSUME Num!EditProfile PROVE EditedP!Sett!EditProfile
      BY <2>4 DEF
          Num!Edited, Num!EditProfile, EditedP!Sett!Edited, EditedP!Sett!EditProfile
    <2>5. ASSUME Num!Publish PROVE EditedP!Sett!Publish
      BY <2>5 DEF
          Num!Edited, Num!Publish, EditedP!Sett!Edited, EditedP!Sett!Publish
    <2>6. ASSUME Num!Enable PROVE EditedP!Sett!Enable
      BY <2>6, NumParses, NumHashable, NumPolicyHash, NumMeaning DEF
          Num!Enable, EditedP!Sett!Enable
    <2>7. ASSUME Num!StartRun PROVE EditedP!Sett!StartRun
      BY <2>7, NumParses, NumHashable, NumPolicyHash, NumMeaning, NumRuntimeValid, NumExpanded DEF
          Num!None, Num!StartRun, EditedP!Sett!None, EditedP!Sett!StartRun
    <2>8. ASSUME Num!EndRun PROVE EditedP!Sett!EndRun
      BY <2>8 DEF
          Num!None, Num!EndRun, EditedP!Sett!None, EditedP!Sett!EndRun
    <2> QED BY <1>2, <2>1, <2>2, <2>3, <2>4, <2>5, <2>6, <2>7, <2>8 DEF Num!Next, EditedP!Sett!Next
  <1>3. [Num!Next]_(Num!vars) => [EditedP!Sett!Next]_(EditedP!Sett!vars)
    BY <1>2 DEF
        Num!vars, EditedP!Sett!vars
  <1> QED BY <1>1, <1>3, PTL DEF Num!Spec, EditedP!Sett!Spec
------------------------------------------------------------------------------
(* One part runs in one behaviour. *)

LEMMA PartStays == [Next]_vars => part' = part
  BY DEF Next, vars, Only

LEMMA GrantRuns == Spec /\ part = "grant" => ControlP!Auth!Spec
  <1>1. Init /\ part = "grant" => Auth!Init
    BY DEF Init
  <1>2. part = "grant" /\ [Next]_vars => [Auth!Next]_(Auth!vars)
    BY DEF Next, vars, Only, AuthVars, Auth!vars, Auth!db, Auth!history
  <1>3. part = "grant" /\ [Next]_vars => (part = "grant")'
    BY PartStays
  <1> QED BY <1>1, <1>2, <1>3, AuthCarries, PTL DEF Spec, Auth!Spec

LEMMA EditedRuns == Spec /\ part = "edited" => EditedP!Auth!Spec
  <1>1. Init /\ part = "edited" => Auth1!Init
    BY DEF Init
  <1>2. part = "edited" /\ [Next]_vars => [Auth1!Next]_(Auth1!vars)
    BY DEF Next, vars, Only, AuthVars, Auth1!vars, Auth1!db, Auth1!history
  <1>3. part = "edited" /\ [Next]_vars => (part = "edited")'
    BY PartStays
  <1> QED BY <1>1, <1>2, <1>3, Auth1Carries, PTL DEF Spec, Auth1!Spec

LEMMA QuotaRuns == Spec /\ part = "quota" => ControlP!Spec
  <1>1. Init /\ part = "quota" => Quota1!Init
    BY DEF Init
  <1>2. part = "quota" /\ [Next]_vars => [Quota1!Next]_(Quota1!vars)
    BY DEF Next, vars, Only, Quota1Vars, Quota1!vars, Quota1!clock, Quota1!hh
  <1>3. part = "quota" /\ [Next]_vars => (part = "quota")'
    BY PartStays
  <1> QED BY <1>1, <1>2, <1>3, Quota1Carries, PTL DEF Spec, Quota1!Spec

LEMMA ShotRuns == Spec /\ part = "one shot" => ControlP!Shot!Spec
  <1>1. Init /\ part = "one shot" => Shot!Init
    BY DEF Init
  <1>2. part = "one shot" /\ [Next]_vars => [Shot!Next]_(Shot!vars)
    BY DEF Next, vars, Only, ShotVars, Shot!vars
  <1>3. part = "one shot" /\ [Next]_vars => (part = "one shot")'
    BY PartStays
  <1> QED BY <1>1, <1>2, <1>3, ShotCarries, PTL DEF Spec, Shot!Spec

LEMMA FileRuns == Spec /\ part = "file" => ControlP!Conf!Spec
  <1>1. Init /\ part = "file" => Conf!Init
    BY DEF Init
  <1>2. part = "file" /\ [Next]_vars => [Conf!Next]_(Conf!vars)
    BY DEF Next, vars, Only, ConfVars, Conf!vars
  <1>3. part = "file" /\ [Next]_vars => (part = "file")'
    BY PartStays
  <1> QED BY <1>1, <1>2, <1>3, ConfCarries, PTL DEF Spec, Conf!Spec

LEMMA ListsRuns == Spec /\ part = "lists" => ControlP!Mask!Spec
  <1>1. Init /\ part = "lists" => Mask!Init
    BY DEF Init
  <1>2. part = "lists" /\ [Next]_vars => [Mask!Next]_(Mask!vars)
    BY DEF Next, vars, Only, MaskVars, Mask!vars
  <1>3. part = "lists" /\ [Next]_vars => (part = "lists")'
    BY PartStays
  <1> QED BY <1>1, <1>2, <1>3, MaskCarries, PTL DEF Spec, Mask!Spec

LEMMA SettingsRuns == Spec /\ part = "settings" => ControlP!Sett!Spec
  <1>1. Init /\ part = "settings" => Set!Init
    BY DEF Init
  <1>2. part = "settings" /\ [Next]_vars => [Set!Next]_(Set!vars)
    BY DEF Next, vars, Only, SetVars, Set!vars
  <1>3. part = "settings" /\ [Next]_vars => (part = "settings")'
    BY PartStays
  <1> QED BY <1>1, <1>2, <1>3, SetCarries, PTL DEF Spec, Set!Spec

LEMMA NumbersRuns == Spec /\ part = "numbers" => EditedP!Sett!Spec
  <1>1. Init /\ part = "numbers" => Num!Init
    BY DEF Init
  <1>2. part = "numbers" /\ [Next]_vars => [Num!Next]_(Num!vars)
    BY DEF Next, vars, Only, SetVars, Num!vars
  <1>3. part = "numbers" /\ [Next]_vars => (part = "numbers")'
    BY PartStays
  <1> QED BY <1>1, <1>2, <1>3, NumCarries, PTL DEF Spec, Num!Spec

\* The constants of the suite are what the proofs assume of them.
LEMMA ConstantsFit ==
    /\ ControlP!Auth!AuthorizationAssumption /\ EditedP!Auth!AuthorizationAssumption
    /\ ControlP!QuotaAssumption
    /\ ControlP!Shot!OneShotAssumption /\ ControlP!Conf!ConfigAssumption
    /\ ControlP!Mask!MaskedAssumption
    /\ ControlP!Sett!SettingsAssumption /\ EditedP!Sett!SettingsAssumption
    /\ \A n \in {"backend"} : MCFold[n] = n
  <1>1. ControlP!Auth!AuthorizationAssumption /\ EditedP!Auth!AuthorizationAssumption
    BY Assumptions DEF Auth!AuthorizationAssumption, Auth1!AuthorizationAssumption,
       ControlP!Auth!AuthorizationAssumption, EditedP!Auth!AuthorizationAssumption, Assumptions
  <1>2. ControlP!QuotaAssumption
    BY Assumptions DEF Quota1!QuotaAssumption, ControlP!QuotaAssumption, Assumptions,
       Quota1!IsFiniteSet, ControlP!IsFiniteSet
  <1>3. ControlP!Shot!OneShotAssumption
    BY Assumptions DEF Shot!OneShotAssumption, ControlP!Shot!OneShotAssumption, Assumptions,
       Shot!IsFiniteSet, ControlP!Shot!IsFiniteSet
  <1>4. ControlP!Conf!ConfigAssumption /\ ControlP!Mask!MaskedAssumption
    BY Assumptions DEF Conf!ConfigAssumption, ControlP!Conf!ConfigAssumption,
       Mask!MaskedAssumption, ControlP!Mask!MaskedAssumption, Assumptions
  <1>5. ControlP!Sett!SettingsAssumption /\ EditedP!Sett!SettingsAssumption
    BY Assumptions DEF Set!SettingsAssumption, ControlP!Sett!SettingsAssumption,
       Num!SettingsAssumption, EditedP!Sett!SettingsAssumption, Assumptions
  <1>6. \A n \in {"backend"} : MCFold[n] = n
    BY DEF MCFold
  <1> QED BY <1>1, <1>2, <1>3, <1>4, <1>5, <1>6
------------------------------------------------------------------------------
\* An application leaves only while its authority lasts: on the operator's last
\* word, under a grant that was shown, outside the wait HH asked for unless the
\* limit came on the last try of an item; and an enable that fails takes back
\* its own grant and no other (prepare_dispatch, revoke_exact_generations,
\* finalize_definite_failure).
THEOREM AuthorityLasts == Spec => DispatchIsAllowed
  <1> DEFINE Kept ==
        /\ (part \in {"grant", "edited"})
              => (Auth!SendsOnTheOperatorsWord /\ Auth!SendsUnderShownGrant)
        /\ (part = "grant") => Auth!UndoTakesBackItsOwn
        /\ (part = "quota") => Quota1!OnlyLastTryForgetsLimit
  <1>1. Spec /\ part = "grant" => [][Kept]_vars
    <2>1. /\ ControlP!Auth!Spec => [][ControlP!Auth!SendsOnTheOperatorsWord]_(ControlP!Auth!vars)
          /\ ControlP!Auth!Spec => [][ControlP!Auth!SendsUnderShownGrant]_(ControlP!Auth!vars)
          /\ ControlP!Auth!Spec => [][ControlP!Auth!UndoTakesBackItsOwn]_(ControlP!Auth!vars)
      BY ConstantsFit, ControlP!DispatchTakesTheWord, ControlP!DispatchNeedsProjection,
         ControlP!UndoIsOwn
    <2>2. /\ part = "grant" /\ [Next]_vars
          /\ [ControlP!Auth!SendsOnTheOperatorsWord]_(ControlP!Auth!vars)
          /\ [ControlP!Auth!SendsUnderShownGrant]_(ControlP!Auth!vars)
          /\ [ControlP!Auth!UndoTakesBackItsOwn]_(ControlP!Auth!vars)
          => [Kept]_vars
      BY DEF Next, vars, Only, AuthVars, Auth!Dispatches, ControlP!Auth!Dispatches,
         ControlP!Auth!vars, ControlP!Auth!db, ControlP!Auth!history,
         Auth!SendsOnTheOperatorsWord, ControlP!Auth!SendsOnTheOperatorsWord,
         Auth!SendsUnderShownGrant, ControlP!Auth!SendsUnderShownGrant,
         Auth!UndoTakesBackItsOwn, ControlP!Auth!UndoTakesBackItsOwn
    <2>3. part = "grant" /\ [Next]_vars => (part = "grant")'
      BY PartStays
    <2> QED BY <2>1, <2>2, <2>3, GrantRuns, PTL DEF Spec
  <1>2. Spec /\ part = "edited" => [][Kept]_vars
    <2>1. /\ EditedP!Auth!Spec => [][EditedP!Auth!SendsOnTheOperatorsWord]_(EditedP!Auth!vars)
          /\ EditedP!Auth!Spec => [][EditedP!Auth!SendsUnderShownGrant]_(EditedP!Auth!vars)
      BY ConstantsFit, EditedP!DispatchTakesTheWord, EditedP!DispatchNeedsProjection
    <2>2. /\ part = "edited" /\ [Next]_vars
          /\ [EditedP!Auth!SendsOnTheOperatorsWord]_(EditedP!Auth!vars)
          /\ [EditedP!Auth!SendsUnderShownGrant]_(EditedP!Auth!vars)
          => [Kept]_vars
      BY DEF Next, vars, Only, AuthVars, Auth!Dispatches, EditedP!Auth!Dispatches,
         EditedP!Auth!vars, EditedP!Auth!db, EditedP!Auth!history,
         Auth!SendsOnTheOperatorsWord, EditedP!Auth!SendsOnTheOperatorsWord,
         Auth!SendsUnderShownGrant, EditedP!Auth!SendsUnderShownGrant
    <2>3. part = "edited" /\ [Next]_vars => (part = "edited")'
      BY PartStays
    <2> QED BY <2>1, <2>2, <2>3, EditedRuns, PTL DEF Spec
  <1>3. Spec /\ part = "quota" => [][Kept]_vars
    <2>1. ControlP!Spec => [][ControlP!OnlyLastTryForgetsLimit]_(ControlP!vars)
      BY ConstantsFit, ControlP!OnlyLastTriesForget
    <2>2. part = "quota" /\ [Next]_vars /\ [ControlP!OnlyLastTryForgetsLimit]_(ControlP!vars)
          => [Kept]_vars
      BY DEF Next, vars, Only, Quota1Vars, ControlP!vars, ControlP!clock, ControlP!hh,
         Quota1!OnlyLastTryForgetsLimit, ControlP!OnlyLastTryForgetsLimit
    <2>3. part = "quota" /\ [Next]_vars => (part = "quota")'
      BY PartStays
    <2> QED BY <2>1, <2>2, <2>3, QuotaRuns, PTL DEF Spec
  <1>4. Spec /\ ~(part = "grant") /\ ~(part = "edited") /\ ~(part = "quota") => [][Kept]_vars
    <2>1. ~(part = "grant") /\ ~(part = "edited") /\ ~(part = "quota") => [Kept]_vars
      OBVIOUS
    <2>2. /\ ~(part = "grant") /\ [Next]_vars => (~(part = "grant"))'
          /\ ~(part = "edited") /\ [Next]_vars => (~(part = "edited"))'
          /\ ~(part = "quota") /\ [Next]_vars => (~(part = "quota"))'
      BY PartStays
    <2> QED BY <2>1, <2>2, PTL DEF Spec
  <1> QED BY <1>1, <1>2, <1>3, <1>4, PTL DEF DispatchIsAllowed

\* The two instances count alike, before a step and after it.
LEMMA SameCounts ==
    /\ ControlP!Day = Quota1!Day
    /\ \A d : ControlP!Taken(d) = Quota1!Taken(d) /\ ControlP!Taken(d)' = Quota1!Taken(d)'
    /\ \A d : ControlP!Outside(d) = Quota1!Outside(d) /\ ControlP!Outside(d)' = Quota1!Outside(d)'
  <1>1. \A S : ControlP!Cardinality(S) = Quota1!Cardinality(S)
    BY DEF ControlP!Cardinality, Quota1!Cardinality
  <1>2. ControlP!Day = Quota1!Day
    BY DEF ControlP!Day, Quota1!Day, ControlP!Time, Quota1!Time
  <1> QED BY <1>1, <1>2
          DEF ControlP!Taken, Quota1!Taken, ControlP!Outside, Quota1!Outside, ControlP!Attempt,
              Quota1!Attempt, ControlP!Counted, Quota1!Counted

\* The reservations of the suite implement a budget per local date
\* (_reserve_quota_for_update, finalize_external_application).
THEOREM BudgetIsImplemented == Spec => ImplementsDayBudget
  <1> DEFINE Kept == (part = "quota") => [Quota1!Budget!Next]_(Quota1!Budget!vars)
  <1>1. Spec /\ part = "quota" => Quota1!Budget!Init /\ [][Kept]_vars
    <2>1. ControlP!Spec => ControlP!ImplementsDayBudget
      BY ConstantsFit, ControlP!Implements
    <2>2. ASSUME ControlP!Budget!Init PROVE Quota1!Budget!Init
      BY <2>2, SameCounts DEF ControlP!Budget!Init, Quota1!Budget!Init
    <2>3. ASSUME ControlP!Budget!Next PROVE Quota1!Budget!Next
      <3> DEFINE taken == [d \in Quota1!Day |-> Quota1!Taken(d)]
                 outside == [d \in Quota1!Day |-> Quota1!Outside(d)]
                 takenP == [d \in ControlP!Day |-> ControlP!Taken(d)]
                 outsideP == [d \in ControlP!Day |-> ControlP!Outside(d)]
      <3>1. takenP = taken /\ outsideP = outside /\ takenP' = taken' /\ outsideP' = outside'
        BY SameCounts
      <3> HIDE DEF taken, outside, takenP, outsideP
      <3>2. PICK d \in Quota1!Day :
              \/ takenP[d] + outsideP[d] < 1 /\ takenP' = [takenP EXCEPT ![d] = @ + 1]
                    /\ outsideP' = outsideP
              \/ takenP[d] > 0 /\ takenP' = [takenP EXCEPT ![d] = @ - 1] /\ outsideP' = outsideP
              \/ \E e \in Quota1!Day :
                    /\ takenP[d] > 0 /\ takenP' = [takenP EXCEPT ![d] = @ - 1]
                    /\ outsideP' = [outsideP EXCEPT ![e] = @ + 1]
        BY <2>3, SameCounts DEF ControlP!Budget!Next, ControlP!Budget!Take, ControlP!Budget!Give,
           ControlP!Budget!GiveAndOutside, takenP, outsideP
      <3>3. \/ taken[d] + outside[d] < 1 /\ taken' = [taken EXCEPT ![d] = @ + 1]
                  /\ outside' = outside
            \/ taken[d] > 0 /\ taken' = [taken EXCEPT ![d] = @ - 1] /\ outside' = outside
            \/ \E e \in Quota1!Day :
                  /\ taken[d] > 0 /\ taken' = [taken EXCEPT ![d] = @ - 1]
                  /\ outside' = [outside EXCEPT ![e] = @ + 1]
        BY <3>1, <3>2
      <3> QED BY <3>3 DEF Quota1!Budget!Next, Quota1!Budget!Take, Quota1!Budget!Give,
                 Quota1!Budget!GiveAndOutside, taken, outside
    <2>4. ASSUME UNCHANGED ControlP!Budget!vars PROVE UNCHANGED Quota1!Budget!vars
      BY <2>4, SameCounts DEF ControlP!Budget!vars, Quota1!Budget!vars
    <2>5. [ControlP!Budget!Next]_(ControlP!Budget!vars) => [Kept]_vars
      BY <2>3, <2>4
    <2> QED BY <2>1, <2>2, <2>5, QuotaRuns, PTL
            DEF ControlP!ImplementsDayBudget, ControlP!Budget!Spec
  <1>2. Spec /\ ~(part = "quota") => [][Kept]_vars
    <2>1. ~(part = "quota") => [Kept]_vars
      OBVIOUS
    <2>2. ~(part = "quota") /\ [Next]_vars => (~(part = "quota"))'
      BY PartStays
    <2> QED BY <2>1, <2>2, PTL DEF Spec
  <1> QED BY <1>1, <1>2, PTL DEF ImplementsDayBudget

\* The books of authority are exact: no grant survives under a kill switch, a
\* literal confirmation can always record the outcome of what it started and
\* counts what HH received under it, and one application costs one slot
\* (set_kill_switch, _finish_literal_target_for_update,
\* finalize_external_application).
THEOREM BooksAreExact == Spec => []AuthorityIsExact
  <1>1. Spec /\ part = "grant" => [](part = "grant" /\ Auth!TypeOK /\ Auth!NoGrantUnderKill)
    <2>1. ControlP!Auth!Spec => [](ControlP!Auth!TypeOK /\ ControlP!Auth!NoGrantUnderKill)
      <3>1. ControlP!AuthInv => ControlP!Auth!TypeOK /\ ControlP!Auth!NoGrantUnderKill
        BY DEF ControlP!AuthInv
      <3> QED BY <3>1, ConstantsFit, ControlP!AuthorityInductive, PTL
    <2>2. ControlP!Auth!TypeOK /\ ControlP!Auth!NoGrantUnderKill => Auth!TypeOK /\ Auth!NoGrantUnderKill
      BY DEF
          Auth!Generation, Auth!Entry, Auth!TypeOK, Auth!NoGrantUnderKill,
          ControlP!Auth!Generation, ControlP!Auth!Entry, ControlP!Auth!TypeOK,
          ControlP!Auth!NoGrantUnderKill
    <2>3. part = "grant" /\ [Next]_vars => (part = "grant")'
      BY PartStays
    <2> QED BY <2>1, <2>2, <2>3, GrantRuns, PTL DEF Spec
  <1>2. Spec /\ part = "edited" => [](part = "edited" /\ Auth1!TypeOK /\ Auth1!NoGrantUnderKill)
    <2>1. EditedP!Auth!Spec => [](EditedP!Auth!TypeOK /\ EditedP!Auth!NoGrantUnderKill)
      <3>1. EditedP!AuthInv => EditedP!Auth!TypeOK /\ EditedP!Auth!NoGrantUnderKill
        BY DEF EditedP!AuthInv
      <3> QED BY <3>1, ConstantsFit, EditedP!AuthorityInductive, PTL
    <2>2. EditedP!Auth!TypeOK /\ EditedP!Auth!NoGrantUnderKill => Auth1!TypeOK /\ Auth1!NoGrantUnderKill
      BY DEF
          Auth1!Generation, Auth1!Entry, Auth1!TypeOK, Auth1!NoGrantUnderKill,
          EditedP!Auth!Generation, EditedP!Auth!Entry, EditedP!Auth!TypeOK,
          EditedP!Auth!NoGrantUnderKill
    <2>3. part = "edited" /\ [Next]_vars => (part = "edited")'
      BY PartStays
    <2> QED BY <2>1, <2>2, <2>3, EditedRuns, PTL DEF Spec
  <1>3. Spec /\ part = "one shot" => [](/\ part = "one shot" /\ Shot!TypeOK
                                       /\ Shot!OutcomeCanBeRecorded /\ Shot!SuccessIsReal)
    <2>1. ControlP!Shot!Spec => [](/\ ControlP!Shot!TypeOK /\ ControlP!Shot!OutcomeCanBeRecorded
                                   /\ ControlP!Shot!SuccessIsReal)
      BY ConstantsFit, ControlP!ConfirmationsKeepCount, PTL
    <2>2. /\ ControlP!Shot!TypeOK /\ ControlP!Shot!OutcomeCanBeRecorded
          /\ ControlP!Shot!SuccessIsReal
          => Shot!TypeOK /\ Shot!OutcomeCanBeRecorded /\ Shot!SuccessIsReal
      BY DEF
          Shot!Nobody, Shot!Unsettled, Shot!States, Shot!TypeOK, Shot!Active,
          Shot!Finishable, Shot!OutcomeCanBeRecorded, Shot!SuccessIsReal,
          Shot!Cardinality, ControlP!Shot!Nobody, ControlP!Shot!Unsettled,
          ControlP!Shot!States, ControlP!Shot!TypeOK, ControlP!Shot!Active,
          ControlP!Shot!Finishable, ControlP!Shot!OutcomeCanBeRecorded,
          ControlP!Shot!SuccessIsReal, ControlP!Shot!Cardinality
    <2>3. part = "one shot" /\ [Next]_vars => (part = "one shot")'
      BY PartStays
    <2> QED BY <2>1, <2>2, <2>3, ShotRuns, PTL DEF Spec
  <1>4. Spec /\ part = "quota" => [](part = "quota" /\ Quota1!TypeOK /\ Quota1!CountedOnce)
    <2>1. ControlP!Spec => [](ControlP!TypeOK /\ ControlP!CountedOnce)
      <3>1. ControlP!QuotaInv => ControlP!TypeOK /\ ControlP!CountedOnce
        BY DEF ControlP!QuotaInv
      <3> QED BY <3>1, ConstantsFit, ControlP!QuotaInductive, PTL
    <2>2. ControlP!TypeOK /\ ControlP!CountedOnce => Quota1!TypeOK /\ Quota1!CountedOnce
      BY DEF
          Quota1!Attempt, Quota1!Time, Quota1!Never, Quota1!Counted, Quota1!Day,
          Quota1!TypeOK, Quota1!Recorded, Quota1!CountedOnce, ControlP!Attempt,
          ControlP!Time, ControlP!Never, ControlP!Counted, ControlP!Day, ControlP!TypeOK,
          ControlP!Recorded, ControlP!CountedOnce
    <2>3. part = "quota" /\ [Next]_vars => (part = "quota")'
      BY PartStays
    <2> QED BY <2>1, <2>2, <2>3, QuotaRuns, PTL DEF Spec
  <1>5. Spec /\ ~(part = "grant") /\ ~(part = "edited") /\ ~(part = "one shot") /\ ~(part = "quota")
          => []AuthorityIsExact
    <2>1. ~(part = "grant") /\ ~(part = "edited") /\ ~(part = "one shot") /\ ~(part = "quota")
          => AuthorityIsExact
      BY DEF AuthorityIsExact
    <2>2. /\ ~(part = "grant") /\ [Next]_vars => (~(part = "grant"))'
          /\ ~(part = "edited") /\ [Next]_vars => (~(part = "edited"))'
          /\ ~(part = "one shot") /\ [Next]_vars => (~(part = "one shot"))'
          /\ ~(part = "quota") /\ [Next]_vars => (~(part = "quota"))'
      BY PartStays
    <2> QED BY <2>1, <2>2, PTL DEF Spec
  <1>6. /\ part = "grant" /\ Auth!TypeOK /\ Auth!NoGrantUnderKill => AuthorityIsExact
        /\ part = "edited" /\ Auth1!TypeOK /\ Auth1!NoGrantUnderKill => AuthorityIsExact
        /\ part = "one shot" /\ Shot!TypeOK /\ Shot!OutcomeCanBeRecorded /\ Shot!SuccessIsReal
             => AuthorityIsExact
        /\ part = "quota" /\ Quota1!TypeOK /\ Quota1!CountedOnce => AuthorityIsExact
    BY DEF AuthorityIsExact
  <1> QED BY <1>1, <1>2, <1>3, <1>4, <1>5, <1>6, PTL

\* What a process changed in the configuration is in the file once it has
\* saved, whatever the others wrote in between (WorkHunter.save_config).
THEOREM FileIsKept == Spec => []FileKeepsEdits
  <1>1. Spec /\ part = "file" => [](part = "file" /\ Conf!TypeOK /\ Conf!NoLostUpdate)
    <2>1. ControlP!Conf!Spec => [](ControlP!Conf!TypeOK /\ ControlP!Conf!NoLostUpdate)
      BY ConstantsFit, ControlP!FileIsNobodysToLose, PTL
    <2>2. ControlP!Conf!TypeOK /\ ControlP!Conf!NoLostUpdate => Conf!TypeOK /\ Conf!NoLostUpdate
      BY DEF
          Conf!Absent, Conf!Grants, Conf!Config, Conf!TypeOK, Conf!NoLostUpdate,
          ControlP!Conf!Absent, ControlP!Conf!Grants, ControlP!Conf!Config,
          ControlP!Conf!TypeOK, ControlP!Conf!NoLostUpdate
    <2>3. part = "file" /\ [Next]_vars => (part = "file")'
      BY PartStays
    <2> QED BY <2>1, <2>2, <2>3, FileRuns, PTL DEF Spec
  <1>2. Spec /\ part = "lists" => [](part = "lists" /\ Mask!TypeOK)
    <2>1. ControlP!Mask!Spec => [](ControlP!Mask!TypeOK)
      BY ConstantsFit, ControlP!SecretsStayOwned, PTL
    <2>2. ControlP!Mask!TypeOK => Mask!TypeOK
      BY DEF
          Mask!None, Mask!Empty, Mask!Mask, Mask!Secret, Mask!AnyId, Mask!ItemOf,
          Mask!Secrets, Mask!ListOf, Mask!TypeOK, ControlP!Mask!None,
          ControlP!Mask!Empty, ControlP!Mask!Mask, ControlP!Mask!Secret,
          ControlP!Mask!AnyId, ControlP!Mask!ItemOf, ControlP!Mask!Secrets,
          ControlP!Mask!ListOf, ControlP!Mask!TypeOK
    <2>3. part = "lists" /\ [Next]_vars => (part = "lists")'
      BY PartStays
    <2> QED BY <2>1, <2>2, <2>3, ListsRuns, PTL DEF Spec
  <1>3. Spec /\ ~(part = "file") /\ ~(part = "lists") => []FileKeepsEdits
    <2>1. ~(part = "file") /\ ~(part = "lists") => FileKeepsEdits
      BY DEF FileKeepsEdits
    <2>2. /\ ~(part = "file") /\ [Next]_vars => (~(part = "file"))'
          /\ ~(part = "lists") /\ [Next]_vars => (~(part = "lists"))'
      BY PartStays
    <2> QED BY <2>1, <2>2, PTL DEF Spec
  <1>4. /\ part = "file" /\ Conf!TypeOK /\ Conf!NoLostUpdate => FileKeepsEdits
        /\ part = "lists" /\ Mask!TypeOK => FileKeepsEdits
    BY DEF FileKeepsEdits
  <1> QED BY <1>1, <1>2, <1>3, <1>4, PTL

\* Nobody writes what is not his: refreshed tokens leave edits alone and never go
\* back, grants change through their command, and a masked list keeps each
\* secret with its owner (_persist_hh_identity_patch,
\* preserve_managed_autopilot_fields, _merge_masked_value).
THEOREM FileIsOwned == Spec => FileChangesAreOwned
  <1> DEFINE Kept ==
        /\ (part = "file")
              => (Conf!EditsSurviveTokens /\ Conf!TokensNeverGoBack /\ Conf!GrantIsManaged)
        /\ (part = "lists") => (Mask!SecretStaysWithItsOwner /\ Mask!UntouchedSecretSurvives)
  <1>1. Spec /\ part = "file" => [][Kept]_vars
    <2>1. ControlP!Conf!Spec => [][/\ ControlP!Conf!EditsSurviveTokens
                                     /\ ControlP!Conf!TokensNeverGoBack
                                     /\ ControlP!Conf!GrantIsManaged]_(ControlP!Conf!vars)
      BY ConstantsFit, ControlP!FileIsNobodysToLose, PTL
    <2>2. /\ part = "file" /\ [Next]_vars
          /\ [/\ ControlP!Conf!EditsSurviveTokens /\ ControlP!Conf!TokensNeverGoBack
              /\ ControlP!Conf!GrantIsManaged]_(ControlP!Conf!vars)
          => [Kept]_vars
      BY DEF
         Next, vars, Only, ConfVars, ControlP!Conf!vars, Conf!NoToken, Conf!Absent,
         Conf!Accept, Conf!Project, Conf!EditsSurviveTokens, Conf!TokensNeverGoBack,
         Conf!GrantIsManaged, ControlP!Conf!NoToken, ControlP!Conf!Absent,
         ControlP!Conf!Accept, ControlP!Conf!Project, ControlP!Conf!EditsSurviveTokens,
         ControlP!Conf!TokensNeverGoBack, ControlP!Conf!GrantIsManaged
    <2>3. part = "file" /\ [Next]_vars => (part = "file")'
      BY PartStays
    <2> QED BY <2>1, <2>2, <2>3, FileRuns, PTL DEF Spec
  <1>2. Spec /\ part = "lists" => [][Kept]_vars
    <2>1. ControlP!Mask!Spec => [][/\ ControlP!Mask!SecretStaysWithItsOwner
                                     /\ ControlP!Mask!UntouchedSecretSurvives]_(ControlP!Mask!vars)
      BY ConstantsFit, ControlP!SecretsStayOwned, PTL
    <2>2. /\ part = "lists" /\ [Next]_vars
          /\ [/\ ControlP!Mask!SecretStaysWithItsOwner
              /\ ControlP!Mask!UntouchedSecretSurvives]_(ControlP!Mask!vars)
          => [Kept]_vars
      BY DEF
         Next, vars, Only, MaskVars, ControlP!Mask!vars, Mask!None, Mask!Empty,
         Mask!Mask, Mask!Masked, Mask!Sensitive, Mask!Named, Mask!Match, Mask!Typed,
         Mask!Merged, Mask!Submit, Mask!SecretStaysWithItsOwner,
         Mask!UntouchedSecretSurvives, Mask!Cardinality, ControlP!Mask!None,
         ControlP!Mask!Empty, ControlP!Mask!Mask, ControlP!Mask!Masked,
         ControlP!Mask!Sensitive, ControlP!Mask!Named, ControlP!Mask!Match,
         ControlP!Mask!Typed, ControlP!Mask!Merged, ControlP!Mask!Submit,
         ControlP!Mask!SecretStaysWithItsOwner, ControlP!Mask!UntouchedSecretSurvives,
         ControlP!Mask!Cardinality
    <2>3. part = "lists" /\ [Next]_vars => (part = "lists")'
      BY PartStays
    <2> QED BY <2>1, <2>2, <2>3, ListsRuns, PTL DEF Spec
  <1>3. Spec /\ ~(part = "file") /\ ~(part = "lists") => [][Kept]_vars
    <2>1. ~(part = "file") /\ ~(part = "lists") => [Kept]_vars
      OBVIOUS
    <2>2. /\ ~(part = "file") /\ [Next]_vars => (~(part = "file"))'
          /\ ~(part = "lists") /\ [Next]_vars => (~(part = "lists"))'
      BY PartStays
    <2> QED BY <2>1, <2>2, PTL DEF Spec
  <1> QED BY <1>1, <1>2, <1>3, PTL DEF FileChangesAreOwned

\* A run that goes on searches and applies for what its grant meant when it was
\* given, and the numbers it took from the file fit each other (policy_hash,
\* _hh_engine_context, parse_autopilot_settings).
THEOREM RunsStayGranted == Spec => []RunsAsGranted
  <1>1. Spec /\ part = "settings" => [](part = "settings" /\ Set!GrantCoversRun)
    <2>1. ControlP!Sett!Spec => [](ControlP!Sett!GrantCoversRun /\ ControlP!Sett!RunNumbersFit)
      BY ConstantsFit, ControlP!GrantsCoverRuns
    <2>2. ControlP!Sett!GrantCoversRun => Set!GrantCoversRun
      BY DEF Set!GrantCoversRun, ControlP!Sett!GrantCoversRun, Set!None, ControlP!Sett!None
    <2>3. part = "settings" /\ [Next]_vars => (part = "settings")'
      BY PartStays
    <2> QED BY <2>1, <2>2, <2>3, SettingsRuns, PTL DEF Spec
  <1>2. Spec /\ part = "numbers"
          => [](part = "numbers" /\ Num!GrantCoversRun /\ Num!RunNumbersFit)
    <2>1. EditedP!Sett!Spec => [](EditedP!Sett!GrantCoversRun /\ EditedP!Sett!RunNumbersFit)
      BY ConstantsFit, EditedP!GrantsCoverRuns
    <2>2. EditedP!Sett!GrantCoversRun /\ EditedP!Sett!RunNumbersFit
          => Num!GrantCoversRun /\ Num!RunNumbersFit
      BY DEF Num!GrantCoversRun, EditedP!Sett!GrantCoversRun, Num!RunNumbersFit,
         EditedP!Sett!RunNumbersFit, Num!None, EditedP!Sett!None
    <2>3. part = "numbers" /\ [Next]_vars => (part = "numbers")'
      BY PartStays
    <2> QED BY <2>1, <2>2, <2>3, NumbersRuns, PTL DEF Spec
  <1>3. Spec /\ ~(part = "settings") /\ ~(part = "numbers") => []RunsAsGranted
    <2>1. ~(part = "settings") /\ ~(part = "numbers") => RunsAsGranted
      BY DEF RunsAsGranted
    <2>2. /\ ~(part = "settings") /\ [Next]_vars => (~(part = "settings"))'
          /\ ~(part = "numbers") /\ [Next]_vars => (~(part = "numbers"))'
      BY PartStays
    <2> QED BY <2>1, <2>2, PTL DEF Spec
  <1>4. /\ part = "settings" /\ Set!GrantCoversRun => RunsAsGranted
        /\ part = "numbers" /\ Num!GrantCoversRun /\ Num!RunNumbersFit => RunsAsGranted
    BY DEF RunsAsGranted
  <1> QED BY <1>1, <1>2, <1>3, <1>4, PTL

\* Another spelling of the same settings keeps their hash, and no update that
\* says the grant stays in force changes it (policy_hash, _canonicalize,
\* update_hh_autopilot_config, use_resume_for_hh).
THEOREM HashKeepsItsMeaning == Spec => HashFollowsMeaning
  <1> DEFINE Kept ==
        /\ (part = "settings") => (Set!RespelledKeepsHash /\ Set!ReauthorizationIsAnnounced)
        /\ (part = "numbers") => Num!ReauthorizationIsAnnounced
  <1>1. Spec /\ part = "settings" => [][Kept]_vars
    <2>1. ControlP!Sett!Spec
            => [][ControlP!Sett!RespelledKeepsHash
                  /\ ControlP!Sett!ReauthorizationIsAnnounced]_(ControlP!Sett!vars)
      BY ConstantsFit, ControlP!HashStays
    <2>2. /\ part = "settings" /\ [Next]_vars
          /\ [ControlP!Sett!RespelledKeepsHash
              /\ ControlP!Sett!ReauthorizationIsAnnounced]_(ControlP!Sett!vars)
          => [Kept]_vars
      BY SetPolicyHash, SetRespelled DEF
         Next, vars, Only, SetVars, ControlP!Sett!vars,
         Set!RespelledKeepsHash, Set!ReauthorizationIsAnnounced,
         ControlP!Sett!RespelledKeepsHash, ControlP!Sett!ReauthorizationIsAnnounced
    <2>3. part = "settings" /\ [Next]_vars => (part = "settings")'
      BY PartStays
    <2> QED BY <2>1, <2>2, <2>3, SettingsRuns, PTL DEF Spec
  <1>2. Spec /\ part = "numbers" => [][Kept]_vars
    <2>1. EditedP!Sett!Spec
            => [][EditedP!Sett!RespelledKeepsHash
                  /\ EditedP!Sett!ReauthorizationIsAnnounced]_(EditedP!Sett!vars)
      BY ConstantsFit, EditedP!HashStays
    <2>2. /\ part = "numbers" /\ [Next]_vars
          /\ [EditedP!Sett!RespelledKeepsHash
              /\ EditedP!Sett!ReauthorizationIsAnnounced]_(EditedP!Sett!vars)
          => [Kept]_vars
      BY NumPolicyHash DEF
         Next, vars, Only, SetVars, EditedP!Sett!vars,
         Num!ReauthorizationIsAnnounced, EditedP!Sett!ReauthorizationIsAnnounced
    <2>3. part = "numbers" /\ [Next]_vars => (part = "numbers")'
      BY PartStays
    <2> QED BY <2>1, <2>2, <2>3, NumbersRuns, PTL DEF Spec
  <1>3. Spec /\ ~(part = "settings") /\ ~(part = "numbers") => [][Kept]_vars
    <2>1. ~(part = "settings") /\ ~(part = "numbers") => [Kept]_vars
      OBVIOUS
    <2>2. /\ ~(part = "settings") /\ [Next]_vars => (~(part = "settings"))'
          /\ ~(part = "numbers") /\ [Next]_vars => (~(part = "numbers"))'
      BY PartStays
    <2> QED BY <2>1, <2>2, PTL DEF Spec
  <1> QED BY <1>1, <1>2, <1>3, PTL DEF HashFollowsMeaning
==============================================================================
