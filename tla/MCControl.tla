------------------------------ MODULE MCControl ------------------------------
(***************************************************************************)
(* What decides whether the autopilot may act: the grant, literal          *)
(* confirmations, the configuration file, masked lists, the settings       *)
(* behind a grant, and the quota. They share no state, so one behaviour    *)
(* runs one of them: part says which. Settings run a second time over the  *)
(* numbers of the file.                                                    *)
(***************************************************************************)
EXTENDS Naturals, FiniteSets, Sequences, TLC

CONSTANTS one, two, ref1, ref2

Symmetry == Permutations({one, two}) \union Permutations({ref1, ref2})

\* Spellings of names, and values the operator may write into the file.
MCFold == [n \in {"r1", "r2", "published:*", "backend", "Backend", "python", "Python", "sql", "main"} |->
             CASE n = "Backend" -> "backend" [] n = "Python" -> "python" [] OTHER -> n]
All(names) == <<[resume |-> "published:*", names |-> names]>>
For(res, names) == <<[resume |-> res, names |-> names]>>
OneQuery == {All(<<"backend">>), For("r1", <<"Backend">>)}
FewQueries == {All(<<>>), All(<<"backend">>), For("r1", <<"backend">>) \o For("r2", <<"backend">>),
               For("r2", <<"Backend">>) \o For("r1", <<"backend">>),
               All(<<"backend">>) \o For("r1", <<"backend">>)}
FewWords == {<<>>, <<"python", "sql">>, <<"sql", "Python">>}
SomeEdits == {<<"ttl", 60>>, <<"ttl", 120>>, <<"margin", 30>>, <<"margin", 60>>, <<"request", 60>>,
              <<"run", 60>>, <<"daily", 300>>, <<"admin", 400>>}

VARIABLES
    part,
    authGrant, high, kill, pause, authFile, op, authMem, authRun, authEdits,
    authWord, shown,
    conf, target, owner, shotItem, todo, shotRun, sent,
    confFile, confMem, base, up, started, client, hh, edited, confWord,
    stored, view, maskEdits,
    setFile, published, setGrant, setRun, setTold, setEdits,
    now, zone, quota1Run, exec, quota1Item, made, slot, blocked, quota1Told,
    applied, synced

AuthVars == <<authGrant, high, kill, pause, authFile, op, authMem, authRun,
    authEdits, authWord, shown>>
ShotVars == <<conf, target, owner, shotItem, todo, shotRun, sent>>
ConfVars == <<confFile, confMem, base, up, started, client, hh, edited, confWord>>
MaskVars == <<stored, view, maskEdits>>
SetVars == <<setFile, published, setGrant, setRun, setTold, setEdits>>
Quota1Vars == <<now, zone, quota1Run, exec, quota1Item, made, slot, blocked,
    quota1Told, applied, synced>>

Auth == INSTANCE Authorization WITH
    Admin <- {one, two}, Policy <- {"p1", "p2"}, Scope <- {"account"},
    HandEdits <- FALSE, MaxGrant <- 2, MaxEdit <- 0, grant <- authGrant,
    file <- authFile, mem <- authMem, run <- authRun, edits <- authEdits,
    word <- authWord
Auth1 == INSTANCE Authorization WITH
    Admin <- {one}, Policy <- {"p1", "p2"}, Scope <- {"account", "global"},
    HandEdits <- FALSE, MaxGrant <- 2, MaxEdit <- 1, grant <- authGrant,
    file <- authFile, mem <- authMem, run <- authRun, edits <- authEdits,
    word <- authWord
Shot == INSTANCE OneShot WITH
    Item <- {one, two}, Ref <- {ref1, ref2}, Live <- "live",
    NoItem <- "noitem", Most <- 2, MaxTries <- 2, MaxChecks <- 1,
    item <- shotItem, run <- shotRun
Conf == INSTANCE ConfigFile WITH
    Proc <- {one, two}, Key <- {"about", "queries"}, Value <- {"v0", "v1"},
    Default <- "v0", MaxToken <- 1, MaxGrant <- 1, MaxStart <- 2,
    file <- confFile, mem <- confMem, word <- confWord
Mask == INSTANCE MaskedConfig WITH
    Client <- {one, two}, Id <- {"x", "y"}, NoId <- "noid", Label <- {"l"},
    MaxLength <- 2, MaxEdit <- 4, edits <- maskEdits
Set == INSTANCE Settings WITH
    Fold <- MCFold, PresetNames <- {"backend"}, Params <- {"p1"},
    ProfileNames <- {"main"}, WorkLists <- {<<>>}, Resumes <- {"r1", "r2"},
    Facts <- {"f1", "f2"}, QueryLists <- FewQueries, WordLists <- FewWords,
    Edits <- {}, MaxEdits <- 3, file <- setFile, grant <- setGrant,
    run <- setRun, told <- setTold, edits <- setEdits
Num == INSTANCE Settings WITH
    Fold <- MCFold, PresetNames <- {"backend"}, Params <- {"p1"},
    ProfileNames <- {"main"}, WorkLists <- {<<>>}, Resumes <- {"r1"},
    Facts <- {"f1"}, QueryLists <- OneQuery, WordLists <- {<<>>},
    Edits <- SomeEdits, MaxEdits <- 4, file <- setFile, grant <- setGrant,
    run <- setRun, told <- setTold, edits <- setEdits
Quota1 == INSTANCE Quota WITH
    Item <- {"i1", "i2"}, NoItem <- "noitem", Vacancy <- {"v1"},
    VacancyOf <- [i \in {"i1", "i2"} |-> "v1"], External <- {"i1"},
    DayLen <- 2, Zone <- {0, 1}, DailyLimit <- 1, RunLimit <- 3,
    MaxTries <- 2, MaxChecks <- 1, Backoff <- 1, Wait <- {2}, Tolerance <- 0,
    MaxTime <- 2, MaxRun <- 1, MaxAttempt <- 3, run <- quota1Run,
    item <- quota1Item, told <- quota1Told

ASSUME Assumptions ==
    /\ Auth!AuthorizationAssumption
    /\ Auth1!AuthorizationAssumption
    /\ Shot!OneShotAssumption
    /\ Conf!ConfigAssumption
    /\ Mask!MaskedAssumption
    /\ Set!SettingsAssumption
    /\ Num!SettingsAssumption
    /\ Quota1!QuotaAssumption

\* The variables of a part that does not run.
Unused == "unused"
AuthRests ==
    /\ authGrant = Unused /\ high = Unused /\ kill = Unused /\ pause = Unused
    /\ authFile = Unused /\ op = Unused /\ authMem = Unused
    /\ authRun = Unused /\ authEdits = Unused /\ authWord = Unused
    /\ shown = Unused
ShotRests ==
    /\ conf = Unused /\ target = Unused /\ owner = Unused
    /\ shotItem = Unused /\ todo = Unused /\ shotRun = Unused
    /\ sent = Unused
ConfRests ==
    /\ confFile = Unused /\ confMem = Unused /\ base = Unused /\ up = Unused
    /\ started = Unused /\ client = Unused /\ hh = Unused /\ edited = Unused
    /\ confWord = Unused
MaskRests ==
    /\ stored = Unused /\ view = Unused /\ maskEdits = Unused
SetRests ==
    /\ setFile = Unused /\ published = Unused /\ setGrant = Unused
    /\ setRun = Unused /\ setTold = Unused /\ setEdits = Unused
Quota1Rests ==
    /\ now = Unused /\ zone = Unused /\ quota1Run = Unused /\ exec = Unused
    /\ quota1Item = Unused /\ made = Unused /\ slot = Unused
    /\ blocked = Unused /\ quota1Told = Unused /\ applied = Unused
    /\ synced = Unused

Init ==
    /\ part \in {"grant", "edited", "one shot", "file", "lists", "settings",
                 "numbers", "quota"}
    /\ IF part = "grant" THEN Auth!Init
       ELSE IF part = "edited" THEN Auth1!Init
       ELSE AuthRests
    /\ IF part = "one shot" THEN Shot!Init ELSE ShotRests
    /\ IF part = "file" THEN Conf!Init ELSE ConfRests
    /\ IF part = "lists" THEN Mask!Init ELSE MaskRests
    /\ IF part = "settings" THEN Set!Init
       ELSE IF part = "numbers" THEN Num!Init
       ELSE SetRests
    /\ IF part = "quota" THEN Quota1!Init ELSE Quota1Rests

\* The part of this name goes on, alone.
Only(name) ==
    /\ part = name /\ UNCHANGED part
    /\ IF name \in {"grant", "edited"} THEN TRUE ELSE UNCHANGED AuthVars
    /\ IF name = "one shot" THEN TRUE ELSE UNCHANGED ShotVars
    /\ IF name = "file" THEN TRUE ELSE UNCHANGED ConfVars
    /\ IF name = "lists" THEN TRUE ELSE UNCHANGED MaskVars
    /\ IF name \in {"settings", "numbers"} THEN TRUE ELSE UNCHANGED SetVars
    /\ IF name = "quota" THEN TRUE ELSE UNCHANGED Quota1Vars

Next ==
    \/ Only("grant") /\ Auth!Next
    \/ Only("edited") /\ Auth1!Next
    \/ Only("one shot") /\ Shot!Next
    \/ Only("file") /\ Conf!Next
    \/ Only("lists") /\ Mask!Next
    \/ Only("settings") /\ Set!Next
    \/ Only("numbers") /\ Num!Next
    \/ Only("quota") /\ Quota1!Next

vars == <<part, AuthVars, ShotVars, ConfVars, MaskVars, SetVars, Quota1Vars>>
Spec == Init /\ [][Next]_vars
-----------------------------------------------------------------------------
(* Properties *)

\* An application leaves only while its authority lasts: on the operator's last
\* word, under a grant that was shown, outside the wait HH asked for; and an
\* enable that fails takes back its own grant and no other.  The one wait that
\* is lost is that of a limit answered on the last try of an item
\* (finalize_definite_failure raises; LimitBlocksAccount would say without it).
DispatchIsAllowed ==
    [][/\ (part \in {"grant", "edited"}) => (Auth!SendsOnTheOperatorsWord /\ Auth!SendsUnderShownGrant)
       /\ (part = "grant") => Auth!UndoTakesBackItsOwn
       /\ (part = "quota") => Quota1!OnlyLastTryForgetsLimit]_vars

\* The books of authority are exact: no grant survives under a kill switch, a
\* literal confirmation can always record the outcome of what it started and
\* counts what HH received under it, and one application costs one slot.
AuthorityIsExact ==
    /\ part = "grant" => Auth!TypeOK /\ Auth!NoGrantUnderKill
    /\ part = "edited" => Auth1!TypeOK /\ Auth1!NoGrantUnderKill
    /\ part = "one shot" => Shot!TypeOK /\ Shot!OutcomeCanBeRecorded /\ Shot!SuccessIsReal
    /\ part = "quota" => Quota1!TypeOK /\ Quota1!CountedOnce

\* A run that goes on searches and applies for what its grant meant when it was
\* given, and the numbers it took from the file fit each other.
RunsAsGranted ==
    /\ part = "settings" => Set!GrantCoversRun
    /\ part = "numbers" => Num!GrantCoversRun /\ Num!RunNumbersFit

\* Another spelling of the same settings keeps their hash, and no update that
\* says the grant stays in force changes it.
HashFollowsMeaning ==
    [][/\ (part = "settings") => (Set!RespelledKeepsHash /\ Set!ReauthorizationIsAnnounced)
       /\ (part = "numbers") => Num!ReauthorizationIsAnnounced]_vars

\* What a process changed in the configuration is in the file once it has
\* saved, whatever the others wrote in between.
FileKeepsEdits ==
    /\ part = "file" => Conf!TypeOK /\ Conf!NoLostUpdate
    /\ part = "lists" => Mask!TypeOK

\* Nobody writes what is not his: refreshed tokens leave edits alone and never go
\* back, grants change through their command, and a masked list keeps each
\* secret with its owner.
FileChangesAreOwned ==
    [][/\ (part = "file") => (Conf!EditsSurviveTokens /\ Conf!TokensNeverGoBack /\ Conf!GrantIsManaged)
       /\ (part = "lists") => (Mask!SecretStaysWithItsOwner /\ Mask!UntouchedSecretSurvives)]_vars

\* The reservations implement a budget per local date (Quota, Budget).
ImplementsDayBudget ==
    /\ part = "quota" => Quota1!Budget!Init
    /\ [][(part = "quota") => [Quota1!Budget!Next]_(Quota1!Budget!vars)]_vars
=============================================================================
