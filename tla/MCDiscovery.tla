----------------------------- MODULE MCDiscovery -----------------------------
(***************************************************************************)
(* How a run comes to what it applies for: the search over pages and       *)
(* cycles, the filters, the ranking, the selection among resumes, and the  *)
(* prompt of a ranking. They share no state, so one behaviour runs one of  *)
(* them: part says which. The search runs a second time with claims of a   *)
(* dead run's cycle, the selection a second time for every resume.         *)
(***************************************************************************)
EXTENDS Naturals, FiniteSets, Sequences, TLC

CONSTANTS v1, v2, v3

Symmetry == Permutations({v1, v2, v3})

\* HardFilter: policies that restrict one thing each, and vacancies that state
\* one group of facts under several names, consistently or not.
Unstated == 999
Free == [excluded |-> {}, excludedTitle |-> {}, requiredTitle |-> {}, required |-> {}, roles |-> {},
         areas |-> {}, remote |-> "any", schedules |-> {}, employment |-> {}, experience |-> {},
         floor |-> 0, floors |-> <<>>, currency |-> "rur", unknownSalary |-> "allow", languages |-> {},
         capabilities |-> {}, useEmployers |-> TRUE, allowed |-> {}]

FilterPolicies ==
    {Free, [Free EXCEPT !.useEmployers = FALSE], [Free EXCEPT !.allowed = {"v"}], [Free EXCEPT !.allowed = {"w"}]}
    \union {[Free EXCEPT !.excluded = e, !.requiredTitle = r] : e, r \in {{}, {"a"}, {"a", "b"}}}
    \union {[Free EXCEPT !.required = {"a"}, !.roles = r] : r \in {{}, {"r"}}}
    \union {[Free EXCEPT !.areas = a, !.remote = r, !.schedules = s] :
                a \in {{}, {"here"}}, r \in {"any", "only", "exclude"}, s \in {{}, {"remote"}}}
    \union {[Free EXCEPT !.floor = m, !.floors = c, !.unknownSalary = u] :
                m \in {0, 2}, c \in {<<>>, [usd |-> 1]}, u \in {"allow", "reject"}}
    \union {[Free EXCEPT !.languages = {"en"}, !.experience = {"junior"}],
            [Free EXCEPT !.capabilities = {"direct"}], [Free EXCEPT !.capabilities = {"direct", "form"}]}

Fine == [id |-> "v", archived |-> {"no"}, status |-> {}, tried |-> {}, triedIds |-> {{}},
         banned |-> {}, bannedIds |-> {{}}, employer |-> "e", employerBanned |-> {}, employerBannedIds |-> {{}},
         titles |-> {{"a"}}, text |-> {}, stopWords |-> {}, roles |-> {{"r"}},
         area |-> {"here"}, remote |-> {"yes"}, schedule |-> {}, nestedSchedule |-> {}, formats |-> {},
         relocation |-> {}, relocationAreas |-> {}, employment |-> {}, experience |-> {"junior"},
         salaryFrom |-> {}, salaryTo |-> {3}, currency |-> {"rur"}, described |-> Unstated,
         languages |-> {{"en"}}, explicit |-> {}, hasTest |-> {"no"}, url |-> "", supported |-> {{"direct"}}]

Flags == {{}, {"yes"}, {"no"}, {"bad"}}
Lists == {{}, {{}}, {{"v"}}, {{}, {"v"}}}
Postings ==
    {[Fine EXCEPT !.archived = a, !.status = s, !.tried = t, !.triedIds = i] :
        a \in Flags, s \in {{}, {""}, {"open"}, {"closed"}}, t \in Flags \union {{"yes", "no"}}, i \in Lists}
    \union {[Fine EXCEPT !.banned = b, !.bannedIds = i, !.employerBanned = e, !.employerBannedIds = j] :
        b, e \in Flags, i \in {{}, {{}}, {{"v"}}}, j \in {{}, {{}}, {{"e"}}}}
    \union {[Fine EXCEPT !.titles = t, !.text = x, !.stopWords = w, !.roles = r] :
        t \in {{}, {{"a"}}, {{"b"}}, {{"a"}, {"b"}}}, x, w \in {{}, {"b"}},
        r \in {{}, {{}}, {{"r"}}, {{"q"}}, {{"r"}, {"q"}}}}
    \union {[Fine EXCEPT !.area = {"there"}, !.remote = r, !.schedule = s, !.nestedSchedule = n, !.formats = f] :
        r \in Flags, s \in {{}, {""}, {"remote"}, {"office"}}, n \in {{}, {"remote"}, {"office"}},
        f \in {{}, {{}}, {{"remote"}}, {{"office"}}, {{"remote", "office"}}, {{"remote"}, {"office"}}}}
    \union {[Fine EXCEPT !.area = a, !.remote = {"no"}, !.relocation = r, !.relocationAreas = l] :
        a \in {{}, {""}, {"there"}, {"here", "there"}}, r \in Flags \union {{"yes", "no"}},
        l \in {{}, {{}}, {{"there"}}, {{}, {"there"}}}}
    \union {[Fine EXCEPT !.salaryFrom = a, !.salaryTo = b, !.currency = c, !.described = d] :
        a, b \in {{}, {Unstated}, {1}, {3}, {1, 3}}, c \in {{}, {"rur"}, {"usd"}, {"eur"}, {"rur", "usd"}}, d \in {Unstated, 1, 3}}
    \union {[Fine EXCEPT !.experience = e, !.languages = l] :
        e \in {{}, {"junior"}, {"senior"}, {"junior", "senior"}}, l \in {{}, {{}}, {{"en"}}}}
    \union {[Fine EXCEPT !.explicit = e, !.hasTest = t, !.url = u, !.supported = s] :
        e \in {{}, {{}}, {{"direct"}}, {{"form"}, {"direct"}}}, t \in Flags, u \in {"", "response", "apply"},
        s \in {{{"direct"}}, {{"direct", "screening"}}, {{"form"}}}}

\* Ranking: two resumes with different facts, a few vacancies and settings.
NoFacts == [resumeRoles |-> {}, segments |-> {}, roles |-> {}, desired |-> {}, skills |-> {}, resumeSkills |-> {},
          levels |-> {}, resumeLevels |-> {}, minimum |-> 0, currency |-> {}, remoteOnly |-> FALSE, formats |-> {},
          areas |-> {}, resumeAreas |-> {}, relocates |-> FALSE, industries |-> {}, resumeIndustries |-> {}]
Sharp == [NoFacts EXCEPT !.roles = {"dev"}, !.skills = {"go", "sql"}, !.resumeLevels = {"mid"}, !.minimum = 3,
            !.currency = {"rur"}, !.formats = {"office"}, !.areas = {"here"}, !.industries = {"it"}]
Profiles == {NoFacts, Sharp, [Sharp EXCEPT !.resumeRoles = {"ops"}, !.skills = {"go"}, !.remoteOnly = TRUE],
               [NoFacts EXCEPT !.desired = {"dev"}, !.resumeSkills = {"sql", "c", "go"}, !.levels = {"low"},
                  !.resumeAreas = {"there"}, !.relocates = TRUE, !.resumeIndustries = {"it", "ads"}]}
JobFacts ==
    {[roles |-> {"dev"}, title |-> {"dev"}, text |-> {"go"}, skills |-> s, level |-> {"mid"}, salaryTo |-> t,
      salaryFrom |-> 1, currency |-> IF t = 0 THEN {"usd"} ELSE {"rur"}, formats |-> f, schedule |-> {"remote"}, area |-> {"here"}, industries |-> {"it", "ads", "bank"}] :
        s \in {{}, {"go", "sql", "c"}}, t \in {0, 4}, f \in {{"office"}}}
Factors == {"role", "skills", "experience", "salary", "workFormat", "area", "industry"}
Weights == {[n \in Factors |-> 1], [n \in Factors |-> IF n = "role" THEN 3 ELSE IF n = "skills" THEN 4 ELSE 0]}
Settings == [basic : {FALSE}, aiMode : {"off", "borderline", "all"}, low : {4000}, minimum : {5000}, high : {7000},
             confidence : {7}, onFailure : {"retry", "deterministic", "skip"}, bestOnly : BOOLEAN, weights : Weights]
Configs == {c \in Settings : c.aiMode = "off" => c.onFailure = "retry"}
               \union {[c EXCEPT !.basic = TRUE] : c \in {d \in Settings : d.aiMode = "off"}}
Answers == [suitable : BOOLEAN, confidence : {5, 7, 9}, valid : {TRUE}]
               \union {[suitable |-> TRUE, confidence |-> 9, valid |-> FALSE],
                       [suitable |-> TRUE, confidence |-> 11, valid |-> TRUE]}

VARIABLES
    part,
    holder, grant, runs, cycles, next, done, results, searchItem, col,
    policy, facts, verdict,
    config, vacancy, profile, decision, code, tries, selected, rankRaised,
    selectItem, order, sealed, run, selectRaised, ends, curated,
    length, given, budget, outcome

SearchVars == <<holder, grant, runs, cycles, next, done, results, searchItem, col>>
FilterVars == <<policy, facts, verdict>>
RankVars == <<config, vacancy, profile, decision, code, tries, selected, rankRaised>>
SelectVars == <<selectItem, order, sealed, run, selectRaised, ends, curated>>
PromptVars == <<length, given, budget, outcome>>

Search == INSTANCE SearchCycle WITH
    PerPage <- 2, MaxPages <- 2, MaxCycles <- 2, Vacancies <- {v1, v2, v3},
    Policies <- {"A"}, Queries <- 2, Budget <- 2, Continuous <- FALSE,
    MaxRuns <- 2, item <- searchItem
Search2 == INSTANCE SearchCycle WITH
    PerPage <- 2, MaxPages <- 2, MaxCycles <- 2, Vacancies <- {v1, v2, v3},
    Policies <- {"A", "B"}, Queries <- 1, Budget <- 2, Continuous <- FALSE,
    MaxRuns <- 2, item <- searchItem
Claims == INSTANCE SearchCycle WITH
    PerPage <- 2, MaxPages <- 2, MaxCycles <- 2, Vacancies <- {v1, v2},
    Policies <- {"A"}, Queries <- 1, Budget <- 1, Continuous <- TRUE,
    MaxRuns <- 3, item <- searchItem
Filter == INSTANCE HardFilter WITH
    Policies <- FilterPolicies, Postings <- Postings
Rank == INSTANCE Ranking WITH
    Resumes <- {1, 2}, Profiles <- Profiles, Vacancies <- JobFacts,
    Configs <- Configs, Replies <- Answers, MaxTries <- 2,
    raised <- rankRaised
Select == INSTANCE Selection WITH
    Vacancies <- {1}, Resumes <- {1, 2}, Scores <- {1, 2}, MaxTries <- 2,
    Limit <- 1, Flaky <- TRUE, Steady <- FALSE, BestOnly <- TRUE,
    MaxEnds <- 1, item <- selectItem, raised <- selectRaised
SelectAll == INSTANCE Selection WITH
    Vacancies <- {1}, Resumes <- {1, 2}, Scores <- {1, 2}, MaxTries <- 2,
    Limit <- 1, Flaky <- TRUE, Steady <- FALSE, BestOnly <- FALSE,
    MaxEnds <- 0, item <- selectItem, raised <- selectRaised
Prompt == INSTANCE PromptFit WITH
    Fields <- 1..3, Description <- 2, Lengths <- {0, 1, 3, 7, 12},
    Budgets <- {4, 9, 16, 30}, Bytes <- 2, Frame <- 5

ASSUME Assumptions ==
    /\ Search!SearchAssumption
    /\ Search2!SearchAssumption
    /\ Claims!SearchAssumption
    /\ Filter!HardFilterAssumption
    /\ Rank!RankingAssumption
    /\ Select!SelectionAssumption
    /\ SelectAll!SelectionAssumption
    /\ Prompt!PromptFitAssumption

\* The variables of a part that does not run.
Unused == "unused"
SearchRests ==
    /\ holder = Unused /\ grant = Unused /\ runs = Unused /\ cycles = Unused
    /\ next = Unused /\ done = Unused /\ results = Unused
    /\ searchItem = Unused /\ col = Unused
FilterRests ==
    /\ policy = Unused /\ facts = Unused /\ verdict = Unused
RankRests ==
    /\ config = Unused /\ vacancy = Unused /\ profile = Unused
    /\ decision = Unused /\ code = Unused /\ tries = Unused
    /\ selected = Unused /\ rankRaised = Unused
SelectRests ==
    /\ selectItem = Unused /\ order = Unused /\ sealed = Unused
    /\ run = Unused /\ selectRaised = Unused /\ ends = Unused
    /\ curated = Unused
PromptRests ==
    /\ length = Unused /\ given = Unused /\ budget = Unused
    /\ outcome = Unused

Init ==
    /\ part \in {"search", "policies", "claims", "filter", "ranking", "selection",
                 "every resume", "prompt"}
    /\ IF part = "search" THEN Search!Init
       ELSE IF part = "policies" THEN Search2!Init
       ELSE IF part = "claims" THEN Claims!Init
       ELSE SearchRests
    /\ IF part = "filter" THEN Filter!Init ELSE FilterRests
    /\ IF part = "ranking" THEN Rank!Init ELSE RankRests
    /\ IF part = "selection" THEN Select!Init
       ELSE IF part = "every resume" THEN SelectAll!Init
       ELSE SelectRests
    /\ IF part = "prompt" THEN Prompt!Init ELSE PromptRests

\* The part of this name goes on, alone.
Only(name) ==
    /\ part = name /\ UNCHANGED part
    /\ IF name \in {"search", "policies", "claims"} THEN TRUE ELSE UNCHANGED SearchVars
    /\ IF name = "filter" THEN TRUE ELSE UNCHANGED FilterVars
    /\ IF name = "ranking" THEN TRUE ELSE UNCHANGED RankVars
    /\ IF name \in {"selection", "every resume"} THEN TRUE ELSE UNCHANGED SelectVars
    /\ IF name = "prompt" THEN TRUE ELSE UNCHANGED PromptVars

Next ==
    \/ Only("search") /\ Search!Next
    \/ Only("policies") /\ Search2!Next
    \/ Only("claims") /\ Claims!Next
    \/ Only("filter") /\ Filter!Next
    \/ Only("ranking") /\ Rank!Next
    \/ Only("selection") /\ Select!Next
    \/ Only("every resume") /\ SelectAll!Next
    \/ Only("prompt") /\ Prompt!Next

vars == <<part, SearchVars, FilterVars, RankVars, SelectVars, PromptVars>>
Spec == Init /\ [][Next]_vars
-----------------------------------------------------------------------------
(* Properties *)

\* The search keeps its bounds and loses nothing: a cycle keeps to its cap, all
\* that was found is queued or counted, and a shadow run leaves no trace.
SearchKeepsItsBooks ==
    /\ part = "search" => /\ Search!TypeOK /\ Search!CapHolds
                          /\ Search!FoundIsQueued /\ Search!ShadowLeavesNoTrace
    /\ part = "policies" => /\ Search2!TypeOK /\ Search2!CapHolds
                            /\ Search2!FoundIsQueued /\ Search2!ShadowLeavesNoTrace
    /\ part = "claims" => Claims!TypeOK /\ Claims!FoundIsQueued

\* A checkpoint moves only under the run that owns the cycle and holds the
\* lease, and what was sent stays sent.
CheckpointsAreOwned ==
    [][/\ (part = "search") => (Search!OnlyTheOwnerAdvances /\ Search!SentIsKept)
       /\ (part = "policies") => (Search2!OnlyTheOwnerAdvances /\ Search2!SentIsKept)
       /\ (part = "claims") => Claims!OnlyTheOwnerAdvances]_vars

\* Of the resumes of a vacancy at most one is on its way, and it is the best of
\* those the run has judged.
BestIsSelected ==
    part = "selection" => Select!TypeOK /\ Select!OneResumeOnItsWay /\ Select!BestOfTheRun

\* Nothing is selected that was not judged, and nothing that was sent is judged
\* again, under either resume policy.
JudgedBeforeSelected ==
    [][/\ (part = "selection") => Select!JudgedBeforeSelected
       /\ (part = "every resume") => SelectAll!JudgedBeforeSelected]_vars

\* A verdict has its reason: a vacancy that passes violates no restriction and a
\* stricter policy passes less, a ready decision was earned in the score, the AI
\* mode and the record alike, and a prompt is refused only for what cannot be cut.
VerdictsHaveReasons ==
    /\ part = "filter" => Filter!PassIsJustified /\ Filter!StricterPassesLess
    /\ part = "ranking" => Rank!PolicyAndRecordAgree /\ Rank!ReadyIsEarned /\ Rank!ScoreIsAMean
    /\ part = "prompt" => Prompt!RefusedOnlyForTheFrame /\ Prompt!DescriptionIsKept
=============================================================================
