------------------------------ MODULE Settings ------------------------------
(***************************************************************************)
(* The autopilot's configuration (hh_autopilot/config.py): how the file is *)
(* parsed, which hash of it a grant is bound to, what a run searches for   *)
(* (_hh_engine_context), and what validate_runtime_dependencies says of    *)
(* it.  Names are written in several spellings; parsing folds case and     *)
(* spaces.  One account.  Of the groups of modes and switches only the     *)
(* notifications are kept, which no grant covers.                          *)
(***************************************************************************)
EXTENDS Integers, SequencesExt, FiniteSets

CONSTANTS
    Fold,           \* canonical spelling of a name: [spellings -> names]
    Resumes,        \* resumes of the account, as HH spells them
    PresetNames,    \* spellings under which a search preset is saved
    Params,         \* parameters of a preset, "bad" for ones HH has not
    Facts,          \* what a candidate profile says
    ProfileNames,   \* spellings of candidate profiles
    QueryLists,     \* values of resume_queries the operator writes
    WordLists,      \* values of a keyword filter
    WorkLists,      \* values of allowed_vacancy_ids
    Edits,          \* numbers the operator writes: pairs <<key, value>>
    MaxEdits        \* bound: changes of the file or of the resumes

SettingsAssumption ==
    /\ PresetNames \cup ProfileNames \cup Resumes \subseteq DOMAIN Fold
    /\ \A x \in DOMAIN Fold : Fold[x] \in DOMAIN Fold /\ Fold[Fold[x]] = Fold[x]
    /\ \A e \in Edits : e[2] \in Int

VARIABLES
    file,           \* the configuration file
    published,      \* resumes HH shows as published
    grant,          \* the account's grant: its hash, and what it then meant
    run,            \* the run that goes on
    told,           \* what the last update answered: reauthorization_required
    edits
vars == <<file, published, grant, run, told, edits>>

Edited == edits < MaxEdits /\ edits' = edits + 1

None == [is |-> "none"]
SetOf(s) == {s[i] : i \in DOMAIN s}
Folded(s) == [i \in DOMAIN s |-> Fold[s[i]]]
Distinct(s) == Cardinality(SetOf(s)) = Len(s)

----------------------------------------------------------------------------
(* parse_autopilot_settings.                                               *)

\* _text, and _normalized_array: items are strings, no two the same when folded.
Text == DOMAIN Fold
ArrayOk(s) == SetOf(s) \subseteq Text /\ Distinct(Folded(s))

ParsedQuery(q) == [resume |-> Fold[q.resume], names |-> Folded(q.names)]
QueryKey(q) == <<Fold[q.resume], SetOf(Folded(q.names))>>
QueriesOk(f) ==
    /\ f.queries # <<>>
    /\ \A i \in DOMAIN f.queries :
         /\ f.queries[i].resume \in Text /\ ArrayOk(f.queries[i].names)
         /\ (f.queries[i].names # <<>> \/ f.recommend)
    /\ \A i, j \in DOMAIN f.queries : QueryKey(f.queries[i]) = QueryKey(f.queries[j]) => i = j
FiltersOk(f) == ArrayOk(f.words) /\ ArrayOk(f.worklist)

\* default_autopilot_config, and _deep_defaults: what the file leaves out.
Defaults ==
    [admin |-> 200, daily |-> 50, run |-> 10, delay_min |-> 45, delay_max |-> 120,
     low |-> 50, minimum |-> 60, high |-> 70, base |-> 60, max |-> 3600,
     ttl |-> 120, request |-> 30, margin |-> 45]
Filled(f) == [k \in DOMAIN f.numbers \cup DOMAIN Defaults |->
                IF k \in DOMAIN f.numbers THEN f.numbers[k] ELSE Defaults[k]]

\* Each _parse_ of a group: every number within its range, the pairs in order.
LimitsOk(n) ==
    /\ n.admin \in 1..500 /\ n.daily \in 1..n.admin /\ n.run \in 1..n.daily
    /\ n.delay_max <= 3600 /\ n.delay_min <= n.delay_max
RankingOk(n) == n.low <= n.minimum /\ n.minimum <= n.high /\ n.high <= 100
RetryOk(n) == n.base \in 1..n.max /\ n.max <= 86400
LeaseOk(n) ==
    /\ n.ttl \in 1..600 /\ n.request \in 1..600 /\ n.margin \in 1..600
    /\ n.ttl >= n.request + n.margin
NumbersOk(n) == LimitsOk(n) /\ RankingOk(n) /\ RetryOk(n) /\ LeaseOk(n)
Parses(f) == QueriesOk(f) /\ FiltersOk(f) /\ NumbersOk(Filled(f))

Parsed(f) ==
    [queries |-> [i \in DOMAIN f.queries |-> ParsedQuery(f.queries[i])], recommend |-> f.recommend,
     candidate |-> Fold[f.candidate], words |-> Folded(f.words), worklist |-> Folded(f.worklist),
     numbers |-> Filled(f), notify |-> f.notify]

\* _casefold_index: the spellings of a name that a table has.
Spelled(table, n) == {k \in DOMAIN table : Fold[k] = n /\ table[k] # "absent"}

----------------------------------------------------------------------------
(* policy_hash: the canonical form of all that a grant is meant to cover.  *)

\* _selected_hh_policy_resumes.
PolicyResumes(f) ==
    {r \in published : \E i \in DOMAIN f.queries : Fold[f.queries[i].resume] \in {Fold[r], "published:*"}}

\* The candidate is found by the parsed id, or it is the active one.
CandidateFacts(f) ==
    LET c == Fold[f.candidate] IN
    IF c \in DOMAIN f.profiles /\ f.profiles[c] # "absent" THEN f.profiles[c] ELSE f.active

\* The keys of the presets are folded; two that fold alike cannot be hashed.
\* With no published resume among the queries' there is nothing to hash.
Hashable(f) ==
    /\ \A n \in DOMAIN f.presets : Cardinality(Spelled(f.presets, Fold[n])) <= 1
    /\ PolicyResumes(f) # {}
PolicyPresets(f) == {<<Fold[k], f.presets[k]>> : k \in {n \in DOMAIN f.presets : f.presets[n] # "absent"}}

\* _canonicalize: the arrays whose order is said to mean nothing are sorted.
CanonicalQueries(p) == {<<p.queries[i].resume, SetOf(p.queries[i].names)>> : i \in DOMAIN p.queries}
PolicyHashNoPresets(f) == LET p == Parsed(f) IN
    <<CanonicalQueries(p), p.recommend, p.candidate, SetOf(p.words), p.worklist, p.numbers,
      CandidateFacts(f), PolicyResumes(f)>>
PolicyHashAsWritten(f) == LET p == Parsed(f) IN
    <<CanonicalQueries(p), p.recommend, p.candidate, p.words, p.worklist, p.numbers,
      CandidateFacts(f), PolicyResumes(f), PolicyPresets(f)>>
PolicyHash(f) == LET p == Parsed(f) IN
    <<CanonicalQueries(p), p.recommend, p.candidate, SetOf(p.words), p.worklist, p.numbers,
      CandidateFacts(f), PolicyResumes(f), PolicyPresets(f)>>

\* _autopilot_policy_projections: the same settings, as they are parsed.
Projection(f) == [Parsed(f) EXCEPT !.notify = 0]

----------------------------------------------------------------------------
(* What a run searches for: for each query, resume and preset one search.  *)

Names(q) == LET names == SetOf(Folded(q.names)) IN IF names = {} THEN {"recommendations"} ELSE names
ResumesOf(q) == {r \in published : Fold[q.resume] \in {Fold[r], "published:*"}}

\* presets.get(name) or {}: without such a preset the search has no terms.
ParamsOf(f, n) ==
    IF n = "recommendations" THEN "recommended"
    ELSE IF n \in DOMAIN f.presets /\ f.presets[n] # "absent" THEN f.presets[n] ELSE "everything"
Mappings(f, i) == {[query |-> i, resume |-> r, name |-> n, params |-> ParamsOf(f, n)] :
                      r \in ResumesOf(f.queries[i]), n \in Names(f.queries[i])}
RunMappings(f) == UNION {Mappings(f, i) : i \in DOMAIN f.queries}
Searches(f) == {<<m.resume, m.name, m.params>> : m \in RunMappings(f)}
Meaning(f) == [searches |-> Searches(f), facts |-> CandidateFacts(f), numbers |-> Filled(f),
               words |-> SetOf(Folded(f.words)), worklist |-> SetOf(Folded(f.worklist))]

----------------------------------------------------------------------------
(* validate_runtime_dependencies, and the searches it expands to.          *)

PresetOk(f, n) == \E k \in Spelled(f.presets, n) : f.presets[k] # "bad"
ResumeOk(q) == published # {} /\ ResumesOf(q) # {}
OncePerPair(f) ==
    \A a, b \in RunMappings(f) : a.resume = b.resume /\ a.name = b.name => a.query = b.query
RuntimeValid(f) ==
    /\ Hashable(f) /\ Spelled(f.profiles, Fold[f.candidate]) # {}
    /\ \A n \in DOMAIN f.profiles : Cardinality(Spelled(f.profiles, Fold[n])) <= 1
    /\ \A i \in DOMAIN f.queries :
         /\ ResumeOk(f.queries[i])
         /\ \A n \in Names(f.queries[i]) \ {"recommendations"} : PresetOk(f, n)
    /\ OncePerPair(f)
Expanded(f) ==
    {<<m.resume, m.name, IF m.name = "recommendations" THEN "recommended"
                         ELSE f.presets[CHOOSE k \in Spelled(f.presets, m.name) : TRUE]>> : m \in RunMappings(f)}

----------------------------------------------------------------------------
Init ==
    /\ \E c \in ProfileNames, a \in Facts :
         file = [queries |-> <<[resume |-> "published:*", names |-> <<>>]>>, recommend |-> TRUE,
                 candidate |-> c, words |-> <<>>, worklist |-> <<>>, numbers |-> << >>,
                 notify |-> 0, active |-> a, profiles |-> [n \in ProfileNames |-> a],
                 presets |-> [n \in PresetNames |-> "absent"]]
    /\ Parses(file)
    /\ published \in SUBSET Resumes
    /\ grant = None /\ run = None /\ told = "none" /\ edits = 0

\* A number written into the file: a pair of its key and its value.
Written(n, e) == [k \in DOMAIN n \cup {e[1]} |-> IF k = e[1] THEN e[2] ELSE n[k]]

\* update_hh_autopilot_config: a patch that leaves a file that parses, and
\* whether it asks for a new authorization.
Patches(f) ==
    {[f EXCEPT !.queries = qs] : qs \in QueryLists} \cup {[f EXCEPT !.words = ws] : ws \in WordLists}
    \cup {[f EXCEPT !.worklist = wl] : wl \in WorkLists} \cup {[f EXCEPT !.numbers = Written(f.numbers, e)] : e \in Edits}
    \cup {[f EXCEPT !.candidate = c] : c \in ProfileNames} \cup {[f EXCEPT !.notify = 1 - f.notify]}
    \cup {[f EXCEPT !.recommend = ~f.recommend]}
Update ==
    /\ \E g \in Patches(file) :
         /\ Parses(g) /\ file' = g
         /\ told' = IF Projection(g) # Projection(file) THEN "reauthorize" ELSE "unchanged"
    /\ Edited /\ UNCHANGED <<published, grant, run>>

\* use_resume_for_hh: the chosen resume comes first; with several queries
\* for one resume the last one's presets stand for them all.
LastOf(qs, r) == CHOOSE i \in DOMAIN qs : qs[i].resume = r /\ \A j \in DOMAIN qs : qs[j].resume = r => j <= i
FirstOf(qs, r) == CHOOSE i \in DOMAIN qs : qs[i].resume = r /\ \A j \in DOMAIN qs : qs[j].resume = r => i <= j
Existing(qs) ==
    LET firsts == SelectSeq([i \in DOMAIN qs |-> i], LAMBDA i : i = FirstOf(qs, qs[i].resume))
    IN [k \in DOMAIN firsts |->
          [resume |-> qs[firsts[k]].resume, names |-> qs[LastOf(qs, qs[firsts[k]].resume)].names]]
Once(s) == LET fresh == SelectSeq([i \in DOMAIN s |-> i], LAMBDA i : \A j \in 1..(i - 1) : s[j] # s[i])
           IN [k \in DOMAIN fresh |-> s[fresh[k]]]
AllPresets(existing) == Once(FlattenSeq([k \in DOMAIN existing |-> existing[k].names]))
ChosenFirst(existing, r, presets) ==
    LET own == SelectSeq(existing, LAMBDA q : q.resume = r)
        names == IF own # <<>> /\ own[1].names # <<>> THEN own[1].names ELSE presets
    IN IF \E i \in DOMAIN existing : existing[i].resume = "published:*" THEN existing
       ELSE <<[resume |-> r, names |-> names]>> \o SelectSeq(existing, LAMBDA q : q.resume # r)
UsedQueries(f, r) ==
    LET existing == Existing(Parsed(f).queries) IN ChosenFirst(existing, r, AllPresets(existing))
Used(f, r) == [f EXCEPT !.queries = UsedQueries(f, r)]
UseResume ==
    /\ \E r \in Resumes, c \in {n \in ProfileNames : file.profiles[n] # "absent"} :
         LET g == [Used(file, r) EXCEPT !.candidate = c] IN
         /\ Parses(g) /\ file' = g
         /\ told' = IF g.queries # Parsed(file).queries \/ g.candidate # Fold[file.candidate]
                    THEN "reauthorize" ELSE "unchanged"
    /\ Edited /\ UNCHANGED <<published, grant, run>>

\* save_hh_campaign_preset and delete_hh_campaign_preset, under the name as
\* it is typed; the candidate's profile is edited elsewhere in the file.
EditPreset ==
    /\ \E n \in PresetNames, v \in Params \cup {"absent"} : file' = [file EXCEPT !.presets[n] = v]
    /\ told' = "none" /\ Edited /\ UNCHANGED <<published, grant, run>>
EditProfile ==
    /\ \E n \in ProfileNames, v \in Facts \cup {"absent"} : file' = [file EXCEPT !.profiles[n] = v]
    /\ told' = "none" /\ Edited /\ UNCHANGED <<published, grant, run>>
Publish ==
    /\ \E r \in Resumes : published' = (published \ {r}) \cup ({r} \ published)
    /\ Edited /\ UNCHANGED <<file, grant, run, told>>

\* enable_hh_autopilot binds a grant to the hash; a run starts if the hash is
\* still the grant's and HH shows a published resume.
Enable ==
    /\ Parses(file) /\ Hashable(file)
    /\ grant' = [is |-> "grant", hash |-> PolicyHash(file), meaning |-> Meaning(file)]
    /\ UNCHANGED <<file, published, run, told, edits>>
StartRun ==
    /\ run = None /\ grant # None /\ published # {}
    /\ Parses(file) /\ Hashable(file) /\ PolicyHash(file) = grant.hash
    /\ run' = [is |-> "run", meaning |-> Meaning(file), granted |-> grant.meaning,
               valid |-> RuntimeValid(file), asked |-> IF RuntimeValid(file) THEN Expanded(file) ELSE {}]
    /\ UNCHANGED <<file, published, grant, told, edits>>
EndRun == run # None /\ run' = None /\ UNCHANGED <<file, published, grant, told, edits>>

Next == Update \/ UseResume \/ EditPreset \/ EditProfile \/ Publish \/ Enable \/ StartRun \/ EndRun
Spec == Init /\ [][Next]_vars

----------------------------------------------------------------------------
\* A run searches for what the operator granted, with the same facts, filters
\* and numbers, whatever was edited and edited back in between: the run's
\* check compares hashes, and two files of one hash mean the same.
GrantCoversRun == run # None => run.meaning = run.granted

\* The numbers of a run fit each other though the file may write any of them
\* and leave the others to the defaults: one request with its renewal margin
\* fits into a lease, a run into a day, a day under the administrator's limit.
RunNumbersFit ==
    run # None =>
        LET n == run.meaning.numbers IN
        /\ n.request + n.margin <= n.ttl /\ n.run <= n.daily /\ n.daily <= n.admin
        /\ n.base <= n.max /\ n.delay_min <= n.delay_max /\ n.minimum \in n.low..n.high

\* Words, queries and spellings in another order or case keep their grant.
SameApartFrom(f, g, fields) == \A k \in DOMAIN f \ fields : f[k] = g[k]
Respelled(f, g) ==
    /\ SameApartFrom(f, g, {"queries", "words", "candidate", "notify"})
    /\ CanonicalQueries(Parsed(f)) = CanonicalQueries(Parsed(g))
    /\ SetOf(Folded(f.words)) = SetOf(Folded(g.words)) /\ Fold[f.candidate] = Fold[g.candidate]
RespelledKeepsHash ==
    (published' = published /\ Respelled(file, file')) => (PolicyHash(file') = PolicyHash(file))

\* The same vacancies allowed in another order are the same policy.
WorklistOrderKeepsGrant ==
    (published' = published /\ SameApartFrom(file, file', {"worklist"})
          /\ SetOf(file'.worklist) = SetOf(file.worklist))
         => (PolicyHash(file') = PolicyHash(file))

\* A change of settings that costs the account its grant says so.
ReauthorizationIsAnnounced ==
    (told' = "unchanged" /\ file' # file) => (PolicyHash(file') = PolicyHash(file))

\* A run searches what the validation of its dependencies expanded.
ValidatedIsSearched == (run # None /\ run.valid) => run.meaning.searches = run.asked

\* No live run starts with settings whose dependencies are invalid.
LiveRunsAreValid == run # None => run.valid

\* Choosing a resume keeps the presets that the other queries of it had.
UseResumeKeepsPresets ==
    UseResume =>
         \A i \in DOMAIN file.queries : \A n \in SetOf(Folded(file.queries[i].names)) :
            \E j \in DOMAIN file'.queries :
               /\ Fold[file'.queries[j].resume] = Fold[file.queries[i].resume]
               /\ n \in SetOf(Folded(file'.queries[j].names))

=============================================================================
