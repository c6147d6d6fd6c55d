------------------------------- MODULE Ranking ------------------------------
(***************************************************************************)
(* How the resumes of one vacancy are ranked (ranking.py) and one of them  *)
(* selected.  A resume gets a deterministic score, a weighted mean of      *)
(* components; the policy may ask a model about it; its decision is        *)
(* recorded, and once no resume of the vacancy is waiting the best of the  *)
(* ready ones is selected.  The engine picks it by select_resume, and the  *)
(* repository checks the pick against an order of its own.                 *)
(*                                                                         *)
(* A score is kept in hundredths of a point.  A fact that is not stated is *)
(* None; names that disagree or are empty raise before anything is scored. *)
(***************************************************************************)
EXTENDS Integers, FiniteSets, FiniteSetsExt, Sequences, SequencesExt

CONSTANTS
    Resumes,        \* numbers, in the order of the resume ids
    Profiles,       \* the facts that a resume and the profile may state
    Vacancies,      \* the facts that a vacancy may state
    Configs,        \* settings of the ranking
    Replies,        \* answers of the model, [suitable, confidence, valid]
    MaxTries        \* retry.max_attempts

RankingAssumption ==
    /\ Resumes \subseteq Nat /\ Resumes # {} /\ MaxTries \in Nat \ {0}
    /\ \A c \in Configs : c.low <= c.minimum /\ c.minimum <= c.high

VARIABLES config, vacancy, profile, decision, code, tries, selected, raised
vars == <<config, vacancy, profile, decision, code, tries, selected, raised>>

None == {}
Full == 10000
Neutral == 5000
RoundDiv(a, b) == (2 * a + b) \div (2 * b)

----------------------------------------------------------------------------
(* The deterministic score.                                                *)

FirstStated(facts) ==
    LET said == SelectSeq(facts, LAMBDA S : S # None) IN IF said = <<>> THEN None ELSE Head(said)

\* The share of the required values that are observed.
Coverage(required, observed) ==
    IF required = None \/ observed = None THEN Neutral
    ELSE RoundDiv(Full * Cardinality(required \intersect observed), Cardinality(required))

Match(yes) == IF yes THEN Full ELSE 0

Role(v, p) ==
    LET ids == FirstStated(<<p.resumeRoles, p.segments, p.roles>>) IN
    IF v.roles # None /\ ids # None THEN Coverage(v.roles, ids) ELSE Coverage(p.desired, v.title)

Skills(v, p) ==
    LET desired == FirstStated(<<p.skills, p.resumeSkills>>) IN
    IF desired = None THEN Neutral
    ELSE IF v.skills # None THEN Coverage(v.skills, desired)
    ELSE Coverage(desired, v.title \union v.text)

Experience(v, p) ==
    LET accepted == FirstStated(<<p.levels, p.resumeLevels>>) IN
    IF v.level = None \/ accepted = None THEN Neutral ELSE Match(v.level \subseteq accepted)

\* minimum and best are zero when unknown.
Salary(v, p) ==
    LET best == IF v.salaryTo # 0 THEN v.salaryTo ELSE v.salaryFrom IN
    IF 0 \in {p.minimum, best} \/ None \in {v.currency, p.currency} THEN Neutral
    ELSE IF v.currency # p.currency THEN 0
    ELSE Min({Full, RoundDiv(Full * best, p.minimum)})

WorkFormat(v, p) ==
    LET formats == FirstStated(<<v.formats, v.schedule>>) IN
    IF formats = None THEN Neutral
    ELSE IF p.remoteOnly THEN Match("remote" \in formats)
    ELSE IF p.formats = None THEN Neutral ELSE Match(formats \intersect p.formats # {})

Area(v, p) ==
    LET desired == FirstStated(<<p.areas, p.resumeAreas>>) IN
    IF v.area = None \/ desired = None THEN Neutral
    ELSE Match(v.area \subseteq desired \/ p.relocates)

Industry(v, p) == Coverage(v.industries, FirstStated(<<p.industries, p.resumeIndustries>>))

Components(v, p) ==
    [role |-> Role(v, p), skills |-> Skills(v, p), experience |-> Experience(v, p), salary |-> Salary(v, p),
     workFormat |-> WorkFormat(v, p), area |-> Area(v, p), industry |-> Industry(v, p)]
Names == {"role", "skills", "experience", "salary", "workFormat", "area", "industry"}

Total(w) == MapThenSumSet(LAMBDA n : w[n], Names)

\* The weights are normalised to a sum of one.
Score(c, w) == RoundDiv(MapThenSumSet(LAMBDA n : c[n] * w[n], Names), Total(w))

ScoreOf(r) == Score(Components(vacancy, profile[r]), config.weights)

----------------------------------------------------------------------------
(* The decision of the policy.                                             *)

\* A failed call and an answer of the wrong shape or without grounds in what
\* the model was given alike say nothing.
Unavailable == [available |-> FALSE, suitable |-> FALSE, confidence |-> -1]
NotAsked == [available |-> FALSE, suitable |-> FALSE, confidence |-> -2]
AI(reply) ==
    IF reply.valid /\ reply.confidence <= 10
    THEN [available |-> TRUE, suitable |-> reply.suitable, confidence |-> reply.confidence]
    ELSE Unavailable

Decision(ready, retry, reason, score, ai) ==
    [ready |-> ready, retry |-> retry, reason |-> reason, score |-> score, ai |-> ai]

Deterministic(c, s) ==
    Decision(s >= c.minimum, FALSE, IF s >= c.minimum THEN "deterministic_score" ELSE "deterministic_below_minimum",
             s, NotAsked)

Fallback(c, s) == Decision(s >= c.minimum, FALSE, "deterministic_fallback", s, Unavailable)

\* Whether the score alone leaves the decision to the model.
Asks(c, s) == c.aiMode = "all" \/ (c.aiMode = "borderline" /\ c.low <= s /\ s <= c.high)

\* What becomes of a resume about which the model is silent or unsure.
Unsure(c, s, ai) ==
    LET reason == IF ai.available THEN "ai_low_confidence" ELSE "ai_unavailable" IN
    CASE c.onFailure = "retry" -> Decision(FALSE, TRUE, reason, s, ai)
      [] c.onFailure = "deterministic" -> Fallback(c, s)
      [] c.onFailure = "skip" -> Decision(FALSE, FALSE, reason, s, ai)

Decide(c, s, reply) ==
    LET ai == AI(reply) IN
    IF c.basic THEN Decision(TRUE, FALSE, "deterministic_score", 0, NotAsked)
    ELSE IF ~Asks(c, s)
    THEN IF c.aiMode = "off" THEN Deterministic(c, s)
         ELSE IF s < c.low THEN Decision(FALSE, FALSE, "deterministic_below_minimum", s, NotAsked)
         ELSE Decision(TRUE, FALSE, "deterministic_score", s, NotAsked)
    ELSE IF ai.available /\ ai.confidence >= c.confidence
         THEN Decision(ai.suitable, FALSE, IF ai.suitable THEN "ai_suitable" ELSE "ai_unsuitable", s, ai)
    ELSE Unsure(c, s, ai)

\* RankingDecision.__post_init__: what the record of a decision accepts.
Accepted(d) ==
    /\ ~(d.ready /\ d.retry)
    /\ CASE d.reason = "deterministic_score" -> d.ready /\ d.ai = NotAsked
         [] d.reason = "deterministic_below_minimum" -> ~d.ready /\ ~d.retry /\ d.ai = NotAsked
         [] d.reason = "deterministic_fallback" -> ~d.retry /\ d.ai = Unavailable
         [] d.reason = "ai_suitable" -> d.ready /\ d.ai.available /\ d.ai.suitable
         [] d.reason = "ai_unsuitable" -> ~d.ready /\ ~d.retry /\ d.ai.available /\ ~d.ai.suitable
         [] d.reason = "ai_low_confidence" -> ~d.ready /\ d.ai.available
         [] d.reason = "ai_unavailable" -> ~d.ready /\ d.ai = Unavailable

----------------------------------------------------------------------------
Undecided == [reason |-> "none"]

Init ==
    /\ config \in Configs /\ vacancy \in Vacancies /\ profile \in [Resumes -> Profiles]
    /\ decision = [r \in Resumes |-> Undecided] /\ code = [r \in Resumes |-> "eligible"]
    /\ tries = [r \in Resumes |-> 0] /\ selected = {} /\ raised = ""

Waiting(r) == code[r] \in {"eligible", "retry_wait"}

\* One resume, in the order of the ids or as its answer arrives.
Rank(r) ==
    /\ raised = "" /\ Waiting(r)
    /\ \E reply \in Replies :
          LET d == Decide(config, ScoreOf(r), reply) IN
          IF ~Accepted(d) THEN raised' = "decision" /\ UNCHANGED <<decision, code, tries>>
          ELSE /\ decision' = [decision EXCEPT ![r] = d]
               /\ tries' = [tries EXCEPT ![r] = IF d.retry THEN @ + 1 ELSE @]
               /\ code' = [code EXCEPT ![r] =
                      IF d.retry THEN (IF tries[r] + 1 >= MaxTries THEN "retry_exhausted" ELSE "retry_wait")
                      ELSE IF d.ready THEN "ranked" ELSE d.reason]
               /\ UNCHANGED raised
    /\ UNCHANGED <<config, vacancy, profile, selected>>

Qualifying == {r \in Resumes : code[r] = "ranked"}

\* The sort keys of select_resume and of _ranked_item_sort_key.
Precedes(q, r) ==
    LET d == decision[q]  e == decision[r] IN
    \/ d.score > e.score
    \/ d.score = e.score /\ d.ai.confidence > e.ai.confidence
    \/ d.score = e.score /\ d.ai.confidence = e.ai.confidence /\ q <= r

SelectResume == CHOOSE r \in Qualifying : \A q \in Qualifying : Precedes(r, q)
StableBest(r) ==
    \A q \in Qualifying :
        \/ decision[r].score > decision[q].score
        \/ decision[r].score = decision[q].score /\ decision[r].ai.confidence >= decision[q].ai.confidence

\* A skipped sibling that the filter let through must bear one of three codes.
Nonterminal(r) ==
    code[r] \notin {"ranked", "retry_exhausted", "deterministic_below_minimum", "ai_unsuitable", "not_best_resume"}

Finalize ==
    /\ raised = "" /\ selected = {} /\ \A r \in Resumes : ~Waiting(r)
    /\ Qualifying # {}
    /\ LET best == IF config.bestOnly THEN {SelectResume} ELSE Qualifying IN
       IF \E r \in Resumes : Nonterminal(r)
       THEN raised' = "nonterminal" /\ UNCHANGED <<code, selected>>
       ELSE IF config.bestOnly /\ \E r \in best : ~StableBest(r)
       THEN raised' = "not the stable best" /\ UNCHANGED <<code, selected>>
       ELSE /\ selected' = best /\ UNCHANGED raised
            /\ code' = [r \in Resumes |-> IF r \in best THEN "ready"
                                          ELSE IF r \in Qualifying THEN "not_best_resume" ELSE code[r]]
    /\ UNCHANGED <<config, vacancy, profile, decision, tries>>

Next == Finalize \/ \E r \in Resumes : Rank(r)
Spec == Init /\ [][Next]_vars

----------------------------------------------------------------------------
(* Properties.                                                             *)

\* Every decision that the policy can take is one that its record accepts, and
\* the engine and the repository agree on the best resume.
PolicyAndRecordAgree == raised \notin {"decision", "not the stable best"}

\* A resume is ready only for a reason that its settings allow: a score that
\* meets the threshold where no model is asked or the fallback is configured,
\* or a confident answer where one is asked; a resume above the band is ready
\* and one below it is not, whatever the model would say.
ReadyIsEarned ==
    \A r \in Resumes : decision[r] # Undecided /\ ~config.basic =>
        LET d == decision[r]  s == ScoreOf(r)  sure == d.ai.available /\ d.ai.confidence >= config.confidence IN
        /\ d.ready => \/ s >= config.minimum /\ (config.aiMode = "off" \/ (config.onFailure = "deterministic" /\ ~sure))
                      \/ config.aiMode # "off" /\ sure /\ d.ai.suitable
                      \/ config.aiMode = "borderline" /\ s > config.high
        /\ config.aiMode = "borderline" /\ s > config.high => d.ready
        /\ config.aiMode = "borderline" /\ s < config.low => ~d.ready
        /\ d.retry => config.onFailure = "retry" /\ ~sure

\* The score lies between the lowest and the highest component that counts,
\* and a resume that is as good in every component never scores less.
ScoreIsAMean ==
    \A r \in Resumes :
        LET c == Components(vacancy, profile[r])
            counted == {c[n] : n \in {m \in Names : config.weights[m] > 0}} IN
        /\ Min(counted) <= ScoreOf(r) /\ ScoreOf(r) <= Max(counted)
        /\ \A q \in Resumes :
              (\A n \in Names : Components(vacancy, profile[q])[n] <= c[n]) => ScoreOf(q) <= ScoreOf(r)

\* repository.py: a sibling rejected by the ranking is terminal and does not
\* keep the vacancy from being finalised.
RejectedSiblingIsTerminal == raised # "nonterminal"
=============================================================================
