----------------------------- MODULE HardFilter -----------------------------
(***************************************************************************)
(* The hard filter of the autopilot (policy.py): whether a vacancy passes  *)
(* the restrictions of the policy, before anything is ranked.              *)
(*                                                                         *)
(* HH, the profile and the context state a fact under several names (a     *)
(* flag and a list, an old and a new key, a nested object), and any of     *)
(* them may be absent, malformed or at odds with another.  A fact is       *)
(* modelled as its evidence: the set of all values claimed for it, empty   *)
(* when no name is present, with Bad for a value of a wrong type.          *)
(***************************************************************************)
EXTENDS Naturals, FiniteSets

CONSTANTS
    Policies,       \* the filters that the operator may configure
    Postings        \* the facts that a vacancy, a resume and the context may state

HardFilterAssumption == Policies # {} /\ Postings # {}

VARIABLES policy, facts, verdict
vars == <<policy, facts, verdict>>

Bad == "bad"
Pass == "pass"
Unclear == "missing_required_data"

----------------------------------------------------------------------------
(* Evidence.                                                               *)

AgreedAny(S) == IF S = {} THEN "none" ELSE CHOOSE v \in S : TRUE

\* The one value that all names of a fact agree on (_agree_aliases).
Agreed(S) ==
    IF S = {} THEN "none"
    ELSE IF Bad \in S \/ Cardinality(S) > 1 THEN Bad
    ELSE CHOOSE v \in S : TRUE

\* An empty text says nothing, once all names agree on it.
Text(S) == IF Agreed(S) = "" THEN "none" ELSE Agreed(S)

\* Whether x is in a list that all names give alike.
Listed(x, lists) ==
    IF lists = {} THEN "none" ELSE IF Cardinality(lists) > 1 THEN Bad
    ELSE IF \A L \in lists : x \in L THEN "yes" ELSE "no"

\* A flag and a list that state the same fact.
Both(a, b) == Agreed({a, b} \ {"none"})

\* The first failure in a sequence of checks: here of two.
Then(first, second) == IF first # Pass THEN first ELSE second
Known(v, reject, accept) ==
    IF v \in {"none", Bad} THEN Unclear ELSE IF v \in reject THEN "rejected" ELSE accept

----------------------------------------------------------------------------
(* The checks, in the order of evaluate.                                   *)

Open(f) ==
    LET archived == Agreed(f.archived)  status == Text(f.status) IN
    IF Bad \in {archived, status} \/ (archived = "none" /\ status = "none") THEN Unclear
    ELSE IF archived = "yes" \/ status = "closed" THEN "rejected" ELSE Pass

\* already_applied, active and permanently_skipped alike.
History(f) == Known(Both(Agreed(f.tried), Listed(f.id, f.triedIds)), {"yes"}, Pass)

Blacklists(p, f) ==
    Then(Known(Both(Agreed(f.banned), Listed(f.id, f.bannedIds)), {"yes"}, Pass),
         IF p.useEmployers
         THEN Known(Both(Agreed(f.employerBanned), Listed(f.employer, f.employerBannedIds)), {"yes"}, Pass)
         ELSE Pass)

\* Words stand for configured phrases; a required list asks for any of them.
\* The titles are those given by the two names of the title.
Keywords(p, f) ==
    LET title == UNION f.titles  said == title \union f.text IN
    IF p.allowed # {} THEN Pass
    ELSE IF Cardinality(f.titles) > 1 THEN Unclear
    ELSE IF \/ (p.excluded \union f.stopWords) \intersect said # {}
            \/ p.excludedTitle \intersect title # {}
            \/ p.requiredTitle # {} /\ p.requiredTitle \intersect title = {}
            \/ p.required # {} /\ p.required \intersect said = {}
         THEN "rejected"
    ELSE IF p.roles = {} THEN Pass
    ELSE IF f.roles = {} \/ Cardinality(f.roles) > 1 \/ {} \in f.roles THEN Unclear
    ELSE IF \E r \in f.roles : r \intersect p.roles # {} THEN Pass ELSE "rejected"

\* _vacancy_is_remote reads the first keys only; _work_format compares them all.
SaysRemote(f) ==
    \/ Agreed(f.remote) = "yes" \/ f.schedule = {"remote"}
    \/ Listed("remote", f.formats) = "yes"

RemoteUnclear(f) ==
    \/ Agreed(f.remote) = Bad
    \/ (Agreed(f.remote) # "yes" /\ f.schedule # {"remote"} /\ Cardinality(f.formats) > 1)

Area(p, f) ==
    IF p.areas = {} THEN Pass
    ELSE IF Text(f.area) \in {"none", Bad} THEN Unclear
    ELSE IF Text(f.area) \in p.areas THEN Pass
    ELSE IF RemoteUnclear(f) THEN Unclear
    ELSE IF SaysRemote(f) THEN Pass
    ELSE Known(Both(Agreed(f.relocation), Listed(Text(f.area), f.relocationAreas)), {"no"}, Pass)

OneOf(allowed, claims) ==
    IF allowed = {} THEN Pass ELSE Known(Text(claims), {Text(claims)} \ allowed, Pass)

Derived(f) ==
    LET schedule == Text(f.schedule \union f.nestedSchedule)
        fromSchedule == IF schedule \in {"none", Bad} THEN schedule
                        ELSE IF schedule = "remote" THEN "yes" ELSE "no"
        fromFormats == IF f.formats = {{}} THEN "none" ELSE Listed("remote", f.formats) IN
    Agreed({fromSchedule, fromFormats, Agreed(f.remote)} \ {"none"})

WorkFormat(p, f) ==
    LET remote == Derived(f) IN
    IF remote = Bad THEN Unclear
    ELSE IF p.remote # "any" /\ remote = "none" THEN Unclear
    ELSE IF (p.remote = "only" /\ remote # "yes") \/ (p.remote = "exclude" /\ remote = "yes") THEN "rejected"
    ELSE Then(OneOf(p.schedules, f.schedule \union f.nestedSchedule), OneOf(p.employment, f.employment))

\* Amounts are numbers or unset; best is the upper end of what is offered.  A
\* malformed amount is one more claim.
Unset == 999
Amount(S) == IF S = {} THEN Unset ELSE CHOOSE v \in S : TRUE
Best(f) ==
    IF Amount(f.salaryTo) # Unset THEN Amount(f.salaryTo)
    ELSE IF Amount(f.salaryFrom) # Unset THEN Amount(f.salaryFrom)
    ELSE f.described

Currency(f) ==
    IF Amount(f.salaryTo) = Unset /\ Amount(f.salaryFrom) = Unset /\ f.described # Unset THEN "rur"
    ELSE Text(f.currency)

FloorOf(p, currency) == IF currency \in DOMAIN p.floors THEN p.floors[currency] ELSE p.floor
Expected(p, currency) == currency \in DOMAIN p.floors \/ currency = p.currency

Salary(p, f) ==
    IF \/ Cardinality(f.salaryFrom) > 1 \/ Cardinality(f.salaryTo) > 1 \/ Agreed(f.currency) = Bad
       \/ \E a \in f.salaryFrom \ {Unset}, b \in f.salaryTo : a > b
    THEN Unclear
    ELSE IF p.floor = 0 /\ DOMAIN p.floors = {} THEN Pass
    ELSE IF Best(f) = Unset THEN (IF p.unknownSalary = "allow" THEN Pass ELSE "rejected")
    ELSE IF Currency(f) = "none" THEN Unclear
    ELSE IF Expected(p, Currency(f)) /\ Best(f) >= FloorOf(p, Currency(f)) THEN Pass ELSE "rejected"

Constraints(p, f) ==
    IF p.languages = {} THEN Pass
    ELSE IF f.languages = {} THEN Unclear
    ELSE IF \A L \in f.languages : p.languages \subseteq L THEN Pass ELSE "rejected"

\* What an answer to the vacancy asks of the autopilot.
Needs(f) ==
    IF f.explicit # {} THEN UNION f.explicit
    ELSE (IF Agreed(f.hasTest) = "yes" THEN {"screening"} ELSE {})
           \union (IF f.url = "response" \/ (f.url = "" /\ Agreed(f.hasTest) = "no") THEN {"direct"} ELSE {})
           \union (IF f.url = "apply" THEN {"form"} ELSE {})

Capabilities(p, f) ==
    IF \/ Cardinality(f.explicit) > 1 \/ Agreed(f.hasTest) = Bad \/ Needs(f) = {}
       \/ p.capabilities = {} /\ f.supported = {}
    THEN Unclear
    ELSE IF /\ p.capabilities # {} => Needs(f) \subseteq p.capabilities
            /\ \A S \in f.supported : Needs(f) \subseteq S
         THEN Pass ELSE "rejected"

\* A worklist of the operator comes first.
Allowed(p, f) == IF p.allowed # {} /\ f.id \notin p.allowed THEN "rejected" ELSE Pass

Evaluate(p, f) ==
    Then(Allowed(p, f), Then(Open(f), Then(History(f), Then(Blacklists(p, f), Then(Keywords(p, f),
    Then(Area(p, f), Then(WorkFormat(p, f), Then(OneOf(p.experience, f.experience),
    Then(Salary(p, f), Then(Constraints(p, f), Capabilities(p, f)))))))))))

----------------------------------------------------------------------------
Init == policy \in Policies /\ facts \in Postings /\ verdict = "none"

Judge ==
    /\ verdict = "none" /\ verdict' = Evaluate(policy, facts)
    /\ UNCHANGED <<policy, facts>>

Next == Judge
Spec == Init /\ [][Next]_vars

----------------------------------------------------------------------------
(* Properties.                                                             *)

\* Nothing is claimed by the evidence that the policy forbids.
NeverRemote(f) == "yes" \notin f.remote /\ "remote" \notin f.schedule \union f.nestedSchedule
                    /\ "remote" \notin UNION f.formats
AlwaysRemote(f) == "no" \notin f.remote /\ (f.schedule \union f.nestedSchedule) \subseteq {"remote", ""}
                    /\ \A L \in f.formats : L = {} \/ "remote" \in L
Claimed(f) == f.remote \union ((f.schedule \union f.nestedSchedule) \ {""}) # {} \/ UNION f.formats # {}

Harmless(p, f) ==
    /\ "yes" \notin f.archived \union f.tried \union f.banned /\ "closed" \notin f.status
    /\ f.id \notin UNION f.triedIds \union UNION f.bannedIds
    /\ p.useEmployers => "yes" \notin f.employerBanned /\ f.employer \notin UNION f.employerBannedIds
    /\ p.allowed # {} => f.id \in p.allowed
    /\ p.allowed = {} => (p.excluded \union f.stopWords) \intersect (UNION f.titles \union f.text) = {}
    /\ p.areas # {} => \/ f.area \subseteq p.areas
                       \/ AlwaysRemote(f) /\ Claimed(f)
                       \/ /\ "no" \notin f.relocation
                          /\ \A L \in f.relocationAreas : f.area \subseteq L
                          /\ f.relocation # {} \/ f.relocationAreas # {}
    /\ p.remote = "only" => AlwaysRemote(f) /\ Claimed(f)
    /\ p.remote = "exclude" => NeverRemote(f) /\ Claimed(f)
    /\ p.schedules # {} => (f.schedule \union f.nestedSchedule) \subseteq p.schedules
    /\ p.experience # {} => f.experience # {} /\ f.experience \subseteq p.experience
    /\ (p.floor > 0 \/ DOMAIN p.floors # {}) =>
          \/ \E a \in f.salaryTo \union f.salaryFrom \union {f.described} :
                a # Unset /\ \E c \in f.currency \union {"rur"} : Expected(p, c) /\ a >= FloorOf(p, c)
          \/ p.unknownSalary = "allow" /\ (f.salaryTo \union f.salaryFrom) \subseteq {Unset}
    /\ p.languages # {} => f.languages # {} /\ p.languages \subseteq UNION f.languages
    /\ \A S \in f.supported : Needs(f) \subseteq S

\* A vacancy passes only when every restriction of the policy is established
\* by what is stated, and nothing stated under any name speaks against it: a
\* missing, malformed or contradictory fact never lets it through.
PassIsJustified == verdict = Pass => Harmless(policy, facts)

\* A stricter policy passes no more: more words excluded, fewer places or
\* levels allowed, a higher floor, unknown salaries or remote work refused.
Stricter(q, p) ==
    /\ p.excluded \subseteq q.excluded /\ p.excludedTitle \subseteq q.excludedTitle
    /\ p.useEmployers => q.useEmployers
    /\ \A k \in {"areas", "schedules", "employment", "experience", "roles", "requiredTitle", "required", "capabilities"} :
          p[k] # {} => q[k] # {} /\ q[k] \subseteq p[k]
    /\ p.remote \in {"any", q.remote} /\ p.languages \subseteq q.languages
    /\ p.floor <= q.floor /\ p.floors = q.floors /\ p.currency = q.currency
    /\ q.unknownSalary \in {p.unknownSalary, "reject"} /\ p.allowed = q.allowed

StricterPassesLess ==
    verdict # "none" /\ verdict # Pass =>
        \A q \in Policies : Stricter(q, policy) => Evaluate(q, facts) # Pass
=============================================================================
