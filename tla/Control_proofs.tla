--------------------------- MODULE Control_proofs ---------------------------
(***************************************************************************)
(* What limits and steers the sending, for every value of the constants:   *)
(* the quota of the day and its slots, who may let the autopilot send, the *)
(* literal confirmations of the operator, the configuration file with its  *)
(* masked form, and the settings a grant is bound to.  The quota is the    *)
(* module extended here; the others are instances that share no variable   *)
(* with it.                                                                *)
(***************************************************************************)
EXTENDS Quota, Sequences, FiniteSetTheorems, TLAPS

CONSTANTS
    Admin, Policy, Scope, HandEdits, MaxGrant, MaxEdit,         \* Authorization
    Picked, Ref, Live, NoPicked, Most, PickedTries, PickedChecks, \* OneShot
    Proc, Key, Value, Default, MaxToken, FileGrants, MaxStart,  \* ConfigFile
    Client, Id, NoId, Label, MaxLength, MaskEdits,              \* MaskedConfig
    Fold, Resumes, PresetNames, Params, Facts, ProfileNames,    \* Settings
    QueryLists, WordLists, WorkLists, Edits, MaxEdits

VARIABLES
    grant, high, kill, pause, authFile, op, authMem, authRun, authEdits,
    authWord, shown,
    conf, target, owner, shotItem, todo, shotRun, sent,
    confFile, confMem, base, up, started, client, confHh, edited, confWord,
    stored, view, maskEdits,
    setFile, published, setGrant, setRun, setTold, setEdits

Auth == INSTANCE Authorization WITH
    file <- authFile, mem <- authMem, run <- authRun, edits <- authEdits,
    word <- authWord
Shot == INSTANCE OneShot WITH
    Item <- Picked, NoItem <- NoPicked, MaxTries <- PickedTries,
    MaxChecks <- PickedChecks, item <- shotItem, run <- shotRun
Conf == INSTANCE ConfigFile WITH
    MaxGrant <- FileGrants, file <- confFile, mem <- confMem, word <- confWord,
    hh <- confHh
Mask == INSTANCE MaskedConfig WITH MaxEdit <- MaskEdits, edits <- maskEdits
Sett == INSTANCE Settings WITH
    file <- setFile, grant <- setGrant, run <- setRun, told <- setTold,
    edits <- setEdits
------------------------------------------------------------------------------
(* Quota: the slots of the day. *)

ItemRecord == [state : {"ready", "applying", "reconciling", "retry_wait", "applied",
                        "skipped", "dead", "manual_challenge"},
               tries : Nat, checks : Nat, at : Nat, attempt : 0..MaxAttempt]
SlotRecord == [item : Item \cup {NoItem}, run : 0..MaxRun, at : Time,
               state : Counted \cup {"none", "released"}, date : Day, id : BOOLEAN]
ExecRecord == [pc : {"idle", "rendering", "posting"}, item : Item \cup {NoItem},
               seen : Time, wait : Wait \cup {0},
               answer : {"none", "accepted", "duplicate", "refused", "rate_limited",
                         "hh_daily_limit"}]

\* The rows of the attempts made so far, and no other.
SlotsInOrder == \A a \in Attempt : slot[a].state = "none" <=> a > made

\* An item in flight or in doubt has an open slot of its own.
Holds(i) ==
    /\ item[i].attempt \in 1..made
    /\ slot[item[i].attempt].item = i
    /\ slot[item[i].attempt].state \in Open
UnresolvedHolds == \A i \in Item : item[i].state \in {"applying", "reconciling"} => Holds(i)

\* What the executor works on between its transactions: it began with room for
\* an attempt, and what HH took from it was never counted as the candidate's.
ExecutorCarries ==
    /\ exec.pc # "idle" => exec.item \in Item
    /\ exec.pc = "rendering" => made < MaxAttempt /\ exec.answer = "none"
    /\ exec.pc = "posting" => item[exec.item].state = "applying"
    /\ exec.pc = "posting" /\ exec.answer = "accepted" => synced[exec.item] = Never

\* Only what HH shows is counted as the candidate's own.
CountedWasApplied == \A j \in Item : synced[j] # Never => applied[j] # Never

QuotaInv ==
    /\ TypeOK
    /\ SlotsInOrder
    /\ UnresolvedHolds
    /\ ExecutorCarries
    /\ CountedWasApplied
    /\ CountedOnce
------------------------------------------------------------------------------
(* Time *)

\* Whole days, and the next one.
LEMMA Days ==
    ASSUME NEW x \in Nat, NEW n \in Nat \ {0}
    PROVE  x \div n \in Nat /\ (x \div n + 1) * n \in Nat /\ (x \div n + 1) * n >= x
  <1>1. PICK q \in Nat, r \in Nat : q = x \div n /\ x = q * n + r /\ r < n
    BY SMT
  <1>2. (q + 1) * n = q * n + n /\ (q + 1) * n \in Nat
    BY SMT
  <1>3. (q + 1) * n >= x
    BY <1>1, <1>2, SMT
  <1> QED BY <1>1, <1>2, <1>3

\* Time starts on the first date in every timezone.
LEMMA FirstDay == ASSUME NEW n \in Nat \ {0}, NEW x \in 0..(n - 1) PROVE x \div n = 0
  <1>1. PICK q \in Nat, r \in Nat : q = x \div n /\ x = q * n + r /\ r < n
    BY SMT
  <1>2. ASSUME q >= 1 PROVE q * n >= n
    BY <1>2, SMT
  <1> QED BY <1>1, <1>2, SMT

\* Dates are numbers, and so is the instant at which the next one starts.
LEMMA DateType ==
    ASSUME QuotaAssumption, zone \in Zone, NEW t \in Nat
    PROVE  Date(t) \in Nat /\ NextLocalDay(t) \in Nat
  <1>1. zone \in Nat /\ t + zone \in Nat /\ DayLen \in Nat \ {0}
    <2>1. zone \in 0..(DayLen - 1) /\ DayLen \in Nat \ {0}
      BY DEF QuotaAssumption
    <2> QED BY <2>1
  <1>2. /\ (t + zone) \div DayLen \in Nat
        /\ ((t + zone) \div DayLen + 1) * DayLen \in Nat
        /\ ((t + zone) \div DayLen + 1) * DayLen >= t + zone
    BY <1>1, Days
  <1> QED BY <1>1, <1>2 DEF Date, NextLocalDay

\* No date is the mark of an application that was never counted.
LEMMA DaysAreNumbers == ASSUME QuotaAssumption PROVE \A d \in Day : d \in Nat /\ d # Never
  <1> SUFFICES ASSUME NEW t \in Time, NEW z \in Zone
               PROVE  (t + z) \div DayLen \in Nat /\ (t + z) \div DayLen # Never
    BY DEF Day
  <1>1. z \in 0..(DayLen - 1) /\ DayLen \in Nat \ {0} /\ t \in Nat
    BY DEF QuotaAssumption, Time
  <1>2. (t + z) \div DayLen \in Nat
    BY <1>1, Days
  <1> QED BY <1>2 DEF Never

\* What is dated is dated by a day that exists, and waits are numbers.
LEMMA DayType ==
    ASSUME QuotaAssumption, zone \in Zone, NEW t \in Time
    PROVE  t \in Nat /\ Date(t) \in Day /\ Date(t) # Never
  <1>1. t \in Nat
    BY DEF Time, QuotaAssumption
  <1>2. Date(t) \in Day
    BY DEF Date, Day
  <1> QED BY <1>1, <1>2, DateType DEF Never

LEMMA WaitType ==
    ASSUME QuotaAssumption, TypeOK
    PROVE  RetryAt \in Nat /\ HHWaits \in [dated : Nat, asked : Nat, last : BOOLEAN]
  <1>1. exec.seen \in Nat /\ now \in Nat /\ exec.wait \in Nat /\ Backoff \in Nat
    <2>1. exec.seen \in Time /\ exec.wait \in Wait \cup {0} /\ now \in Time
      BY DEF TypeOK
    <2>2. Wait \subseteq Nat \ {0} /\ MaxTime \in Nat /\ Backoff \in Nat \ {0}
      BY DEF QuotaAssumption
    <2>3. exec.wait \in Nat
      <3>1. CASE exec.wait \in Wait
        BY <2>2, <3>1
      <3>2. CASE exec.wait = 0
        BY <3>2
      <3> QED BY <2>1, <3>1, <3>2
    <2> QED BY <2>1, <2>2, <2>3 DEF Time
  <1>2. NextLocalDay(exec.seen) \in Nat /\ NextLocalDay(now) \in Nat
    BY <1>1, DateType DEF TypeOK
  <1>3. WaitFrom(exec.seen) \in Nat /\ WaitFrom(now) \in Nat
    BY <1>1, <1>2 DEF WaitFrom
  <1>4. RetryAt \in Nat
    BY <1>1, <1>2 DEF RetryAt
  <1>5. OnLastTry \in BOOLEAN
    BY DEF OnLastTry
  <1> QED BY <1>3, <1>4, <1>5 DEF HHWaits
------------------------------------------------------------------------------
(* Counting *)

TakenAt(d) == {a \in Attempt : slot[a].state \in Counted /\ slot[a].date = d}
OutsideAt(d) == {i \in Item : synced[i] = d}

LEMMA CountsAreNumbers ==
    ASSUME QuotaAssumption, NEW d
    PROVE  /\ IsFiniteSet(TakenAt(d)) /\ Taken(d) = Cardinality(TakenAt(d)) /\ Taken(d) \in Nat
           /\ IsFiniteSet(OutsideAt(d)) /\ Outside(d) = Cardinality(OutsideAt(d))
           /\ Outside(d) \in Nat
  <1>1. IsFiniteSet(Attempt)
    BY FS_Interval DEF Attempt, QuotaAssumption
  <1>2. TakenAt(d) \in SUBSET Attempt /\ OutsideAt(d) \in SUBSET Item /\ IsFiniteSet(Item)
    BY DEF TakenAt, OutsideAt, QuotaAssumption
  <1>3. IsFiniteSet(TakenAt(d)) /\ IsFiniteSet(OutsideAt(d))
    BY <1>1, <1>2, FS_Subset
  <1> QED BY <1>3, FS_CardinalityType DEF Taken, Outside, TakenAt, OutsideAt

\* A slot that stays counted or stays uncounted changes no count.
LEMMA NothingTaken ==
    ASSUME \A a \in Attempt :
             /\ slot'[a].state \in Counted <=> slot[a].state \in Counted
             /\ slot[a].state \in Counted => slot'[a].date = slot[a].date
    PROVE  \A d : Taken(d)' = Taken(d)
  BY DEF Taken

\* A released slot comes back to its date.
LEMMA OneGiven ==
    ASSUME QuotaAssumption, NEW a \in Attempt, slot[a].state \in Counted,
           NEW d0, d0 = slot[a].date, slot'[a].state = "released",
           \A b \in Attempt \ {a} : slot'[b] = slot[b]
    PROVE  /\ Taken(d0) > 0
           /\ Taken(d0)' = Taken(d0) - 1
           /\ \A d : d # d0 => Taken(d)' = Taken(d)
  <1>1. a \in TakenAt(d0) /\ TakenAt(d0)' = TakenAt(d0) \ {a}
    BY DEF TakenAt, Counted
  <1>2. IsFiniteSet(TakenAt(d0)) /\ Taken(d0) = Cardinality(TakenAt(d0)) /\ Taken(d0) \in Nat
    BY CountsAreNumbers
  <1>3. Taken(d0)' = Cardinality(TakenAt(d0) \ {a}) /\ IsFiniteSet(TakenAt(d0) \ {a})
    BY <1>1, <1>2, FS_RemoveElement DEF Taken, TakenAt
  <1>4. Taken(d0)' = Taken(d0) - 1
    BY <1>1, <1>2, <1>3, FS_RemoveElement
  <1>5. Taken(d0) > 0
    BY <1>1, <1>2, FS_EmptySet
  <1>6. ASSUME NEW d, d # d0 PROVE Taken(d)' = Taken(d)
    <2>1. TakenAt(d)' = TakenAt(d)
      BY <1>6 DEF TakenAt, Counted
    <2> QED BY <2>1 DEF Taken, TakenAt
  <1> QED BY <1>4, <1>5, <1>6

\* A new slot is taken from its date.
LEMMA OneTaken ==
    ASSUME QuotaAssumption, NEW a \in Attempt, slot[a].state = "none",
           NEW d0, d0 = slot'[a].date, slot'[a].state = "reserved",
           \A b \in Attempt \ {a} : slot'[b] = slot[b]
    PROVE  /\ Taken(d0)' = Taken(d0) + 1
           /\ \A d : d # d0 => Taken(d)' = Taken(d)
  <1>1. a \notin TakenAt(d0) /\ TakenAt(d0)' = TakenAt(d0) \cup {a}
    BY DEF TakenAt, Counted
  <1>2. IsFiniteSet(TakenAt(d0)) /\ Taken(d0) = Cardinality(TakenAt(d0))
    BY CountsAreNumbers
  <1>3. Taken(d0)' = Cardinality(TakenAt(d0) \cup {a})
    BY <1>1 DEF Taken, TakenAt
  <1>4. Taken(d0)' = Taken(d0) + 1
    BY <1>1, <1>2, <1>3, FS_AddElement
  <1>5. ASSUME NEW d, d # d0 PROVE Taken(d)' = Taken(d)
    <2>1. TakenAt(d)' = TakenAt(d)
      BY <1>5 DEF TakenAt, Counted
    <2> QED BY <2>1 DEF Taken, TakenAt
  <1> QED BY <1>4, <1>5

\* An application made by hand is counted once on its date.
LEMMA OneOutside ==
    ASSUME QuotaAssumption, NEW j \in Item, NEW e, e # Never, synced[j] = Never,
           synced \in [Item -> Day \cup {Never}], synced' = [synced EXCEPT ![j] = e]
    PROVE  /\ Outside(e)' = Outside(e) + 1
           /\ \A d : d # e /\ d # Never => Outside(d)' = Outside(d)
  <1>1. j \notin OutsideAt(e) /\ OutsideAt(e)' = OutsideAt(e) \cup {j}
    BY DEF OutsideAt
  <1>2. IsFiniteSet(OutsideAt(e)) /\ Outside(e) = Cardinality(OutsideAt(e))
    BY CountsAreNumbers
  <1>3. Outside(e)' = Cardinality(OutsideAt(e) \cup {j})
    BY <1>1 DEF Outside, OutsideAt
  <1>4. Outside(e)' = Outside(e) + 1
    BY <1>1, <1>2, <1>3, FS_AddElement
  <1>5. ASSUME NEW d, d # e, d # Never PROVE Outside(d)' = Outside(d)
    <2>1. OutsideAt(d)' = OutsideAt(d)
      BY <1>5 DEF OutsideAt
    <2> QED BY <2>1 DEF Outside, OutsideAt
  <1> QED BY <1>4, <1>5
------------------------------------------------------------------------------
(* The invariant, step by step *)

\* At first nothing was applied to.
LEMMA InitInv == ASSUME QuotaAssumption, Init PROVE QuotaInv
  <1>1. 0 \in Time /\ 0 \in 0..MaxRun /\ 0 \in 0..MaxAttempt
    BY DEF QuotaAssumption, Time
  <1>2. zone \in Zone
    BY DEF Init
  <1>3. 0 \in Day
    <2>1. zone \in 0..(DayLen - 1) /\ DayLen \in Nat \ {0}
      BY <1>2 DEF QuotaAssumption
    <2>2. zone \div DayLen = 0
      BY <2>1, FirstDay
    <2>3. Date(0) \in Day
      BY <1>1, <1>2, DayType
    <2> QED BY <2>1, <2>2, <2>3 DEF Date
  <1>4. NoSlot \in SlotRecord
    BY <1>1, <1>3 DEF NoSlot, SlotRecord
  <1>5. TypeOK
    <2>1. exec \in ExecRecord
      BY <1>1 DEF Init, Idle, ExecRecord
    <2>2. item \in [Item -> ItemRecord]
      BY <1>1 DEF Init, ItemRecord
    <2>3. slot \in [Attempt -> SlotRecord]
      BY <1>4 DEF Init
    <2> QED BY <1>1, <1>2, <2>1, <2>2, <2>3
            DEF Init, TypeOK, ExecRecord, ItemRecord, SlotRecord
  <1>6. SlotsInOrder /\ UnresolvedHolds /\ ExecutorCarries /\ CountedWasApplied /\ CountedOnce
    BY DEF Init, SlotsInOrder, UnresolvedHolds, ExecutorCarries, CountedWasApplied,
           CountedOnce, Attempt, NoSlot, Idle, Recorded
  <1> QED BY <1>5, <1>6 DEF QuotaInv

\* What item i makes of its slot: it stays in doubt with a held one, or leaves
\* the slot to what became of it. Other items have other slots.
Settled(i) ==
    LET a == item[i].attempt
    IN  /\ item' \in [Item -> ItemRecord] /\ slot' \in [Attempt -> SlotRecord]
        /\ item'[i].attempt = a
        /\ slot'[a].item = i /\ slot'[a].date = slot[a].date
        /\ slot'[a].state \in {"held", "released", "consumed"}
        /\ slot'[a].state = "held" \/ item'[i].state \notin {"applying", "reconciling"}
        /\ \A j \in Item \ {i} : item'[j] = item[j]
        /\ \A b \in Attempt \ {a} : slot'[b] = slot[b]

LEMMA SettledInv ==
    ASSUME QuotaAssumption, QuotaInv, NEW i \in Item, Holds(i), Settled(i), UNCHANGED made
    PROVE  SlotsInOrder' /\ UnresolvedHolds' /\ item[i].attempt \in Attempt
  <1>1. /\ MaxAttempt \in Nat /\ made \in 0..MaxAttempt
        /\ item[i].attempt \in Attempt /\ item[i].attempt <= made
    BY DEF QuotaInv, TypeOK, Holds, Attempt, QuotaAssumption
  <1>2. SlotsInOrder'
    BY <1>1 DEF QuotaInv, SlotsInOrder, Settled, Attempt
  <1>3. ASSUME NEW j \in Item, item'[j].state \in {"applying", "reconciling"} PROVE Holds(j)'
    <2>1. CASE j = i
      BY <1>1, <1>3, <2>1 DEF Settled, Holds, Open
    <2>2. CASE j # i
      <3>1. item'[j] = item[j] /\ Holds(j)
        BY <1>3, <2>2 DEF Settled, QuotaInv, UnresolvedHolds
      <3>2. item[j].attempt \in Attempt /\ item[j].attempt # item[i].attempt
        BY <1>1, <2>2, <3>1 DEF Holds, Attempt
      <3> QED BY <3>1, <3>2 DEF Settled, Holds
    <2> QED BY <2>1, <2>2
  <1> QED BY <1>1, <1>2, <1>3 DEF UnresolvedHolds

\* Rows written in the ways the steps write them keep their types.
LEMMA ItemShapes ==
    ASSUME QuotaAssumption, TypeOK, NEW i \in Item,
           NEW state \in {"ready", "applying", "reconciling", "retry_wait", "applied",
                          "skipped", "dead"},
           NEW at \in Nat, item' = [item EXCEPT ![i].state = state, ![i].at = at]
    PROVE  /\ item' \in [Item -> ItemRecord]
           /\ item'[i].attempt = item[i].attempt /\ item'[i].state = state
           /\ \A j \in Item \ {i} : item'[j] = item[j]
  <1>1. item \in [Item -> ItemRecord] /\ item[i] \in ItemRecord
    BY DEF TypeOK, ItemRecord
  <1>2. [item[i] EXCEPT !.state = state, !.at = at] \in ItemRecord
    BY <1>1 DEF ItemRecord
  <1> QED BY <1>1, <1>2 DEF ItemRecord

LEMMA SlotShapes ==
    ASSUME QuotaAssumption, TypeOK, NEW a \in Attempt,
           NEW state \in {"held", "released", "consumed"}
    PROVE  LET s == [slot EXCEPT ![a].state = state]
           IN  /\ s \in [Attempt -> SlotRecord]
               /\ s[a].item = slot[a].item /\ s[a].date = slot[a].date
               /\ s[a].state = state /\ s[a].id = slot[a].id
               /\ \A b \in Attempt \ {a} : s[b] = slot[b]
  <1>1. slot \in [Attempt -> SlotRecord] /\ slot[a] \in SlotRecord
    BY DEF TypeOK, SlotRecord
  <1>2. [slot[a] EXCEPT !.state = state] \in SlotRecord
    BY <1>1 DEF SlotRecord, Counted
  <1> QED BY <1>1, <1>2 DEF SlotRecord

LEMMA RecordedShapes ==
    ASSUME QuotaAssumption, TypeOK, NEW a \in Attempt, NEW id \in BOOLEAN,
           slot' = [slot EXCEPT ![a].state = "consumed", ![a].id = id]
    PROVE  /\ slot' \in [Attempt -> SlotRecord]
           /\ slot'[a].item = slot[a].item /\ slot'[a].date = slot[a].date
           /\ slot'[a].state = "consumed"
           /\ \A b \in Attempt \ {a} : slot'[b] = slot[b]
  <1>1. slot \in [Attempt -> SlotRecord] /\ slot[a] \in SlotRecord
    BY DEF TypeOK, SlotRecord
  <1>2. [slot[a] EXCEPT !.state = "consumed", !.id = id] \in SlotRecord
    BY <1>1 DEF SlotRecord, Counted
  <1> QED BY <1>1, <1>2 DEF SlotRecord

\* What the executor makes of an answer, unless its decision cannot be stored.
LEMMA SettlingShape ==
    ASSUME QuotaAssumption, QuotaInv, Settling, ~FinalizeRaises
    PROVE  /\ exec.item \in Item /\ Holds(exec.item) /\ Settled(exec.item) /\ UNCHANGED synced
           /\ slot'[item[exec.item].attempt].state = "consumed" => exec.answer = "accepted"
  <1> DEFINE i == exec.item
             a == item[i].attempt
  <1>1. i \in Item /\ Holds(i) /\ UNCHANGED synced
    BY DEF Settling, FinalizeApplied, RecordPossiblySent, FinalizeRefused, FinalizeLimited,
           QuotaInv, ExecutorCarries, UnresolvedHolds
  <1>2. a \in Attempt /\ slot[a].item = i
    BY <1>1 DEF Holds, QuotaInv, TypeOK, Attempt, QuotaAssumption
  <1>3. TypeOK /\ RetryAt \in Nat /\ exec.seen + Backoff \in Nat
    <2>1. exec.seen \in Nat
      BY DayType DEF QuotaInv, TypeOK
    <2>2. Backoff \in Nat
      BY DEF QuotaAssumption
    <2> QED BY <2>1, <2>2, WaitType DEF QuotaInv
  <1>4. CASE FinalizeApplied
    <2>1. PICK id \in BOOLEAN : slot' = [slot EXCEPT ![a].state = "consumed", ![a].id = id]
      BY <1>4 DEF FinalizeApplied
    <2>2. item' = [item EXCEPT ![i].state = "applied", ![i].at = 0]
      BY <1>4 DEF FinalizeApplied, Settles
    <2>3. /\ item' \in [Item -> ItemRecord] /\ item'[i].attempt = a /\ item'[i].state = "applied"
          /\ \A j \in Item \ {i} : item'[j] = item[j]
      BY <1>1, <1>3, <2>2, ItemShapes
    <2>4. /\ slot' \in [Attempt -> SlotRecord] /\ slot'[a].item = i /\ slot'[a].date = slot[a].date
          /\ slot'[a].state = "consumed"
          /\ \A b \in Attempt \ {a} : slot'[b] = slot[b]
      BY <1>2, <1>3, <2>1, RecordedShapes
    <2>5. Settled(i)
      BY <2>3, <2>4 DEF Settled
    <2>6. exec.answer = "accepted"
      BY <1>4 DEF FinalizeApplied
    <2> QED BY <1>1, <2>5, <2>6
  <1>5. CASE RecordPossiblySent
    <2>1. slot' = [slot EXCEPT ![a].state = "held"]
      BY <1>5 DEF RecordPossiblySent, Settle
    <2>2. item' = [item EXCEPT ![i].state = "reconciling", ![i].at = exec.seen + Backoff]
      BY <1>5 DEF RecordPossiblySent, Settles
    <2>3. /\ item' \in [Item -> ItemRecord] /\ item'[i].attempt = a
          /\ \A j \in Item \ {i} : item'[j] = item[j]
      BY <1>1, <1>3, <2>2, ItemShapes
    <2>4. /\ slot' \in [Attempt -> SlotRecord] /\ slot'[a].item = i /\ slot'[a].date = slot[a].date
          /\ slot'[a].state = "held"
          /\ \A b \in Attempt \ {a} : slot'[b] = slot[b]
      BY <1>2, <1>3, <2>1, SlotShapes
    <2> QED BY <1>1, <2>3, <2>4 DEF Settled
  <1>6. CASE FinalizeRefused \/ FinalizeLimited
    <2>1. slot' = [slot EXCEPT ![a].state = "released"]
      BY <1>6 DEF FinalizeRefused, FinalizeLimited, Settle
    <2>2. PICK state \in {"skipped", "dead", "retry_wait"}, at \in Nat :
             item' = [item EXCEPT ![i].state = state, ![i].at = at]
      BY <1>3, <1>6 DEF FinalizeRefused, FinalizeLimited, Settles
    <2>3. /\ item' \in [Item -> ItemRecord] /\ item'[i].attempt = a /\ item'[i].state = state
          /\ \A j \in Item \ {i} : item'[j] = item[j]
      BY <1>1, <1>3, <2>2, ItemShapes
    <2>4. /\ slot' \in [Attempt -> SlotRecord] /\ slot'[a].item = i /\ slot'[a].date = slot[a].date
          /\ slot'[a].state = "released"
          /\ \A b \in Attempt \ {a} : slot'[b] = slot[b]
      BY <1>2, <1>3, <2>1, SlotShapes
    <2> QED BY <1>1, <2>3, <2>4 DEF Settled
  <1> QED BY <1>4, <1>5, <1>6 DEF Settling

\* The executor settles the answer.
LEMMA SettlingInv == ASSUME QuotaAssumption, QuotaInv, Settling PROVE QuotaInv'
  <1> DEFINE i == exec.item
             a == item[i].attempt
  <1>1. exec.pc = "posting"
    BY DEF Settling, FinalizeApplied, RecordPossiblySent, FinalizeRefused, FinalizeLimited,
           FinalizeRaises
  <1>2. i \in Item /\ item[i].state = "applying" /\ Holds(i)
    BY <1>1 DEF QuotaInv, ExecutorCarries, UnresolvedHolds
  <1>3. a \in Attempt /\ slot[a].item = i
    BY <1>2 DEF Holds, QuotaInv, TypeOK, Attempt, QuotaAssumption
  <1>4. exec' = Idle /\ UNCHANGED <<clock, run, made, synced, applied>>
    BY DEF Settling, FinalizeApplied, RecordPossiblySent, FinalizeRefused, FinalizeLimited,
           FinalizeRaises, hh
  <1>5. exec' \in ExecRecord /\ ExecutorCarries'
    <2>1. 0 \in Time
      BY DEF Time, QuotaAssumption
    <2> QED BY <1>4, <2>1 DEF Idle, ExecRecord, ExecutorCarries
  <1>6. /\ RetryAt \in Nat /\ exec.seen + Backoff \in Nat
        /\ HHWaits \in [dated : Nat, asked : Nat, last : BOOLEAN]
    <2>1. exec.seen \in Nat
      BY DayType DEF QuotaInv, TypeOK
    <2>2. Backoff \in Nat
      BY DEF QuotaAssumption
    <2> QED BY <2>1, <2>2, WaitType DEF QuotaInv
  <1>7. blocked' \in Nat /\ told' \in [dated : Nat, asked : Nat, last : BOOLEAN]
    BY <1>6 DEF Settling, FinalizeApplied, RecordPossiblySent, FinalizeRefused,
       FinalizeLimited, FinalizeRaises, hh, QuotaInv, TypeOK
  <1>8. CASE FinalizeRaises
    <2>1. UNCHANGED <<item, slot, made>>
      BY <1>8 DEF FinalizeRaises
    <2> QED BY <1>4, <1>5, <1>7, <2>1
            DEF QuotaInv, TypeOK, ExecRecord, clock, SlotsInOrder, UnresolvedHolds, Holds,
                CountedWasApplied, CountedOnce, Recorded
  <1>9. CASE ~FinalizeRaises
    <2>1. /\ Settled(i)
          /\ slot'[a].state = "consumed" => exec.answer = "accepted"
      BY <1>9, SettlingShape
    <2>2. SlotsInOrder' /\ UnresolvedHolds'
      BY <1>2, <1>4, <2>1, SettledInv
    <2>3. CountedOnce'
      <3>1. ASSUME NEW j \in Item, Recorded(j)' # {} PROVE synced[j] = Never
        <4>1. PICK b \in Attempt : slot'[b].item = j /\ slot'[b].state = "consumed" /\ slot'[b].id
          BY <3>1 DEF Recorded
        <4>2. CASE b # a
          BY <4>1, <4>2, <2>1 DEF Settled, QuotaInv, CountedOnce, Recorded
        <4>3. CASE b = a
          BY <1>1, <1>3, <2>1, <4>1, <4>3 DEF Settled, QuotaInv, ExecutorCarries
        <4> QED BY <4>2, <4>3
      <3> QED BY <1>4, <3>1 DEF CountedOnce
    <2> QED BY <1>4, <1>5, <1>7, <2>1, <2>2, <2>3
            DEF QuotaInv, TypeOK, ExecRecord, ItemRecord, SlotRecord, clock, Settled,
                CountedWasApplied
  <1> QED BY <1>8, <1>9

\* What each verdict of a reconciliation does to the item and to its slot.
LEMMA ReconcileShape ==
    ASSUME QuotaAssumption, QuotaInv, NEW i \in Item, Reconcile(i)
    PROVE  /\ Holds(i) /\ Settled(i)
           /\ slot'[item[i].attempt].state = "consumed" => synced[i] = Never /\ UNCHANGED synced
  <1> DEFINE a == item[i].attempt
  <1>1. Reconciling(i)
    BY DEF Reconcile, ReconcileApplied, ReconcileExternal, ReconcileAbsent
  <1>2. Holds(i) /\ a \in Attempt /\ slot[a].item = i
    BY <1>1 DEF Reconciling, Holds, QuotaInv, UnresolvedHolds, TypeOK, Attempt, QuotaAssumption
  <1>3. TypeOK /\ now + Backoff \in Nat
    <2>1. now \in Nat /\ Backoff \in Nat
      BY DEF QuotaInv, TypeOK, Time, QuotaAssumption
    <2> QED BY <2>1 DEF QuotaInv
  <1>4. CASE ReconcileApplied(i)
    <2>1. item' = [item EXCEPT ![i].state = "applied", ![i].at = 0]
      BY <1>4 DEF ReconcileApplied, Settles
    <2>2. slot' = [slot EXCEPT ![a].state = "consumed", ![a].id = TRUE]
      BY <1>4 DEF ReconcileApplied
    <2>3. /\ item' \in [Item -> ItemRecord] /\ item'[i].attempt = a /\ item'[i].state = "applied"
          /\ \A j \in Item \ {i} : item'[j] = item[j]
      BY <1>3, <2>1, ItemShapes
    <2>4. /\ slot' \in [Attempt -> SlotRecord] /\ slot'[a].item = i /\ slot'[a].date = slot[a].date
          /\ slot'[a].state = "consumed"
          /\ \A b \in Attempt \ {a} : slot'[b] = slot[b]
      BY <1>2, <1>3, <2>2, RecordedShapes
    <2> QED BY <1>2, <1>4, <2>3, <2>4 DEF Settled, ReconcileApplied
  <1>5. CASE ReconcileExternal(i)
    <2>1. item' = [item EXCEPT ![i].state = "skipped", ![i].at = 0]
      BY <1>5 DEF ReconcileExternal, Settles
    <2>2. slot' = [slot EXCEPT ![a].state = "released"]
      BY <1>5 DEF ReconcileExternal, Settle
    <2>3. /\ item' \in [Item -> ItemRecord] /\ item'[i].attempt = a /\ item'[i].state = "skipped"
          /\ \A j \in Item \ {i} : item'[j] = item[j]
      BY <1>3, <2>1, ItemShapes
    <2>4. /\ slot' \in [Attempt -> SlotRecord] /\ slot'[a].item = i /\ slot'[a].date = slot[a].date
          /\ slot'[a].state = "released"
          /\ \A b \in Attempt \ {a} : slot'[b] = slot[b]
      BY <1>2, <1>3, <2>2, SlotShapes
    <2> QED BY <1>2, <2>3, <2>4 DEF Settled
  <1>6. CASE ReconcileAbsent(i)
    <2>1. /\ item \in [Item -> ItemRecord] /\ item[i] \in ItemRecord
          /\ item[i].checks \in Nat /\ item[i].checks + 1 \in Nat
      BY <1>3 DEF TypeOK, ItemRecord
    <2>2. CASE item[i].checks + 1 < MaxChecks
      <3>1. slot' = [slot EXCEPT ![a].state = "held"]
        BY <1>6, <2>2 DEF ReconcileAbsent, Settle
      <3>2. item' = [item EXCEPT ![i].checks = @ + 1, ![i].at = now + Backoff]
        BY <1>6, <2>2 DEF ReconcileAbsent
      <3>3. [item[i] EXCEPT !.checks = @ + 1, !.at = now + Backoff] \in ItemRecord
        BY <1>3, <2>1 DEF ItemRecord
      <3>4. /\ item' \in [Item -> ItemRecord] /\ item'[i].attempt = a
            /\ \A j \in Item \ {i} : item'[j] = item[j]
        BY <2>1, <3>2, <3>3 DEF ItemRecord
      <3>5. /\ slot' \in [Attempt -> SlotRecord] /\ slot'[a].item = i /\ slot'[a].date = slot[a].date
            /\ slot'[a].state = "held"
            /\ \A b \in Attempt \ {a} : slot'[b] = slot[b]
        BY <1>2, <1>3, <3>1, SlotShapes
      <3> QED BY <1>2, <3>4, <3>5 DEF Settled
    <2>3. CASE ~(item[i].checks + 1 < MaxChecks)
      <3>1. slot' = [slot EXCEPT ![a].state = "released"]
        BY <1>6, <2>3 DEF ReconcileAbsent, Settle
      <3>2. PICK state \in {"ready", "dead"} :
              item' = [item EXCEPT ![i].checks = @ + 1, ![i].at = 0, ![i].state = state]
        BY <1>6, <2>3 DEF ReconcileAbsent
      <3>3. [item[i] EXCEPT !.checks = @ + 1, !.at = 0, !.state = state] \in ItemRecord
        BY <2>1 DEF ItemRecord
      <3>4. /\ item' \in [Item -> ItemRecord] /\ item'[i].attempt = a /\ item'[i].state = state
            /\ \A j \in Item \ {i} : item'[j] = item[j]
        BY <2>1, <3>2, <3>3 DEF ItemRecord
      <3>5. /\ slot' \in [Attempt -> SlotRecord] /\ slot'[a].item = i /\ slot'[a].date = slot[a].date
            /\ slot'[a].state = "released"
            /\ \A b \in Attempt \ {a} : slot'[b] = slot[b]
        BY <1>2, <1>3, <3>1, SlotShapes
      <3> QED BY <1>2, <3>4, <3>5 DEF Settled
    <2> QED BY <2>2, <2>3
  <1> QED BY <1>4, <1>5, <1>6 DEF Reconcile

\* What a reconciliation does to the applications that count as the candidate's:
\* at most one more, of one that no consumed slot recorded.
LEMMA SyncShape ==
    ASSUME QuotaAssumption, QuotaInv, NEW i \in Item, Reconcile(i), synced' # synced
    PROVE  \E j \in Item, e \in Day :
             /\ synced' = [synced EXCEPT ![j] = e]
             /\ synced[j] = Never /\ e # Never /\ applied[j] # Never /\ Recorded(j) = {}
  <1>1. ReconcileExternal(i)
    BY DEF Reconcile, ReconcileApplied, ReconcileAbsent
  <1>2. PICK j \in Item :
          /\ Latest(i, j) /\ NewRow(j) /\ synced' = [synced EXCEPT ![j] = Date(applied[j])]
    <2>1. \A j \in Item : Latest(i, j) => j \in Item
      OBVIOUS
    <2> QED BY <1>1 DEF ReconcileExternal
  <1>3. applied[j] # Never
    BY <1>2 DEF Latest, Shown
  <1>4. applied[j] \in Time /\ zone \in Zone
    BY <1>3 DEF QuotaInv, TypeOK
  <1> QED BY <1>2, <1>3, <1>4, DayType DEF NewRow

LEMMA ReconcileInv == ASSUME QuotaAssumption, QuotaInv, NEW i \in Item, Reconcile(i) PROVE QuotaInv'
  <1>1. /\ Holds(i) /\ Settled(i)
        /\ slot'[item[i].attempt].state = "consumed" => synced[i] = Never /\ UNCHANGED synced
    BY ReconcileShape
  <1>2. exec = Idle /\ UNCHANGED <<clock, run, exec, made, blocked, hh>>
    BY DEF Reconcile, ReconcileApplied, ReconcileExternal, ReconcileAbsent, Reconciling
  <1>3. SlotsInOrder' /\ UnresolvedHolds' /\ item[i].attempt \in Attempt
    BY <1>1, <1>2, SettledInv
  <1>4. ExecutorCarries'
    BY <1>2 DEF ExecutorCarries, Idle
  <1>5. CASE UNCHANGED synced
    <2>1. CountedOnce'
      <3>1. ASSUME NEW j \in Item, Recorded(j)' # {} PROVE synced[j] = Never
        <4>1. PICK b \in Attempt : slot'[b].item = j /\ slot'[b].state = "consumed" /\ slot'[b].id
          BY <3>1 DEF Recorded
        <4>2. CASE b # item[i].attempt
          BY <1>1, <4>1, <4>2 DEF Settled, QuotaInv, CountedOnce, Recorded
        <4>3. CASE b = item[i].attempt
          BY <1>1, <4>1, <4>3 DEF Settled
        <4> QED BY <4>2, <4>3
      <3> QED BY <1>5, <3>1 DEF CountedOnce
    <2> QED BY <1>1, <1>2, <1>3, <1>4, <1>5, <2>1
            DEF QuotaInv, TypeOK, ExecRecord, ItemRecord, SlotRecord, clock, hh, Settled,
                CountedWasApplied
  <1>6. CASE synced' # synced
    <2>1. PICK j \in Item, e \in Day :
             /\ synced' = [synced EXCEPT ![j] = e]
             /\ synced[j] = Never /\ e # Never /\ applied[j] # Never /\ Recorded(j) = {}
      BY <1>6, SyncShape
    <2>2. slot'[item[i].attempt].state # "consumed"
      BY <1>1, <1>6
    <2>3. CountedOnce'
      <3>1. ASSUME NEW k \in Item, Recorded(k)' # {} PROVE synced[k] = Never /\ k # j
        <4>1. PICK b \in Attempt : slot'[b].item = k /\ slot'[b].state = "consumed" /\ slot'[b].id
          BY <3>1 DEF Recorded
        <4>2. b \in Recorded(k)
          BY <1>1, <2>2, <4>1 DEF Settled, Recorded
        <4> QED BY <2>1, <4>2 DEF QuotaInv, CountedOnce
      <3> QED BY <2>1, <3>1 DEF CountedOnce, QuotaInv, TypeOK
    <2>4. synced' \in [Item -> Day \cup {Never}] /\ CountedWasApplied'
      BY <1>2, <2>1 DEF QuotaInv, TypeOK, CountedWasApplied, hh
    <2> QED BY <1>1, <1>2, <1>3, <1>4, <2>3, <2>4
            DEF QuotaInv, TypeOK, ExecRecord, ItemRecord, SlotRecord, clock, hh, Settled
  <1> QED BY <1>5, <1>6

\* The transaction that takes a slot.
LEMMA PrepareShape ==
    ASSUME QuotaAssumption, QuotaInv, PrepareDispatch
    PROVE  /\ exec.item \in Item /\ made + 1 \in Attempt /\ made' = made + 1
           /\ slot[made + 1].state = "none"
           /\ slot' \in [Attempt -> SlotRecord]
           /\ slot'[made + 1].state = "reserved" /\ slot'[made + 1].item = exec.item
           /\ slot'[made + 1].date = Date(exec.seen) /\ Date(exec.seen) \in Day
           /\ \A b \in Attempt \ {made + 1} : slot'[b] = slot[b]
           /\ item' \in [Item -> ItemRecord]
           /\ item'[exec.item].state = "applying" /\ item'[exec.item].attempt = made + 1
           /\ \A j \in Item \ {exec.item} : item'[j] = item[j]
  <1> DEFINE i == exec.item
  <1>1. i \in Item /\ made \in Nat /\ MaxAttempt \in Nat /\ made < MaxAttempt
    BY DEF PrepareDispatch, QuotaInv, ExecutorCarries, TypeOK, QuotaAssumption
  <1>2. made + 1 \in Attempt /\ made + 1 > made /\ made + 1 \in 0..MaxAttempt
    BY <1>1 DEF Attempt
  <1>3. slot[made + 1].state = "none"
    BY <1>2 DEF QuotaInv, SlotsInOrder
  <1>4. exec.seen \in Time /\ Date(exec.seen) \in Day /\ run \in 0..MaxRun
    BY DayType DEF QuotaInv, TypeOK
  <1>5. [item |-> i, run |-> run, at |-> exec.seen, state |-> "reserved",
         date |-> Date(exec.seen), id |-> FALSE] \in SlotRecord
    BY <1>1, <1>4 DEF SlotRecord, Counted
  <1>6. /\ slot \in [Attempt -> SlotRecord]
        /\ slot' = [slot EXCEPT ![made + 1] =
                      [item |-> i, run |-> run, at |-> exec.seen, state |-> "reserved",
                       date |-> Date(exec.seen), id |-> FALSE]]
    BY DEF PrepareDispatch, QuotaInv, TypeOK, SlotRecord
  <1>7. item \in [Item -> ItemRecord] /\ item[i] \in ItemRecord /\ item[i].tries + 1 \in Nat
    BY <1>1 DEF QuotaInv, TypeOK, ItemRecord
  <1>8. item' = [item EXCEPT ![i].state = "applying", ![i].tries = @ + 1, ![i].attempt = made + 1]
    BY DEF PrepareDispatch
  <1>9. [item[i] EXCEPT !.state = "applying", !.tries = @ + 1, !.attempt = made + 1] \in ItemRecord
    BY <1>2, <1>7 DEF ItemRecord
  <1>10. /\ item' \in [Item -> ItemRecord]
         /\ item'[i].state = "applying" /\ item'[i].attempt = made + 1
         /\ \A j \in Item \ {i} : item'[j] = item[j]
    BY <1>1, <1>7, <1>8, <1>9 DEF ItemRecord
  <1>11. /\ slot' \in [Attempt -> SlotRecord]
         /\ slot'[made + 1].state = "reserved" /\ slot'[made + 1].item = i
         /\ slot'[made + 1].date = Date(exec.seen)
         /\ \A b \in Attempt \ {made + 1} : slot'[b] = slot[b]
    BY <1>2, <1>5, <1>6
  <1> QED BY <1>1, <1>2, <1>3, <1>4, <1>10, <1>11 DEF PrepareDispatch

LEMMA PrepareInv == ASSUME QuotaAssumption, QuotaInv, PrepareDispatch PROVE QuotaInv'
  <1> DEFINE i == exec.item
  <1>1. /\ i \in Item /\ made + 1 \in Attempt /\ made' = made + 1
        /\ slot[made + 1].state = "none"
        /\ slot' \in [Attempt -> SlotRecord]
        /\ slot'[made + 1].state = "reserved" /\ slot'[made + 1].item = i
        /\ \A b \in Attempt \ {made + 1} : slot'[b] = slot[b]
        /\ item' \in [Item -> ItemRecord]
        /\ item'[i].state = "applying" /\ item'[i].attempt = made + 1
        /\ \A j \in Item \ {i} : item'[j] = item[j]
    BY PrepareShape
  <1>2. made \in Nat /\ MaxAttempt \in Nat /\ made + 1 \in 1..MaxAttempt /\ made' \in 0..MaxAttempt
    BY <1>1 DEF QuotaInv, TypeOK, Attempt, QuotaAssumption
  <1>3. UNCHANGED <<clock, run, blocked, hh, synced>>
    BY DEF PrepareDispatch
  <1>4. exec.pc = "rendering" /\ exec.answer = "none" /\ exec' = [exec EXCEPT !.pc = "posting"]
    BY DEF PrepareDispatch, QuotaInv, ExecutorCarries
  <1>5. exec' \in ExecRecord /\ exec'.item = i /\ exec'.pc = "posting" /\ exec'.answer = "none"
    BY <1>4 DEF QuotaInv, TypeOK, ExecRecord
  <1>6. TypeOK'
    BY <1>1, <1>2, <1>3, <1>5 DEF QuotaInv, TypeOK, ExecRecord, ItemRecord, SlotRecord, clock, hh
  <1>7. SlotsInOrder'
    <2>1. ASSUME NEW b \in Attempt PROVE slot'[b].state = "none" <=> b > made + 1
      <3>1. CASE b = made + 1
        BY <1>1, <1>2, <3>1
      <3>2. CASE b # made + 1
        BY <1>1, <1>2, <3>2 DEF QuotaInv, SlotsInOrder, Attempt
      <3> QED BY <3>1, <3>2
    <2> QED BY <1>1, <2>1 DEF SlotsInOrder
  <1>8. UnresolvedHolds'
    <2>1. ASSUME NEW j \in Item, item'[j].state \in {"applying", "reconciling"} PROVE Holds(j)'
      <3>1. CASE j = i
        BY <1>1, <1>2, <3>1 DEF Holds, Open
      <3>2. CASE j # i
        <4>1. item'[j] = item[j] /\ Holds(j)
          BY <1>1, <2>1, <3>2 DEF QuotaInv, UnresolvedHolds
        <4>2. item[j].attempt \in Attempt /\ item[j].attempt # made + 1 /\ item[j].attempt \in 1..made'
          BY <1>1, <1>2, <4>1 DEF Holds, Attempt
        <4> QED BY <1>1, <4>1, <4>2 DEF Holds
      <3> QED BY <3>1, <3>2
    <2> QED BY <2>1 DEF UnresolvedHolds
  <1>9. ExecutorCarries'
    BY <1>1, <1>5 DEF ExecutorCarries
  <1>10. CountedWasApplied'
    BY <1>3 DEF QuotaInv, CountedWasApplied, hh
  <1>11. CountedOnce'
    BY <1>1, <1>3 DEF QuotaInv, CountedOnce, Recorded
  <1> QED BY <1>6, <1>7, <1>8, <1>9, <1>10, <1>11 DEF QuotaInv

\* What only moves items: recovery, and retries that fall due.
LEMMA QueueInv ==
    ASSUME QuotaAssumption, QuotaInv, Recover \/ \E i \in Item : ActivateDueRetry(i)
    PROVE  QuotaInv'
  <1>1. exec = Idle /\ UNCHANGED <<clock, run, exec, made, slot, blocked, hh, synced>>
    BY DEF Recover, ActivateDueRetry
  <1>2. item' \in [Item -> ItemRecord] /\ UnresolvedHolds'
    <2>1. CASE Recover
      <3>1. \A j \in Item :
              item'[j] = IF Stale(j) THEN [item[j] EXCEPT !.state = "reconciling", !.at = now]
                                     ELSE item[j]
        BY <2>1 DEF Recover
      <3>2. ASSUME NEW j \in Item PROVE item'[j] \in ItemRecord /\ item'[j].attempt = item[j].attempt
        <4>1. item[j] \in ItemRecord /\ now \in Nat
          BY DEF QuotaInv, TypeOK, ItemRecord, Time, QuotaAssumption
        <4>2. CASE Stale(j)
          BY <3>1, <4>1, <4>2 DEF ItemRecord
        <4>3. CASE ~Stale(j)
          BY <3>1, <4>1, <4>3
        <4> QED BY <4>2, <4>3
      <3>3. item' \in [Item -> ItemRecord]
        BY <2>1, <3>2 DEF Recover
      <3>4. ASSUME NEW j \in Item, item'[j].state \in {"applying", "reconciling"} PROVE Holds(j)'
        <4>1. Holds(j)
          BY <3>1, <3>4 DEF Stale, QuotaInv, UnresolvedHolds
        <4> QED BY <1>1, <3>2, <4>1 DEF Holds
      <3> QED BY <3>3, <3>4 DEF UnresolvedHolds
    <2>2. ASSUME NEW i \in Item, ActivateDueRetry(i)
          PROVE  item' \in [Item -> ItemRecord] /\ UnresolvedHolds'
      <3>1. /\ item' \in [Item -> ItemRecord] /\ item'[i].state = "ready"
            /\ \A j \in Item \ {i} : item'[j] = item[j]
        BY <2>2, ItemShapes DEF ActivateDueRetry, Settles, QuotaInv
      <3> QED BY <1>1, <3>1 DEF QuotaInv, UnresolvedHolds, Holds
    <2> QED BY <2>1, <2>2
  <1>3. TypeOK'
    BY <1>1, <1>2 DEF QuotaInv, TypeOK, ItemRecord, clock, hh
  <1>4. ExecutorCarries'
    BY <1>1 DEF ExecutorCarries, Idle
  <1> QED BY <1>1, <1>2, <1>3, <1>4
          DEF QuotaInv, SlotsInOrder, CountedWasApplied, CountedOnce, Recorded, hh

\* Steps that write no row: processes start and die, HH answers, the candidate
\* applies by hand, time passes and the timezone changes.
Rowless ==
    \/ StartRun \/ Crash \/ DispatchRefused \/ Accept \/ Decline \/ NameLimit
    \/ Tick \/ ChangeTimezone
    \/ \E i \in Item : BeginExecute(i) \/ ApplyExternally(i)

LEMMA RowlessInv == ASSUME QuotaAssumption, QuotaInv, Rowless PROVE QuotaInv'
  <1>1. UNCHANGED <<item, made, slot, blocked, told, synced>>
    BY DEF Rowless, StartRun, Crash, DispatchRefused, Accept, Decline, NameLimit, Tick,
           ChangeTimezone, BeginExecute, ApplyExternally, hh
  <1>2. now' \in Time /\ zone' \in Zone /\ run' \in 0..MaxRun
    <2>1. now \in Time /\ zone \in Zone /\ run \in 0..MaxRun /\ MaxTime \in Nat /\ MaxRun \in Nat
      BY DEF QuotaInv, TypeOK, QuotaAssumption
    <2>2. CASE StartRun
      BY <2>1, <2>2 DEF StartRun, clock
    <2>3. CASE Tick
      BY <2>1, <2>3 DEF Tick, Time
    <2>4. CASE ChangeTimezone
      BY <2>1, <2>4 DEF ChangeTimezone
    <2>5. CASE ~(StartRun \/ Tick \/ ChangeTimezone)
      BY <2>1, <2>5 DEF Rowless, Crash, DispatchRefused, Accept, Decline, NameLimit,
         BeginExecute, ApplyExternally, clock
    <2> QED BY <2>2, <2>3, <2>4, <2>5
  <1>3. /\ applied' \in [Item -> Time \cup {Never}]
        /\ \A j \in Item : applied[j] # Never => applied'[j] # Never
    <2>1. applied \in [Item -> Time \cup {Never}] /\ now \in Time /\ now # Never
      BY DayType DEF QuotaInv, TypeOK, Time, QuotaAssumption, Never
    <2>2. CASE Accept
      BY <2>1, <2>2 DEF Accept
    <2>3. ASSUME NEW j \in Item, ApplyExternally(j)
          PROVE  applied' = [applied EXCEPT ![j] = now]
      BY <2>3 DEF ApplyExternally
    <2>4. CASE UNCHANGED applied
      BY <2>1, <2>4
    <2> QED BY <2>1, <2>2, <2>3, <2>4
            DEF Rowless, StartRun, Crash, DispatchRefused, Decline, NameLimit, Tick,
                ChangeTimezone, BeginExecute, hh
  <1>4. exec' \in ExecRecord /\ ExecutorCarries'
    <2>1. /\ exec \in ExecRecord /\ Idle \in ExecRecord /\ 0 \in Time
          /\ exec.pc # "idle" => exec.item \in Item
      <3>1. 0 \in Time
        BY DEF Time, QuotaAssumption
      <3> QED BY <3>1 DEF QuotaInv, TypeOK, ExecRecord, ExecutorCarries, Idle
    <2>2. CASE Crash \/ DispatchRefused
      BY <2>1, <2>2 DEF Crash, DispatchRefused, ExecutorCarries, Idle
    <2>3. ASSUME NEW i \in Item, BeginExecute(i) PROVE exec' \in ExecRecord /\ ExecutorCarries'
      <3>1. exec' = [pc |-> "rendering", item |-> i, seen |-> now, answer |-> "none", wait |-> 0]
        BY <2>3 DEF BeginExecute, Idle
      <3>2. exec' \in ExecRecord
        BY <3>1 DEF ExecRecord, QuotaInv, TypeOK
      <3>3. made < MaxAttempt /\ made' = made
        BY <1>1, <2>3 DEF BeginExecute
      <3>4. exec'.pc = "rendering" /\ exec'.item = i /\ exec'.answer = "none"
        BY <3>1
      <3> QED BY <3>2, <3>3, <3>4 DEF ExecutorCarries
    <2>4. CASE Accept \/ Decline \/ NameLimit
      <3>1. exec.pc = "posting" /\ exec.item \in Item /\ item[exec.item].state = "applying"
        BY <2>4 DEF Accept, Decline, NameLimit, QuotaInv, ExecutorCarries
      <3>2. PICK answer \in {"accepted", "refused", "duplicate", "rate_limited", "hh_daily_limit"},
                 wait \in Wait \cup {0} : exec' = [exec EXCEPT !.answer = answer, !.wait = wait]
        BY <2>4 DEF Accept, Decline, NameLimit, Answers
      <3>3. /\ exec' \in ExecRecord /\ exec'.pc = "posting" /\ exec'.item = exec.item
            /\ exec'.answer = answer
        BY <2>1, <3>1, <3>2 DEF ExecRecord
      <3>4. answer = "accepted" => synced[exec.item] = Never
        <4>1. CASE Accept
          BY <3>1, <4>1 DEF Accept, QuotaInv, CountedWasApplied
        <4>2. CASE Decline \/ NameLimit
          <5>1. exec'.answer # "accepted"
            BY <2>1, <4>2 DEF Decline, NameLimit, Answers, ExecRecord
          <5> QED BY <3>3, <5>1
        <4> QED BY <2>4, <4>1, <4>2
      <3> QED BY <1>1, <3>1, <3>3, <3>4 DEF ExecutorCarries
    <2>5. CASE UNCHANGED exec
      BY <1>1, <2>1, <2>5 DEF QuotaInv, ExecutorCarries
    <2> QED BY <2>2, <2>3, <2>4, <2>5
            DEF Rowless, StartRun, Tick, ChangeTimezone, ApplyExternally
  <1>5. TypeOK'
    BY <1>1, <1>2, <1>3, <1>4 DEF QuotaInv, TypeOK, ExecRecord
  <1> QED BY <1>1, <1>3, <1>4, <1>5
          DEF QuotaInv, SlotsInOrder, UnresolvedHolds, Holds, CountedWasApplied, CountedOnce,
              Recorded

\* Every step keeps the invariant.
LEMMA NextInv == ASSUME QuotaAssumption, QuotaInv, [Next]_vars PROVE QuotaInv'
  <1>1. CASE Rowless
    BY <1>1, RowlessInv
  <1>2. CASE Settling
    BY <1>2, SettlingInv
  <1>3. CASE PrepareDispatch
    BY <1>3, PrepareInv
  <1>4. CASE Recover \/ \E i \in Item : ActivateDueRetry(i)
    BY <1>4, QueueInv
  <1>5. CASE \E i \in Item : Reconcile(i)
    BY <1>5, ReconcileInv
  <1>6. CASE UNCHANGED vars
    BY <1>6 DEF vars, clock, hh, QuotaInv, TypeOK, SlotsInOrder, UnresolvedHolds, Holds,
                ExecutorCarries, CountedWasApplied, CountedOnce, Recorded
  <1> QED BY <1>1, <1>2, <1>3, <1>4, <1>5, <1>6 DEF Next, Rowless

\* The books of the quota hold between any two steps, whatever dies.
THEOREM QuotaInductive == ASSUME QuotaAssumption PROVE Spec => []QuotaInv
  BY InitInv, NextInv, PTL DEF Spec

\* One application of HH never costs two slots, when the answer named its
\* negotiation (finalize_external_application).
THEOREM NothingCountsTwice == ASSUME QuotaAssumption PROVE Spec => []CountedOnce
  <1>1. QuotaInv => CountedOnce
    BY DEF QuotaInv
  <1> QED BY <1>1, QuotaInductive, PTL
------------------------------------------------------------------------------
(* The budget of a date *)

\* The rows that a step of the quota changes, as the budget sees them.
LEMMA BudgetRests ==
    ASSUME \A d : Taken(d)' = Taken(d), UNCHANGED synced
    PROVE  UNCHANGED Budget!vars
  BY DEF Budget!vars, Outside

\* Taking a slot is refused at the limit, and takes one from the executor's date.
LEMMA PrepareTakes ==
    ASSUME QuotaAssumption, QuotaInv, PrepareDispatch
    PROVE  \E d \in Day : Budget!Take(d)
  <1>1. PICK d \in Day : d = Date(exec.seen)
    BY PrepareShape
  <1>2. Taken(d) + Outside(d) < DailyLimit /\ UNCHANGED synced
    BY <1>1 DEF PrepareDispatch, DayCount
  <1>3. /\ Taken(d)' = Taken(d) + 1
        /\ \A e : e # d => Taken(e)' = Taken(e)
    BY <1>1, PrepareShape, OneTaken
  <1>4. [e \in Day |-> Taken(e)]' = [[e \in Day |-> Taken(e)] EXCEPT ![d] = @ + 1]
    BY <1>3
  <1>5. [e \in Day |-> Outside(e)]' = [e \in Day |-> Outside(e)]
    BY <1>2 DEF Outside
  <1> QED BY <1>2, <1>4, <1>5 DEF Budget!Take

\* Settling an item keeps its slot or gives it back to the date it was taken from.
LEMMA SettledGives ==
    ASSUME QuotaAssumption, QuotaInv, NEW i \in Item, Holds(i), Settled(i)
    PROVE  \/ \A d : Taken(d)' = Taken(d)
           \/ \E d \in Day : /\ Taken(d) > 0
                           /\ Taken(d)' = Taken(d) - 1
                           /\ \A e : e # d => Taken(e)' = Taken(e)
  <1>1. PICK a \in Attempt : a = item[i].attempt /\ slot[a].state \in Counted /\ slot[a].date \in Day
    BY DEF Holds, QuotaInv, TypeOK, Attempt, QuotaAssumption, Open, Counted
  <1>2. CASE slot'[a].state = "released"
    <2>1. PICK d \in Day : d = slot[a].date
      BY <1>1
    <2> QED BY <1>1, <1>2, <2>1, OneGiven DEF Settled
  <1>3. CASE slot'[a].state # "released"
    <2>1. \A b \in Attempt :
             /\ slot'[b].state \in Counted <=> slot[b].state \in Counted
             /\ slot[b].state \in Counted => slot'[b].date = slot[b].date
      BY <1>1, <1>3 DEF Settled, Counted
    <2> QED BY <2>1, NothingTaken
  <1> QED BY <1>2, <1>3

\* What settling does to the budget when nothing is found that was applied to
\* by hand.
LEMMA SettledIsGiven ==
    ASSUME QuotaAssumption, QuotaInv, NEW i \in Item, Holds(i), Settled(i), UNCHANGED synced
    PROVE  [Budget!Next]_(Budget!vars)
  <1>1. CASE \A d : Taken(d)' = Taken(d)
    BY <1>1, BudgetRests
  <1>2. ASSUME NEW d \in Day, Taken(d) > 0, Taken(d)' = Taken(d) - 1,
               \A e : e # d => Taken(e)' = Taken(e)
        PROVE  Budget!Give(d)
    <2>1. [e \in Day |-> Taken(e)]' = [[e \in Day |-> Taken(e)] EXCEPT ![d] = @ - 1]
      BY <1>2
    <2>2. [e \in Day |-> Outside(e)]' = [e \in Day |-> Outside(e)]
      BY DEF Outside
    <2> QED BY <1>2, <2>1, <2>2 DEF Budget!Give
  <1> QED BY <1>1, <1>2, SettledGives DEF Budget!Next

\* A reconciliation gives a slot back, and may count what it found.
LEMMA ReconcileIsBudgetStep ==
    ASSUME QuotaAssumption, QuotaInv, NEW i \in Item, Reconcile(i)
    PROVE  [Budget!Next]_(Budget!vars)
  <1>1. Holds(i) /\ Settled(i)
    BY ReconcileShape
  <1>2. CASE UNCHANGED synced
    BY <1>1, <1>2, SettledIsGiven
  <1>3. CASE synced' # synced
    <2>1. PICK j \in Item, e \in Day :
             synced' = [synced EXCEPT ![j] = e] /\ synced[j] = Never /\ e # Never
      BY <1>3, SyncShape
    <2>2. /\ Outside(e)' = Outside(e) + 1
          /\ \A d : d # e /\ d # Never => Outside(d)' = Outside(d)
      <3>1. synced \in [Item -> Day \cup {Never}]
        BY DEF QuotaInv, TypeOK
      <3> QED BY <2>1, <3>1, OneOutside
    <2>3. \A d \in Day : d # Never
      BY DaysAreNumbers
    <2>4. PICK a \in Attempt :
            a = item[i].attempt /\ slot[a].state \in Counted /\ slot[a].date \in Day
      BY <1>1 DEF Holds, QuotaInv, TypeOK, Attempt, QuotaAssumption, Open, Counted
    <2>5. PICK d \in Day : d = slot[a].date
      BY <2>4
    <2>6. slot'[a].state = "released"
      BY <1>3, <2>4 DEF Reconcile, ReconcileApplied, ReconcileExternal, ReconcileAbsent, Settle,
                        QuotaInv, TypeOK
    <2>7. Taken(d) > 0 /\ Taken(d)' = Taken(d) - 1 /\ \A c : c # d => Taken(c)' = Taken(c)
      BY <1>1, <2>4, <2>5, <2>6, OneGiven DEF Settled
    <2>8. [c \in Day |-> Taken(c)]' = [[c \in Day |-> Taken(c)] EXCEPT ![d] = @ - 1]
      BY <2>7
    <2>9. [c \in Day |-> Outside(c)]' = [[c \in Day |-> Outside(c)] EXCEPT ![e] = @ + 1]
      BY <2>2, <2>3
    <2>10. Budget!GiveAndOutside(d, e)
      BY <2>7, <2>8, <2>9 DEF Budget!GiveAndOutside
    <2> QED BY <2>10 DEF Budget!Next
  <1> QED BY <1>2, <1>3

\* Every step of the quota is a step of the budget or changes nothing of it.
LEMMA StepIsBudgetStep ==
    ASSUME QuotaAssumption, QuotaInv, [Next]_vars
    PROVE  [Budget!Next]_(Budget!vars)
  <1>1. CASE UNCHANGED <<slot, synced>>
    BY <1>1 DEF Budget!vars, Taken, Outside
  <1>2. CASE Settling
    <2>1. CASE FinalizeRaises
      BY <1>1, <2>1 DEF FinalizeRaises
    <2>2. CASE ~FinalizeRaises
      <3>1. exec.item \in Item /\ Holds(exec.item) /\ Settled(exec.item) /\ UNCHANGED synced
        BY <1>2, <2>2, SettlingShape
      <3> QED BY <3>1, SettledIsGiven
    <2> QED BY <2>1, <2>2
  <1>3. CASE PrepareDispatch
    BY <1>3, PrepareTakes DEF Budget!Next
  <1>4. ASSUME NEW i \in Item, Reconcile(i) PROVE [Budget!Next]_(Budget!vars)
    BY <1>4, ReconcileIsBudgetStep
  <1>5. CASE Rowless
    BY <1>1, <1>5 DEF Rowless, StartRun, Crash, DispatchRefused, Accept, Decline, NameLimit, Tick,
           ChangeTimezone, BeginExecute, ApplyExternally, hh
  <1>6. CASE Recover \/ \E i \in Item : ActivateDueRetry(i)
    BY <1>1, <1>6 DEF Recover, ActivateDueRetry
  <1>7. CASE UNCHANGED vars
    BY <1>1, <1>7 DEF vars
  <1> QED BY <1>2, <1>3, <1>4, <1>5, <1>6, <1>7 DEF Next, Rowless

\* The reservations implement a budget per local date: dispatches never
\* overshoot it, whatever was released, decided days later or applied by hand,
\* and however often the timezone changes (_reserve_quota_for_update,
\* finalize_external_application).
THEOREM Implements == ASSUME QuotaAssumption PROVE Spec => ImplementsDayBudget
  <1>1. Init => Budget!Init
    <2> SUFFICES ASSUME Init PROVE Budget!Init
      OBVIOUS
    <2>1. ASSUME NEW d PROVE Taken(d) = 0
      <3>1. TakenAt(d) = {}
        BY DEF TakenAt, Init, NoSlot, Counted
      <3> QED BY <3>1, FS_EmptySet DEF Taken, TakenAt
    <2>2. ASSUME NEW d \in Day PROVE Outside(d) = 0
      <3>1. OutsideAt(d) = {}
        BY DaysAreNumbers DEF OutsideAt, Init
      <3> QED BY <3>1, FS_EmptySet DEF Outside, OutsideAt
    <2> QED BY <2>1, <2>2 DEF Budget!Init
  <1>2. QuotaInv /\ [Next]_vars => [Budget!Next]_(Budget!vars)
    BY StepIsBudgetStep
  <1> QED BY <1>1, <1>2, QuotaInductive, PTL DEF Spec, Budget!Spec, ImplementsDayBudget

\* No date ever has more slots than the limit: reserved, held and consumed ones
\* together, the ones of earlier runs and of other timezones included.
SlotsWithinLimit == \A d \in Day : Taken(d) <= DailyLimit

\* No date overshoots its limit: the refinement, read as an invariant
\* (_reserve_quota_for_update).
THEOREM LimitHolds == ASSUME QuotaAssumption PROVE Spec => []SlotsWithinLimit
  <1>1. \A d : Taken(d) \in Nat /\ Outside(d) \in Nat
    BY CountsAreNumbers
  <1>2. DailyLimit \in Nat
    BY DEF QuotaAssumption
  <1>3. Init => SlotsWithinLimit
    <2>1. ASSUME Init, NEW d PROVE Taken(d) = 0
      <3>1. TakenAt(d) = {}
        BY <2>1 DEF TakenAt, Init, NoSlot, Counted
      <3> QED BY <3>1, FS_EmptySet DEF Taken, TakenAt
    <2> QED BY <1>2, <2>1 DEF SlotsWithinLimit
  <1>4. SlotsWithinLimit /\ [Budget!Next]_(Budget!vars) => SlotsWithinLimit'
    <2> SUFFICES ASSUME SlotsWithinLimit, [Budget!Next]_(Budget!vars), NEW d \in Day
                 PROVE  Taken(d)' <= DailyLimit
      BY DEF SlotsWithinLimit
    <2>1. [e \in Day |-> Taken(e)]'[d] = Taken(d)'
      OBVIOUS
    <2>2. Taken(d) <= DailyLimit
      BY DEF SlotsWithinLimit
    <2>3. ASSUME NEW e \in Day, Budget!Take(e) PROVE Taken(d)' <= DailyLimit
      <3>1. [c \in Day |-> Taken(c)]' = [[c \in Day |-> Taken(c)] EXCEPT ![e] = @ + 1]
        BY <2>3 DEF Budget!Take
      <3>2. Taken(e) + Outside(e) < DailyLimit
        BY <2>3 DEF Budget!Take
      <3>3. Taken(d)' = IF d = e THEN Taken(d) + 1 ELSE Taken(d)
        BY <2>1, <3>1
      <3> QED BY <1>1, <1>2, <2>2, <3>2, <3>3
    <2>4. ASSUME NEW e \in Day, Budget!Give(e) \/ \E c \in Day : Budget!GiveAndOutside(e, c)
          PROVE  Taken(d)' <= DailyLimit
      <3>1. [c \in Day |-> Taken(c)]' = [[c \in Day |-> Taken(c)] EXCEPT ![e] = @ - 1]
        BY <2>4 DEF Budget!Give, Budget!GiveAndOutside
      <3>2. Taken(d)' = IF d = e THEN Taken(d) - 1 ELSE Taken(d)
        BY <2>1, <3>1
      <3> QED BY <1>1, <1>2, <2>2, <3>2
    <2>5. CASE UNCHANGED Budget!vars
      BY <2>1, <2>2, <2>5 DEF Budget!vars
    <2> QED BY <2>3, <2>4, <2>5 DEF Budget!Next
  <1>5. QuotaInv /\ [Next]_vars => [Budget!Next]_(Budget!vars)
    BY StepIsBudgetStep
  <1> QED BY <1>3, <1>4, <1>5, QuotaInductive, PTL DEF Spec
------------------------------------------------------------------------------
(* The wait HH asked for *)

\* The account is blocked at least as long as HH asked, counted from the entry
\* of the executor, unless HH asked on the last try of an item.
WaitIsKept == ~told.last => blocked >= told.dated

\* The policy never waits for less than HH asked for (Retry-After, the next day,
\* or at least one tick).
LEMMA PolicyWaitsLongEnough ==
    ASSUME QuotaAssumption, TypeOK PROVE RetryAt >= WaitFrom(exec.seen)
  <1>1. exec.seen \in Nat /\ exec.wait \in Nat /\ Backoff \in Nat \ {0}
    <2>1. exec.seen \in Time /\ exec.wait \in Wait \cup {0}
      BY DEF TypeOK
    <2>2. Wait \subseteq Nat \ {0} /\ MaxTime \in Nat /\ Backoff \in Nat \ {0}
      BY DEF QuotaAssumption
    <2>3. exec.wait \in Nat
      <3>1. CASE exec.wait \in Wait
        BY <2>2, <3>1
      <3>2. CASE exec.wait = 0
        BY <3>2
      <3> QED BY <2>1, <3>1, <3>2
    <2> QED BY <2>1, <2>2, <2>3 DEF Time
  <1>2. NextLocalDay(exec.seen) \in Nat
    BY <1>1, DateType DEF TypeOK
  <1>3. CASE exec.answer = "hh_daily_limit" /\ exec.wait = 0
    BY <1>2, <1>3 DEF RetryAt, WaitFrom
  <1>4. CASE ~(exec.answer = "hh_daily_limit" /\ exec.wait = 0)
    BY <1>1, <1>4 DEF RetryAt, WaitFrom
  <1> QED BY <1>3, <1>4

\* Only an answer that names a limit moves the end of the wait, and only the
\* transaction that stores it.
LEMMA WaitStep ==
    ASSUME QuotaAssumption, QuotaInv, WaitIsKept, [Next]_vars
    PROVE  WaitIsKept'
  <1>1. CASE FinalizeLimited
    <2>1. told'.dated = WaitFrom(exec.seen) /\ blocked' = RetryAt
      BY <1>1 DEF FinalizeLimited, HHWaits
    <2>2. RetryAt >= WaitFrom(exec.seen)
      BY PolicyWaitsLongEnough DEF QuotaInv
    <2> QED BY <2>1, <2>2 DEF WaitIsKept
  <1>2. CASE FinalizeRaises
    <2>1. exec.wait \in Nat /\ MaxTries \in Nat /\ item[exec.item].tries \in Nat
      <3>1. exec.wait \in Wait \cup {0} /\ Wait \cup {0} \subseteq Nat
        BY DEF QuotaInv, TypeOK, QuotaAssumption
      <3>2. item[exec.item] \in ItemRecord
        BY <1>2 DEF FinalizeRaises, QuotaInv, TypeOK, ExecutorCarries, ItemRecord
      <3> QED BY <3>1, <3>2 DEF QuotaAssumption, ItemRecord
    <2>2. OnLastTry
      BY <1>2, <2>1 DEF FinalizeRaises, HasInstant, OnLastTry
    <2> QED BY <1>2, <2>2 DEF FinalizeRaises, HHWaits, WaitIsKept
  <1>3. CASE ~(FinalizeLimited \/ FinalizeRaises)
    <2>1. UNCHANGED <<blocked, told>>
      BY <1>3 DEF Next, StartRun, Crash, Recover, ActivateDueRetry, BeginExecute, Reconcile,
         ReconcileApplied, ReconcileExternal, ReconcileAbsent, ApplyExternally,
         PrepareDispatch, DispatchRefused, Accept, Decline, NameLimit, Settling,
         FinalizeApplied, RecordPossiblySent, FinalizeRefused, Tick, ChangeTimezone, vars, hh
    <2> QED BY <2>1 DEF WaitIsKept
  <1> QED BY <1>1, <1>2, <1>3

\* Only prepare_dispatch makes an attempt, and not before the account is free.
LEMMA OnlyPrepareMakes ==
    ASSUME QuotaAssumption, QuotaInv, WaitIsKept, [Next]_vars PROVE [OnlyLastTryForgetsLimit]_vars
  <1> SUFFICES ASSUME made' > made, ~told.last PROVE exec.seen >= told.dated
    BY DEF OnlyLastTryForgetsLimit
  <1>1. PrepareDispatch
    <2>1. made \in Nat
      BY DEF QuotaInv, TypeOK
    <2>2. ASSUME ~PrepareDispatch PROVE made' = made
      BY <2>2 DEF Next, StartRun, Crash, Recover, ActivateDueRetry, BeginExecute,
         Reconcile, ReconcileApplied, ReconcileExternal, ReconcileAbsent, ApplyExternally,
         DispatchRefused, Accept, Decline, NameLimit, Settling, FinalizeApplied,
         RecordPossiblySent, FinalizeRefused, FinalizeLimited, FinalizeRaises, Tick,
         ChangeTimezone, vars
    <2> QED BY <2>1, <2>2
  <1>2. /\ ~(blocked > exec.seen) /\ blocked >= told.dated
        /\ blocked \in Nat /\ exec.seen \in Nat /\ told.dated \in Nat
    <2>1. TypeOK /\ exec.seen \in Time /\ MaxTime \in Nat
      BY DEF QuotaInv, TypeOK, QuotaAssumption
    <2>2. exec.seen \in Nat
      BY <2>1 DEF Time
    <2>3. blocked \in Nat /\ told.dated \in Nat
      BY <2>1 DEF TypeOK
    <2> QED BY <1>1, <2>2, <2>3 DEF PrepareDispatch, CoolingDown, WaitIsKept
  <1> QED BY <1>2

\* Once the process knows of a limit, nothing is dispatched for as long as HH
\* asked for, through restarts, across midnight and changes of the timezone.  The
\* one exception is an answer on the last try of an item that is no plain limit
\* of the day: there finalize_definite_failure raises and the account stays open.
THEOREM OnlyLastTriesForget ==
    ASSUME QuotaAssumption PROVE Spec => [][OnlyLastTryForgetsLimit]_vars
  <1>1. Init => WaitIsKept
    BY DEF Init, WaitIsKept
  <1>2. QuotaInv /\ WaitIsKept /\ [Next]_vars => WaitIsKept'
    BY WaitStep
  <1>3. QuotaInv /\ WaitIsKept /\ [Next]_vars => [OnlyLastTryForgetsLimit]_vars
    BY OnlyPrepareMakes
  <1> QED BY <1>1, <1>2, <1>3, QuotaInductive, PTL DEF Spec
------------------------------------------------------------------------------
(* Authorization: grants, the file and the memory of the processes. *)

\* A grant lives only on the operator's word: whatever withdraws the word
\* revokes the grant in the same transaction.
GrantHasWord == grant.gen # 0 => authWord = "on"

\* Nothing shows a generation that was not created yet, so a new one starts
\* without a projection.
NothingAhead ==
    /\ grant.gen <= high /\ authFile.gen <= high /\ authMem.gen <= high
    /\ \A a \in Admin : op[a].gen <= high

\* A generation comes to the file through its own enable, and to the memory of
\* a process through the file.
ReadWasShown ==
    /\ authFile.gen # 0 => authFile.gen \in shown
    /\ authMem.gen # 0 => authMem.gen \in shown

\* The books of authority: what the rows, the file and the memory of the run's
\* process say of one another between any two steps of any command.
AuthInv ==
    /\ Auth!TypeOK
    /\ Auth!NoGrantUnderKill
    /\ GrantHasWord
    /\ NothingAhead
    /\ ReadWasShown
------------------------------------------------------------------------------
\* At first there is no grant, and the file and every process say so.
LEMMA AuthStarts == ASSUME Auth!AuthorizationAssumption, Auth!Init PROVE AuthInv
  <1>1. PICK p \in Policy :
            /\ grant = Auth!NoGrant(p) /\ op = [a \in Admin |-> Auth!Quiet(p)] /\ authRun = Auth!NoRun(p)
            /\ authFile = [enabled |-> FALSE, gen |-> 0, paused |-> FALSE, policy |-> p]
            /\ authMem = authFile
    BY DEF Auth!Init
  <1>2. high = 0 /\ kill = {} /\ pause = FALSE /\ authEdits = 0 /\ authWord = "off" /\ shown = {}
    BY DEF Auth!Init
  <1>3. 0 \in Auth!Generation /\ 0 \in 0..MaxEdit
    BY DEF Auth!AuthorizationAssumption, Auth!Generation
  <1>4. authFile \in Auth!Entry /\ authMem \in Auth!Entry
    BY <1>1, <1>3 DEF Auth!Entry
  <1>5. Auth!TypeOK
    BY <1>1, <1>2, <1>3, <1>4 DEF Auth!TypeOK, Auth!NoGrant, Auth!Quiet, Auth!NoRun
  <1>6. Auth!NoGrantUnderKill /\ GrantHasWord /\ NothingAhead /\ ReadWasShown
    BY <1>1, <1>2 DEF Auth!NoGrantUnderKill, GrantHasWord, NothingAhead, ReadWasShown,
       Auth!NoGrant, Auth!Quiet
  <1> QED BY <1>5, <1>6 DEF AuthInv

\* The shapes that steps write: a command's progress, a revoked grant, a stopped
\* run, and a changed entry of the file.
Stage == {"idle", "grant", "project", "confirm", "undo", "hide", "mark"}
Work == [pc : Stage, gen : Auth!Generation, policy : Policy, paused : BOOLEAN]

LEMMA AuthShapes ==
    ASSUME Auth!AuthorizationAssumption, Auth!TypeOK
    PROVE  /\ Auth!Revoked \in [gen : Auth!Generation, policy : Policy]
           /\ Auth!Stopped \in [pc : {"none", "begun", "live", "prepared"}, gen : Auth!Generation,
                           policy : Policy, stop : BOOLEAN]
           /\ \A p \in Policy : Auth!NoRun(p) \in
                 [pc : {"none", "begun", "live", "prepared"}, gen : Auth!Generation,
                  policy : Policy, stop : BOOLEAN]
           /\ op \in [Admin -> Work]
           /\ \A a \in Admin : /\ op[a] \in Work /\ op[a].policy \in Policy
                              /\ op[a].gen \in Auth!Generation
  <1>1. 0 \in Auth!Generation
    BY DEF Auth!AuthorizationAssumption, Auth!Generation
  <1>2. (authRun.pc # "none") \in BOOLEAN
    OBVIOUS
  <1>3. Auth!Revoked \in [gen : Auth!Generation, policy : Policy]
    BY <1>1 DEF Auth!TypeOK, Auth!Revoked
  <1>4. Auth!Stopped \in [pc : {"none", "begun", "live", "prepared"}, gen : Auth!Generation,
                     policy : Policy, stop : BOOLEAN]
    BY <1>2 DEF Auth!TypeOK, Auth!Stopped
  <1>5. op \in [Admin -> Work]
    BY DEF Auth!TypeOK, Work, Stage
  <1>6. ASSUME NEW a \in Admin
        PROVE  op[a] \in Work /\ op[a].policy \in Policy /\ op[a].gen \in Auth!Generation
    BY <1>5 DEF Work
  <1> QED BY <1>1, <1>3, <1>4, <1>5, <1>6 DEF Auth!NoRun

\* A command goes on to a stage, or ends.
LEMMA CommandShapes ==
    ASSUME Auth!AuthorizationAssumption, Auth!TypeOK, NEW a \in Admin
    PROVE  /\ \A pc \in Stage : [op EXCEPT ![a].pc = pc] \in [Admin -> Work]
           /\ \A policy \in Policy : [op EXCEPT ![a].policy = policy] \in [Admin -> Work]
           /\ \A pc \in Stage, gen \in Auth!Generation :
                 [op EXCEPT ![a].pc = pc, ![a].gen = gen] \in [Admin -> Work]
           /\ \A pc \in Stage, paused \in BOOLEAN :
                 [op EXCEPT ![a].pc = pc, ![a].paused = paused] \in [Admin -> Work]
           /\ [op EXCEPT ![a] = Auth!Quiet(@.policy)] \in [Admin -> Work]
  <1>1. op \in [Admin -> Work] /\ op[a] \in Work
    BY AuthShapes
  <1>2. 0 \in Auth!Generation
    BY DEF Auth!AuthorizationAssumption, Auth!Generation
  <1>3. Auth!Quiet(op[a].policy) \in Work
    BY <1>1, <1>2 DEF Auth!Quiet, Work, Stage
  <1>4. \A pc \in Stage : [op[a] EXCEPT !.pc = pc] \in Work
    BY <1>1 DEF Work
  <1>5. \A policy \in Policy : [op[a] EXCEPT !.policy = policy] \in Work
    BY <1>1 DEF Work
  <1>6. \A pc \in Stage, gen \in Auth!Generation :
           [op[a] EXCEPT !.pc = pc, !.gen = gen] \in Work
    BY <1>1 DEF Work
  <1>7. \A pc \in Stage, paused \in BOOLEAN :
           [op[a] EXCEPT !.pc = pc, !.paused = paused] \in Work
    BY <1>1 DEF Work
  <1>8. \A w \in Work : [op EXCEPT ![a] = w] \in [Admin -> Work]
    BY <1>1
  <1> QED BY <1>1, <1>3, <1>4, <1>5, <1>6, <1>7, <1>8

\* A process that starts only takes grants back.
LEMMA AuthReconciles ==
    ASSUME Auth!AuthorizationAssumption, AuthInv, Auth!Reconcile,
           UNCHANGED <<high, kill, pause, authFile, Auth!history>>,
           authMem' \in {authMem, authFile},
           \/ UNCHANGED op
           \/ \E a \in Admin : op' = [op EXCEPT ![a].policy = authFile.policy]
    PROVE  AuthInv'
  <1> USE DEF AuthInv, Auth!history, Auth!Reconcile
  <1>1. op' \in [Admin -> Work]
    <2>1. authFile.policy \in Policy
      BY DEF Auth!TypeOK, Auth!Entry
    <2>2. ASSUME NEW a \in Admin, op' = [op EXCEPT ![a].policy = authFile.policy]
          PROVE  op' \in [Admin -> Work]
      BY <2>1, <2>2, CommandShapes
    <2> QED BY <2>2, AuthShapes
  <1>2. Auth!TypeOK'
    BY <1>1, AuthShapes DEF Auth!TypeOK, Work, Stage
  <1>3. Auth!NoGrantUnderKill' /\ GrantHasWord'
    BY DEF Auth!NoGrantUnderKill, GrantHasWord, Auth!TypeOK, Auth!Revoked
  <1>4. NothingAhead'
    BY DEF NothingAhead, Auth!TypeOK, Auth!Revoked, Auth!AuthorizationAssumption, Auth!Generation
  <1>5. ReadWasShown'
    BY DEF ReadWasShown
  <1> QED BY <1>2, <1>3, <1>4, <1>5

\* Stages of a command that touch neither rows nor file.
LEMMA StageKeeps ==
    ASSUME Auth!AuthorizationAssumption, AuthInv, NEW a \in Admin,
           \/ \E pc \in Stage : Auth!Goes(a, pc)
           \/ Auth!Ends(a),
           UNCHANGED <<Auth!db, authFile, authMem, authRun, Auth!history>>
    PROVE  AuthInv'
  <1> USE DEF AuthInv, Auth!db, Auth!history, Auth!Goes, Auth!Ends
  <1>1. Auth!TypeOK'
    <2>1. op' \in [Admin -> Work]
      BY CommandShapes
    <2> QED BY <2>1 DEF Auth!TypeOK, Work, Stage
  <1>2. NothingAhead'
    BY DEF NothingAhead, Auth!TypeOK, Auth!Quiet, Auth!AuthorizationAssumption, Auth!Generation
  <1>3. Auth!NoGrantUnderKill' /\ GrantHasWord' /\ ReadWasShown'
    BY DEF Auth!NoGrantUnderKill, GrantHasWord, ReadWasShown
  <1> QED BY <1>1, <1>2, <1>3

\* The command that enables, one step at a time.
LEMMA EnableKeeps ==
    ASSUME Auth!AuthorizationAssumption, AuthInv, NEW a \in Admin,
           \/ Auth!BeginEnable(a) \/ Auth!CreateGrants(a) \/ Auth!WriteProjection(a)
           \/ Auth!ProjectionFails(a) \/ Auth!Confirm(a) \/ Auth!Undo(a)
    PROVE  AuthInv'
  <1>1. CASE Auth!BeginEnable(a) \/ Auth!ProjectionFails(a) \/ Auth!Confirm(a)
    BY <1>1, StageKeeps DEF Auth!BeginEnable, Auth!ProjectionFails, Auth!Confirm, Stage
  <1>2. CASE Auth!CreateGrants(a)
    <2> USE <1>2 DEF AuthInv, Auth!CreateGrants, Auth!MayGrant, Auth!NextGeneration
    <2>1. CASE ~(kill = {})
      BY <2>1, StageKeeps DEF Auth!db, Auth!history
    <2>2. CASE kill = {}
      <3> USE <2>2
      <3>1. high + 1 \in Auth!Generation /\ high + 1 > high
        BY DEF Auth!TypeOK, Auth!Generation, Auth!AuthorizationAssumption
      <3>2. op' \in [Admin -> Work]
        <4>1. op' = [op EXCEPT ![a].pc = "project", ![a].gen = high + 1]
          OBVIOUS
        <4>2. "project" \in Stage
          BY DEF Stage
        <4> QED BY <3>1, <4>1, <4>2, CommandShapes
      <3>3. Auth!TypeOK'
        BY <3>1, <3>2, AuthShapes DEF Auth!TypeOK, Work, Stage
      <3>4. Auth!NoGrantUnderKill' /\ GrantHasWord'
        BY DEF Auth!NoGrantUnderKill, GrantHasWord
      <3>5. NothingAhead'
        BY <3>1 DEF NothingAhead, Auth!TypeOK, Auth!Generation
      <3>6. ReadWasShown'
        BY <3>1 DEF ReadWasShown, NothingAhead, Auth!TypeOK, Auth!Generation, Auth!Entry
      <3> QED BY <3>3, <3>4, <3>5, <3>6
    <2> QED BY <2>1, <2>2
  <1>3. CASE Auth!WriteProjection(a)
    <2> USE <1>3 DEF AuthInv, Auth!WriteProjection, Auth!Writes, Auth!db, Auth!Goes
    <2>1. op' \in [Admin -> Work]
      BY CommandShapes DEF Stage
    <2>2. authFile' \in Auth!Entry /\ authFile'.gen = op[a].gen /\ op[a].gen \in Auth!Generation
      BY AuthShapes DEF Auth!TypeOK, Auth!Entry
    <2>3. Auth!TypeOK'
      BY <2>1, <2>2 DEF Auth!TypeOK, Work, Stage
    <2>4. Auth!NoGrantUnderKill' /\ GrantHasWord' /\ NothingAhead' /\ ReadWasShown'
      BY <2>2 DEF Auth!TypeOK, Auth!NoGrantUnderKill, GrantHasWord, NothingAhead, ReadWasShown,
         Auth!Entry
    <2> QED BY <2>3, <2>4
  <1>4. CASE Auth!Undo(a)
    <2> USE <1>4 DEF AuthInv, Auth!Undo, Auth!RevokeOwn, Auth!Ends, Auth!history
    <2>1. Auth!TypeOK'
      BY AuthShapes, CommandShapes DEF Auth!TypeOK, Work, Stage
    <2>2. Auth!NoGrantUnderKill' /\ GrantHasWord' /\ NothingAhead' /\ ReadWasShown'
      BY DEF Auth!TypeOK, Auth!NoGrantUnderKill, GrantHasWord, NothingAhead, ReadWasShown,
             Auth!Revoked,
             Auth!Quiet, Auth!AuthorizationAssumption, Auth!Generation
    <2> QED BY <2>1, <2>2
  <1> QED BY <1>1, <1>2, <1>3, <1>4

\* The operator's word is withdrawn with the grant, in one transaction.
LEMMA WithdrawKeeps ==
    ASSUME Auth!AuthorizationAssumption, AuthInv, NEW a \in Admin, Auth!Goes(a, "hide"),
           grant' = Auth!Revoked, authRun' = Auth!Stopped, authWord' = "off",
           UNCHANGED <<high, pause, authFile, authMem, authEdits, shown>>, kill' \subseteq Scope
    PROVE  AuthInv'
  <1> USE DEF AuthInv, Auth!Goes
  <1>1. op' \in [Admin -> Work]
    BY CommandShapes DEF Stage
  <1>2. Auth!TypeOK'
    BY <1>1, AuthShapes DEF Auth!TypeOK, Work, Stage
  <1>3. Auth!NoGrantUnderKill' /\ GrantHasWord' /\ NothingAhead' /\ ReadWasShown'
    BY DEF Auth!TypeOK, Auth!NoGrantUnderKill, GrantHasWord, NothingAhead, ReadWasShown,
           Auth!Revoked,
           Auth!AuthorizationAssumption, Auth!Generation
  <1> QED BY <1>2, <1>3

\* The commands that withdraw the word or only pause.
LEMMA ControlKeeps ==
    ASSUME Auth!AuthorizationAssumption, AuthInv, NEW a \in Admin,
           \/ Auth!Disable(a) \/ Auth!HideProjection(a) \/ Auth!MarkPause(a) \/ Auth!Crash(a)
           \/ \E s \in Scope : Auth!SetKillSwitch(a, s) \/ Auth!ClearKillSwitch(a, s)
           \/ \E paused \in BOOLEAN : Auth!SetPause(a, paused)
    PROVE  AuthInv'
  <1>1. CASE Auth!Disable(a)
    BY <1>1, WithdrawKeeps DEF Auth!Disable, Auth!RevokeAccount, AuthInv, Auth!TypeOK
  <1>2. CASE \E s \in Scope : Auth!SetKillSwitch(a, s)
    BY <1>2, WithdrawKeeps DEF Auth!SetKillSwitch, Auth!RevokeAccount, AuthInv, Auth!TypeOK
  <1>3. CASE Auth!HideProjection(a)
    <2> USE <1>3 DEF AuthInv, Auth!HideProjection, Auth!Writes, Auth!db, Auth!Ends
    <2>1. authFile' \in Auth!Entry /\ authFile'.gen = 0 /\ 0 \in Auth!Generation
      <3>1. 0 \in Auth!Generation
        BY DEF Auth!AuthorizationAssumption, Auth!Generation
      <3> QED BY <3>1 DEF Auth!TypeOK, Auth!Entry
    <2>2. Auth!TypeOK'
      <3>1. op' \in [Admin -> Work]
        BY CommandShapes
      <3>2. UNCHANGED <<grant, high, kill, pause, authMem, authRun, authEdits, authWord>>
        OBVIOUS
      <3>3. shown' \subseteq Auth!Generation
        BY <2>1 DEF Auth!TypeOK
      <3> QED BY <2>1, <3>1, <3>2, <3>3 DEF Auth!TypeOK, Work, Stage
    <2>3. Auth!NoGrantUnderKill' /\ GrantHasWord' /\ NothingAhead' /\ ReadWasShown'
      <3>1. NothingAhead'
        BY <2>1 DEF Auth!TypeOK, NothingAhead, Auth!Quiet, Auth!Generation
      <3>2. Auth!NoGrantUnderKill' /\ GrantHasWord' /\ ReadWasShown'
        BY <2>1 DEF Auth!TypeOK, Auth!NoGrantUnderKill, GrantHasWord, ReadWasShown
      <3> QED BY <3>1, <3>2
    <2> QED BY <2>2, <2>3
  <1>4. CASE Auth!MarkPause(a)
    <2> USE <1>4 DEF AuthInv, Auth!MarkPause, Auth!db, Auth!history, Auth!Ends
    <2>1. authFile' \in Auth!Entry /\ authFile'.gen = authFile.gen
      BY DEF Auth!TypeOK, Auth!Entry
    <2>2. Auth!TypeOK'
      BY <2>1, CommandShapes DEF Auth!TypeOK, Work, Stage
    <2>3. Auth!NoGrantUnderKill' /\ GrantHasWord' /\ NothingAhead' /\ ReadWasShown'
      <3>1. NothingAhead'
        BY <2>1 DEF Auth!TypeOK, NothingAhead, Auth!Quiet, Auth!AuthorizationAssumption, Auth!Generation
      <3>2. Auth!NoGrantUnderKill' /\ GrantHasWord' /\ ReadWasShown'
        BY <2>1 DEF Auth!TypeOK, Auth!NoGrantUnderKill, GrantHasWord, ReadWasShown
      <3> QED BY <3>1, <3>2
    <2> QED BY <2>2, <2>3
  <1>5. CASE Auth!Crash(a)
    BY <1>5, StageKeeps DEF Auth!Crash
  <1>6. CASE \E s \in Scope : Auth!ClearKillSwitch(a, s)
    BY <1>6 DEF AuthInv, Auth!ClearKillSwitch, Auth!history, Auth!TypeOK, Auth!NoGrantUnderKill,
       GrantHasWord,
                NothingAhead, ReadWasShown
  <1>7. ASSUME NEW paused \in BOOLEAN, Auth!SetPause(a, paused) PROVE AuthInv'
    <2> USE <1>7 DEF AuthInv, Auth!SetPause, Auth!history
    <2>1. op' \in [Admin -> Work]
      BY CommandShapes DEF Stage
    <2>2. Auth!TypeOK'
      BY <2>1 DEF Auth!TypeOK, Work, Stage
    <2>3. Auth!NoGrantUnderKill' /\ GrantHasWord' /\ NothingAhead' /\ ReadWasShown'
      BY DEF Auth!TypeOK, Auth!NoGrantUnderKill, GrantHasWord, NothingAhead, ReadWasShown
    <2> QED BY <2>2, <2>3
  <1> QED BY <1>1, <1>2, <1>3, <1>4, <1>5, <1>6, <1>7

\* The file changes under nobody's command, and the run works.
LEMMA WorldKeeps ==
    ASSUME Auth!AuthorizationAssumption, AuthInv,
           \/ Auth!EditPolicy \/ Auth!EditFlag
           \/ Auth!CreateRun \/ Auth!IssueLiveAuthorization \/ Auth!PrepareDispatch \/ Auth!SendPost \/ Auth!EndRun
    PROVE  AuthInv'
  <1> USE DEF Auth!AuthorizationAssumption, AuthInv, Auth!db, Auth!history
  <1>1. CASE Auth!EditPolicy
    <2>1. PICK p \in Policy : authFile' = [authFile EXCEPT !.policy = p]
      BY <1>1 DEF Auth!EditPolicy
    <2>2. Auth!TypeOK'
      BY <1>1, <2>1 DEF Auth!EditPolicy, Auth!TypeOK, Auth!Entry
    <2>3. Auth!NoGrantUnderKill' /\ GrantHasWord' /\ NothingAhead' /\ ReadWasShown'
      BY <1>1, <2>1 DEF Auth!EditPolicy, Auth!TypeOK, Auth!Entry, Auth!NoGrantUnderKill,
         GrantHasWord,
                        NothingAhead, ReadWasShown
    <2> QED BY <2>2, <2>3
  <1>2. CASE Auth!EditFlag
    BY <1>2 DEF Auth!EditFlag, Auth!TypeOK, Auth!NoGrantUnderKill, GrantHasWord, NothingAhead,
                ReadWasShown, Auth!Entry
  <1>3. CASE Auth!CreateRun \/ Auth!IssueLiveAuthorization \/ Auth!PrepareDispatch \/ Auth!SendPost \/ Auth!EndRun
    <2>1. Auth!TypeOK'
      <3> USE DEF Auth!TypeOK, Auth!Entry
      <3>1. CASE Auth!CreateRun
        BY <3>1 DEF Auth!CreateRun
      <3>2. CASE Auth!EndRun
        BY <3>2, AuthShapes DEF Auth!EndRun
      <3>3. CASE Auth!IssueLiveAuthorization
        BY <3>3 DEF Auth!IssueLiveAuthorization, Auth!NoRun, Auth!Generation
      <3>4. CASE Auth!PrepareDispatch \/ Auth!SendPost
        BY <3>4 DEF Auth!PrepareDispatch, Auth!SendPost
      <3> QED BY <1>3, <3>1, <3>2, <3>3, <3>4
    <2>2. Auth!NoGrantUnderKill' /\ GrantHasWord' /\ NothingAhead' /\ ReadWasShown'
      BY <1>3 DEF Auth!CreateRun, Auth!IssueLiveAuthorization, Auth!PrepareDispatch, Auth!SendPost,
         Auth!EndRun,
                  Auth!NoGrantUnderKill, GrantHasWord, NothingAhead, ReadWasShown
    <2> QED BY <2>1, <2>2
  <1> QED BY <1>1, <1>2, <1>3

\* Every step keeps the invariant.
LEMMA AuthStep == ASSUME Auth!AuthorizationAssumption, AuthInv, [Auth!Next]_(Auth!vars) PROVE AuthInv'
  <1>1. CASE Auth!Startup \/ Auth!LoadRunner
    BY <1>1, AuthReconciles DEF Auth!Startup, Auth!LoadRunner
  <1>2. ASSUME NEW a \in Admin, Auth!Load(a) PROVE AuthInv'
    BY <1>2, AuthReconciles DEF Auth!Load
  <1>3. ASSUME NEW a \in Admin, Auth!Commands(a) \/ Auth!Continues(a) \/ Auth!Crash(a) PROVE AuthInv'
    BY <1>3, EnableKeeps, ControlKeeps DEF Auth!Commands, Auth!Continues
  <1>4. CASE Auth!EditPolicy \/ Auth!EditFlag \/ Auth!CreateRun \/ Auth!IssueLiveAuthorization
               \/ Auth!PrepareDispatch \/ Auth!SendPost \/ Auth!EndRun
    BY <1>4, WorldKeeps
  <1>5. CASE UNCHANGED Auth!vars
    BY <1>5 DEF Auth!vars, Auth!db, Auth!history, AuthInv, Auth!TypeOK, Auth!NoGrantUnderKill,
       GrantHasWord,
                NothingAhead, ReadWasShown
  <1> QED BY <1>1, <1>2, <1>3, <1>4, <1>5 DEF Auth!Next

\* Rows, file and memory agree on what was granted and shown, whatever dies
\* between two steps.
THEOREM AuthorityInductive == ASSUME Auth!AuthorizationAssumption PROVE Auth!Spec => []AuthInv
  BY AuthStarts, AuthStep, PTL DEF Auth!Spec
------------------------------------------------------------------------------
\* No grant survives the kill switch or is made under it
\* (create_grants, set_kill_switch).
THEOREM KillSwitchHolds == ASSUME Auth!AuthorizationAssumption PROVE Auth!Spec => []Auth!NoGrantUnderKill
  <1>1. AuthInv => Auth!NoGrantUnderKill
    BY DEF AuthInv
  <1> QED BY <1>1, AuthorityInductive, PTL

\* Only the transaction of prepare_dispatch dispatches.
LEMMA DispatchIsPrepared ==
    ASSUME AuthInv, [Auth!Next]_(Auth!vars), Auth!Dispatches
    PROVE  Auth!PrepareDispatch
  <1> USE DEF Auth!Dispatches, AuthInv, Auth!TypeOK
  <1>1. CASE Auth!Startup \/ Auth!LoadRunner \/ \E a \in Admin : Auth!Load(a)
    BY <1>1 DEF Auth!Startup, Auth!LoadRunner, Auth!Load, Auth!Reconcile, Auth!Stopped
  <1>2. ASSUME NEW a \in Admin, Auth!Commands(a) \/ Auth!Continues(a) \/ Auth!Crash(a) PROVE FALSE
    BY <1>2 DEF Auth!Commands, Auth!Continues, Auth!BeginEnable, Auth!Disable, Auth!SetKillSwitch,
       Auth!ClearKillSwitch,
                Auth!SetPause, Auth!CreateGrants, Auth!WriteProjection, Auth!ProjectionFails,
                Auth!Confirm, Auth!Undo,
                Auth!HideProjection, Auth!MarkPause, Auth!Crash, Auth!Stopped
  <1>3. CASE Auth!EditPolicy \/ Auth!EditFlag
    BY <1>3 DEF Auth!EditPolicy, Auth!EditFlag
  <1>4. CASE Auth!CreateRun \/ Auth!IssueLiveAuthorization \/ Auth!SendPost \/ Auth!EndRun
    BY <1>4 DEF Auth!CreateRun, Auth!IssueLiveAuthorization, Auth!SendPost, Auth!EndRun, Auth!NoRun
  <1>5. CASE UNCHANGED Auth!vars
    BY <1>5 DEF Auth!vars
  <1> QED BY <1>1, <1>2, <1>3, <1>4, <1>5 DEF Auth!Next

\* Nothing is prepared against the operator's last word, whatever the
\* configuration in memory still says (_revoke_accounts, prepare_dispatch).
THEOREM DispatchTakesTheWord ==
    ASSUME Auth!AuthorizationAssumption PROVE Auth!Spec => [][Auth!SendsOnTheOperatorsWord]_(Auth!vars)
  <1>1. ASSUME AuthInv, [Auth!Next]_(Auth!vars) PROVE [Auth!SendsOnTheOperatorsWord]_(Auth!vars)
    BY <1>1, DispatchIsPrepared
       DEF Auth!SendsOnTheOperatorsWord, Auth!PrepareDispatch, Auth!Dispatchable, AuthInv,
           GrantHasWord
  <1> QED BY <1>1, AuthorityInductive, PTL DEF Auth!Spec

\* A process that died between the two steps of enable has authorized nobody:
\* only a generation its own enable wrote to the file sends (prepare_dispatch).
THEOREM DispatchNeedsProjection ==
    ASSUME Auth!AuthorizationAssumption PROVE Auth!Spec => [][Auth!SendsUnderShownGrant]_(Auth!vars)
  <1>1. ASSUME AuthInv, [Auth!Next]_(Auth!vars) PROVE [Auth!SendsUnderShownGrant]_(Auth!vars)
    BY <1>1, DispatchIsPrepared
       DEF Auth!SendsUnderShownGrant, Auth!PrepareDispatch, Auth!Dispatchable, AuthInv, ReadWasShown
  <1> QED BY <1>1, AuthorityInductive, PTL DEF Auth!Spec

\* A failed enable takes back its own grant and no other, also when another
\* process has enabled in between (revoke_exact_generations).
THEOREM UndoIsOwn ==
    ASSUME Auth!AuthorizationAssumption PROVE Auth!Spec => [][Auth!UndoTakesBackItsOwn]_(Auth!vars)
  <1>1. ASSUME AuthInv, [Auth!Next]_(Auth!vars) PROVE [Auth!UndoTakesBackItsOwn]_(Auth!vars)
    <2> SUFFICES ASSUME NEW a \in Admin, op[a].pc = "undo", op'[a].pc = "idle"
                 PROVE  grant' = grant \/ grant.gen = op[a].gen
      BY DEF Auth!UndoTakesBackItsOwn
    <2> USE <1>1 DEF AuthInv, Auth!TypeOK, Auth!db
    <2>1. CASE Auth!Startup \/ Auth!LoadRunner \/ Auth!EditPolicy \/ Auth!EditFlag \/ Auth!CreateRun
                 \/ Auth!IssueLiveAuthorization \/ Auth!PrepareDispatch \/ Auth!SendPost \/ Auth!EndRun
                 \/ UNCHANGED Auth!vars
      BY <2>1 DEF Auth!Startup, Auth!LoadRunner, Auth!EditPolicy, Auth!EditFlag, Auth!CreateRun,
                  Auth!IssueLiveAuthorization, Auth!PrepareDispatch, Auth!SendPost, Auth!EndRun,
                  Auth!vars
    <2>2. ASSUME NEW b \in Admin, Auth!Load(b) PROVE FALSE
      BY <2>2 DEF Auth!Load
    <2>3. ASSUME NEW b \in Admin, Auth!Commands(b)
          PROVE  FALSE
      BY <2>3 DEF Auth!Commands, Auth!BeginEnable, Auth!Disable, Auth!SetKillSwitch,
         Auth!ClearKillSwitch, Auth!SetPause,
                  Auth!Goes
    <2>4. ASSUME NEW b \in Admin, Auth!CreateGrants(b)
          PROVE  FALSE
      BY <2>4 DEF Auth!CreateGrants, Auth!Ends, Auth!Quiet
    <2>5. ASSUME NEW b \in Admin, Auth!Undo(b)
          PROVE  grant' = grant \/ grant.gen = op[a].gen
      BY <2>5 DEF Auth!Undo, Auth!Ends, Auth!Quiet, Auth!RevokeOwn
    <2>6. ASSUME NEW b \in Admin,
                 \/ Auth!WriteProjection(b) \/ Auth!ProjectionFails(b) \/ Auth!Confirm(b)
                 \/ Auth!HideProjection(b) \/ Auth!MarkPause(b) \/ Auth!Crash(b)
          PROVE  grant' = grant
      BY <2>6 DEF Auth!WriteProjection, Auth!ProjectionFails, Auth!Confirm, Auth!HideProjection,
         Auth!MarkPause, Auth!Crash
    <2> QED BY <2>1, <2>2, <2>3, <2>4, <2>5, <2>6 DEF Auth!Next, Auth!Continues
  <1> QED BY <1>1, AuthorityInductive, PTL DEF Auth!Spec
------------------------------------------------------------------------------
(* OneShot: literal confirmations over crashes, reconciliation and expiry. *)

LEMMA ShotCounts ==
    /\ \A S : Shot!Cardinality(S) = Cardinality(S)
    /\ \A S : Shot!IsFiniteSet(S) <=> IsFiniteSet(S)
  BY DEF Shot!Cardinality, Shot!IsFiniteSet, Cardinality, IsFiniteSet

\* An attempt nobody has decided: under way, to be read again, or put to the
\* operator, whose question may have expired.
Undecided(i) == \/ shotItem[i].state \in {"applying", "reconciling"}
                \/ shotItem[i].challenge = "ambiguous_application"

\* A challenge is open, or has expired with its item.
ChallengesRest ==
    \A i \in Picked : shotItem[i].challenge # "none" =>
                        shotItem[i].state \in {"manual_challenge", "dead"}

\* An undecided attempt owns its active target; no other target is active.
TargetsFollow ==
    /\ \A i \in Picked : Undecided(i) => Shot!Finishable(i)
    /\ \A r \in Ref, i \in Picked :
          target[r][i] = "active" => shotItem[i].by = r /\ Undecided(i)

\* The run between preparation and answer works on its own attempt.
RunCarries ==
    /\ shotRun.pc \in {"posting", "landed"} =>
          /\ shotRun.item \in Picked /\ shotItem[shotRun.item].state = "applying"
          /\ shotItem[shotRun.item].by = shotRun.by
    /\ shotRun.pc # "none" => shotRun.by \in Ref \cup {Live}

\* A confirmation has room for the success of every active target.
HasRoom(r) ==
    /\ Shot!Active(r) # {} => conf[r].active
    /\ conf[r].consumed + Cardinality(Shot!Active(r)) <= conf[r].most
RoomIsKept == \A r \in Ref : HasRoom(r)

Succeeded(r) == {i \in Picked : target[r][i] = "succeeded"}
CountIsReal(r) ==
    /\ conf[r].consumed = Cardinality(Succeeded(r))
    /\ \A i \in Succeeded(r) : sent[i] = r /\ shotItem[i].state = "applied"
SuccessIsCounted == \A r \in Ref : CountIsReal(r)

ShotInv ==
    /\ Shot!TypeOK
    /\ ChallengesRest
    /\ TargetsFollow
    /\ RunCarries
    /\ RoomIsKept
    /\ SuccessIsCounted

LEMMA ShotStarts == ASSUME Shot!OneShotAssumption, Shot!Init PROVE ShotInv
  <1>1. /\ conf = [r \in Ref |-> [active |-> FALSE, expired |-> FALSE, most |-> 0, consumed |-> 0]]
        /\ target = [r \in Ref |-> [i \in Picked |-> "none"]]
        /\ owner = [r \in Ref |-> [i \in Picked |-> 0]]
        /\ shotItem = [i \in Picked |-> [state |-> "ready", tries |-> 0, checks |-> 0,
                                       by |-> "nobody", challenge |-> "none"]]
        /\ todo = [r \in Ref |-> {}]
        /\ shotRun = [by |-> "nobody", item |-> NoPicked, pc |-> "none"]
        /\ sent = [i \in Picked |-> "nobody"]
    BY DEF Shot!Init, Shot!NoConf, Shot!NoRun, Shot!Nobody
  <1>2. 0 \in 0..PickedTries /\ 0 \in 0..(PickedChecks - 1)
    BY DEF Shot!OneShotAssumption
  <1>3. Shot!TypeOK
    <2>1. "ready" \in Shot!States
      BY DEF Shot!States
    <2>2. shotItem \in [Picked -> [state : Shot!States, tries : 0..PickedTries, checks : 0..(PickedChecks - 1),
                                by : Ref \cup {Live, "nobody"},
                                challenge : {"none", "manual_captcha", "ambiguous_application"}]]
      BY <1>1, <1>2, <2>1
    <2>3. conf \in [Ref -> [active : BOOLEAN, expired : BOOLEAN, most : Nat, consumed : Nat]]
      BY <1>1
    <2>4. /\ target \in [Ref -> [Picked -> {"none", "pending", "active", "succeeded", "closed"}]]
          /\ owner \in [Ref -> [Picked -> 0..PickedTries]]
          /\ todo \in [Ref -> SUBSET Picked]
          /\ shotRun \in [by : Ref \cup {Live, "nobody"}, item : Picked \cup {NoPicked},
                          pc : {"none", "running", "posting", "landed"}]
          /\ sent \in [Picked -> Ref \cup {Live, "nobody"}]
      BY <1>1, <1>2
    <2> QED BY <2>2, <2>3, <2>4 DEF Shot!TypeOK, Shot!Nobody
  <1>4. \A r \in Ref : Shot!Active(r) = {} /\ Succeeded(r) = {}
    BY <1>1 DEF Shot!Active, Succeeded
  <1>5. RoomIsKept /\ SuccessIsCounted
    <2>1. \A r \in Ref : conf[r].consumed = 0 /\ conf[r].most = 0
      BY <1>1
    <2>2. Cardinality({}) = 0
      BY FS_EmptySet
    <2>3. \A r \in Ref : Cardinality(Shot!Active(r)) = 0 /\ Cardinality(Succeeded(r)) = 0
      BY <1>4, <2>2, Zenon
    <2> QED BY <2>1, <2>3, <1>4 DEF RoomIsKept, HasRoom, SuccessIsCounted, CountIsReal
  <1>6. ChallengesRest /\ TargetsFollow /\ RunCarries
    BY <1>1 DEF ChallengesRest, TargetsFollow, RunCarries, Undecided
  <1> QED BY <1>3, <1>5, <1>6 DEF ShotInv

\* What a step does to a confirmation is what it does to one target: the sets
\* of active and of succeeded targets gain or lose one item.
LEMMA SetsAreFinite ==
    ASSUME Shot!OneShotAssumption, NEW S \in SUBSET Picked
    PROVE  /\ IsFiniteSet(S) /\ Cardinality(S) \in Nat
           /\ \A i \in Picked \ S : Cardinality(S \cup {i}) = Cardinality(S) + 1
           /\ \A i \in S : Cardinality(S \ {i}) = Cardinality(S) - 1
  <1>1. IsFiniteSet(Picked)
    BY ShotCounts DEF Shot!OneShotAssumption
  <1>2. IsFiniteSet(S)
    BY <1>1, FS_Subset
  <1>3. Cardinality(S) \in Nat
    BY <1>2, FS_CardinalityType
  <1>4. \A i \in Picked \ S : Cardinality(S \cup {i}) = Cardinality(S) + 1
    BY <1>2, FS_AddElement
  <1>5. \A i \in S : Cardinality(S \ {i}) = Cardinality(S) - 1
    BY <1>2, FS_RemoveElement
  <1> QED BY <1>2, <1>3, <1>4, <1>5

\* An attempt is decided: its item moves to where nothing is undecided, and its
\* target, if a confirmation started it, is closed with the outcome.
LEMMA FinishInv ==
    ASSUME Shot!OneShotAssumption, ShotInv, NEW i \in Picked,
           NEW status \in {"pending", "succeeded", "closed"}, Shot!Finish(i, status),
           Undecided(i),
           NEW x, shotItem' = [shotItem EXCEPT ![i] = x],
           x \in [state : Shot!States, tries : 0..PickedTries, checks : 0..(PickedChecks - 1),
                  by : Ref \cup {Live, "nobody"},
                  challenge : {"none", "manual_captcha", "ambiguous_application"}],
           x.state \notin {"applying", "reconciling"}, x.by = shotItem[i].by,
           x.challenge # "ambiguous_application",
           x.challenge = "none" \/ x.state = "manual_challenge",
           status = "succeeded" => x.state = "applied" /\ sent[i] = x.by,
           UNCHANGED <<todo, sent>>,
           \/ UNCHANGED shotRun /\ shotRun.pc \in {"none", "running"}
           \/ /\ shotRun' \in [by : Ref \cup {Live}, item : Picked \cup {NoPicked}, pc : {"running"}]
    PROVE  ShotInv'
  <1> DEFINE r == shotItem[i].by
  <1>1. /\ shotItem \in [Picked -> [state : Shot!States, tries : 0..PickedTries, checks : 0..(PickedChecks - 1),
                         by : Ref \cup {Live, "nobody"},
                         challenge : {"none", "manual_captcha", "ambiguous_application"}]]
        /\ conf \in [Ref -> [active : BOOLEAN, expired : BOOLEAN, most : Nat, consumed : Nat]]
        /\ target \in [Ref -> [Picked -> {"none", "pending", "active", "succeeded", "closed"}]]
        /\ owner \in [Ref -> [Picked -> 0..PickedTries]]
        /\ todo \in [Ref -> SUBSET Picked]
        /\ shotRun \in [by : Ref \cup {Live, "nobody"}, item : Picked \cup {NoPicked},
                        pc : {"none", "running", "posting", "landed"}]
        /\ sent \in [Picked -> Ref \cup {Live, "nobody"}]
    BY DEF ShotInv, Shot!TypeOK, Shot!Nobody
  <1>2. /\ shotItem' \in [Picked -> [state : Shot!States, tries : 0..PickedTries, checks : 0..(PickedChecks - 1),
                         by : Ref \cup {Live, "nobody"},
                         challenge : {"none", "manual_captcha", "ambiguous_application"}]]
        /\ shotItem'[i] = x /\ \A j \in Picked : j # i => shotItem'[j] = shotItem[j]
    BY <1>1
  <1>3. /\ ChallengesRest'
        /\ \A j \in Picked : Undecided(j)' <=> Undecided(j) /\ j # i
    BY <1>2 DEF ShotInv, ChallengesRest, Undecided
  <1>4. RunCarries'
    BY <1>1, <1>2 DEF ShotInv, RunCarries
  <1>5. CASE r \notin Ref
    <2>1. UNCHANGED <<conf, target, owner>>
      BY <1>5 DEF Shot!Finish
    <2>2. Shot!TypeOK'
      BY <1>1, <1>2, <2>1 DEF Shot!TypeOK, Shot!Nobody
    <2>3. TargetsFollow'
      BY <1>2, <1>3, <1>5, <2>1 DEF ShotInv, TargetsFollow, Shot!Finishable
    <2>4. RoomIsKept'
      BY <2>1 DEF ShotInv, RoomIsKept, HasRoom, Shot!Active
    <2>5. SuccessIsCounted'
      <3>1. \A q \in Ref : i \notin Succeeded(q)
        BY DEF ShotInv, SuccessIsCounted, CountIsReal, Undecided, ChallengesRest
      <3> QED BY <2>1, <3>1, <1>2 DEF ShotInv, SuccessIsCounted, CountIsReal, Succeeded
    <2> QED BY <1>3, <1>4, <2>2, <2>3, <2>4, <2>5 DEF ShotInv
  <1>6. CASE r \in Ref
    <2> DEFINE consumed == conf[r].consumed + (IF status = "succeeded" THEN 1 ELSE 0)
               left == (Shot!Left(r) \ {i}) \cup (IF status = "pending" THEN {i} ELSE {})
    <2>1. /\ target[r][i] = "active"
          /\ status = "succeeded" => conf[r].consumed < conf[r].most
          /\ target' = [target EXCEPT ![r][i] = status]
          /\ owner' = [owner EXCEPT ![r][i] = 0]
          /\ conf' = [conf EXCEPT ![r].consumed = consumed,
                                  ![r].active = @ /\ consumed < conf[r].most /\ left # {}]
      BY <1>6 DEF Shot!Finish, Shot!Finishable
    <2>2. /\ target' \in [Ref -> [Picked -> {"none", "pending", "active", "succeeded", "closed"}]]
          /\ target'[r][i] = status
          /\ \A q \in Ref, j \in Picked : q # r \/ j # i => target'[q][j] = target[q][j]
      BY <1>1, <1>6, <2>1
    <2>3. /\ owner' \in [Ref -> [Picked -> 0..PickedTries]]
          /\ \A q \in Ref, j \in Picked : q # r \/ j # i => owner'[q][j] = owner[q][j]
      BY <1>1, <1>6, <2>1 DEF Shot!OneShotAssumption
    <2>4. PICK n \in Nat : n = consumed
      BY <1>1, <1>6
    <2>5. PICK b \in BOOLEAN : b = (conf[r].active /\ n < conf[r].most /\ left # {})
      BY <1>1, <1>6
    <2>6. conf' = [conf EXCEPT ![r].consumed = n, ![r].active = b]
      BY <2>1, <2>4, <2>5
    <2>14. PICK old \in [active : BOOLEAN, expired : BOOLEAN, most : Nat, consumed : Nat] :
              old = conf[r]
      BY <1>1, <1>6
    <2>15. PICK mid \in [active : BOOLEAN, expired : BOOLEAN, most : Nat, consumed : Nat] :
              mid = [old EXCEPT !.consumed = n]
      OBVIOUS
    <2>16. PICK new \in [active : BOOLEAN, expired : BOOLEAN, most : Nat, consumed : Nat] :
              new = [mid EXCEPT !.active = b]
      OBVIOUS
    <2>17. conf' = [conf EXCEPT ![r] = new]
      <3>2. conf' = [[conf EXCEPT ![r] = mid] EXCEPT ![r] = [@ EXCEPT !.active = b]]
        BY <2>6, <2>14, <2>15, Zenon
      <3>3. [conf EXCEPT ![r] = mid][r] = mid
        BY <1>1, <1>6
      <3>4. conf' = [[conf EXCEPT ![r] = mid] EXCEPT ![r] = new]
        BY <3>2, <3>3, <2>16, Zenon
      <3> QED BY <3>4, <1>1, <1>6
    <2>7. /\ conf' \in [Ref -> [active : BOOLEAN, expired : BOOLEAN, most : Nat, consumed : Nat]]
          /\ conf'[r].consumed = n /\ conf'[r].active = b /\ conf'[r].most = conf[r].most
          /\ \A q \in Ref : q # r => conf'[q] = conf[q]
      BY <1>1, <1>6, <2>14, <2>15, <2>16, <2>17
    <2>8. Shot!TypeOK'
      BY <1>1, <1>2, <2>2, <2>3, <2>7 DEF Shot!TypeOK, Shot!Nobody
    <2>9. TargetsFollow'
      <3>1. ASSUME NEW j \in Picked, Undecided(j)' PROVE Shot!Finishable(j)'
        <4>1. Undecided(j) /\ j # i /\ Shot!Finishable(j)
          BY <1>3, <3>1 DEF ShotInv, TargetsFollow
        <4> QED BY <4>1, <1>2, <2>2, <2>3 DEF Shot!Finishable
      <3>2. ASSUME NEW q \in Ref, NEW j \in Picked, target'[q][j] = "active"
            PROVE  shotItem'[j].by = q /\ Undecided(j)'
        <4>1. CASE j = i
          BY <4>1, <3>2, <2>1, <2>2 DEF ShotInv, TargetsFollow
        <4>2. CASE j # i
          BY <4>2, <3>2, <1>2, <1>3, <2>2 DEF ShotInv, TargetsFollow
        <4> QED BY <4>1, <4>2
      <3> QED BY <3>1, <3>2 DEF TargetsFollow
    <2>10. /\ Shot!Active(r)' = Shot!Active(r) \ {i} /\ i \in Shot!Active(r)
           /\ \A q \in Ref : q # r => Shot!Active(q)' = Shot!Active(q)
      BY <1>6, <2>1, <2>2 DEF Shot!Active
    <2>11. Cardinality(Shot!Active(r)') = Cardinality(Shot!Active(r)) - 1
           /\ Cardinality(Shot!Active(r)) \in Nat
      BY <2>10, SetsAreFinite DEF Shot!Active
    <2>12. RoomIsKept'
      <3>1. ASSUME NEW q \in Ref, q # r
            PROVE  /\ Shot!Active(q)' # {} => conf'[q].active
                   /\ conf'[q].consumed + Cardinality(Shot!Active(q)') <= conf'[q].most
        BY <3>1, <2>7, <2>10 DEF ShotInv, RoomIsKept, HasRoom
      <3>2. conf'[r].consumed + Cardinality(Shot!Active(r)') <= conf'[r].most
        BY <1>1, <1>6, <2>4, <2>7, <2>11 DEF ShotInv, RoomIsKept, HasRoom
      <3>3. ASSUME NEW j \in Shot!Active(r)' PROVE conf'[r].active
        <4>1. j \in Shot!Active(r) /\ j # i /\ Cardinality(Shot!Active(r)') >= 1
          <5>1. Cardinality(Shot!Active(r)' \ {j}) = Cardinality(Shot!Active(r)') - 1
                /\ Cardinality(Shot!Active(r)' \ {j}) \in Nat
            <6> DEFINE A == Shot!Active(r)'
            <6>1. A \in SUBSET Picked /\ j \in A
              BY <3>3, <2>10 DEF Shot!Active
            <6> HIDE DEF A
            <6>2. /\ Cardinality(A \ {j}) = Cardinality(A) - 1 /\ Cardinality(A \ {j}) \in Nat
              <7>1. A \ {j} \in SUBSET Picked
                BY <6>1
              <7> QED BY <6>1, <7>1, SetsAreFinite
            <6> QED BY <6>2 DEF A
          <5> QED BY <2>10, <3>3, <5>1, <2>11
        <4>2. n < conf[r].most
          BY <4>1, <3>2, <2>7, <2>11, <1>1, <1>6
        <4>3. j \in left /\ conf[r].active
          BY <4>1, <1>6 DEF Shot!Active, Shot!Left, ShotInv, RoomIsKept, HasRoom
        <4> QED BY <4>2, <4>3, <2>5, <2>7
      <3> QED BY <3>1, <3>2, <3>3 DEF RoomIsKept, HasRoom
    <2>13. SuccessIsCounted'
      <3>1. i \notin Succeeded(r) /\ Succeeded(r) \in SUBSET Picked
        BY <2>1 DEF Succeeded
      <3>2. \A q \in Ref : q # r => Succeeded(q)' = Succeeded(q)
        BY <2>2 DEF Succeeded
      <3>3. Succeeded(r)' = IF status = "succeeded" THEN Succeeded(r) \cup {i} ELSE Succeeded(r)
        BY <1>6, <2>1, <2>2 DEF Succeeded
      <3>4. Cardinality(Succeeded(r)') = n
        BY <3>1, <3>3, <2>4, <1>6, SetsAreFinite DEF ShotInv, SuccessIsCounted, CountIsReal
      <3>5. \A q \in Ref : i \notin Succeeded(q)
        BY DEF ShotInv, SuccessIsCounted, CountIsReal, Undecided, ChallengesRest
      <3>6. ASSUME NEW q \in Ref, NEW j \in Succeeded(q)'
            PROVE  sent'[j] = q /\ shotItem'[j].state = "applied"
        <4>1. CASE j = i
          BY <4>1, <3>6, <3>2, <3>3, <3>5, <1>2, <1>6
        <4>2. CASE j # i
          <5>1. j \in Succeeded(q)
            BY <4>2, <3>6, <3>2, <3>3, <1>6
          <5>2. sent[j] = q /\ shotItem[j].state = "applied" /\ j \in Picked
            BY <5>1 DEF ShotInv, SuccessIsCounted, CountIsReal, Succeeded
          <5> QED BY <4>2, <5>2, <1>2
        <4> QED BY <4>1, <4>2
      <3>7. \A q \in Ref : conf'[q].consumed = Cardinality(Succeeded(q)')
        BY <3>2, <3>4, <2>7 DEF ShotInv, SuccessIsCounted, CountIsReal
      <3> QED BY <3>6, <3>7 DEF SuccessIsCounted, CountIsReal
    <2> QED BY <1>3, <1>4, <2>8, <2>9, <2>12, <2>13 DEF ShotInv
  <1> QED BY <1>5, <1>6

\* What an item and a run are.
Items == [state : Shot!States, tries : 0..PickedTries, checks : 0..(PickedChecks - 1),
          by : Ref \cup {Live, "nobody"},
          challenge : {"none", "manual_captcha", "ambiguous_application"}]
Runs == [by : Ref \cup {Live, "nobody"}, item : Picked \cup {NoPicked},
         pc : {"none", "running", "posting", "landed"}]

\* A step that decides nothing: every attempt stays with its confirmation, and
\* decided or not as it was.
LEMMA NothingDecided ==
    ASSUME ShotInv, shotItem' \in [Picked -> Items], todo' \in [Ref -> SUBSET Picked],
           shotRun' \in Runs, sent' \in [Picked -> Ref \cup {Live, "nobody"}],
           \A i \in Picked : /\ shotItem'[i].by = shotItem[i].by
                             /\ shotItem'[i].tries = shotItem[i].tries
                             /\ Undecided(i)' <=> Undecided(i)
                             /\ shotItem[i].state = "applied" =>
                                  shotItem'[i].state = "applied" /\ sent'[i] = sent[i],
           ChallengesRest', RunCarries',
           conf' \in [Ref -> [active : BOOLEAN, expired : BOOLEAN, most : Nat, consumed : Nat]],
           \A r \in Ref : /\ conf'[r].active = conf[r].active
                          /\ conf'[r].most = conf[r].most
                          /\ conf'[r].consumed = conf[r].consumed,
           UNCHANGED <<target, owner>>
    PROVE  ShotInv'
  <1>1. Shot!TypeOK'
    BY DEF ShotInv, Shot!TypeOK, Items, Runs, Shot!Nobody
  <1>2. TargetsFollow'
    BY DEF ShotInv, TargetsFollow, Shot!Finishable
  <1>3. RoomIsKept'
    <2>1. \A r \in Ref : Shot!Active(r)' = Shot!Active(r)
      BY DEF Shot!Active
    <2> QED BY <2>1 DEF ShotInv, RoomIsKept, HasRoom
  <1>4. SuccessIsCounted'
    <2>1. \A r \in Ref : Succeeded(r)' = Succeeded(r)
      BY DEF Succeeded
    <2>2. \A r \in Ref : Succeeded(r) \subseteq Picked
      BY DEF Succeeded
    <2> QED BY <2>1, <2>2 DEF ShotInv, SuccessIsCounted, CountIsReal
  <1> QED BY <1>1, <1>2, <1>3, <1>4 DEF ShotInv

LEMMA ShotShapes ==
    ASSUME ShotInv
    PROVE  /\ shotItem \in [Picked -> Items] /\ shotRun \in Runs
           /\ conf \in [Ref -> [active : BOOLEAN, expired : BOOLEAN, most : Nat, consumed : Nat]]
           /\ target \in [Ref -> [Picked -> {"none", "pending", "active", "succeeded", "closed"}]]
           /\ owner \in [Ref -> [Picked -> 0..PickedTries]]
           /\ todo \in [Ref -> SUBSET Picked]
           /\ sent \in [Picked -> Ref \cup {Live, "nobody"}]
  BY DEF ShotInv, Shot!TypeOK, Items, Runs, Shot!Nobody

\* The same of a step that moves one item.
LEMMA OneItemMoves ==
    ASSUME ShotInv, NEW i \in Picked, NEW x \in Items, shotItem' = [shotItem EXCEPT ![i] = x],
           x.by = shotItem[i].by, x.tries = shotItem[i].tries,
           shotItem[i].state # "applied", x.state # "applied",
           (x.state \in {"applying", "reconciling"} \/ x.challenge = "ambiguous_application")
               <=> Undecided(i),
           x.challenge # "none" => x.state \in {"manual_challenge", "dead"},
           shotRun' \in Runs, shotRun'.pc \in {"none", "running"},
           shotRun'.pc = "running" => shotRun'.by \in Ref \cup {Live},
           UNCHANGED <<conf, target, owner, todo, sent>>
    PROVE  ShotInv'
  <1>1. /\ shotItem' \in [Picked -> Items] /\ shotItem'[i] = x
        /\ \A j \in Picked : j # i => shotItem'[j] = shotItem[j]
    BY ShotShapes
  <1>2. ChallengesRest'
    BY <1>1 DEF ShotInv, ChallengesRest
  <1>3. RunCarries'
    BY <1>1 DEF RunCarries
  <1>4. \A j \in Picked : /\ shotItem'[j].by = shotItem[j].by
                          /\ shotItem'[j].tries = shotItem[j].tries
                          /\ Undecided(j)' <=> Undecided(j)
                          /\ shotItem[j].state = "applied" =>
                                  shotItem'[j].state = "applied" /\ sent'[j] = sent[j]
    BY <1>1 DEF Undecided
  <1>5. /\ todo' \in [Ref -> SUBSET Picked] /\ sent' \in [Picked -> Ref \cup {Live, "nobody"}]
        /\ conf' \in [Ref -> [active : BOOLEAN, expired : BOOLEAN, most : Nat, consumed : Nat]]
        /\ \A r \in Ref : /\ conf'[r].active = conf[r].active
                          /\ conf'[r].most = conf[r].most
                          /\ conf'[r].consumed = conf[r].consumed
    BY ShotShapes
  <1> QED BY <1>1, <1>2, <1>3, <1>4, <1>5, NothingDecided

\* Expiry, the beginning and end of a run, its death, and the POST.
LEMMA RunInv ==
    ASSUME ShotInv,
           \/ \E r \in Ref : Shot!Expire(r) \/ Shot!StartLiteral(r)
           \/ Shot!StartLive \/ Shot!EndRun \/ Shot!Die \/ Shot!Post
    PROVE  ShotInv'
  <1>00. /\ shotItem \in [Picked -> Items] /\ shotRun \in Runs
         /\ conf \in [Ref -> [active : BOOLEAN, expired : BOOLEAN, most : Nat, consumed : Nat]]
         /\ target \in [Ref -> [Picked -> {"none", "pending", "active", "succeeded", "closed"}]]
         /\ owner \in [Ref -> [Picked -> 0..PickedTries]]
         /\ todo \in [Ref -> SUBSET Picked]
         /\ sent \in [Picked -> Ref \cup {Live, "nobody"}]
    BY ShotShapes
  <1> USE <1>00
  <1>0. /\ "nobody" = Shot!Nobody
        /\ UNCHANGED shotItem => \A i \in Picked : Undecided(i)' <=> Undecided(i)
        /\ UNCHANGED shotItem => ChallengesRest'
    BY DEF Shot!Nobody, Undecided, ShotInv, ChallengesRest
  <1>1. ASSUME NEW r \in Ref, Shot!Expire(r) PROVE ShotInv'
    <2>1. /\ conf' \in [Ref -> [active : BOOLEAN, expired : BOOLEAN, most : Nat, consumed : Nat]]
          /\ \A q \in Ref : /\ conf'[q].active = conf[q].active
                            /\ conf'[q].most = conf[q].most
                            /\ conf'[q].consumed = conf[q].consumed
          /\ UNCHANGED <<target, owner, shotItem, todo, shotRun, sent>>
      <3> DEFINE C == [active : BOOLEAN, expired : BOOLEAN, most : Nat, consumed : Nat]
      <3>1. /\ conf' = [conf EXCEPT ![r].expired = TRUE]
            /\ UNCHANGED <<target, owner, shotItem, todo, shotRun, sent>>
        BY <1>1 DEF Shot!Expire
      <3>2. ASSUME NEW c \in C
            PROVE  LET d == [c EXCEPT !.expired = TRUE]
                   IN  d \in C /\ d.active = c.active /\ d.most = c.most /\ d.consumed = c.consumed
        OBVIOUS
      <3>3. \A q \in Ref : conf[q] \in C
        OBVIOUS
      <3>4. conf' = [q \in Ref |-> IF q = r THEN [conf[q] EXCEPT !.expired = TRUE] ELSE conf[q]]
        BY <3>1
      <3> HIDE DEF C
      <3>5. ASSUME NEW q \in Ref
            PROVE  /\ conf'[q] \in C /\ conf'[q].active = conf[q].active
                   /\ conf'[q].most = conf[q].most /\ conf'[q].consumed = conf[q].consumed
        <4>1. CASE q = r
          BY <3>2, <3>3, <3>4, <4>1, Zenon
        <4>2. CASE q # r
          BY <3>3, <3>4, <4>2, Zenon
        <4> QED BY <4>1, <4>2
      <3>6. conf' \in [Ref -> C]
        BY <3>4, <3>5, Zenon
      <3> QED BY <3>1, <3>5, <3>6 DEF C
    <2>2. RunCarries'
      BY <2>1 DEF ShotInv, RunCarries
    <2> QED BY <2>1, <2>2, <1>0, NothingDecided
  <1>2. ASSUME shotItem' = Shot!Recovered, shotRun = Shot!NoRun, shotRun' \in Runs,
               shotRun'.pc = "running", shotRun'.by \in Ref \cup {Live},
               todo' \in [Ref -> SUBSET Picked], UNCHANGED <<conf, target, owner, sent>>
        PROVE  ShotInv'
    <2>1. \A i \in Picked : shotItem'[i] = IF shotItem[i].state = "applying"
                            THEN [shotItem[i] EXCEPT !.state = "reconciling"] ELSE shotItem[i]
      BY <1>2 DEF Shot!Recovered
    <2>2. \A i \in Picked : /\ shotItem'[i] \in Items
                            /\ shotItem'[i].by = shotItem[i].by
                            /\ shotItem'[i].tries = shotItem[i].tries
                            /\ shotItem'[i].challenge = shotItem[i].challenge
                            /\ \/ shotItem'[i].state = shotItem[i].state
                               \/ shotItem[i].state = "applying" /\ shotItem'[i].state = "reconciling"
      <3>1. "reconciling" \in Shot!States
        BY DEF Shot!States, Shot!Unsettled
      <3>2. TAKE i \in Picked
      <3>3. shotItem[i] \in Items
        OBVIOUS
      <3>4. CASE shotItem[i].state = "applying"
        <4>1. shotItem'[i] = [shotItem[i] EXCEPT !.state = "reconciling"]
          BY <2>1, <3>4
        <4> QED BY <3>1, <3>3, <3>4, <4>1 DEF Items
      <3>5. CASE shotItem[i].state # "applying"
        BY <2>1, <3>3, <3>5
      <3> QED BY <3>4, <3>5
    <2>3. shotItem' \in [Picked -> Items]
      BY <1>2, <2>2 DEF Shot!Recovered
    <2>4. \A i \in Picked : /\ Undecided(i)' <=> Undecided(i)
                            /\ shotItem[i].state = "applied" => shotItem'[i].state = "applied"
      BY <2>2 DEF Undecided
    <2>5. ChallengesRest'
      BY <2>2 DEF ShotInv, ChallengesRest
    <2>6. RunCarries'
      BY <1>2 DEF RunCarries
    <2> QED BY <1>2, <2>2, <2>3, <2>4, <2>5, <2>6, NothingDecided
  <1>3. ASSUME NEW r \in Ref, Shot!StartLiteral(r) PROVE ShotInv'
    <2>1. PICK i \in todo[r] : /\ todo' = [todo EXCEPT ![r] = @ \ {i}]
                               /\ shotRun' = [by |-> r, item |-> i, pc |-> "running"]
      BY <1>3 DEF Shot!StartLiteral
    <2>2. shotRun' \in Runs /\ todo' \in [Ref -> SUBSET Picked]
      BY <2>1 DEF Runs
    <2> QED BY <1>2, <1>3, <2>1, <2>2 DEF Shot!StartLiteral
  <1>4. CASE Shot!StartLive
    <2>1. shotRun' = [by |-> Live, item |-> NoPicked, pc |-> "running"]
      BY <1>4 DEF Shot!StartLive
    <2>2. shotRun' \in Runs
      BY <2>1 DEF Runs
    <2> QED BY <1>2, <1>4, <2>1, <2>2 DEF Shot!StartLive
  <1>5. CASE Shot!EndRun \/ Shot!Die
    <2>1. /\ shotRun' = [by |-> "nobody", item |-> NoPicked, pc |-> "none"]
          /\ UNCHANGED <<conf, target, owner, shotItem, sent>>
      BY <1>5 DEF Shot!EndRun, Shot!Die, Shot!NoRun, Shot!Nobody
    <2>2. shotRun' \in Runs /\ RunCarries'
      BY <2>1 DEF Runs, RunCarries
    <2>3. todo' \in [Ref -> SUBSET Picked]
      BY <1>5 DEF Shot!EndRun, Shot!Die
    <2> QED BY <1>0, <2>1, <2>2, <2>3, NothingDecided
  <1>6. CASE Shot!Post
    <2>1. /\ shotRun.item \in Picked /\ shotItem[shotRun.item].state = "applying"
          /\ shotItem[shotRun.item].by = shotRun.by
      BY <1>6 DEF ShotInv, RunCarries, Shot!Post
    <2>2. PICK v \in Ref \cup {Live, "nobody"} : sent' \in {sent, [sent EXCEPT ![shotRun.item] = v]}
      BY <1>6, <2>1 DEF Shot!Post, Runs
    <2>3. /\ sent' \in [Picked -> Ref \cup {Live, "nobody"}]
          /\ \A i \in Picked : shotItem[i].state = "applied" => sent'[i] = sent[i]
      BY <2>1, <2>2
    <2>4. /\ shotRun' = [shotRun EXCEPT !.pc = "landed"] /\ shotRun.pc = "posting"
          /\ UNCHANGED <<conf, target, owner, shotItem, todo>>
      BY <1>6 DEF Shot!Post
    <2>5. shotRun' \in Runs /\ shotRun'.item = shotRun.item /\ shotRun'.by = shotRun.by
      BY <2>4 DEF Runs
    <2>6. RunCarries'
      BY <2>4, <2>5 DEF ShotInv, RunCarries
    <2> QED BY <1>0, <2>3, <2>4, <2>5, <2>6, NothingDecided
  <1> QED BY <1>1, <1>3, <1>4, <1>5, <1>6

\* A new confirmation has no active target and has counted nothing.
LEMMA ConfirmInv ==
    ASSUME Shot!OneShotAssumption, ShotInv, NEW r \in Ref, Shot!Confirm(r) PROVE ShotInv'
  <1>0. /\ shotItem \in [Picked -> Items] /\ shotRun \in Runs
        /\ conf \in [Ref -> [active : BOOLEAN, expired : BOOLEAN, most : Nat, consumed : Nat]]
        /\ target \in [Ref -> [Picked -> {"none", "pending", "active", "succeeded", "closed"}]]
        /\ owner \in [Ref -> [Picked -> 0..PickedTries]]
        /\ todo \in [Ref -> SUBSET Picked]
        /\ sent \in [Picked -> Ref \cup {Live, "nobody"}]
    BY ShotShapes
  <1> USE <1>0
  <1>1. PICK T \in SUBSET Picked, S \in SUBSET Picked :
            /\ conf' = [conf EXCEPT ![r].active = TRUE, ![r].most = Shot!Cardinality(S)]
            /\ target' = [target EXCEPT ![r] = [i \in Picked |-> IF i \in T THEN "pending" ELSE "none"]]
            /\ todo' = [todo EXCEPT ![r] = S]
    BY DEF Shot!Confirm
  <1>2. conf[r].most = 0 /\ UNCHANGED <<owner, shotItem, shotRun, sent>>
    BY DEF Shot!Confirm
  <1>3. PICK n \in Nat : n = Shot!Cardinality(S)
    BY ShotCounts, SetsAreFinite
  <1>4. /\ conf' \in [Ref -> [active : BOOLEAN, expired : BOOLEAN, most : Nat, consumed : Nat]]
        /\ conf'[r].consumed = conf[r].consumed /\ conf'[r].most \in Nat
        /\ \A q \in Ref : q # r => conf'[q] = conf[q]
    <2>1. conf' = [conf EXCEPT ![r].active = TRUE, ![r].most = n]
      BY <1>1, <1>3
    <2> QED BY <2>1
  <1>5. /\ target' \in [Ref -> [Picked -> {"none", "pending", "active", "succeeded", "closed"}]]
        /\ \A i \in Picked : target'[r][i] \in {"none", "pending"}
        /\ \A q \in Ref : q # r => target'[q] = target[q]
    BY <1>1
  <1>6. todo' \in [Ref -> SUBSET Picked]
    BY <1>1
  <1>7. /\ \A q \in Ref : Shot!Active(q) \in SUBSET Picked /\ Succeeded(q) \in SUBSET Picked
        /\ \A q \in Ref : Cardinality(Shot!Active(q)) \in Nat /\ Cardinality(Succeeded(q)) \in Nat
    BY SetsAreFinite DEF Shot!Active, Succeeded
  <1>8. /\ conf[r].consumed = 0 /\ Cardinality(Shot!Active(r)) = 0
    <2>1. conf[r].consumed + Cardinality(Shot!Active(r)) <= conf[r].most
      BY Zenon DEF ShotInv, RoomIsKept, HasRoom
    <2>2. conf[r].consumed \in Nat /\ Cardinality(Shot!Active(r)) \in Nat
      BY <1>7
    <2>3. \A a, b \in Nat : a + b <= 0 => a = 0 /\ b = 0
      OBVIOUS
    <2>4. conf[r].consumed + Cardinality(Shot!Active(r)) <= 0
      BY <1>2, <2>1, Zenon
    <2> QED BY <2>2, <2>3, <2>4, Zenon
  <1>9. \A i \in Picked : target[r][i] # "active"
    <2>1. IsFiniteSet(Shot!Active(r))
      BY <1>7, SetsAreFinite
    <2>2. Shot!Active(r) = {}
      BY <1>8, <2>1, FS_EmptySet
    <2> QED BY <2>2 DEF Shot!Active
  <1>10. /\ Shot!Active(r)' = {} /\ Succeeded(r)' = {}
         /\ \A q \in Ref : q # r => Shot!Active(q)' = Shot!Active(q) /\ Succeeded(q)' = Succeeded(q)
    BY <1>5 DEF Shot!Active, Succeeded
  <1>11. Cardinality({}) = 0
    BY FS_EmptySet
  <1>12. Cardinality(Shot!Active(r)') = 0 /\ Cardinality(Succeeded(r)') = 0
    BY <1>10, <1>11, Zenon
  <1>13. RoomIsKept'
    <2>1. ASSUME NEW q \in Ref, q # r
          PROVE  HasRoom(q)'
      BY <2>1, <1>4, <1>10 DEF ShotInv, RoomIsKept, HasRoom
    <2>2. HasRoom(r)'
      BY <1>4, <1>8, <1>10, <1>12 DEF HasRoom
    <2> QED BY <2>1, <2>2 DEF RoomIsKept
  <1>14. SuccessIsCounted'
    <2>1. \A q \in Ref : conf'[q].consumed = Cardinality(Succeeded(q)')
      <3>1. conf'[r].consumed = Cardinality(Succeeded(r)')
        BY <1>4, <1>8, <1>12
      <3>2. ASSUME NEW q \in Ref, q # r PROVE conf'[q].consumed = Cardinality(Succeeded(q)')
        BY <3>2, <1>4, <1>10, ZenonT(30) DEF ShotInv, SuccessIsCounted, CountIsReal
      <3> QED BY <3>1, <3>2
    <2>2. \A q \in Ref : \A i \in Succeeded(q)' : sent'[i] = q /\ shotItem'[i].state = "applied"
      <3>1. ASSUME NEW q \in Ref, NEW i \in Succeeded(q)'
            PROVE  sent'[i] = q /\ shotItem'[i].state = "applied"
        <4>1. q # r /\ i \in Succeeded(q)
          BY <3>1, <1>10, Zenon
        <4> QED BY <4>1, <1>2 DEF ShotInv, SuccessIsCounted, CountIsReal
      <3> QED BY <3>1
    <2> QED BY <2>1, <2>2 DEF SuccessIsCounted, CountIsReal
  <1>15. TargetsFollow'
    <2>1. \A i \in Picked : Undecided(i)' <=> Undecided(i)
      BY <1>2 DEF Undecided
    <2>2. \A i \in Picked : Undecided(i) => shotItem[i].by # r
      BY <1>9 DEF ShotInv, TargetsFollow, Shot!Finishable
    <2>3. ASSUME NEW i \in Picked, Undecided(i)' PROVE Shot!Finishable(i)'
      BY <2>1, <2>2, <2>3, <1>2, <1>5 DEF ShotInv, TargetsFollow, Shot!Finishable
    <2>4. ASSUME NEW q \in Ref, NEW i \in Picked, target'[q][i] = "active"
          PROVE  shotItem'[i].by = q /\ Undecided(i)'
      BY <2>1, <2>4, <1>2, <1>5 DEF ShotInv, TargetsFollow
    <2> QED BY <2>3, <2>4 DEF TargetsFollow
  <1>16. ChallengesRest' /\ RunCarries'
    BY <1>2 DEF ShotInv, ChallengesRest, RunCarries
  <1>17. Shot!TypeOK'
    BY <1>2, <1>4, <1>5, <1>6 DEF Shot!TypeOK, Items, Runs, Shot!Nobody
  <1> QED BY <1>13, <1>14, <1>15, <1>16, <1>17 DEF ShotInv

\* The attempt of a literal run takes its target and a place in its
\* confirmation in one transaction.
LEMMA ShotPrepareInv ==
    ASSUME Shot!OneShotAssumption, ShotInv, NEW i \in Picked, Shot!Prepare(i) PROVE ShotInv'
  <1>0. /\ shotItem \in [Picked -> Items] /\ shotRun \in Runs
        /\ conf \in [Ref -> [active : BOOLEAN, expired : BOOLEAN, most : Nat, consumed : Nat]]
        /\ target \in [Ref -> [Picked -> {"none", "pending", "active", "succeeded", "closed"}]]
        /\ owner \in [Ref -> [Picked -> 0..PickedTries]]
        /\ todo \in [Ref -> SUBSET Picked]
        /\ sent \in [Picked -> Ref \cup {Live, "nobody"}]
    BY ShotShapes
  <1> USE <1>0
  <1>1. /\ shotRun.pc = "running" /\ shotItem[i].state = "ready" /\ shotItem[i].tries < PickedTries
        /\ shotRun.by \in Ref => Shot!Confirmed(shotRun.by, i)
        /\ UNCHANGED <<conf, todo, sent>>
    BY DEF Shot!Prepare
  <1>2. shotRun.by \in Ref \cup {Live}
    BY <1>1 DEF ShotInv, RunCarries
  <1>3. PICK t \in 0..PickedTries : t = shotItem[i].tries + 1
    BY <1>1 DEF Items, Shot!OneShotAssumption
  <1>4. PICK x \in Items : x = [state |-> "applying", tries |-> t, checks |-> 0,
                                by |-> shotRun.by, challenge |-> "none"]
    <2>1. ~Undecided(i) /\ shotItem[i].challenge = "none"
      BY <1>1 DEF ShotInv, ChallengesRest, Undecided, Items
    <2>2. 0 \in 0..(PickedChecks - 1) /\ "applying" \in Shot!States
      BY DEF Shot!OneShotAssumption, Shot!States, Shot!Unsettled
    <2> QED BY <1>2, <1>3, <2>2 DEF Items
  <1>5. shotItem[i].challenge = "none"
    BY <1>1 DEF ShotInv, ChallengesRest, Items
  <1>6. shotItem' = [shotItem EXCEPT ![i] = x]
    <2>1. shotItem' = [shotItem EXCEPT ![i].state = "applying", ![i].tries = t,
                                       ![i].by = shotRun.by, ![i].checks = 0]
      BY <1>3 DEF Shot!Prepare
    <2>2. \A j \in Picked : j # i => shotItem'[j] = shotItem[j]
      BY <2>1
    <2>3. shotItem'[i] = x
      BY <2>1, <1>4, <1>5 DEF Items
    <2>4. shotItem' \in [Picked -> Items]
      BY <2>1, <2>2, <2>3
    <2> QED BY <2>2, <2>3, <2>4
  <1>7. /\ shotItem' \in [Picked -> Items] /\ shotItem'[i] = x
        /\ \A j \in Picked : j # i => shotItem'[j] = shotItem[j]
    BY <1>6
  <1>8. shotRun' = [shotRun EXCEPT !.item = i, !.pc = "posting"]
    BY DEF Shot!Prepare
  <1>9. shotRun' \in Runs /\ shotRun'.item = i /\ shotRun'.by = shotRun.by
    BY <1>8 DEF Runs
  <1>10. ChallengesRest' /\ RunCarries'
    <2>1. ChallengesRest'
      BY <1>4, <1>7 DEF ShotInv, ChallengesRest
    <2>2. x.state = "applying" /\ x.by = shotRun.by
      BY <1>4
    <2> QED BY <1>2, <1>7, <1>9, <2>1, <2>2 DEF RunCarries
  <1>11. /\ Undecided(i)' /\ ~Undecided(i)
         /\ \A j \in Picked : j # i => (Undecided(j)' <=> Undecided(j))
    BY <1>1, <1>4, <1>5, <1>7 DEF Undecided
  <1>12. \A q \in Ref : target[q][i] # "active" /\ i \notin Succeeded(q)
    BY <1>1, <1>11 DEF ShotInv, TargetsFollow, SuccessIsCounted, CountIsReal
  <1>13. CASE shotRun.by \notin Ref
    <2>1. UNCHANGED <<target, owner>>
      BY <1>13 DEF Shot!Prepare
    <2>2. Shot!TypeOK'
      BY <1>1, <1>7, <1>9, <2>1 DEF Shot!TypeOK, Items, Runs, Shot!Nobody
    <2>3. TargetsFollow'
      <3>1. ASSUME NEW j \in Picked, Undecided(j)' PROVE Shot!Finishable(j)'
        <4>1. CASE j = i
          BY <4>1, <1>4, <1>7, <1>13 DEF Shot!Finishable
        <4>2. CASE j # i
          BY <4>2, <3>1, <1>7, <1>11, <2>1 DEF ShotInv, TargetsFollow, Shot!Finishable
        <4> QED BY <4>1, <4>2
      <3>2. ASSUME NEW q \in Ref, NEW j \in Picked, target'[q][j] = "active"
            PROVE  shotItem'[j].by = q /\ Undecided(j)'
        <4>1. j # i
          BY <3>2, <1>12, <2>1
        <4> QED BY <4>1, <3>2, <1>7, <1>11, <2>1 DEF ShotInv, TargetsFollow
      <3> QED BY <3>1, <3>2 DEF TargetsFollow
    <2>4. RoomIsKept'
      BY <1>1, <2>1 DEF ShotInv, RoomIsKept, HasRoom, Shot!Active
    <2>5. SuccessIsCounted'
      <3>1. \A q \in Ref : Succeeded(q)' = Succeeded(q) /\ Succeeded(q) \subseteq Picked
        BY <2>1 DEF Succeeded
      <3>2. ASSUME NEW q \in Ref PROVE CountIsReal(q)'
        <4>1. CountIsReal(q) /\ i \notin Succeeded(q) /\ Succeeded(q)' = Succeeded(q)
              /\ Succeeded(q) \subseteq Picked
          BY <1>12, <3>1 DEF ShotInv, SuccessIsCounted
        <4>2. conf' = conf /\ sent' = sent
          BY <1>1
        <4>3. conf'[q].consumed = Cardinality(Succeeded(q)')
          BY <4>1, <4>2, Zenon DEF CountIsReal
        <4>4. ASSUME NEW j \in Succeeded(q)' PROVE sent'[j] = q /\ shotItem'[j].state = "applied"
          <5>1. j \in Succeeded(q)
            BY <4>1, <4>4, Zenon
          <5> QED BY <4>1, <4>2, <5>1, <1>7 DEF CountIsReal
        <4> QED BY <4>3, <4>4, Zenon DEF CountIsReal
      <3> QED BY <3>2 DEF SuccessIsCounted
    <2> QED BY <1>10, <2>2, <2>3, <2>4, <2>5 DEF ShotInv
  <1>14. CASE shotRun.by \in Ref
    <2>0. PICK r \in Ref : r = shotRun.by
      BY <1>14
    <2>1. /\ target' = [target EXCEPT ![r][i] = "active"]
          /\ owner' = [owner EXCEPT ![r][i] = t]
      BY <1>3, <2>0 DEF Shot!Prepare
    <2>2. /\ target' \in [Ref -> [Picked -> {"none", "pending", "active", "succeeded", "closed"}]]
          /\ target'[r][i] = "active"
          /\ \A q \in Ref, j \in Picked : q # r \/ j # i => target'[q][j] = target[q][j]
      BY <2>0, <2>1
    <2>3. /\ owner' \in [Ref -> [Picked -> 0..PickedTries]]
          /\ owner'[r][i] = t
          /\ \A q \in Ref, j \in Picked : q # r \/ j # i => owner'[q][j] = owner[q][j]
      BY <2>0, <2>1
    <2>4. Shot!TypeOK'
      BY <1>1, <1>7, <1>9, <2>2, <2>3 DEF Shot!TypeOK, Items, Runs, Shot!Nobody
    <2>5. TargetsFollow'
      <3>1. ASSUME NEW j \in Picked, Undecided(j)' PROVE Shot!Finishable(j)'
        <4>1. CASE j = i
          BY <4>1, <1>4, <1>7, <2>0, <2>2, <2>3 DEF Shot!Finishable
        <4>2. CASE j # i
          BY <4>2, <3>1, <1>7, <1>11, <2>2, <2>3 DEF ShotInv, TargetsFollow, Shot!Finishable
        <4> QED BY <4>1, <4>2
      <3>2. ASSUME NEW q \in Ref, NEW j \in Picked, target'[q][j] = "active"
            PROVE  shotItem'[j].by = q /\ Undecided(j)'
        <4>1. CASE j = i
          BY <4>1, <3>2, <1>4, <1>7, <1>11, <1>12, <2>0, <2>2
        <4>2. CASE j # i
          BY <4>2, <3>2, <1>7, <1>11, <2>2 DEF ShotInv, TargetsFollow
        <4> QED BY <4>1, <4>2
      <3> QED BY <3>1, <3>2 DEF TargetsFollow
    <2>6. /\ Shot!Active(r)' = Shot!Active(r) \cup {i} /\ i \in Picked \ Shot!Active(r)
          /\ \A q \in Ref : q # r => Shot!Active(q)' = Shot!Active(q)
          /\ Shot!Active(r) \in SUBSET Picked
      <3>1. i \in Picked \ Shot!Active(r) /\ Shot!Active(r) \in SUBSET Picked
        BY <1>12 DEF Shot!Active
      <3>2. Shot!Active(r)' = Shot!Active(r) \cup {i}
        BY <2>2 DEF Shot!Active
      <3>3. \A q \in Ref : q # r => Shot!Active(q)' = Shot!Active(q)
        BY <2>2 DEF Shot!Active
      <3> QED BY <3>1, <3>2, <3>3
    <2>7. /\ Cardinality(Shot!Active(r)) \in Nat
          /\ Cardinality(Shot!Active(r) \cup {i}) = Cardinality(Shot!Active(r)) + 1
      BY <2>6, SetsAreFinite
    <2>8. Cardinality(Shot!Active(r)') = Cardinality(Shot!Active(r)) + 1
      BY <2>6, <2>7, Zenon
    <2>9. /\ conf[r].active /\ conf[r].consumed + Cardinality(Shot!Active(r)) < conf[r].most
      BY <1>1, <2>0, ShotCounts DEF Shot!Confirmed, Shot!Room
    <2>10. RoomIsKept'
      <3>1. ASSUME NEW q \in Ref, q # r
            PROVE  HasRoom(q)'
        BY <3>1, <1>1, <2>6 DEF ShotInv, RoomIsKept, HasRoom
      <3>2. HasRoom(r)'
        <4>1. \A a, b, m \in Nat : a + b < m => a + (b + 1) <= m
          OBVIOUS
        <4>2. conf[r].consumed \in Nat /\ conf[r].most \in Nat
          OBVIOUS
        <4>3. conf[r].consumed + (Cardinality(Shot!Active(r)) + 1) <= conf[r].most
          BY <2>7, <2>9, <4>1, <4>2, Zenon
        <4>4. conf[r].consumed + Cardinality(Shot!Active(r)') <= conf[r].most
          BY <2>8, <4>3, Zenon
        <4> QED BY <1>1, <2>9, <4>4 DEF HasRoom
      <3> QED BY <3>1, <3>2 DEF RoomIsKept
    <2>11. SuccessIsCounted'
      <3>1. \A q \in Ref : Succeeded(q)' = Succeeded(q) /\ Succeeded(q) \subseteq Picked
        <4>1. target[r][i] = "pending"
          BY <1>1, <2>0 DEF Shot!Confirmed
        <4> QED BY <4>1, <2>2 DEF Succeeded
      <3>2. ASSUME NEW q \in Ref PROVE CountIsReal(q)'
        <4>1. CountIsReal(q) /\ i \notin Succeeded(q) /\ Succeeded(q)' = Succeeded(q)
              /\ Succeeded(q) \subseteq Picked
          BY <1>12, <3>1 DEF ShotInv, SuccessIsCounted
        <4>2. conf' = conf /\ sent' = sent
          BY <1>1
        <4>3. conf'[q].consumed = Cardinality(Succeeded(q)')
          BY <4>1, <4>2, Zenon DEF CountIsReal
        <4>4. ASSUME NEW j \in Succeeded(q)' PROVE sent'[j] = q /\ shotItem'[j].state = "applied"
          <5>1. j \in Succeeded(q)
            BY <4>1, <4>4, Zenon
          <5> QED BY <4>1, <4>2, <5>1, <1>7 DEF CountIsReal
        <4> QED BY <4>3, <4>4, Zenon DEF CountIsReal
      <3> QED BY <3>2 DEF SuccessIsCounted
    <2> QED BY <1>10, <2>4, <2>5, <2>10, <2>11 DEF ShotInv
  <1> QED BY <1>13, <1>14

\* What an item becomes when its state and challenge are written.
Becomes(i, state, challenge) ==
    \E x \in Items : /\ shotItem' = [shotItem EXCEPT ![i] = x]
                     /\ x.by = shotItem[i].by /\ x.tries = shotItem[i].tries
                     /\ x.state = state /\ x.challenge = challenge

LEMMA ItemWritten ==
    ASSUME shotItem \in [Picked -> Items]
    PROVE  /\ \A i \in Picked, state \in Shot!States : Shot!To(i, state) => Becomes(i, state, "none")
           /\ \A i \in Picked, kind \in {"manual_captcha", "ambiguous_application"} :
                Shot!Challenge(i, kind) => Becomes(i, "manual_challenge", kind)
  <1>1. ASSUME NEW i \in Picked, NEW state \in Shot!States, Shot!To(i, state)
        PROVE  Becomes(i, state, "none")
    <2>1. PICK e \in Items : e = shotItem[i]
      OBVIOUS
    <2>2. state \in Shot!States /\ "none" \in {"none", "manual_captcha", "ambiguous_application"}
      BY DEF Shot!States, Shot!Unsettled
    <2>3. PICK x \in Items : x = [state |-> state, tries |-> e.tries, checks |-> e.checks,
                                 by |-> e.by, challenge |-> "none"]
      BY <2>2 DEF Items
    <2>4. shotItem' = [shotItem EXCEPT ![i].state = state, ![i].challenge = "none"]
      BY <1>1 DEF Shot!To
    <2>5. \A j \in Picked : j # i => shotItem'[j] = shotItem[j]
      BY <2>4
    <2>6. shotItem'[i] = x
      BY <2>1, <2>3, <2>4 DEF Items
    <2>7. shotItem' = [shotItem EXCEPT ![i] = x]
      BY <2>4, <2>5, <2>6
    <2> QED BY <2>1, <2>3, <2>7 DEF Becomes
  <1>2. ASSUME NEW i \in Picked, NEW kind \in {"manual_captcha", "ambiguous_application"}, Shot!Challenge(i, kind)
        PROVE  Becomes(i, "manual_challenge", kind)
    <2>1. PICK e \in Items : e = shotItem[i]
      OBVIOUS
    <2>2. "manual_challenge" \in Shot!States /\ kind \in {"none", "manual_captcha", "ambiguous_application"}
      BY DEF Shot!States, Shot!Unsettled
    <2>3. PICK x \in Items : x = [state |-> "manual_challenge", tries |-> e.tries, checks |-> e.checks,
                                 by |-> e.by, challenge |-> kind]
      BY <2>2 DEF Items
    <2>4. shotItem' = [shotItem EXCEPT ![i].state = "manual_challenge", ![i].challenge = kind]
      BY <1>2 DEF Shot!Challenge
    <2>5. \A j \in Picked : j # i => shotItem'[j] = shotItem[j]
      BY <2>4
    <2>6. shotItem'[i] = x
      BY <2>1, <2>3, <2>4 DEF Items
    <2>7. shotItem' = [shotItem EXCEPT ![i] = x]
      BY <2>4, <2>5, <2>6
    <2> QED BY <2>1, <2>3, <2>7 DEF Becomes
  <1> QED BY <1>1, <1>2

\* The two ways an attempt is decided: for good or to be tried again, and with
\* a task for the operator.
LEMMA DecidedInv ==
    ASSUME Shot!OneShotAssumption, ShotInv, NEW i \in Picked, Undecided(i),
           NEW state \in {"applied", "retry_wait", "skipped", "dead", "ready"},
           NEW status \in {"pending", "succeeded", "closed"},
           Shot!To(i, state), Shot!Finish(i, status),
           status = "succeeded" => state = "applied" /\ sent[i] = shotItem[i].by,
           UNCHANGED <<todo, sent>>,
           \/ UNCHANGED shotRun /\ shotRun.pc \in {"none", "running"}
           \/ shotRun' \in [by : Ref \cup {Live}, item : Picked \cup {NoPicked}, pc : {"running"}]
    PROVE  ShotInv'
  <1>0. shotItem \in [Picked -> Items] /\ shotItem[i] \in Items
    BY ShotShapes
  <1>1. state \in Shot!States
    BY DEF Shot!States, Shot!Unsettled
  <1>2. PICK x \in Items : /\ shotItem' = [shotItem EXCEPT ![i] = x]
                           /\ x.by = shotItem[i].by /\ x.tries = shotItem[i].tries
                           /\ x.state = state /\ x.challenge = "none"
    BY <1>0, <1>1, ItemWritten DEF Becomes
  <1>3. x \in [state : Shot!States, tries : 0..PickedTries, checks : 0..(PickedChecks - 1),
               by : Ref \cup {Live, "nobody"},
               challenge : {"none", "manual_captcha", "ambiguous_application"}]
    BY DEF Items
  <1>4. /\ x.state \notin {"applying", "reconciling"} /\ x.challenge # "ambiguous_application"
        /\ x.challenge = "none" \/ x.state = "manual_challenge"
        /\ status = "succeeded" => x.state = "applied" /\ sent[i] = x.by
    BY <1>2
  <1> QED BY <1>2, <1>3, <1>4, FinishInv

LEMMA PutToOperatorInv ==
    ASSUME Shot!OneShotAssumption, ShotInv, NEW i \in Picked, Undecided(i),
           Shot!Challenge(i, "manual_captcha"), Shot!Finish(i, "pending"),
           UNCHANGED <<todo, sent>>,
           shotRun' \in [by : Ref \cup {Live}, item : Picked \cup {NoPicked}, pc : {"running"}]
    PROVE  ShotInv'
  <1>0. shotItem \in [Picked -> Items] /\ shotItem[i] \in Items
    BY ShotShapes
  <1>1. "manual_challenge" \in Shot!States
    BY DEF Shot!States, Shot!Unsettled
  <1>2. PICK x \in Items : /\ shotItem' = [shotItem EXCEPT ![i] = x]
                           /\ x.by = shotItem[i].by /\ x.tries = shotItem[i].tries
                           /\ x.state = "manual_challenge" /\ x.challenge = "manual_captcha"
    BY <1>0, <1>1, ItemWritten DEF Becomes
  <1>3. x \in [state : Shot!States, tries : 0..PickedTries, checks : 0..(PickedChecks - 1),
               by : Ref \cup {Live, "nobody"},
               challenge : {"none", "manual_captcha", "ambiguous_application"}]
    BY DEF Items
  <1>4. /\ x.state \notin {"applying", "reconciling"} /\ x.challenge # "ambiguous_application"
        /\ x.challenge = "none" \/ x.state = "manual_challenge"
    BY <1>2
  <1> QED BY <1>2, <1>3, <1>4, FinishInv

\* Answers of a live run: the outcome is written under the lease of the run.
LEMMA AnswerInv ==
    ASSUME Shot!OneShotAssumption, ShotInv, Shot!Answer PROVE ShotInv'
  <1>0. /\ shotItem \in [Picked -> Items] /\ shotRun \in Runs
    BY ShotShapes
  <1>1. /\ shotRun.pc = "landed" /\ shotRun.item \in Picked
        /\ shotItem[shotRun.item].state = "applying"
        /\ shotItem[shotRun.item].by = shotRun.by /\ shotRun.by \in Ref \cup {Live}
        /\ shotItem[shotRun.item].challenge = "none"
    BY <1>0 DEF Shot!Answer, ShotInv, RunCarries, ChallengesRest, Items
  <1>2. PICK i \in Picked : i = shotRun.item
    BY <1>1
  <1>3. /\ shotRun' \in [by : Ref \cup {Live}, item : Picked \cup {NoPicked}, pc : {"running"}]
        /\ UNCHANGED <<todo, sent>>
    <2>1. shotRun' = [shotRun EXCEPT !.pc = "running",
                        !.item = IF shotRun.by = Live THEN NoPicked ELSE @]
      BY DEF Shot!Answer
    <2>2. PICK j \in Picked \cup {NoPicked} :
              j = IF shotRun.by = Live THEN NoPicked ELSE shotRun.item
      BY <1>1
    <2>3. shotRun' = [by |-> shotRun.by, item |-> j, pc |-> "running"]
      BY <1>0, <2>1, <2>2 DEF Runs
    <2>4. UNCHANGED <<todo, sent>>
      BY DEF Shot!Answer
    <2> QED BY <1>1, <2>3, <2>4
  <1>4. Undecided(i)
    BY <1>1, <1>2 DEF Undecided
  <1>5. ASSUME NEW state \in {"applied", "retry_wait", "skipped", "dead", "ready"},
               NEW status \in {"pending", "succeeded", "closed"},
               Shot!To(i, state), Shot!Finish(i, status),
               status = "succeeded" => state = "applied" /\ sent[i] = shotItem[i].by
        PROVE  ShotInv'
    BY <1>3, <1>4, <1>5, DecidedInv
  <1>6. CASE Shot!To(i, "reconciling") /\ UNCHANGED <<conf, target, owner>>
    <2>1. "reconciling" \in Shot!States
      BY DEF Shot!States, Shot!Unsettled
    <2>2. PICK x \in Items : /\ shotItem' = [shotItem EXCEPT ![i] = x]
                             /\ x.by = shotItem[i].by /\ x.tries = shotItem[i].tries
                             /\ x.state = "reconciling" /\ x.challenge = "none"
      BY <1>0, <1>6, <2>1, ItemWritten DEF Becomes
    <2>3. shotRun' \in Runs /\ shotRun'.pc = "running" /\ shotRun'.by \in Ref \cup {Live}
      BY <1>3 DEF Runs
    <2> QED BY <1>1, <1>2, <1>3, <1>4, <1>6, <2>2, <2>3, OneItemMoves
  <1>7. CASE Shot!Challenge(i, "manual_captcha") /\ Shot!Finish(i, "pending")
    BY <1>3, <1>4, <1>7, PutToOperatorInv
  <1>8. \/ sent[i] = shotRun.by /\ Shot!To(i, "applied") /\ Shot!Finish(i, "succeeded")
        \/ Shot!To(i, "retry_wait") /\ Shot!Finish(i, "pending")
        \/ Shot!Challenge(i, "manual_captcha") /\ Shot!Finish(i, "pending")
        \/ Shot!To(i, "skipped") /\ Shot!Finish(i, "closed")
        \/ Shot!To(i, "dead") /\ Shot!Finish(i, "closed")
        \/ Shot!To(i, "reconciling") /\ UNCHANGED <<conf, target, owner>>
    BY <1>2 DEF Shot!Answer
  <1> QED BY <1>1, <1>2, <1>5, <1>6, <1>7, <1>8

\* Retries, readings of HH, and the operator, while no POST is under way.
LEMMA DeskInv ==
    ASSUME Shot!OneShotAssumption, ShotInv, NEW i \in Picked,
           \/ Shot!Retry(i) \/ Shot!Found(i) \/ Shot!ByHand(i) \/ Shot!Absent(i)
           \/ Shot!Ask(i) \/ Shot!Verdict(i) \/ Shot!CloseManual(i)
    PROVE  ShotInv'
  <1>0. shotItem \in [Picked -> Items] /\ shotItem[i] \in Items /\ shotRun \in Runs
    BY ShotShapes
  <1>1. /\ shotRun.pc \in {"none", "running"} /\ UNCHANGED <<todo, shotRun, sent>>
        /\ shotRun' \in Runs /\ shotRun'.pc \in {"none", "running"}
        /\ shotRun'.pc = "running" => shotRun'.by \in Ref \cup {Live}
    BY <1>0 DEF Shot!Retry, Shot!Found, Shot!ByHand, Shot!Absent, Shot!Ask, Shot!Verdict,
        Shot!CloseManual, Shot!CanReconcile, ShotInv, RunCarries
  <1>2. /\ Shot!CanReconcile(i) => Undecided(i) /\ shotItem[i].state = "reconciling"
        /\ shotItem[i].challenge = "ambiguous_application" =>
              Undecided(i) /\ shotItem[i].state \in {"manual_challenge", "dead"}
        /\ shotItem[i].challenge = "manual_captcha" =>
              ~Undecided(i) /\ shotItem[i].state \in {"manual_challenge", "dead"}
        /\ shotItem[i].state = "retry_wait" => ~Undecided(i)
    BY DEF Undecided, Shot!CanReconcile, ShotInv, ChallengesRest
  <1>3. ASSUME NEW state \in {"applied", "skipped", "dead", "ready"},
               NEW status \in {"pending", "succeeded", "closed"}, Undecided(i),
               Shot!To(i, state), Shot!Finish(i, status),
               status = "succeeded" => state = "applied" /\ sent[i] = shotItem[i].by
        PROVE  ShotInv'
    BY <1>1, <1>3, DecidedInv
  <1>4. ASSUME NEW state \in {"ready", "skipped"}, Shot!To(i, state), ~Undecided(i),
               shotItem[i].state # "applied", UNCHANGED <<conf, target, owner>>
        PROVE  ShotInv'
    <2>1. state \in Shot!States
      BY DEF Shot!States
    <2>2. PICK x \in Items : /\ shotItem' = [shotItem EXCEPT ![i] = x]
                             /\ x.by = shotItem[i].by /\ x.tries = shotItem[i].tries
                             /\ x.state = state /\ x.challenge = "none"
      BY <1>0, <1>4, <2>1, ItemWritten DEF Becomes
    <2> QED BY <1>1, <1>4, <2>2, OneItemMoves
  <1>5. CASE Shot!Retry(i) \/ Shot!CloseManual(i)
    BY <1>2, <1>4, <1>5 DEF Shot!Retry, Shot!CloseManual
  <1>6. CASE Shot!Found(i) \/ Shot!ByHand(i)
    BY <1>2, <1>3, <1>6 DEF Shot!Found, Shot!ByHand
  <1>7. CASE Shot!Absent(i)
    <2>1. Undecided(i) /\ shotItem[i].state = "reconciling" /\ shotItem[i].challenge = "none"
      BY <1>0, <1>2, <1>7 DEF Shot!Absent, ShotInv, ChallengesRest, Items
    <2>2. CASE /\ shotItem[i].checks + 1 < PickedChecks
               /\ shotItem' = [shotItem EXCEPT ![i].checks = @ + 1]
               /\ UNCHANGED <<conf, target, owner>>
      <3>1. PICK e \in Items : e = shotItem[i]
        BY <1>0
      <3>2. PICK n \in 0..(PickedChecks - 1) : n = e.checks + 1
        BY <2>2, <3>1 DEF Items, Shot!OneShotAssumption
      <3>3. PICK x \in Items : x = [state |-> e.state, tries |-> e.tries, checks |-> n,
                                    by |-> e.by, challenge |-> e.challenge]
        BY DEF Items
      <3>4. shotItem'[i] = x /\ \A j \in Picked : j # i => shotItem'[j] = shotItem[j]
        BY <1>0, <2>2, <3>1, <3>2, <3>3 DEF Items
      <3>5. shotItem' = [shotItem EXCEPT ![i] = x]
        BY <1>0, <2>2, <3>4
      <3>6. /\ x.by = shotItem[i].by /\ x.tries = shotItem[i].tries
            /\ x.state = "reconciling" /\ x.challenge = "none"
        BY <2>1, <3>1, <3>3
      <3> QED BY <1>1, <2>1, <2>2, <3>5, <3>6, OneItemMoves
    <2>3. \/ Shot!To(i, "ready") /\ Shot!Finish(i, "pending")
          \/ Shot!To(i, "dead") /\ Shot!Finish(i, "closed")
          \/ /\ shotItem[i].checks + 1 < PickedChecks
             /\ shotItem' = [shotItem EXCEPT ![i].checks = @ + 1]
             /\ UNCHANGED <<conf, target, owner>>
      BY <1>7 DEF Shot!Absent
    <2> QED BY <1>3, <2>1, <2>2, <2>3
  <1>8. CASE Shot!Ask(i)
    <2>1. /\ shotItem[i].state = "reconciling" /\ Undecided(i) /\ UNCHANGED <<conf, target, owner>>
          /\ Shot!Challenge(i, "ambiguous_application")
      BY <1>2, <1>8 DEF Shot!Ask, Shot!CanReconcile
    <2>2. PICK x \in Items :
              /\ shotItem' = [shotItem EXCEPT ![i] = x]
              /\ x.by = shotItem[i].by /\ x.tries = shotItem[i].tries
              /\ x.state = "manual_challenge" /\ x.challenge = "ambiguous_application"
      BY <1>0, <2>1, ItemWritten DEF Becomes
    <2> QED BY <1>1, <2>1, <2>2, OneItemMoves
  <1>9. CASE Shot!Verdict(i)
    <2>1. /\ shotItem[i].challenge = "ambiguous_application" /\ Undecided(i)
          /\ shotItem[i].state \in {"manual_challenge", "dead"}
      BY <1>2, <1>9 DEF Shot!Verdict
    <2>2. CASE /\ shotItem' = [shotItem EXCEPT ![i].state = "reconciling", ![i].challenge = "none",
                                               ![i].checks = 0]
               /\ UNCHANGED <<conf, target, owner>>
      <3>1. PICK e \in Items : e = shotItem[i]
        BY <1>0
      <3>2. "reconciling" \in Shot!States /\ 0 \in 0..(PickedChecks - 1)
        BY DEF Shot!States, Shot!Unsettled, Shot!OneShotAssumption
      <3>3. PICK x \in Items : x = [state |-> "reconciling", tries |-> e.tries, checks |-> 0,
                                    by |-> e.by, challenge |-> "none"]
        BY <3>2 DEF Items
      <3>4. shotItem'[i] = x /\ \A j \in Picked : j # i => shotItem'[j] = shotItem[j]
        BY <1>0, <2>2, <3>1, <3>3 DEF Items
      <3>5. shotItem' = [shotItem EXCEPT ![i] = x]
        BY <1>0, <2>2, <3>4
      <3>6. /\ x.by = shotItem[i].by /\ x.tries = shotItem[i].tries
            /\ x.state = "reconciling" /\ x.challenge = "none"
        BY <3>1, <3>3
      <3> QED BY <1>1, <2>1, <2>2, <3>5, <3>6, OneItemMoves
    <2>3. CASE shotItem' = [shotItem EXCEPT ![i].state = "dead"] /\ UNCHANGED <<conf, target, owner>>
      <3>1. PICK e \in Items : e = shotItem[i]
        BY <1>0
      <3>2. PICK x \in Items : x = [state |-> "dead", tries |-> e.tries, checks |-> e.checks,
                                    by |-> e.by, challenge |-> e.challenge]
        BY DEF Items, Shot!States
      <3>4. shotItem'[i] = x /\ \A j \in Picked : j # i => shotItem'[j] = shotItem[j]
        BY <1>0, <2>3, <3>1, <3>2 DEF Items
      <3>5. shotItem' = [shotItem EXCEPT ![i] = x]
        BY <1>0, <2>3, <3>4
      <3>6. /\ x.by = shotItem[i].by /\ x.tries = shotItem[i].tries
            /\ x.state = "dead" /\ x.challenge = "ambiguous_application"
        BY <2>1, <3>1, <3>2
      <3> QED BY <1>1, <2>1, <2>3, <3>5, <3>6, OneItemMoves
    <2>4. \/ sent[i] = shotItem[i].by /\ Shot!To(i, "applied") /\ Shot!Finish(i, "succeeded")
          \/ Shot!To(i, "ready") /\ Shot!Finish(i, "pending")
          \/ Shot!To(i, "skipped") /\ Shot!Finish(i, "closed")
          \/ /\ shotItem' = [shotItem EXCEPT ![i].state = "reconciling", ![i].challenge = "none",
                                             ![i].checks = 0]
             /\ UNCHANGED <<conf, target, owner>>
          \/ shotItem' = [shotItem EXCEPT ![i].state = "dead"] /\ UNCHANGED <<conf, target, owner>>
      BY <1>9 DEF Shot!Verdict
    <2> QED BY <1>3, <2>1, <2>2, <2>3, <2>4
  <1> QED BY <1>5, <1>6, <1>7, <1>8, <1>9

LEMMA ShotStep ==
    ASSUME Shot!OneShotAssumption, ShotInv, [Shot!Next]_(Shot!vars) PROVE ShotInv'
  <1>1. CASE Shot!Next
    BY <1>1, RunInv, ConfirmInv, ShotPrepareInv, AnswerInv, DeskInv DEF Shot!Next
  <1>2. CASE UNCHANGED Shot!vars
    <2>1. UNCHANGED <<conf, target, owner, shotItem, todo, shotRun, sent>>
      BY <1>2 DEF Shot!vars
    <2>2. Shot!TypeOK' /\ ChallengesRest' /\ RunCarries'
      BY <2>1 DEF ShotInv, Shot!TypeOK, ChallengesRest, RunCarries
    <2>3. TargetsFollow'
      BY <2>1 DEF ShotInv, TargetsFollow, Undecided, Shot!Finishable
    <2>4. RoomIsKept' /\ SuccessIsCounted'
      BY <2>1 DEF ShotInv, RoomIsKept, HasRoom, Shot!Active, SuccessIsCounted, CountIsReal,
         Succeeded
    <2> QED BY <2>2, <2>3, <2>4 DEF ShotInv
  <1> QED BY <1>1, <1>2

\* What a literal confirmation started can always be recorded under it, and it
\* counts what HH received under it, whatever dies, expires or is put to the
\* operator in between (_finish_literal_target_for_update, prepare_dispatch).
THEOREM ConfirmationsKeepCount ==
    ASSUME Shot!OneShotAssumption
    PROVE  Shot!Spec => [](Shot!TypeOK /\ Shot!OutcomeCanBeRecorded /\ Shot!SuccessIsReal)
  <1>1. Shot!Spec => []ShotInv
    BY ShotStarts, ShotStep, PTL DEF Shot!Spec
  <1>2. ASSUME ShotInv PROVE Shot!OutcomeCanBeRecorded
    <2>1. \A i \in Picked : Undecided(i) => Shot!Finishable(i)
      BY <1>2 DEF ShotInv, TargetsFollow
    <2>2. \A r \in Ref : HasRoom(r)
      BY <1>2 DEF ShotInv, RoomIsKept
    <2>3. \A r \in Ref : Shot!Cardinality(Shot!Active(r)) = Cardinality(Shot!Active(r))
      BY ShotCounts
    <2> QED BY <2>1, <2>2, <2>3 DEF Shot!OutcomeCanBeRecorded, Undecided, HasRoom
  <1>3. ASSUME ShotInv PROVE Shot!SuccessIsReal
    <2>1. \A r \in Ref : CountIsReal(r)
      BY <1>3 DEF ShotInv, SuccessIsCounted
    <2> QED BY <2>1, ShotCounts DEF Shot!SuccessIsReal, CountIsReal, Succeeded
  <1>4. ShotInv => Shot!TypeOK /\ Shot!OutcomeCanBeRecorded /\ Shot!SuccessIsReal
    BY <1>2, <1>3 DEF ShotInv
  <1> QED BY <1>1, <1>4, PTL
------------------------------------------------------------------------------
(* ConfigFile: what a process changed, and the tokens, over stale copies. *)

\* What a process has not written is what sets its copy off from the file it
\* read, and it never holds a token its baseline does not.
Tracks(p) ==
    /\ confMem[p].token = base[p].token
    /\ p \in up => edited[p] = {k \in Key : confMem[p].user[k] # base[p].user[k]}
    /\ p \notin up => edited[p] = {}

\* A client that has just refreshed is the only holder of the tokens HH honours.
Leads(p) ==
    /\ client[p].token = confHh /\ confFile.token < confHh
    /\ \A q \in Proc : confMem[q].token < confHh /\ (q # p => client[q].token < confHh)

TokensAreGranted ==
    /\ confFile.token <= confHh
    /\ \A p \in Proc : confMem[p].token <= confHh /\ client[p].token <= confHh
    /\ \A p \in Proc : client[p].pc = "refreshed" => Leads(p)

ConfInv ==
    /\ Conf!TypeOK
    /\ \A p \in Proc : Tracks(p)
    /\ TokensAreGranted
    /\ Conf!NoLostUpdate

LEMMA ConfigTyped ==
    /\ \A c \in Conf!Config : /\ c.user \in [Key -> Value] /\ c.grant \in Conf!Grants
                              /\ c.token \in 0..MaxToken
    /\ \A u \in [Key -> Value], g \in Conf!Grants, t \in 0..MaxToken :
          [user |-> u, grant |-> g, token |-> t] \in Conf!Config
  BY DEF Conf!Config

LEMMA MergeKeepsChanges ==
    ASSUME NEW b \in Conf!Config, NEW d \in Conf!Config, NEW f \in Conf!Config
    PROVE  /\ Conf!Merge(b, d, f) \in Conf!Config
           /\ \A k \in Key : Conf!Merge(b, d, f).user[k] =
                                IF b.user[k] = d.user[k] THEN f.user[k] ELSE d.user[k]
           /\ b.token = d.token => Conf!Merge(b, d, f).token = f.token
  <1> DEFINE u == [k \in Key |-> Conf!Pick(b.user[k], d.user[k], f.user[k])]
             g == Conf!Pick(b.grant, d.grant, f.grant)
             t == Conf!Pick(b.token, d.token, f.token)
  <1>1. u \in [Key -> Value]
    BY ConfigTyped DEF Conf!Pick
  <1>2. g \in Conf!Grants /\ t \in 0..MaxToken
    BY ConfigTyped DEF Conf!Pick
  <1>3. Conf!Merge(b, d, f) = [user |-> u, grant |-> g, token |-> t]
    BY DEF Conf!Merge
  <1>4. Conf!Merge(b, d, f) \in Conf!Config
    <2> HIDE DEF u, g, t
    <2> QED BY <1>1, <1>2, <1>3, ConfigTyped
  <1>5. Conf!Merge(b, d, f).user = u /\ Conf!Merge(b, d, f).token = t
    BY <1>3
  <1>6. \A k \in Key : u[k] = IF b.user[k] = d.user[k] THEN f.user[k] ELSE d.user[k]
    BY DEF Conf!Pick
  <1>7. b.token = d.token => t = f.token
    BY DEF Conf!Pick
  <1> QED
    <2> HIDE DEF u, g, t
    <2> QED BY <1>4, <1>5, <1>6, <1>7

LEMMA PreserveKeepsRest ==
    ASSUME Conf!ConfigAssumption, NEW s \in Conf!Config, NEW c \in Conf!Config
    PROVE  /\ Conf!Preserve(s, c) \in Conf!Config
           /\ Conf!Preserve(s, c).user = c.user /\ Conf!Preserve(s, c).token = c.token
           /\ \/ Conf!Preserve(s, c).grant = s.grant
              \/ Conf!Preserve(s, c).grant = -1
              \/ s.grant = -1 /\ Conf!Preserve(s, c).grant = 0
  <1> DEFINE g == IF c.grant = Conf!Absent THEN Conf!Absent
                  ELSE IF s.grant = Conf!Absent THEN 0 ELSE s.grant
  <1>1. PICK u \in [Key -> Value], h \in Conf!Grants, t \in 0..MaxToken :
           c = [user |-> u, grant |-> h, token |-> t]
    BY DEF Conf!Config
  <1>2. Conf!Preserve(s, c) = [user |-> u, grant |-> g, token |-> t]
    BY <1>1 DEF Conf!Preserve
  <1>3. g \in Conf!Grants
    BY <1>1, ConfigTyped DEF Conf!Grants, Conf!Absent, Conf!ConfigAssumption
  <1>4. g = s.grant \/ g = -1 \/ (s.grant = -1 /\ g = 0)
    BY DEF Conf!Absent
  <1> QED
    <2> HIDE DEF g
    <2> QED BY <1>1, <1>2, <1>3, <1>4, ConfigTyped

LEMMA ConfStarts == ASSUME Conf!ConfigAssumption, Conf!Init PROVE ConfInv
  <1> DEFINE u == [k \in Key |-> Default]
  <1>1. Conf!Blank = [user |-> u, grant |-> 0, token |-> 1]
    BY DEF Conf!Blank
  <1>2. u \in [Key -> Value] /\ 0 \in Conf!Grants /\ 1 \in 0..MaxToken
    BY DEF Conf!ConfigAssumption, Conf!Grants, Conf!Absent
  <1>3. Conf!Blank \in Conf!Config
    <2> HIDE DEF u
    <2> QED BY <1>1, <1>2, ConfigTyped
  <1>4. Conf!TypeOK
    BY <1>2, <1>3 DEF Conf!Init, Conf!TypeOK, Conf!NoClient, Conf!NoToken, Conf!ConfigAssumption
  <1>5. \A p \in Proc : Tracks(p)
    BY DEF Conf!Init, Tracks
  <1>6. TokensAreGranted
    BY <1>1 DEF Conf!Init, TokensAreGranted, Conf!NoClient, Conf!NoToken
  <1>7. Conf!NoLostUpdate
    BY <1>1 DEF Conf!Init, Conf!NoLostUpdate
  <1> QED BY <1>4, <1>5, <1>6, <1>7 DEF ConfInv

LEMMA ConfTyped ==
    ASSUME Conf!TypeOK
    PROVE  /\ confFile \in Conf!Config
           /\ \A p \in Proc : confMem[p] \in Conf!Config /\ base[p] \in Conf!Config
           /\ confFile.token \in Nat
           /\ \A p \in Proc : confMem[p].token \in Nat /\ base[p].token \in Nat
           /\ confHh \in Nat /\ \A p \in Proc : client[p].token \in Nat
  <1>1. /\ confFile \in Conf!Config
        /\ \A p \in Proc : confMem[p] \in Conf!Config /\ base[p] \in Conf!Config
    BY DEF Conf!TypeOK
  <1>2. \A c \in Conf!Config : c.token \in Nat
    BY ConfigTyped
  <1>3. confHh \in Nat /\ \A p \in Proc : client[p].token \in Nat
    BY DEF Conf!TypeOK
  <1> QED BY <1>1, <1>2, <1>3

\* A writer replaces the file by what it wrote and goes on from there.
LEMMA RewriteInv ==
    ASSUME Conf!ConfigAssumption, ConfInv, NEW p \in Proc, p \in up,
           NEW f \in Conf!Config, confFile' = f,
           confMem' = [confMem EXCEPT ![p] = f], base' = [base EXCEPT ![p] = f],
           edited' = [edited EXCEPT ![p] = {}],
           UNCHANGED <<up, started, client, confHh>>,
           confWord' \in [Key -> Value], \A k \in Key : f.user[k] = confWord'[k],
           f.token = confFile.token \/ f.token = 0
    PROVE  ConfInv'
  <1>0. Conf!TypeOK
    BY DEF ConfInv
  <1>1. Conf!TypeOK'
    BY <1>0 DEF Conf!TypeOK
  <1>2. \A q \in Proc : Tracks(q)'
    <2> TAKE q \in Proc
    <2>1. Tracks(q)
      BY DEF ConfInv
    <2>2. CASE q = p
      <3>1. confMem'[q] = f /\ base'[q] = f /\ edited'[q] = {} /\ up' = up
        BY <1>0, <2>2 DEF Conf!TypeOK
      <3> QED BY <3>1 DEF Tracks
    <2>3. CASE q # p
      <3>1. confMem'[q] = confMem[q] /\ base'[q] = base[q] /\ edited'[q] = edited[q] /\ up' = up
        BY <1>0, <2>3 DEF Conf!TypeOK
      <3> QED BY <2>1, <3>1 DEF Tracks
    <2> QED BY <2>2, <2>3
  <1>3. TokensAreGranted'
    <2>1. /\ TokensAreGranted
          /\ f.token \in Nat /\ confFile.token \in Nat /\ confHh \in Nat
          /\ \A q \in Proc : confMem[q].token \in Nat
      BY <1>0, ConfTyped, ConfigTyped DEF ConfInv
    <2>2. f.token <= confFile.token
      BY <2>1
    <2>3. \A q \in Proc : confMem'[q] = IF q = p THEN f ELSE confMem[q]
      BY <1>0 DEF Conf!TypeOK
    <2>4. \A q \in Proc : confMem'[q].token <= confHh
      BY <2>1, <2>2, <2>3 DEF TokensAreGranted
    <2>5. ASSUME NEW q \in Proc, client[q].pc = "refreshed" PROVE Leads(q)'
      <3>1. Leads(q)
        BY <2>1, <2>5 DEF TokensAreGranted
      <3>2. f.token < confHh
        BY <2>1, <2>2, <3>1 DEF Leads
      <3>3. \A r \in Proc : confMem'[r].token < confHh
        BY <2>3, <3>1, <3>2 DEF Leads
      <3> QED BY <3>1, <3>2, <3>3 DEF Leads
    <2>6. f.token <= confHh
      BY <2>1, <2>2 DEF TokensAreGranted
    <2> QED BY <2>1, <2>4, <2>5, <2>6 DEF TokensAreGranted
  <1>4. Conf!NoLostUpdate'
    BY DEF Conf!NoLostUpdate
  <1> QED BY <1>1, <1>2, <1>3, <1>4 DEF ConfInv

LEMMA WritersInv ==
    ASSUME Conf!ConfigAssumption, ConfInv, NEW p \in Proc,
           \/ Conf!Save(p) \/ Conf!Patch(p) \/ Conf!Reset(p)
           \/ Conf!AddAccount(p) \/ Conf!Project(p)
    PROVE  ConfInv'
  <1>0. Conf!TypeOK /\ Conf!NoLostUpdate /\ Tracks(p)
    BY DEF ConfInv
  <1>1. /\ confFile \in Conf!Config /\ confMem[p] \in Conf!Config /\ base[p] \in Conf!Config
        /\ confWord \in [Key -> Value]
    BY <1>0, ConfTyped DEF Conf!TypeOK
  <1>2. CASE Conf!Save(p)
    <2> DEFINE m == Conf!Merge(base[p], confMem[p], confFile)
    <2>1. /\ m \in Conf!Config /\ m.token = confFile.token
          /\ \A k \in Key : m.user[k] = IF base[p].user[k] = confMem[p].user[k]
                                          THEN confFile.user[k] ELSE confMem[p].user[k]
      BY <1>0, <1>1, MergeKeepsChanges DEF Tracks
    <2>2. /\ p \in up /\ confFile' = Conf!Preserve(confFile, m)
          /\ confMem' = [confMem EXCEPT ![p] = confFile'] /\ base' = [base EXCEPT ![p] = confFile']
          /\ edited' = [edited EXCEPT ![p] = {}] /\ UNCHANGED <<up, started, client, confHh>>
          /\ confWord' = [k \in Key |-> IF k \in edited[p] THEN confMem[p].user[k] ELSE confWord[k]]
      BY <1>2 DEF Conf!Save, Conf!Accept
    <2> HIDE DEF m
    <2>3. confFile' \in Conf!Config /\ confFile'.user = m.user /\ confFile'.token = m.token
      BY <1>1, <2>1, <2>2, PreserveKeepsRest
    <2>4. confWord' \in [Key -> Value]
      BY <1>1, <2>2, ConfigTyped
    <2>5. \A k \in Key : confFile'.user[k] = confWord'[k]
      BY <1>0, <2>1, <2>2, <2>3 DEF Tracks, Conf!NoLostUpdate
    <2> QED BY <2>1, <2>2, <2>3, <2>4, <2>5, RewriteInv
  <1>3. CASE Conf!Patch(p)
    <2>1. PICK k \in Key, v \in Value :
            /\ confFile' = Conf!Preserve(confFile, [confFile EXCEPT !.user[k] = v])
            /\ confWord' = [confWord EXCEPT ![k] = v]
      BY <1>3 DEF Conf!Patch
    <2>2. /\ p \in up
          /\ confMem' = [confMem EXCEPT ![p] = confFile'] /\ base' = [base EXCEPT ![p] = confFile']
          /\ edited' = [edited EXCEPT ![p] = {}] /\ UNCHANGED <<up, started, client, confHh>>
      BY <1>3 DEF Conf!Patch, Conf!Accept
    <2>3. PICK u \in [Key -> Value], g \in Conf!Grants, t \in 0..MaxToken :
            confFile = [user |-> u, grant |-> g, token |-> t]
      BY <1>1 DEF Conf!Config
    <2>4. PICK w \in [Key -> Value] : w = [u EXCEPT ![k] = v]
      BY <2>1, <2>3
    <2>5. [confFile EXCEPT !.user[k] = v] = [user |-> w, grant |-> g, token |-> t]
      BY <2>3, <2>4
    <2>6. PICK m \in Conf!Config : m = [user |-> w, grant |-> g, token |-> t]
      BY <2>3, <2>4, ConfigTyped
    <2>7. confFile' \in Conf!Config /\ confFile'.user = w /\ confFile'.token = confFile.token
      BY <1>1, <2>1, <2>3, <2>5, <2>6, PreserveKeepsRest
    <2>8. confWord' \in [Key -> Value] /\ \A j \in Key : confFile'.user[j] = confWord'[j]
      BY <1>0, <1>1, <2>1, <2>3, <2>4, <2>7 DEF Conf!NoLostUpdate
    <2> QED BY <2>2, <2>7, <2>8, RewriteInv
  <1>4. CASE Conf!Reset(p)
    <2>1. PICK a \in {-1, 0} :
            confFile' = Conf!Preserve(confFile, [Conf!Blank EXCEPT !.grant = a, !.token = 0])
      BY <1>4 DEF Conf!Reset, Conf!Absent, Conf!NoToken
    <2>2. /\ p \in up
          /\ confMem' = [confMem EXCEPT ![p] = confFile'] /\ base' = [base EXCEPT ![p] = confFile']
          /\ edited' = [edited EXCEPT ![p] = {}] /\ UNCHANGED <<up, started, client, confHh>>
          /\ confWord' = [k \in Key |-> Default]
      BY <1>4 DEF Conf!Reset, Conf!Accept
    <2>3. PICK w \in [Key -> Value] : w = [k \in Key |-> Default]
      BY DEF Conf!ConfigAssumption
    <2>4. [Conf!Blank EXCEPT !.grant = a, !.token = 0] = [user |-> w, grant |-> a, token |-> 0]
      <3>1. Conf!Blank = [user |-> w, grant |-> 0, token |-> 1]
        BY <2>3 DEF Conf!Blank
      <3>2. PICK x : x = [user |-> w, grant |-> a, token |-> 1]
        OBVIOUS
      <3>3. [Conf!Blank EXCEPT !.grant = a] = x
        BY <3>1, <3>2
      <3>4. [x EXCEPT !.token = 0] = [user |-> w, grant |-> a, token |-> 0]
        BY <3>2
      <3> QED BY <3>3, <3>4, Zenon
    <2>5. a \in Conf!Grants /\ 0 \in 0..MaxToken
      BY DEF Conf!Grants, Conf!Absent, Conf!ConfigAssumption
    <2>6. PICK m \in Conf!Config : m = [user |-> w, grant |-> a, token |-> 0]
      BY <2>3, <2>5, ConfigTyped
    <2>7. confFile' \in Conf!Config /\ confFile'.user = w /\ confFile'.token = 0
      BY <1>1, <2>1, <2>4, <2>6, PreserveKeepsRest
    <2>8. confWord' = w
      BY <2>2, <2>3
    <2> QED BY <2>2, <2>3, <2>7, <2>8, RewriteInv
  <1>5. CASE Conf!AddAccount(p)
    <2>1. PICK g \in 0..FileGrants : confFile' = Conf!Preserve(confFile, [confFile EXCEPT !.grant = g])
      BY <1>5 DEF Conf!AddAccount
    <2>2. /\ p \in up
          /\ confMem' = [confMem EXCEPT ![p] = confFile'] /\ base' = [base EXCEPT ![p] = confFile']
          /\ edited' = [edited EXCEPT ![p] = {}] /\ UNCHANGED <<up, started, client, confHh, confWord>>
      BY <1>5 DEF Conf!AddAccount, Conf!Accept
    <2>3. g \in Conf!Grants
      BY DEF Conf!Grants, Conf!Absent, Conf!ConfigAssumption
    <2>4. PICK u \in [Key -> Value], h \in Conf!Grants, t \in 0..MaxToken :
            confFile = [user |-> u, grant |-> h, token |-> t]
      BY <1>1 DEF Conf!Config
    <2>5. PICK m \in Conf!Config : m = [user |-> u, grant |-> g, token |-> t]
      BY <2>3, ConfigTyped
    <2>6. /\ m = [confFile EXCEPT !.grant = g]
          /\ m.user = confFile.user /\ m.token = confFile.token
      BY <2>4, <2>5
    <2>7. confFile' \in Conf!Config /\ confFile'.user = m.user /\ confFile'.token = m.token
      BY <1>1, <2>1, <2>6, PreserveKeepsRest
    <2> QED BY <1>0, <1>1, <2>2, <2>6, <2>7, RewriteInv DEF Conf!NoLostUpdate
  <1>6. CASE Conf!Project(p)
    <2>1. PICK g \in 0..FileGrants : confFile' = [confFile EXCEPT !.grant = g]
      BY <1>6 DEF Conf!Project
    <2>2. /\ p \in up
          /\ confMem' = [confMem EXCEPT ![p] = confFile'] /\ base' = [base EXCEPT ![p] = confFile']
          /\ edited' = [edited EXCEPT ![p] = {}] /\ UNCHANGED <<up, started, client, confHh, confWord>>
      BY <1>6 DEF Conf!Project, Conf!Accept
    <2>3. g \in Conf!Grants
      BY DEF Conf!Grants, Conf!Absent, Conf!ConfigAssumption
    <2>4. /\ confFile' \in Conf!Config
          /\ confFile'.user = confFile.user /\ confFile'.token = confFile.token
      BY <1>1, <2>1, <2>3 DEF Conf!Config
    <2> QED BY <1>0, <1>1, <2>2, <2>4, RewriteInv DEF Conf!NoLostUpdate
  <1> QED BY <1>2, <1>3, <1>4, <1>5, <1>6

\* A process that reads the file again goes on from it, with what it had changed
\* and not written on top.
LEMMA MergesInv ==
    ASSUME Conf!ConfigAssumption, ConfInv, NEW p \in Proc, p \in up,
           NEW f \in Conf!Config, NEW m \in Conf!Config, confFile' = f, f.user = confFile.user,
           confMem' = [confMem EXCEPT ![p] = m], base' = [base EXCEPT ![p] = f],
           edited' = [edited EXCEPT ![p] = Conf!Unwritten(p)],
           UNCHANGED <<up, started, confWord>>,
           m.token = f.token,
           \A k \in Key : m.user[k] = IF base[p].user[k] = confMem[p].user[k]
                                        THEN f.user[k] ELSE confMem[p].user[k]
    PROVE  /\ \A q \in Proc : Tracks(q)'
           /\ Conf!NoLostUpdate'
           /\ confMem' \in [Proc -> Conf!Config] /\ base' \in [Proc -> Conf!Config]
           /\ edited' \in [Proc -> SUBSET Key]
           /\ \A q \in Proc : \A k \in edited[q] : confMem'[q].user[k] = confMem[q].user[k]
           /\ \A q \in Proc : confMem'[q] = IF q = p THEN m ELSE confMem[q]
  <1>0. Conf!TypeOK /\ Conf!NoLostUpdate /\ Tracks(p)
    BY DEF ConfInv
  <1>1. /\ \A q \in Proc : confMem'[q] = IF q = p THEN m ELSE confMem[q]
        /\ \A q \in Proc : base'[q] = IF q = p THEN f ELSE base[q]
        /\ \A q \in Proc : q # p => edited'[q] = edited[q]
        /\ edited'[p] = Conf!Unwritten(p)
    BY <1>0 DEF Conf!TypeOK
  <1>2. edited[p] = {k \in Key : confMem[p].user[k] # base[p].user[k]}
    BY <1>0 DEF Tracks
  <1>3. Conf!Unwritten(p) = {k \in edited[p] : m.user[k] # f.user[k]}
    BY <1>1 DEF Conf!Unwritten
  <1>4. Conf!Unwritten(p) = {k \in Key : m.user[k] # f.user[k]}
    BY <1>2, <1>3
  <1>5. ASSUME NEW q \in Proc PROVE Tracks(q)'
    <2>1. CASE q = p
      BY <1>1, <1>4, <2>1 DEF Tracks
    <2>2. CASE q # p
      <3>1. Tracks(q)
        BY DEF ConfInv
      <3> QED BY <1>1, <2>2, <3>1 DEF Tracks
    <2> QED BY <2>1, <2>2
  <1>6. Conf!NoLostUpdate'
    BY <1>0 DEF Conf!NoLostUpdate
  <1>7. Conf!Unwritten(p) \in SUBSET Key
    BY <1>4
  <1>8. /\ confMem' \in [Proc -> Conf!Config] /\ base' \in [Proc -> Conf!Config]
        /\ edited' \in [Proc -> SUBSET Key]
    BY <1>0, <1>7 DEF Conf!TypeOK
  <1>9. ASSUME NEW q \in Proc, NEW k \in edited[q]
        PROVE  confMem'[q].user[k] = confMem[q].user[k]
    <2>1. CASE q = p
      BY <1>1, <1>2, <1>9, <2>1
    <2>2. CASE q # p
      BY <1>1, <2>2
    <2> QED BY <2>1, <2>2
  <1> QED BY <1>1, <1>5, <1>6, <1>8, <1>9

\* What the three readers do to the copy of a process.
LEMMA ReadersMerge ==
    ASSUME Conf!ConfigAssumption, ConfInv, NEW p \in Proc,
           \/ Conf!NewClient(p) /\ base' = [base EXCEPT ![p] = confFile]
                                /\ confMem' = [confMem EXCEPT ![p] = Conf!Merge(base[p], confMem[p], confFile)]
                                /\ edited' = [edited EXCEPT ![p] = Conf!Unwritten(p)]
           \/ Conf!Persist(p) \/ Conf!Login(p)
    PROVE  \E f \in Conf!Config, m \in Conf!Config :
             /\ p \in up /\ confFile' = f /\ f.user = confFile.user
             /\ confMem' = [confMem EXCEPT ![p] = m] /\ base' = [base EXCEPT ![p] = f]
             /\ edited' = [edited EXCEPT ![p] = Conf!Unwritten(p)]
             /\ UNCHANGED <<up, started, confWord>>
             /\ m.token = f.token
             /\ \A k \in Key : m.user[k] = IF base[p].user[k] = confMem[p].user[k]
                                             THEN f.user[k] ELSE confMem[p].user[k]
             /\ \/ Conf!NewClient(p) /\ f = confFile
                \/ Conf!Persist(p) /\ f.token = client[p].token
                \/ Conf!Login(p) /\ f.token = confHh + 1
  <1>0. Conf!TypeOK /\ Tracks(p)
    BY DEF ConfInv
  <1>1. confFile \in Conf!Config /\ confMem[p] \in Conf!Config /\ base[p] \in Conf!Config
    BY <1>0, ConfTyped
  <1>2. CASE /\ Conf!NewClient(p) /\ base' = [base EXCEPT ![p] = confFile]
             /\ confMem' = [confMem EXCEPT ![p] = Conf!Merge(base[p], confMem[p], confFile)]
             /\ edited' = [edited EXCEPT ![p] = Conf!Unwritten(p)]
    <2>1. PICK m \in Conf!Config :
            /\ m = Conf!Merge(base[p], confMem[p], confFile) /\ m.token = confFile.token
            /\ \A k \in Key : m.user[k] = IF base[p].user[k] = confMem[p].user[k]
                                            THEN confFile.user[k] ELSE confMem[p].user[k]
      BY <1>0, <1>1, MergeKeepsChanges DEF Tracks
    <2>2. p \in up /\ UNCHANGED <<confFile, up, started, confWord>>
      BY <1>2 DEF Conf!NewClient
    <2> QED BY <1>1, <1>2, <2>1, <2>2
  <1>3. ASSUME NEW t \in 0..MaxToken, p \in up,
               confFile' = Conf!Preserve(confFile, [confFile EXCEPT !.token = t]),
               Conf!Accept(p, [Conf!Merge(base[p], confMem[p], confFile') EXCEPT !.token = t], confFile'),
               edited' = [edited EXCEPT ![p] = Conf!Unwritten(p)],
               UNCHANGED <<up, started, confWord>>
        PROVE  \E m \in Conf!Config :
                 /\ confFile' \in Conf!Config /\ confFile'.user = confFile.user /\ confFile'.token = t
                 /\ confMem' = [confMem EXCEPT ![p] = m] /\ base' = [base EXCEPT ![p] = confFile']
                 /\ m.token = t
                 /\ \A k \in Key : m.user[k] = IF base[p].user[k] = confMem[p].user[k]
                                                 THEN confFile'.user[k] ELSE confMem[p].user[k]
    <2>1. PICK u \in [Key -> Value], g \in Conf!Grants, s \in 0..MaxToken :
            confFile = [user |-> u, grant |-> g, token |-> s]
      BY <1>1 DEF Conf!Config
    <2>2. PICK c \in Conf!Config : c = [user |-> u, grant |-> g, token |-> t]
      BY ConfigTyped
    <2>3. [confFile EXCEPT !.token = t] = c
      BY <2>1, <2>2
    <2>4. PICK f \in Conf!Config : f = confFile' /\ f.user = confFile.user /\ f.token = t
      BY <1>1, <1>3, <2>1, <2>2, <2>3, PreserveKeepsRest
    <2>5. PICK n \in Conf!Config :
            /\ n = Conf!Merge(base[p], confMem[p], f)
            /\ \A k \in Key : n.user[k] = IF base[p].user[k] = confMem[p].user[k]
                                            THEN f.user[k] ELSE confMem[p].user[k]
      BY <1>1, MergeKeepsChanges
    <2>6. PICK v \in [Key -> Value], h \in Conf!Grants, r \in 0..MaxToken :
            n = [user |-> v, grant |-> h, token |-> r]
      BY DEF Conf!Config
    <2>7. PICK m \in Conf!Config : m = [user |-> v, grant |-> h, token |-> t]
      BY ConfigTyped
    <2>8. [n EXCEPT !.token = t] = m /\ m.user = n.user /\ m.token = t
      BY <2>6, <2>7
    <2>9. confMem' = [confMem EXCEPT ![p] = m] /\ base' = [base EXCEPT ![p] = f]
      BY <1>3, <2>4, <2>5, <2>8 DEF Conf!Accept
    <2>10. \A k \in Key : m.user[k] = IF base[p].user[k] = confMem[p].user[k]
                                          THEN confFile'.user[k] ELSE confMem[p].user[k]
      BY <2>4, <2>5, <2>8
    <2> WITNESS m \in Conf!Config
    <2> QED BY <2>4, <2>8, <2>9, <2>10
  <1>4. CASE Conf!Persist(p)
    <2>1. client[p].token \in 0..MaxToken
      BY <1>0 DEF Conf!TypeOK
    <2>2. /\ p \in up
          /\ confFile' = Conf!Preserve(confFile, [confFile EXCEPT !.token = client[p].token])
          /\ Conf!Accept(p, [Conf!Merge(base[p], confMem[p], confFile') EXCEPT !.token = client[p].token], confFile')
          /\ edited' = [edited EXCEPT ![p] = Conf!Unwritten(p)]
          /\ UNCHANGED <<up, started, confWord>>
      BY <1>4 DEF Conf!Persist
    <2> QED BY <1>3, <1>4, <2>1, <2>2
  <1>5. CASE Conf!Login(p)
    <2>1. confHh + 1 \in 0..MaxToken
      BY <1>0, <1>5 DEF Conf!TypeOK, Conf!Login, Conf!ConfigAssumption
    <2>2. /\ p \in up
          /\ confFile' = Conf!Preserve(confFile, [confFile EXCEPT !.token = confHh + 1])
          /\ Conf!Accept(p, [Conf!Merge(base[p], confMem[p], confFile') EXCEPT !.token = confHh + 1], confFile')
          /\ edited' = [edited EXCEPT ![p] = Conf!Unwritten(p)]
          /\ UNCHANGED <<up, started, confWord>>
      BY <1>5 DEF Conf!Login
    <2> QED BY <1>3, <1>5, <2>1, <2>2
  <1> QED BY <1>2, <1>4, <1>5

\* A client that reads the file again or stores its tokens.
LEMMA ReadersInv ==
    ASSUME Conf!ConfigAssumption, ConfInv, NEW p \in Proc,
           Conf!NewClient(p) \/ Conf!Persist(p) \/ Conf!Login(p)
    PROVE  /\ ConfInv'
           /\ \A q \in Proc : \A k \in edited[q] : confMem'[q].user[k] = confMem[q].user[k]
           /\ confFile'.token >= confFile.token
  <1>0. Conf!TypeOK /\ TokensAreGranted
    BY DEF ConfInv
  <1>1. CASE Conf!NewClient(p) /\ UNCHANGED <<confMem, base, edited>>
    <2>1. /\ UNCHANGED <<confFile, up, started, confHh, confWord, confMem, base, edited>>
          /\ client' = [client EXCEPT ![p] = [token |-> confMem[p].token, pc |-> "ready"]]
      BY <1>1 DEF Conf!NewClient
    <2>2. confMem[p].token \in 0..MaxToken
      BY <1>0, ConfTyped, ConfigTyped
    <2>3. Conf!TypeOK'
      BY <1>0, <2>1, <2>2 DEF Conf!TypeOK
    <2>4. \A q \in Proc : Tracks(q)'
      BY <2>1 DEF ConfInv, Tracks
    <2>5. \A q \in Proc : client'[q] = IF q = p THEN [token |-> confMem[p].token, pc |-> "ready"] ELSE client[q]
      BY <1>0, <2>1 DEF Conf!TypeOK
    <2>6. TokensAreGranted'
      BY <1>0, <2>1, <2>5 DEF TokensAreGranted, Leads
    <2>7. Conf!NoLostUpdate'
      BY <2>1 DEF ConfInv, Conf!NoLostUpdate
    <2>8. confFile'.token >= confFile.token
      BY <1>0, <2>1, ConfTyped
    <2> QED BY <2>1, <2>3, <2>4, <2>6, <2>7, <2>8 DEF ConfInv
  <1>2. CASE \/ Conf!NewClient(p) /\ ~UNCHANGED <<confMem, base, edited>>
             \/ Conf!Persist(p) \/ Conf!Login(p)
    <2>1. PICK f \in Conf!Config, m \in Conf!Config :
             /\ p \in up /\ confFile' = f /\ f.user = confFile.user
             /\ confMem' = [confMem EXCEPT ![p] = m] /\ base' = [base EXCEPT ![p] = f]
             /\ edited' = [edited EXCEPT ![p] = Conf!Unwritten(p)]
             /\ UNCHANGED <<up, started, confWord>>
             /\ m.token = f.token
             /\ \A k \in Key : m.user[k] = IF base[p].user[k] = confMem[p].user[k]
                                             THEN f.user[k] ELSE confMem[p].user[k]
             /\ \/ Conf!NewClient(p) /\ f = confFile
                \/ Conf!Persist(p) /\ f.token = client[p].token
                \/ Conf!Login(p) /\ f.token = confHh + 1
      BY <1>2, ReadersMerge DEF Conf!NewClient, Conf!Accept
    <2>2. /\ \A q \in Proc : Tracks(q)'
          /\ Conf!NoLostUpdate'
          /\ confMem' \in [Proc -> Conf!Config] /\ base' \in [Proc -> Conf!Config]
          /\ edited' \in [Proc -> SUBSET Key]
          /\ \A q \in Proc : \A k \in edited[q] : confMem'[q].user[k] = confMem[q].user[k]
          /\ \A q \in Proc : confMem'[q] = IF q = p THEN m ELSE confMem[q]
      BY <2>1, MergesInv
    <2>3. /\ f.token \in 0..MaxToken /\ f.token \in Nat /\ confFile.token \in Nat /\ confHh \in Nat
          /\ \A q \in Proc : confMem[q].token \in Nat /\ client[q].token \in Nat
      BY <1>0, ConfTyped, ConfigTyped
    <2>4. confMem'[p] = m /\ \A q \in Proc : q # p => confMem'[q] = confMem[q]
      BY <2>2
    <2>5. ASSUME client' \in [Proc -> [token : 0..MaxToken, pc : {"none", "ready", "refreshed"}]],
                 confHh' \in 0..MaxToken
          PROVE  Conf!TypeOK'
      BY <1>0, <2>1, <2>2, <2>5 DEF Conf!TypeOK
    <2>6. CASE Conf!NewClient(p) /\ f = confFile
      <3>1. client' = [client EXCEPT ![p] = [token |-> f.token, pc |-> "ready"]] /\ confHh' = confHh
        BY <2>1, <2>4, <2>6 DEF Conf!NewClient
      <3>2. Conf!TypeOK'
        BY <1>0, <2>3, <2>5, <3>1 DEF Conf!TypeOK
      <3>3. \A q \in Proc : client'[q] = IF q = p THEN [token |-> f.token, pc |-> "ready"] ELSE client[q]
        BY <1>0, <3>1 DEF Conf!TypeOK
      <3>4. TokensAreGranted'
        BY <1>0, <2>1, <2>2, <2>3, <2>6, <3>1, <3>3 DEF TokensAreGranted, Leads
      <3> QED BY <2>1, <2>2, <2>3, <2>6, <3>2, <3>4 DEF ConfInv
    <2>7. CASE Conf!Persist(p) /\ f.token = client[p].token
      <3>1. client' = [client EXCEPT ![p].pc = "ready"] /\ confHh' = confHh /\ client[p].pc = "refreshed"
        BY <2>7 DEF Conf!Persist
      <3>2. \A q \in Proc : /\ client'[q].token = client[q].token
                            /\ client'[q].pc = IF q = p THEN "ready" ELSE client[q].pc
                            /\ client'[q] \in [token : 0..MaxToken, pc : {"none", "ready", "refreshed"}]
        BY <1>0, <3>1 DEF Conf!TypeOK
      <3>3. client' \in [Proc -> [token : 0..MaxToken, pc : {"none", "ready", "refreshed"}]]
        BY <1>0, <3>1, <3>2 DEF Conf!TypeOK
      <3>4. Conf!TypeOK'
        BY <1>0, <2>5, <3>1, <3>3 DEF Conf!TypeOK
      <3>5. Leads(p)
        BY <1>0, <3>1 DEF TokensAreGranted
      <3>6. \A q \in Proc : client'[q].pc # "refreshed"
        BY <1>0, <2>3, <3>2, <3>5 DEF TokensAreGranted, Leads
      <3>7. TokensAreGranted'
        BY <1>0, <2>1, <2>2, <2>3, <2>7, <3>1, <3>2, <3>5, <3>6 DEF TokensAreGranted, Leads
      <3> QED BY <2>1, <2>2, <2>3, <2>7, <3>4, <3>5, <3>7 DEF ConfInv, Leads
    <2>8. CASE Conf!Login(p) /\ f.token = confHh + 1
      <3>1. client' = client /\ confHh' = confHh + 1 /\ confHh < MaxToken /\ \A q \in Proc : client[q].pc # "refreshed"
        BY <2>8 DEF Conf!Login
      <3>2. Conf!TypeOK'
        BY <1>0, <2>3, <2>5, <2>8, <3>1 DEF Conf!TypeOK
      <3>3. TokensAreGranted'
        BY <1>0, <2>1, <2>2, <2>3, <2>8, <3>1 DEF TokensAreGranted
      <3> QED BY <1>0, <2>1, <2>2, <2>3, <2>8, <3>2, <3>3 DEF ConfInv, TokensAreGranted
    <2> QED BY <2>1, <2>6, <2>7, <2>8
  <1> QED BY <1>1, <1>2

\* Starting, dying, editing, and what HH does to tokens.
LEMMA ClientInv ==
    ASSUME Conf!ConfigAssumption, ConfInv, NEW p \in Proc, Conf!Refresh(p) \/ Conf!LoseAnswer(p)
    PROVE  ConfInv' /\ UNCHANGED <<confFile, confMem>>
  <1>0. Conf!TypeOK /\ TokensAreGranted /\ confHh \in Nat /\ MaxToken \in Nat /\ confHh \in 0..MaxToken
    BY DEF ConfInv, Conf!TypeOK, Conf!ConfigAssumption
  <1>1. UNCHANGED <<confFile, confMem, base, up, started, edited, confWord>>
    BY DEF Conf!Refresh, Conf!LoseAnswer
  <1>2. /\ \A q \in Proc : Tracks(q)'
        /\ Conf!NoLostUpdate'
    BY <1>1 DEF ConfInv, Tracks, Conf!NoLostUpdate
  <1>3. /\ confFile.token \in Nat
        /\ \A q \in Proc : confMem[q].token \in Nat /\ client[q].token \in Nat
    BY <1>0, ConfTyped
  <1>4. CASE Conf!Refresh(p)
    <2>1. /\ confHh' = confHh + 1 /\ confHh < MaxToken /\ client[p].token = confHh /\ client[p].pc = "ready"
          /\ client' = [client EXCEPT ![p] = [token |-> confHh + 1, pc |-> "refreshed"]]
      BY <1>4 DEF Conf!Refresh
    <2>2. confHh + 1 \in 0..MaxToken
      BY <1>0, <2>1
    <2>3. Conf!TypeOK'
      BY <1>0, <1>1, <2>1, <2>2 DEF Conf!TypeOK
    <2>4. \A q \in Proc : client'[q] = IF q = p THEN [token |-> confHh + 1, pc |-> "refreshed"] ELSE client[q]
      BY <1>0, <2>1 DEF Conf!TypeOK
    <2>5. ASSUME NEW q \in Proc, q # p PROVE client[q].pc # "refreshed"
      BY <1>0, <1>3, <2>1, <2>5 DEF TokensAreGranted, Leads
    <2>6. /\ confFile.token <= confHh
          /\ \A q \in Proc : confMem[q].token <= confHh /\ client[q].token <= confHh
      BY <1>0 DEF TokensAreGranted
    <2>7. Leads(p)'
      BY <1>0, <1>1, <1>3, <2>1, <2>4, <2>6 DEF Leads
    <2>8. TokensAreGranted'
      BY <1>0, <1>1, <1>3, <2>1, <2>4, <2>5, <2>6, <2>7 DEF TokensAreGranted
    <2> QED BY <1>1, <1>2, <2>3, <2>8 DEF ConfInv
  <1>5. CASE Conf!LoseAnswer(p)
    <2>1. confHh' = confHh /\ client' = [client EXCEPT ![p] = [token |-> 0, pc |-> "none"]]
      BY <1>5 DEF Conf!LoseAnswer, Conf!NoClient, Conf!NoToken
    <2>2. Conf!TypeOK'
      BY <1>0, <1>1, <2>1 DEF Conf!TypeOK
    <2>4. \A q \in Proc : client'[q] = IF q = p THEN [token |-> 0, pc |-> "none"] ELSE client[q]
      BY <1>0, <2>1 DEF Conf!TypeOK
    <2>8. TokensAreGranted'
      BY <1>0, <1>1, <1>3, <2>1, <2>4 DEF TokensAreGranted, Leads
    <2> QED BY <1>1, <1>2, <2>2, <2>8 DEF ConfInv
  <1> QED BY <1>4, <1>5

LEMMA StartInv ==
    ASSUME Conf!ConfigAssumption, ConfInv, NEW p \in Proc, Conf!Start(p) \/ Conf!Die(p)
    PROVE  /\ ConfInv' /\ confFile' = confFile
           /\ \A q \in Proc : q \in up /\ q \in up' => confMem'[q] = confMem[q]
           /\ Conf!Start(p) => client' = client
  <1>0. Conf!TypeOK /\ TokensAreGranted /\ confFile \in Conf!Config
    BY ConfTyped DEF ConfInv
  <1>3. /\ confFile.token \in Nat /\ confHh \in Nat
        /\ \A q \in Proc : confMem[q].token \in Nat /\ client[q].token \in Nat
    BY <1>0, ConfTyped
  <1>4. CASE Conf!Start(p)
    <2>1. /\ p \notin up /\ up' = up \cup {p} /\ started' = started + 1 /\ started < MaxStart
          /\ confMem' = [confMem EXCEPT ![p] = confFile] /\ base' = [base EXCEPT ![p] = confFile]
          /\ UNCHANGED <<confFile, client, confHh, edited, confWord>>
      BY <1>4 DEF Conf!Start, Conf!Accept
    <2>2. Conf!TypeOK'
      BY <1>0, <2>1 DEF Conf!TypeOK, Conf!ConfigAssumption
    <2>3. /\ \A q \in Proc : confMem'[q] = IF q = p THEN confFile ELSE confMem[q]
          /\ \A q \in Proc : base'[q] = IF q = p THEN confFile ELSE base[q]
      BY <1>0, <2>1 DEF Conf!TypeOK
    <2>4. ASSUME NEW q \in Proc PROVE Tracks(q)'
      <3>1. Tracks(q)
        BY DEF ConfInv
      <3>2. CASE q = p
        <4>1. edited'[q] = {} /\ confMem'[q] = base'[q]
          BY <2>1, <2>3, <3>1, <3>2 DEF Tracks
        <4> QED BY <4>1 DEF Tracks
      <3>3. CASE q # p
        BY <2>1, <2>3, <3>1, <3>3 DEF Tracks
      <3> QED BY <3>2, <3>3
    <2>5. TokensAreGranted'
      BY <1>0, <1>3, <2>1, <2>3 DEF TokensAreGranted, Leads
    <2>6. Conf!NoLostUpdate'
      BY <2>1 DEF ConfInv, Conf!NoLostUpdate
    <2> QED BY <2>1, <2>2, <2>3, <2>4, <2>5, <2>6 DEF ConfInv
  <1>5. CASE Conf!Die(p)
    <2>1. /\ p \in up /\ up' = up \ {p} /\ edited' = [edited EXCEPT ![p] = {}]
          /\ client' = [client EXCEPT ![p] = [token |-> 0, pc |-> "none"]]
          /\ UNCHANGED <<confFile, confMem, base, started, confHh, confWord>>
      BY <1>5 DEF Conf!Die, Conf!NoClient, Conf!NoToken
    <2>2. Conf!TypeOK'
      BY <1>0, <2>1 DEF Conf!TypeOK, Conf!ConfigAssumption
    <2>3. /\ \A q \in Proc : client'[q] = IF q = p THEN [token |-> 0, pc |-> "none"] ELSE client[q]
          /\ \A q \in Proc : edited'[q] = IF q = p THEN {} ELSE edited[q]
      BY <1>0, <2>1 DEF Conf!TypeOK
    <2>4. ASSUME NEW q \in Proc PROVE Tracks(q)'
      <3>1. Tracks(q)
        BY DEF ConfInv
      <3> QED BY <2>1, <2>3, <3>1 DEF Tracks
    <2>5. TokensAreGranted'
      BY <1>0, <1>3, <2>1, <2>3 DEF TokensAreGranted, Leads
    <2>6. Conf!NoLostUpdate'
      BY <2>1 DEF ConfInv, Conf!NoLostUpdate
    <2>7. ~Conf!Start(p)
      BY <2>1 DEF Conf!Start
    <2> QED BY <2>1, <2>2, <2>4, <2>5, <2>6, <2>7 DEF ConfInv
  <1> QED BY <1>4, <1>5

LEMMA EditInv ==
    ASSUME Conf!ConfigAssumption, ConfInv, NEW p \in Proc, Conf!Edit(p)
    PROVE  ConfInv' /\ confFile' = confFile /\ client' = client
  <1>0. /\ Conf!TypeOK /\ TokensAreGranted /\ Tracks(p)
        /\ confMem[p] \in Conf!Config /\ base[p] \in Conf!Config
    BY ConfTyped DEF ConfInv
  <1>1. p \in up /\ UNCHANGED <<confFile, base, up, started, client, confHh, confWord>>
    BY DEF Conf!Edit
  <1>2. PICK u \in [Key -> Value], h \in Conf!Grants, t \in 0..MaxToken :
          confMem[p] = [user |-> u, grant |-> h, token |-> t]
    BY <1>0 DEF Conf!Config
  <1>3. PICK m \in Conf!Config :
          /\ confMem' = [confMem EXCEPT ![p] = m] /\ m.token = confMem[p].token
          /\ edited' \in [Proc -> SUBSET Key]
          /\ edited'[p] = {k \in Key : m.user[k] # base[p].user[k]}
          /\ \A q \in Proc : q # p => edited'[q] = edited[q]
    <2>1. CASE \E k \in Key, v \in Value :
                 /\ confMem' = [confMem EXCEPT ![p].user[k] = v]
                 /\ edited' = [edited EXCEPT ![p] =
                                IF v = base[p].user[k] THEN @ \ {k} ELSE @ \cup {k}]
      <3>1. PICK k \in Key, v \in Value :
                 /\ confMem' = [confMem EXCEPT ![p].user[k] = v]
                 /\ edited' = [edited EXCEPT ![p] =
                                IF v = base[p].user[k] THEN @ \ {k} ELSE @ \cup {k}]
        BY <2>1
      <3>2. PICK w \in [Key -> Value] : w = [u EXCEPT ![k] = v]
        OBVIOUS
      <3>3. PICK m \in Conf!Config : m = [user |-> w, grant |-> h, token |-> t]
        BY ConfigTyped
      <3>4. confMem' = [confMem EXCEPT ![p] = m]
        <4>1. [confMem[p].user EXCEPT ![k] = v] = w
          BY <1>2, <3>2
        <4>2. [confMem[p] EXCEPT !.user = w] = m
          BY <1>2, <3>3
        <4>3. [confMem EXCEPT ![p].user[k] = v] =
                [confMem EXCEPT ![p] = [confMem[p] EXCEPT !.user = [confMem[p].user EXCEPT ![k] = v]]]
          OBVIOUS
        <4> QED BY <3>1, <4>1, <4>2, <4>3
      <3>5. /\ \A j \in Key : w[j] = IF j = k THEN v ELSE confMem[p].user[j]
            /\ m.user = w /\ m.token = confMem[p].token
        BY <1>2, <3>2, <3>3
      <3>6. /\ edited'[p] = IF v = base[p].user[k] THEN edited[p] \ {k} ELSE edited[p] \cup {k}
            /\ \A q \in Proc : q # p => edited'[q] = edited[q]
            /\ edited' \in [Proc -> SUBSET Key]
        BY <1>0, <3>1 DEF Conf!TypeOK
      <3>7. edited[p] = {j \in Key : confMem[p].user[j] # base[p].user[j]}
        BY <1>0, <1>1 DEF Tracks
      <3>8. edited'[p] = {j \in Key : m.user[j] # base[p].user[j]}
        BY <3>5, <3>6, <3>7
      <3> QED BY <3>4, <3>5, <3>6, <3>8
    <2>2. CASE (\E g \in 0..FileGrants : confMem' = [confMem EXCEPT ![p].grant = g]) /\ UNCHANGED edited
      <3>1. PICK g \in 0..FileGrants : confMem' = [confMem EXCEPT ![p].grant = g]
        BY <2>2
      <3>2. g \in Conf!Grants
        BY DEF Conf!Grants, Conf!Absent, Conf!ConfigAssumption
      <3>3. PICK m \in Conf!Config : m = [user |-> u, grant |-> g, token |-> t]
        BY <3>2, ConfigTyped
      <3>4. [confMem[p] EXCEPT !.grant = g] = m /\ m.user = confMem[p].user /\ m.token = confMem[p].token
        BY <1>2, <3>3
      <3>5. confMem' = [confMem EXCEPT ![p] = m]
        BY <3>1, <3>4
      <3>6. edited[p] = {j \in Key : m.user[j] # base[p].user[j]}
        BY <1>0, <1>1, <3>4 DEF Tracks
      <3>7. edited \in [Proc -> SUBSET Key]
        BY <1>0 DEF Conf!TypeOK
      <3> QED BY <2>2, <3>4, <3>5, <3>6, <3>7
    <2> QED BY <2>1, <2>2 DEF Conf!Edit
  <1>4. Conf!TypeOK'
    BY <1>0, <1>1, <1>3 DEF Conf!TypeOK
  <1>5. \A q \in Proc : confMem'[q] = IF q = p THEN m ELSE confMem[q]
    BY <1>0, <1>3 DEF Conf!TypeOK
  <1>6. ASSUME NEW q \in Proc PROVE Tracks(q)'
    <2>1. Tracks(q)
      BY DEF ConfInv
    <2> QED BY <1>0, <1>1, <1>3, <1>5, <2>1 DEF Tracks
  <1>7. TokensAreGranted'
    <2>1. \A q \in Proc : confMem'[q].token = confMem[q].token
      BY <1>3, <1>5
    <2> QED BY <1>0, <1>1, <2>1 DEF TokensAreGranted, Leads
  <1>8. Conf!NoLostUpdate'
    BY <1>1 DEF ConfInv, Conf!NoLostUpdate
  <1> QED BY <1>1, <1>4, <1>6, <1>7, <1>8 DEF ConfInv

\* Each writer but the service sends what it writes through Preserve, with the
\* token the file holds or none.
LEMMA WritersPreserve ==
    ASSUME Conf!ConfigAssumption, ConfInv, NEW p \in Proc,
           Conf!Save(p) \/ Conf!Patch(p) \/ Conf!Reset(p) \/ Conf!AddAccount(p)
    PROVE  \E c \in Conf!Config : /\ confFile' = Conf!Preserve(confFile, c)
                                  /\ c.token = confFile.token \/ c.token = 0
  <1>0. /\ confFile \in Conf!Config /\ confMem[p] \in Conf!Config /\ base[p] \in Conf!Config
        /\ base[p].token = confMem[p].token
    BY ConfTyped DEF ConfInv, Tracks
  <1>1. PICK u \in [Key -> Value], h \in Conf!Grants, t \in 0..MaxToken :
          confFile = [user |-> u, grant |-> h, token |-> t]
    BY <1>0 DEF Conf!Config
  <1>2. CASE Conf!Save(p)
    <2>1. PICK m \in Conf!Config : m = Conf!Merge(base[p], confMem[p], confFile) /\ m.token = confFile.token
      BY <1>0, MergeKeepsChanges
    <2> QED BY <1>2, <2>1 DEF Conf!Save
  <1>3. CASE Conf!Patch(p)
    <2>1. PICK k \in Key, v \in Value :
            confFile' = Conf!Preserve(confFile, [confFile EXCEPT !.user[k] = v])
      BY <1>3 DEF Conf!Patch
    <2>2. PICK w \in [Key -> Value] : w = [u EXCEPT ![k] = v]
      OBVIOUS
    <2>3. PICK m \in Conf!Config : m = [user |-> w, grant |-> h, token |-> t]
      BY ConfigTyped
    <2>4. [confFile EXCEPT !.user[k] = v] = m /\ m.token = confFile.token
      BY <1>1, <2>2, <2>3
    <2> QED BY <2>1, <2>4
  <1>4. CASE Conf!Reset(p)
    <2>1. PICK a \in {-1, 0} :
            confFile' = Conf!Preserve(confFile, [Conf!Blank EXCEPT !.grant = a, !.token = 0])
      BY <1>4 DEF Conf!Reset, Conf!Absent, Conf!NoToken
    <2>2. PICK w \in [Key -> Value] : w = [k \in Key |-> Default]
      BY DEF Conf!ConfigAssumption
    <2>3. Conf!Blank = [user |-> w, grant |-> 0, token |-> 1]
      BY <2>2 DEF Conf!Blank
    <2>4. PICK x : x = [user |-> w, grant |-> a, token |-> 1]
      OBVIOUS
    <2>5. [Conf!Blank EXCEPT !.grant = a] = x
      BY <2>3, <2>4
    <2>6. a \in Conf!Grants /\ 0 \in 0..MaxToken
      BY DEF Conf!Grants, Conf!Absent, Conf!ConfigAssumption
    <2>7. PICK m \in Conf!Config : m = [user |-> w, grant |-> a, token |-> 0]
      BY <2>6, ConfigTyped
    <2>8. [x EXCEPT !.token = 0] = m /\ m.token = 0
      BY <2>4, <2>7
    <2>9. confFile' = Conf!Preserve(confFile, m)
      BY <2>1, <2>5, <2>8, Zenon
    <2> QED BY <2>8, <2>9
  <1>5. CASE Conf!AddAccount(p)
    <2>1. PICK g \in 0..FileGrants : confFile' = Conf!Preserve(confFile, [confFile EXCEPT !.grant = g])
      BY <1>5 DEF Conf!AddAccount
    <2>2. g \in Conf!Grants
      BY DEF Conf!Grants, Conf!Absent, Conf!ConfigAssumption
    <2>3. PICK m \in Conf!Config : m = [user |-> u, grant |-> g, token |-> t]
      BY <2>2, ConfigTyped
    <2>4. [confFile EXCEPT !.grant = g] = m /\ m.token = confFile.token
      BY <1>1, <2>3
    <2> QED BY <2>1, <2>4
  <1> QED BY <1>2, <1>3, <1>4, <1>5

LEMMA ReadersPreserve ==
    ASSUME Conf!ConfigAssumption, ConfInv, NEW p \in Proc, Conf!Persist(p) \/ Conf!Login(p)
    PROVE  \E c \in Conf!Config : confFile' = Conf!Preserve(confFile, c)
  <1>0. confFile \in Conf!Config /\ Conf!TypeOK
    BY ConfTyped DEF ConfInv
  <1>1. PICK u \in [Key -> Value], h \in Conf!Grants, t \in 0..MaxToken :
          confFile = [user |-> u, grant |-> h, token |-> t]
    BY <1>0 DEF Conf!Config
  <1>2. PICK s \in 0..MaxToken : confFile' = Conf!Preserve(confFile, [confFile EXCEPT !.token = s])
    <2>1. CASE Conf!Persist(p)
      BY <1>0, <2>1 DEF Conf!Persist, Conf!TypeOK
    <2>2. CASE Conf!Login(p)
      <3>1. confHh + 1 \in 0..MaxToken
        BY <1>0, <2>2 DEF Conf!TypeOK, Conf!Login, Conf!ConfigAssumption
      <3> QED BY <2>2, <3>1 DEF Conf!Login
    <2> QED BY <2>1, <2>2
  <1>3. PICK m \in Conf!Config : m = [user |-> u, grant |-> h, token |-> s]
    BY ConfigTyped
  <1>4. [confFile EXCEPT !.token = s] = m
    BY <1>1, <1>3
  <1> QED BY <1>2, <1>4

\* Every file but the one the service writes went through Preserve.
LEMMA GrantsAreOwned ==
    ASSUME Conf!ConfigAssumption, ConfInv, NEW p \in Proc,
           \E c \in Conf!Config : confFile' = Conf!Preserve(confFile, c)
    PROVE  Conf!GrantIsManaged
  <1>1. PICK c \in Conf!Config : confFile' = Conf!Preserve(confFile, c)
    OBVIOUS
  <1>2. confFile \in Conf!Config
    BY ConfTyped DEF ConfInv
  <1>3. \/ confFile'.grant = confFile.grant \/ confFile'.grant = -1
        \/ confFile.grant = -1 /\ confFile'.grant = 0
    BY <1>1, <1>2, PreserveKeepsRest
  <1> QED BY <1>3 DEF Conf!GrantIsManaged, Conf!Absent

LEMMA StepsAreOwned ==
    ASSUME Conf!ConfigAssumption, ConfInv, [Conf!Next]_(Conf!vars)
    PROVE  /\ ConfInv'
           /\ Conf!EditsSurviveTokens /\ Conf!TokensNeverGoBack /\ Conf!GrantIsManaged
  <1>0. confFile \in Conf!Config /\ confFile.token \in Nat
    BY ConfTyped DEF ConfInv
  <1>1. CASE Conf!Next
    <2>1. PICK p \in Proc :
            \/ Conf!Start(p) \/ Conf!Die(p) \/ Conf!Edit(p)
            \/ Conf!Save(p) \/ Conf!Patch(p) \/ Conf!Reset(p)
            \/ Conf!AddAccount(p) \/ Conf!Project(p)
            \/ Conf!NewClient(p) \/ Conf!Refresh(p) \/ Conf!Persist(p)
            \/ Conf!Login(p) \/ Conf!LoseAnswer(p)
      BY <1>1 DEF Conf!Next
    <2>2. CASE Conf!Start(p) \/ Conf!Die(p)
      <3>1. /\ ConfInv' /\ confFile' = confFile
            /\ \A q \in Proc : q \in up /\ q \in up' => confMem'[q] = confMem[q]
        BY <2>2, StartInv
      <3>2. up \cap up' \subseteq Proc
        BY DEF ConfInv, Conf!TypeOK
      <3> QED BY <1>0, <3>1, <3>2
              DEF Conf!EditsSurviveTokens, Conf!TokensNeverGoBack, Conf!GrantIsManaged
    <2>3. CASE Conf!Edit(p)
      <3>1. ConfInv' /\ confFile' = confFile /\ client' = client
        BY <2>3, EditInv
      <3> QED BY <1>0, <3>1
              DEF Conf!EditsSurviveTokens, Conf!TokensNeverGoBack, Conf!GrantIsManaged
    <2>4. CASE \/ Conf!Save(p) \/ Conf!Patch(p) \/ Conf!Reset(p)
               \/ Conf!AddAccount(p) \/ Conf!Project(p)
      <3>1. ConfInv'
        BY <2>4, WritersInv
      <3>2. client' = client
        BY <2>4 DEF Conf!Save, Conf!Patch, Conf!Reset, Conf!AddAccount, Conf!Project
      <3>3. confFile'.token = confFile.token \/ confFile'.token = 0
        <4>1. CASE Conf!Project(p)
          <5>1. PICK g \in 0..FileGrants : confFile' = [confFile EXCEPT !.grant = g]
            BY <4>1 DEF Conf!Project
          <5> QED BY <1>0, <5>1 DEF Conf!Config
        <4>2. CASE \/ Conf!Save(p) \/ Conf!Patch(p) \/ Conf!Reset(p) \/ Conf!AddAccount(p)
          <5>1. PICK c \in Conf!Config : /\ confFile' = Conf!Preserve(confFile, c)
                                         /\ c.token = confFile.token \/ c.token = 0
            BY <4>2, WritersPreserve
          <5> QED BY <1>0, <5>1, PreserveKeepsRest
        <4> QED BY <2>4, <4>1, <4>2
      <3>4. Conf!GrantIsManaged
        <4>1. CASE Conf!Project(p)
          BY <4>1 DEF Conf!GrantIsManaged
        <4>2. CASE \/ Conf!Save(p) \/ Conf!Patch(p) \/ Conf!Reset(p) \/ Conf!AddAccount(p)
          <5>1. PICK c \in Conf!Config : confFile' = Conf!Preserve(confFile, c)
            BY <4>2, WritersPreserve
          <5> QED BY <5>1, GrantsAreOwned
        <4> QED BY <2>4, <4>1, <4>2
      <3> QED BY <1>0, <3>1, <3>2, <3>3, <3>4
              DEF Conf!EditsSurviveTokens, Conf!TokensNeverGoBack, Conf!NoToken
    <2>5. CASE Conf!NewClient(p) \/ Conf!Persist(p) \/ Conf!Login(p)
      <3>1. /\ ConfInv'
            /\ \A q \in Proc : \A k \in edited[q] : confMem'[q].user[k] = confMem[q].user[k]
            /\ confFile'.token >= confFile.token
        BY <2>5, ReadersInv
      <3>2. up \cap up' \subseteq Proc
        BY DEF ConfInv, Conf!TypeOK
      <3>3. Conf!GrantIsManaged
        <4>1. CASE Conf!NewClient(p)
          BY <4>1 DEF Conf!NewClient, Conf!GrantIsManaged
        <4>2. CASE Conf!Persist(p) \/ Conf!Login(p)
          BY <4>2, ReadersPreserve, GrantsAreOwned
        <4> QED BY <2>5, <4>1, <4>2
      <3> QED BY <3>1, <3>2, <3>3 DEF Conf!EditsSurviveTokens, Conf!TokensNeverGoBack
    <2>6. CASE Conf!Refresh(p) \/ Conf!LoseAnswer(p)
      <3>1. ConfInv' /\ UNCHANGED <<confFile, confMem>>
        BY <2>6, ClientInv
      <3> QED BY <1>0, <3>1
              DEF Conf!EditsSurviveTokens, Conf!TokensNeverGoBack, Conf!GrantIsManaged
    <2> QED BY <2>1, <2>2, <2>3, <2>4, <2>5, <2>6
  <1>2. CASE UNCHANGED Conf!vars
    <2>1. UNCHANGED <<confFile, confMem, base, up, started, client, confHh, edited, confWord>>
      BY <1>2 DEF Conf!vars
    <2>2. Conf!TypeOK' /\ Conf!NoLostUpdate' /\ TokensAreGranted'
      BY <2>1 DEF ConfInv, Conf!TypeOK, Conf!NoLostUpdate, TokensAreGranted, Leads
    <2>3. \A q \in Proc : Tracks(q)'
      BY <2>1 DEF ConfInv, Tracks
    <2> QED BY <1>0, <2>1, <2>2, <2>3
            DEF ConfInv, Conf!EditsSurviveTokens, Conf!TokensNeverGoBack, Conf!GrantIsManaged
  <1> QED BY <1>1, <1>2

\* Whatever the processes loaded and however they interleave, the file holds what
\* was last written on somebody's word, refreshed tokens neither undo unwritten
\* edits nor go back, and only its owner changes the grant
\* (merge_config_snapshot_changes, preserve_managed_autopilot_fields,
\* _persist_hh_identity_patch).
THEOREM FileIsNobodysToLose ==
    ASSUME Conf!ConfigAssumption
    PROVE  Conf!Spec =>
             /\ [](Conf!TypeOK /\ Conf!NoLostUpdate)
             /\ [][/\ Conf!EditsSurviveTokens /\ Conf!TokensNeverGoBack
                   /\ Conf!GrantIsManaged]_(Conf!vars)
  <1>1. ConfInv => Conf!TypeOK /\ Conf!NoLostUpdate
    BY DEF ConfInv
  <1> QED BY ConfStarts, StepsAreOwned, <1>1, PTL DEF Conf!Spec
------------------------------------------------------------------------------
(* MaskedConfig: whose secret an item of a submitted list ends up with. *)

LEMMA MaskCounts ==
    /\ \A S : Mask!Cardinality(S) = Cardinality(S)
    /\ \A S : Mask!IsFiniteSet(S) <=> IsFiniteSet(S)
  BY DEF Mask!Cardinality, Mask!IsFiniteSet, Cardinality, IsFiniteSet

StoredItems == Mask!ItemOf(Mask!Secrets \cup {Mask!None})
ShownItems == Mask!ItemOf(Mask!Secrets \cup {Mask!None, Mask!Empty, Mask!Mask})

\* The lists are the sequences within the bound.
LEMMA ListsAreShort ==
    ASSUME Mask!MaskedAssumption, NEW S
    PROVE  /\ \A list \in Mask!ListOf(S) :
                 /\ list \in Seq(S) /\ Len(list) \in 0..MaxLength
                 /\ DOMAIN list = 1..Len(list)
           /\ \A list \in Seq(S) : Len(list) <= MaxLength => list \in Mask!ListOf(S)
  BY DEF Mask!ListOf, Mask!MaskedAssumption

LEMMA SecretsTyped ==
    /\ \A s \in Mask!Secrets : s.kind = "secret" /\ s.of \in Mask!AnyId
    /\ \A i \in Mask!AnyId : Mask!Secret(i) \in Mask!Secrets
    /\ Mask!None.kind = "none" /\ Mask!Empty.kind = "empty" /\ Mask!Mask.kind = "mask"
  BY DEF Mask!Secrets, Mask!Secret, Mask!None, Mask!Empty, Mask!Mask

\* The n-th item after a submission.
Kept(old, new, n) ==
    IF Mask!Match(old, new, n) = {} THEN Mask!None
    ELSE old[CHOOSE m \in Mask!Match(old, new, n) : TRUE].secret

LEMMA MergedItems ==
    ASSUME Mask!MaskedAssumption,
           NEW old \in Mask!ListOf(StoredItems), NEW new \in Mask!ListOf(ShownItems)
    PROVE  /\ Mask!Merged(old, new) \in Mask!ListOf(StoredItems)
           /\ DOMAIN Mask!Merged(old, new) = DOMAIN new
           /\ \A n \in DOMAIN new :
                 /\ Mask!Merged(old, new)[n].id = new[n].id
                 /\ Mask!Merged(old, new)[n].secret =
                       IF Mask!Typed(new[n].secret) THEN new[n].secret ELSE Kept(old, new, n)
                 /\ Mask!Match(old, new, n) \subseteq DOMAIN old
  <1>1. /\ old \in Seq(StoredItems) /\ DOMAIN old = 1..Len(old)
        /\ new \in Seq(ShownItems) /\ DOMAIN new = 1..Len(new) /\ Len(new) \in 0..MaxLength
    BY ListsAreShort
  <1>2. ASSUME NEW n \in DOMAIN new PROVE Mask!Match(old, new, n) \subseteq DOMAIN old
    BY DEF Mask!Match, Mask!Named
  <1>3. ASSUME NEW n \in DOMAIN new PROVE Kept(old, new, n) \in Mask!Secrets \cup {Mask!None}
    <2>1. CASE Mask!Match(old, new, n) = {}
      BY <2>1 DEF Kept
    <2>2. CASE Mask!Match(old, new, n) # {}
      <3>1. PICK m \in Mask!Match(old, new, n) : m = CHOOSE k \in Mask!Match(old, new, n) : TRUE
        BY <2>2
      <3>2. old[m] \in StoredItems
        BY <1>1, <1>2, <3>1
      <3>3. Kept(old, new, n) = old[m].secret
        BY <2>2, <3>1 DEF Kept
      <3> QED BY <3>2, <3>3 DEF StoredItems, Mask!ItemOf
    <2> QED BY <2>1, <2>2
  <1>4. ASSUME NEW n \in DOMAIN new
        PROVE  \E x \in StoredItems :
                 /\ Mask!Merged(old, new)[n] = x
                 /\ x.id = new[n].id
                 /\ x.secret = IF Mask!Typed(new[n].secret) THEN new[n].secret ELSE Kept(old, new, n)
    <2>1. PICK i \in Mask!AnyId, l \in Label,
               s \in Mask!Secrets \cup {Mask!None, Mask!Empty, Mask!Mask} :
            new[n] = [id |-> i, label |-> l, secret |-> s]
      <3>1. new[n] \in ShownItems
        BY <1>1
      <3> QED BY <3>1 DEF ShownItems, Mask!ItemOf
    <2>2. PICK t : t = IF Mask!Typed(s) THEN s ELSE Kept(old, new, n)
      OBVIOUS
    <2>3. Mask!Merged(old, new)[n] = [new[n] EXCEPT !.secret = t]
      BY <2>1, <2>2 DEF Mask!Merged, Kept
    <2>4. Mask!Typed(s) => s \in Mask!Secrets
      BY <2>1, SecretsTyped DEF Mask!Typed
    <2>5. t \in Mask!Secrets \cup {Mask!None}
      BY <1>3, <2>2, <2>4
    <2>6. [new[n] EXCEPT !.secret = t] = [id |-> i, label |-> l, secret |-> t]
      BY <2>1
    <2>7. [id |-> i, label |-> l, secret |-> t] \in StoredItems
      BY <2>5 DEF StoredItems, Mask!ItemOf
    <2> QED BY <2>1, <2>2, <2>3, <2>6, <2>7
  <1>5. DOMAIN Mask!Merged(old, new) = DOMAIN new
    BY DEF Mask!Merged
  <1>6. Mask!Merged(old, new) \in [1..Len(new) -> StoredItems]
    <2>1. Mask!Merged(old, new) = [n \in DOMAIN new |-> Mask!Merged(old, new)[n]]
      BY DEF Mask!Merged
    <2> QED BY <1>1, <1>4, <2>1
  <1>7. Mask!Merged(old, new) \in Mask!ListOf(StoredItems)
    BY <1>1, <1>6 DEF Mask!ListOf
  <1> QED BY <1>2, <1>4, <1>5, <1>7

LEMMA MaskedItems ==
    ASSUME Mask!MaskedAssumption, NEW old \in Mask!ListOf(StoredItems)
    PROVE  Mask!Masked(old) \in Mask!ListOf(ShownItems)
  <1>1. old \in Seq(StoredItems) /\ DOMAIN old = 1..Len(old) /\ Len(old) \in 0..MaxLength
    BY ListsAreShort
  <1>2. ASSUME NEW n \in DOMAIN old
        PROVE  Mask!Masked(old)[n] \in ShownItems
    <2>1. PICK i \in Mask!AnyId, l \in Label, s \in Mask!Secrets \cup {Mask!None} :
            old[n] = [id |-> i, label |-> l, secret |-> s]
      <3>1. old[n] \in StoredItems
        BY <1>1
      <3> QED BY <3>1 DEF StoredItems, Mask!ItemOf
    <2>2. PICK t \in {Mask!None, Mask!Mask} : t = IF s = Mask!None THEN Mask!None ELSE Mask!Mask
      OBVIOUS
    <2>3. Mask!Masked(old)[n] = [old[n] EXCEPT !.secret = t]
      BY <2>1, <2>2 DEF Mask!Masked
    <2>4. [old[n] EXCEPT !.secret = t] = [id |-> i, label |-> l, secret |-> t]
      BY <2>1
    <2> QED BY <2>3, <2>4 DEF ShownItems, Mask!ItemOf
  <1>3. Mask!Masked(old) \in [1..Len(old) -> ShownItems]
    <2>1. Mask!Masked(old) = [n \in DOMAIN old |-> Mask!Masked(old)[n]]
      BY DEF Mask!Masked
    <2> QED BY <1>1, <1>2, <2>1
  <1> QED BY <1>1, <1>3 DEF Mask!ListOf

LEMMA EditsAreShort ==
    ASSUME Mask!MaskedAssumption, NEW list \in Mask!ListOf(ShownItems)
    PROVE  Mask!Changes(list) \subseteq Mask!ListOf(ShownItems)
  <1>1. /\ list \in Seq(ShownItems) /\ DOMAIN list = 1..Len(list)
        /\ Len(list) \in Nat /\ Len(list) <= MaxLength /\ MaxLength \in Nat
    BY ListsAreShort DEF Mask!MaskedAssumption
  <1>2. ASSUME NEW n \in DOMAIN list, NEW x \in ShownItems
        PROVE  [list EXCEPT ![n] = x] \in Mask!ListOf(ShownItems)
    <2>1. [list EXCEPT ![n] = x] \in Seq(ShownItems) /\ Len([list EXCEPT ![n] = x]) = Len(list)
      BY <1>1
    <2> QED BY <1>1, <2>1, ListsAreShort
  <1>3. ASSUME NEW n \in DOMAIN list
        PROVE  \E i \in Mask!AnyId, l \in Label,
                  s \in Mask!Secrets \cup {Mask!None, Mask!Empty, Mask!Mask} :
                 list[n] = [id |-> i, label |-> l, secret |-> s]
    <2>1. list[n] \in ShownItems
      BY <1>1
    <2> QED BY <2>1 DEF ShownItems, Mask!ItemOf
  <1>4. ASSUME NEW i \in Mask!AnyId, NEW l \in Label,
               NEW s \in Mask!Secrets \cup {Mask!None, Mask!Empty, Mask!Mask}
        PROVE  [id |-> i, label |-> l, secret |-> s] \in ShownItems
    BY DEF ShownItems, Mask!ItemOf
  <1>5. ASSUME NEW n \in DOMAIN list
        PROVE  Mask!RemoveAt(list, n) \in Mask!ListOf(ShownItems)
    <2>1. n \in Nat /\ n >= 1 /\ n <= Len(list)
      BY <1>1
    <2>2. SubSeq(list, 1, n - 1) \in Seq(ShownItems) /\ Len(SubSeq(list, 1, n - 1)) = n - 1
      BY <1>1, <2>1
    <2>3. SubSeq(list, n + 1, Len(list)) \in Seq(ShownItems)
          /\ Len(SubSeq(list, n + 1, Len(list))) = Len(list) - n
      BY <1>1, <2>1
    <2>4. /\ Mask!RemoveAt(list, n) \in Seq(ShownItems)
          /\ Len(Mask!RemoveAt(list, n)) = (n - 1) + (Len(list) - n)
      BY <2>2, <2>3 DEF Mask!RemoveAt
    <2> QED BY <1>1, <2>1, <2>4, ListsAreShort
  <1>6. Mask!Reverse(list) \in Mask!ListOf(ShownItems)
    <2>1. Mask!Reverse(list) \in [1..Len(list) -> ShownItems]
      BY <1>1 DEF Mask!Reverse
    <2> QED BY <1>1, <2>1 DEF Mask!ListOf
  <1>7. ASSUME NEW n \in DOMAIN list, NEW x \in Mask!Retyped(list[n])
        PROVE  x \in ShownItems
    <2>1. PICK i \in Mask!AnyId, l \in Label,
               s \in Mask!Secrets \cup {Mask!None, Mask!Empty, Mask!Mask} :
            list[n] = [id |-> i, label |-> l, secret |-> s]
      BY <1>3
    <2>2. ASSUME NEW k \in Label PROVE [list[n] EXCEPT !.label = k] \in ShownItems
      <3>1. [list[n] EXCEPT !.label = k] = [id |-> i, label |-> k, secret |-> s]
        BY <2>1
      <3> QED BY <1>4, <3>1
    <2>3. ASSUME NEW k \in Mask!AnyId PROVE [list[n] EXCEPT !.id = k] \in ShownItems
      <3>1. [list[n] EXCEPT !.id = k] = [id |-> k, label |-> l, secret |-> s]
        BY <2>1
      <3> QED BY <1>4, <3>1
    <2>4. ASSUME NEW k \in {Mask!None, Mask!Empty, Mask!Mask, Mask!Secret(list[n].id)}
          PROVE  [list[n] EXCEPT !.secret = k] \in ShownItems
      <3>1. k \in Mask!Secrets \cup {Mask!None, Mask!Empty, Mask!Mask}
        BY <2>1, SecretsTyped
      <3>2. [list[n] EXCEPT !.secret = k] = [id |-> i, label |-> l, secret |-> k]
        BY <2>1
      <3> QED BY <1>4, <3>1, <3>2
    <2> QED BY <2>2, <2>3, <2>4 DEF Mask!Retyped
  <1>10. ASSUME Len(list) < MaxLength, NEW x \in Mask!ItemOf({Mask!None, Mask!Empty, Mask!Mask})
         PROVE  Append(list, x) \in Mask!ListOf(ShownItems)
    <2>1. x \in ShownItems
      BY DEF ShownItems, Mask!ItemOf
    <2>2. Append(list, x) \in Seq(ShownItems) /\ Len(Append(list, x)) = Len(list) + 1
      BY <1>1, <2>1
    <2>3. PICK z \in Seq(ShownItems) : z = Append(list, x) /\ Len(z) = Len(list) + 1
      BY <2>2
    <2>4. Len(z) <= MaxLength
      BY <1>1, <1>10, <2>3
    <2> QED BY <2>3, <2>4, ListsAreShort
  <1>11. SUFFICES ASSUME NEW y \in Mask!Changes(list) PROVE y \in Mask!ListOf(ShownItems)
    OBVIOUS
  <1>12. CASE \E n \in DOMAIN list : y = Mask!RemoveAt(list, n)
    BY <1>5, <1>12
  <1>13. CASE y \in UNION {{[list EXCEPT ![n] = x] : x \in Mask!Retyped(list[n])} : n \in DOMAIN list}
    <2>1. PICK n \in DOMAIN list : y \in {[list EXCEPT ![n] = x] : x \in Mask!Retyped(list[n])}
      BY <1>13
    <2>2. PICK x \in Mask!Retyped(list[n]) : y = [list EXCEPT ![n] = x]
      BY <2>1
    <2> QED BY <1>2, <1>7, <2>2
  <1>14. CASE /\ Len(list) < MaxLength
              /\ \E x \in Mask!ItemOf({Mask!None, Mask!Empty, Mask!Mask}) : y = Append(list, x)
    BY <1>10, <1>14
  <1>15. \/ \E n \in DOMAIN list : y = Mask!RemoveAt(list, n)
         \/ y = Mask!Reverse(list)
         \/ y \in UNION {{[list EXCEPT ![n] = x] : x \in Mask!Retyped(list[n])} : n \in DOMAIN list}
         \/ /\ Len(list) < MaxLength
            /\ \E x \in Mask!ItemOf({Mask!None, Mask!Empty, Mask!Mask}) : y = Append(list, x)
    <2> DEFINE R == {Mask!RemoveAt(list, n) : n \in DOMAIN list}
               T == UNION {{[list EXCEPT ![n] = x] : x \in Mask!Retyped(list[n])} : n \in DOMAIN list}
               X == {Append(list, x) : x \in Mask!ItemOf({Mask!None, Mask!Empty, Mask!Mask})}
    <2>1. Mask!Changes(list) = R \cup {Mask!Reverse(list)} \cup T
                                 \cup IF Len(list) < MaxLength THEN X ELSE {}
      BY DEF Mask!Changes
    <2>2. y \in R => \E n \in DOMAIN list : y = Mask!RemoveAt(list, n)
      OBVIOUS
    <2>3. y \in X => \E x \in Mask!ItemOf({Mask!None, Mask!Empty, Mask!Mask}) : y = Append(list, x)
      OBVIOUS
    <2>4. \/ y \in R \/ y = Mask!Reverse(list) \/ y \in T
          \/ Len(list) < MaxLength /\ y \in X
      <3> HIDE DEF R, T, X
      <3> QED BY <1>11, <2>1
    <2> QED BY <2>2, <2>3, <2>4
  <1> QED BY <1>6, <1>12, <1>13, <1>14, <1>15

LEMMA MaskStarts == ASSUME Mask!MaskedAssumption, Mask!Init PROVE Mask!TypeOK
  <1>1. <<>> \in Mask!ListOf(StoredItems) /\ <<>> \in Mask!ListOf(ShownItems)
    <2>1. \A S : <<>> \in Seq(S) /\ Len(<<>>) = 0
      OBVIOUS
    <2>2. 0 <= MaxLength
      BY DEF Mask!MaskedAssumption
    <2> QED BY <2>1, <2>2, ListsAreShort
  <1>2. ASSUME NEW i \in Mask!AnyId, NEW l \in Label
        PROVE  <<[id |-> i, label |-> l, secret |-> Mask!Secret(i)]>> \in Mask!ListOf(StoredItems)
    <2>1. PICK x \in StoredItems : x = [id |-> i, label |-> l, secret |-> Mask!Secret(i)]
      BY SecretsTyped DEF StoredItems, Mask!ItemOf
    <2>2. <<x>> \in Seq(StoredItems) /\ Len(<<x>>) = 1 /\ 1 <= MaxLength
      BY DEF Mask!MaskedAssumption
    <2> QED BY <2>1, <2>2, ListsAreShort
  <1>3. stored \in Mask!ListOf(StoredItems)
    BY <1>1, <1>2 DEF Mask!Init
  <1>4. view \in [Client -> Mask!ListOf(ShownItems)] /\ maskEdits \in 0..MaskEdits
    BY <1>1 DEF Mask!Init, Mask!MaskedAssumption
  <1> QED BY <1>3, <1>4 DEF Mask!TypeOK, StoredItems, ShownItems

LEMMA SubmissionOwns ==
    ASSUME Mask!MaskedAssumption, Mask!TypeOK, NEW c \in Client, Mask!Submit(c)
    PROVE  Mask!TypeOK' /\ Mask!SecretStaysWithItsOwner
  <1>1. /\ stored \in Mask!ListOf(StoredItems) /\ view \in [Client -> Mask!ListOf(ShownItems)]
        /\ maskEdits \in 0..MaskEdits
    BY DEF Mask!TypeOK, StoredItems, ShownItems
  <1>2. /\ stored' = Mask!Merged(stored, view[c])
        /\ view' = [view EXCEPT ![c] = Mask!Masked(stored')] /\ maskEdits' = maskEdits
    BY DEF Mask!Submit
  <1>3. view[c] \in Mask!ListOf(ShownItems)
    BY <1>1
  <1>4. stored' \in Mask!ListOf(StoredItems)
    BY <1>1, <1>2, <1>3, MergedItems
  <1>5. Mask!TypeOK'
    <2>1. Mask!Masked(stored') \in Mask!ListOf(ShownItems)
      BY <1>4, MaskedItems
    <2>2. view' \in [Client -> Mask!ListOf(ShownItems)]
      BY <1>1, <1>2, <2>1
    <2> QED BY <1>1, <1>2, <1>4, <2>2 DEF Mask!TypeOK, StoredItems, ShownItems
  <1>6. ASSUME NEW n \in DOMAIN stored', NEW m \in DOMAIN stored, NEW s,
               s = stored'[n].secret, s.kind = "secret"
        PROVE  \/ \E k \in DOMAIN stored : stored[k].id = stored'[n].id /\ stored[k].secret = s
               \/ \E d \in Client : \E k \in DOMAIN view[d] : view[d][k].secret = s
    <2>1. /\ n \in DOMAIN view[c]
          /\ stored'[n].id = view[c][n].id
          /\ s = IF Mask!Typed(view[c][n].secret) THEN view[c][n].secret ELSE Kept(stored, view[c], n)
          /\ Mask!Match(stored, view[c], n) \subseteq DOMAIN stored
      BY <1>1, <1>2, <1>3, <1>6, MergedItems
    <2>2. CASE Mask!Typed(view[c][n].secret)
      BY <2>1, <2>2
    <2>3. CASE ~Mask!Typed(view[c][n].secret)
      <3>1. Mask!Match(stored, view[c], n) # {}
        BY <1>6, <2>1, <2>3, SecretsTyped DEF Kept
      <3>2. PICK k \in Mask!Match(stored, view[c], n) : s = stored[k].secret /\ k \in DOMAIN stored
        BY <2>1, <2>3, <3>1 DEF Kept
      <3>3. stored[k].secret # Mask!None
        BY <1>6, <3>2, SecretsTyped
      <3>4. Mask!Sensitive(stored)
        BY <3>2, <3>3 DEF Mask!Sensitive
      <3>5. k \in Mask!Named(stored, view[c][n].id)
        BY <3>2, <3>4 DEF Mask!Match
      <3> QED BY <2>1, <3>2, <3>5 DEF Mask!Named
    <2> QED BY <2>2, <2>3
  <1>7. Mask!SecretStaysWithItsOwner
    BY <1>6 DEF Mask!SecretStaysWithItsOwner
  <1> QED BY <1>5, <1>7

\* The one item of a name in a list.
LEMMA OneOfAName ==
    ASSUME Mask!MaskedAssumption, NEW S, NEW list \in Mask!ListOf(S), NEW id, NEW m \in DOMAIN list,
           list[m].id = id, Mask!Cardinality(Mask!Named(list, id)) = 1
    PROVE  Mask!Named(list, id) = {m}
  <1>1. DOMAIN list = 1..Len(list) /\ Len(list) \in Int
    BY ListsAreShort
  <1>2. IsFiniteSet(DOMAIN list)
    BY <1>1, FS_Interval
  <1>3. IsFiniteSet(Mask!Named(list, id))
    BY <1>2, FS_Subset DEF Mask!Named
  <1>4. Cardinality(Mask!Named(list, id)) = 1
    BY MaskCounts
  <1>5. PICK x : Mask!Named(list, id) = {x}
    BY <1>3, <1>4, FS_Singleton
  <1>6. m \in Mask!Named(list, id)
    BY DEF Mask!Named
  <1> QED BY <1>5, <1>6

LEMMA SubmissionKeeps ==
    ASSUME Mask!MaskedAssumption, Mask!TypeOK
    PROVE  Mask!UntouchedSecretSurvives
  <1>1. stored \in Mask!ListOf(StoredItems) /\ view \in [Client -> Mask!ListOf(ShownItems)]
    BY DEF Mask!TypeOK, StoredItems, ShownItems
  <1>2. ASSUME NEW c \in Client, Mask!Submit(c), NEW n \in DOMAIN view[c], NEW m \in DOMAIN stored,
               NEW id, id = view[c][n].id, id # NoId, stored[m].id = id,
               Mask!Cardinality(Mask!Named(stored, id)) = 1,
               Mask!Cardinality(Mask!Named(view[c], id)) = 1,
               view[c][n].secret \in {Mask!Mask, Mask!Empty}
        PROVE  stored'[n].secret = stored[m].secret
    <2>1. view[c] \in Mask!ListOf(ShownItems) /\ stored' = Mask!Merged(stored, view[c])
      BY <1>1, <1>2 DEF Mask!Submit
    <2>2. view[c][n].secret # Mask!None /\ ~Mask!Typed(view[c][n].secret)
      BY <1>2, SecretsTyped DEF Mask!Typed
    <2>3. Mask!Sensitive(view[c])
      BY <1>2, <2>2 DEF Mask!Sensitive
    <2>4. Mask!Match(stored, view[c], n) = Mask!Named(stored, id)
      BY <1>2, <2>3 DEF Mask!Match
    <2>5. Mask!Named(stored, id) = {m}
      BY <1>1, <1>2, OneOfAName
    <2>6. Kept(stored, view[c], n) = stored[m].secret
      BY <2>4, <2>5 DEF Kept
    <2>7. stored'[n].secret = IF Mask!Typed(view[c][n].secret) THEN view[c][n].secret
                              ELSE Kept(stored, view[c], n)
      BY <1>1, <1>2, <2>1, MergedItems
    <2> QED BY <2>2, <2>6, <2>7
  <1> QED BY <1>2 DEF Mask!UntouchedSecretSurvives

LEMMA MaskStep ==
    ASSUME Mask!MaskedAssumption, Mask!TypeOK, [Mask!Next]_(Mask!vars)
    PROVE  Mask!TypeOK' /\ Mask!SecretStaysWithItsOwner /\ Mask!UntouchedSecretSurvives
  <1>0. /\ stored \in Mask!ListOf(StoredItems) /\ view \in [Client -> Mask!ListOf(ShownItems)]
        /\ maskEdits \in 0..MaskEdits
    BY DEF Mask!TypeOK, StoredItems, ShownItems
  <1>1. Mask!UntouchedSecretSurvives
    BY SubmissionKeeps
  <1>2. stored' = stored => Mask!SecretStaysWithItsOwner
    BY DEF Mask!SecretStaysWithItsOwner
  <1>3. ASSUME NEW c \in Client, Mask!Read(c) PROVE Mask!TypeOK' /\ Mask!SecretStaysWithItsOwner
    <2>1. stored' = stored /\ maskEdits' = maskEdits /\ view' = [view EXCEPT ![c] = Mask!Masked(stored)]
      BY <1>3 DEF Mask!Read
    <2>2. Mask!Masked(stored) \in Mask!ListOf(ShownItems)
      BY <1>0, MaskedItems
    <2>3. view' \in [Client -> Mask!ListOf(ShownItems)]
      BY <1>0, <2>1, <2>2
    <2> QED BY <1>0, <1>2, <2>1, <2>3 DEF Mask!TypeOK, StoredItems, ShownItems
  <1>4. ASSUME NEW c \in Client, Mask!Edit(c) PROVE Mask!TypeOK' /\ Mask!SecretStaysWithItsOwner
    <2>1. PICK list \in Mask!Changes(view[c]) : view' = [view EXCEPT ![c] = list]
      BY <1>4 DEF Mask!Edit
    <2>2. stored' = stored /\ maskEdits < MaskEdits /\ maskEdits' = maskEdits + 1
      BY <1>4 DEF Mask!Edit
    <2>3. list \in Mask!ListOf(ShownItems)
      BY <1>0, <2>1, EditsAreShort
    <2>4. view' \in [Client -> Mask!ListOf(ShownItems)]
      BY <1>0, <2>1, <2>3
    <2>5. maskEdits' \in 0..MaskEdits
      BY <1>0, <2>2 DEF Mask!MaskedAssumption
    <2> QED BY <1>0, <1>2, <2>2, <2>4, <2>5 DEF Mask!TypeOK, StoredItems, ShownItems
  <1>5. CASE UNCHANGED Mask!vars
    <2>1. UNCHANGED <<stored, view, maskEdits>>
      BY <1>5 DEF Mask!vars
    <2>2. Mask!TypeOK'
      BY <2>1 DEF Mask!TypeOK
    <2> QED BY <1>1, <1>2, <2>1, <2>2
  <1> QED BY <1>1, <1>3, <1>4, <1>5, SubmissionOwns DEF Mask!Next

\* However many clients edit masked lists, however stale, a submission gives no
\* item the secret of another, and an item that can be told from the others
\* keeps its own (update_config_from_client, _merge_masked_value).
THEOREM SecretsStayOwned ==
    ASSUME Mask!MaskedAssumption
    PROVE  Mask!Spec =>
             /\ []Mask!TypeOK
             /\ [][Mask!SecretStaysWithItsOwner /\ Mask!UntouchedSecretSurvives]_(Mask!vars)
  BY MaskStarts, MaskStep, PTL DEF Mask!Spec
------------------------------------------------------------------------------
(* Settings: what a grant is bound to, and what a run makes of it.         *)

Fields == {"queries", "recommend", "candidate", "words", "worklist", "numbers", "notify",
           "active", "profiles", "presets"}

\* What every file is, whoever wrote it: its queries are texts, its candidate one
\* of the spelled names, its numbers whole.
QueryTexts(f) ==
    \A i \in DOMAIN f.queries :
        /\ f.queries[i].resume \in DOMAIN Fold
        /\ \A j \in DOMAIN f.queries[i].names : f.queries[i].names[j] \in DOMAIN Fold
FileInOrder(f) ==
    /\ DOMAIN f = Fields
    /\ DOMAIN f.presets = PresetNames
    /\ f.candidate \in ProfileNames
    /\ \A k \in DOMAIN f.numbers : f.numbers[k] \in Int
    /\ QueryTexts(f)

\* The terms of a search for a preset, from the presets that were hashed.
Terms(hashed, n) ==
    IF n = "recommendations" THEN "recommended"
    ELSE IF \E v : <<n, v>> \in hashed THEN CHOOSE v : <<n, v>> \in hashed
    ELSE "everything"
Wanted(names) == IF names = {} THEN {"recommendations"} ELSE names

\* A meaning is the one of its hash: the hash alone says what will be searched,
\* with which facts, numbers and words.
MeansTheHash(m, h) ==
    /\ m = [searches |-> m.searches, facts |-> h[7], numbers |-> h[6], words |-> h[4],
            worklist |-> Sett!SetOf(h[5])]
    /\ \A s : s \in m.searches <=>
          \E c \in h[1], r \in h[8] : \E n \in Wanted(c[2]) :
              c[1] \in {Fold[r], "published:*"} /\ s = <<r, n, Terms(h[9], n)>>

SettInv ==
    /\ FileInOrder(setFile)
    /\ setGrant # Sett!None => MeansTheHash(setGrant.meaning, setGrant.hash)
    /\ Sett!GrantCoversRun /\ Sett!RunNumbersFit
------------------------------------------------------------------------------
\* Files of one hash mean the same, where presets are saved under their folded
\* names: what is searched can be read from the hash.
LEMMA HashTellsMeaning ==
    ASSUME NEW f, FileInOrder(f), Sett!Hashable(f), \A n \in PresetNames : Fold[n] = n
    PROVE  MeansTheHash(Sett!Meaning(f), Sett!PolicyHash(f))
  <1> DEFINE h == Sett!PolicyHash(f)
             m == Sett!Meaning(f)
  <1>1. /\ h[1] = Sett!CanonicalQueries(Sett!Parsed(f)) /\ h[4] = Sett!SetOf(Sett!Folded(f.words))
        /\ h[5] = Sett!Folded(f.worklist) /\ h[6] = Sett!Filled(f) /\ h[7] = Sett!CandidateFacts(f)
        /\ h[8] = Sett!PolicyResumes(f) /\ h[9] = Sett!PolicyPresets(f)
    BY DEF Sett!PolicyHash, Sett!Parsed
  <1>2. /\ m = [searches |-> m.searches, facts |-> h[7], numbers |-> h[6], words |-> h[4],
                worklist |-> Sett!SetOf(h[5])]
        /\ m.searches = Sett!Searches(f)
    BY <1>1 DEF Sett!Meaning
  <1>3. h[1] = {<<Fold[f.queries[i].resume], Sett!SetOf(Sett!Folded(f.queries[i].names))>> :
                   i \in DOMAIN f.queries}
    BY <1>1 DEF Sett!CanonicalQueries, Sett!Parsed, Sett!ParsedQuery
  <1>4. \A n : Sett!ParamsOf(f, n) = Terms(h[9], n)
    <2> SUFFICES ASSUME NEW n PROVE Sett!ParamsOf(f, n) = Terms(h[9], n)
      OBVIOUS
    <2>1. \A v : <<n, v>> \in h[9] <=> n \in PresetNames /\ f.presets[n] # "absent" /\ v = f.presets[n]
      BY <1>1 DEF Sett!PolicyPresets, FileInOrder
    <2>2. CASE n \in PresetNames /\ f.presets[n] # "absent"
      <3>1. (CHOOSE v : <<n, v>> \in h[9]) = f.presets[n]
        BY <2>1, <2>2
      <3> QED BY <2>1, <2>2, <3>1 DEF Sett!ParamsOf, Terms, FileInOrder
    <2>3. CASE ~(n \in PresetNames /\ f.presets[n] # "absent")
      BY <2>1, <2>3 DEF Sett!ParamsOf, Terms, FileInOrder
    <2> QED BY <2>2, <2>3
  <1>5. ASSUME NEW i \in DOMAIN f.queries
        PROVE  /\ Sett!Names(f.queries[i]) = Wanted(Sett!SetOf(Sett!Folded(f.queries[i].names)))
               /\ Sett!ResumesOf(f.queries[i]) =
                     {r \in h[8] : Fold[f.queries[i].resume] \in {Fold[r], "published:*"}}
    BY <1>1 DEF Sett!Names, Wanted, Sett!ResumesOf, Sett!PolicyResumes
  <1>6. ASSUME NEW s
        PROVE  s \in Sett!Searches(f) <=>
                  \E i \in DOMAIN f.queries : \E r \in Sett!ResumesOf(f.queries[i]) :
                     \E n \in Sett!Names(f.queries[i]) : s = <<r, n, Sett!ParamsOf(f, n)>>
    <2>1. \A x : x \in Sett!RunMappings(f) <=>
             \E i \in DOMAIN f.queries : \E r \in Sett!ResumesOf(f.queries[i]) :
                \E n \in Sett!Names(f.queries[i]) :
                   x = [query |-> i, resume |-> r, name |-> n, params |-> Sett!ParamsOf(f, n)]
      <3>1. \A i, x : x \in Sett!Mappings(f, i) <=>
               \E r \in Sett!ResumesOf(f.queries[i]), n \in Sett!Names(f.queries[i]) :
                  x = [query |-> i, resume |-> r, name |-> n, params |-> Sett!ParamsOf(f, n)]
        BY SMT DEF Sett!Mappings
      <3>2. \A x : x \in Sett!RunMappings(f) <=> \E i \in DOMAIN f.queries : x \in Sett!Mappings(f, i)
        BY DEF Sett!RunMappings
      <3> QED BY <3>1, <3>2
    <2>2. s \in Sett!Searches(f) <=>
             \E x \in Sett!RunMappings(f) : s = <<x.resume, x.name, x.params>>
      BY DEF Sett!Searches
    <2>3. ASSUME s \in Sett!Searches(f)
          PROVE  \E i \in DOMAIN f.queries : \E r \in Sett!ResumesOf(f.queries[i]) :
                    \E n \in Sett!Names(f.queries[i]) : s = <<r, n, Sett!ParamsOf(f, n)>>
      <3>1. PICK x \in Sett!RunMappings(f) : s = <<x.resume, x.name, x.params>>
        BY <2>2, <2>3
      <3>2. PICK i \in DOMAIN f.queries :
               \E r \in Sett!ResumesOf(f.queries[i]), n \in Sett!Names(f.queries[i]) :
                  x = [query |-> i, resume |-> r, name |-> n, params |-> Sett!ParamsOf(f, n)]
        BY <2>1, Zenon
      <3> QED BY <3>1, <3>2
    <2>4. ASSUME NEW i \in DOMAIN f.queries, NEW r \in Sett!ResumesOf(f.queries[i]),
                 NEW n \in Sett!Names(f.queries[i]), s = <<r, n, Sett!ParamsOf(f, n)>>
          PROVE  s \in Sett!Searches(f)
      <3>1. PICK x : x = [query |-> i, resume |-> r, name |-> n, params |-> Sett!ParamsOf(f, n)]
        OBVIOUS
      <3>2. x \in Sett!RunMappings(f)
        BY <2>1, <3>1, Zenon
      <3>3. s = <<x.resume, x.name, x.params>>
        BY <2>4, <3>1
      <3> QED BY <2>2, <3>2, <3>3
    <2> QED BY <2>3, <2>4
  <1> HIDE DEF h, m
  <1>7. \A s : s \in m.searches <=>
          \E c \in h[1], r \in h[8] : \E n \in Wanted(c[2]) :
              c[1] \in {Fold[r], "published:*"} /\ s = <<r, n, Terms(h[9], n)>>
    <2> SUFFICES ASSUME NEW s
                 PROVE  s \in m.searches <=>
                          \E c \in h[1], r \in h[8] : \E n \in Wanted(c[2]) :
                             c[1] \in {Fold[r], "published:*"} /\ s = <<r, n, Terms(h[9], n)>>
      OBVIOUS
    <2>1. ASSUME s \in m.searches
          PROVE  \E c \in h[1], r \in h[8] : \E n \in Wanted(c[2]) :
                     c[1] \in {Fold[r], "published:*"} /\ s = <<r, n, Terms(h[9], n)>>
      <3>a. PICK i \in DOMAIN f.queries :
               \E r \in Sett!ResumesOf(f.queries[i]), n \in Sett!Names(f.queries[i]) :
                  s = <<r, n, Sett!ParamsOf(f, n)>>
        BY <1>2, <1>6, <2>1
      <3>1. PICK r \in Sett!ResumesOf(f.queries[i]), n \in Sett!Names(f.queries[i]) :
               s = <<r, n, Sett!ParamsOf(f, n)>>
        BY <3>a
      <3> DEFINE c == <<Fold[f.queries[i].resume], Sett!SetOf(Sett!Folded(f.queries[i].names))>>
      <3>2. c \in h[1] /\ c[1] = Fold[f.queries[i].resume]
            /\ c[2] = Sett!SetOf(Sett!Folded(f.queries[i].names))
        BY <1>3
      <3>3. r \in h[8] /\ n \in Wanted(c[2]) /\ c[1] \in {Fold[r], "published:*"}
            /\ s = <<r, n, Terms(h[9], n)>>
        BY <1>4, <1>5, <3>1, <3>2
      <3> HIDE DEF c
      <3> QED BY <3>2, <3>3
    <2>2. ASSUME NEW c \in h[1], NEW r \in h[8], NEW n \in Wanted(c[2]),
                 c[1] \in {Fold[r], "published:*"}, s = <<r, n, Terms(h[9], n)>>
          PROVE  s \in m.searches
      <3>1. PICK i \in DOMAIN f.queries :
               c = <<Fold[f.queries[i].resume], Sett!SetOf(Sett!Folded(f.queries[i].names))>>
        BY <1>3
      <3>2. r \in Sett!ResumesOf(f.queries[i]) /\ n \in Sett!Names(f.queries[i])
            /\ s = <<r, n, Sett!ParamsOf(f, n)>>
        BY <1>4, <1>5, <2>2, <3>1
      <3> QED BY <1>2, <1>6, <3>2
    <2> QED BY <2>1, <2>2
  <1> QED BY <1>2, <1>7 DEF MeansTheHash, h, m
------------------------------------------------------------------------------
\* A file that parses has texts for queries.
LEMMA ParsedTexts == ASSUME NEW f, Sett!Parses(f) PROVE QueryTexts(f)
  BY DEF Sett!Parses, Sett!QueriesOk, Sett!ArrayOk, Sett!SetOf, Sett!Text, QueryTexts

\* A patch changes one group of the file.
LEMMA PatchKeeps ==
    ASSUME Sett!SettingsAssumption, NEW f, FileInOrder(f), NEW g \in Sett!Patches(f), Sett!Parses(g)
    PROVE  /\ FileInOrder(g)
           /\ g.active = f.active /\ g.profiles = f.profiles /\ g.presets = f.presets
  <1>1. QueryTexts(g)
    BY ParsedTexts
  <1>2. \/ \E qs : g = [f EXCEPT !.queries = qs]
        \/ \E ws : g = [f EXCEPT !.words = ws]
        \/ \E wl : g = [f EXCEPT !.worklist = wl]
        \/ \E e \in Edits : g = [f EXCEPT !.numbers = Sett!Written(f.numbers, e)]
        \/ \E c \in ProfileNames : g = [f EXCEPT !.candidate = c]
        \/ \E n : g = [f EXCEPT !.notify = n]
        \/ \E r : g = [f EXCEPT !.recommend = r]
    BY DEF Sett!Patches
  <1>3. CASE \E e \in Edits : g = [f EXCEPT !.numbers = Sett!Written(f.numbers, e)]
    <2>1. PICK e \in Edits : g = [f EXCEPT !.numbers = Sett!Written(f.numbers, e)]
      BY <1>3
    <2>2. \A k \in DOMAIN Sett!Written(f.numbers, e) : Sett!Written(f.numbers, e)[k] \in Int
      BY DEF Sett!Written, FileInOrder, Sett!SettingsAssumption
    <2> QED BY <1>1, <2>1, <2>2 DEF FileInOrder, Fields
  <1>4. CASE ~(\E e \in Edits : g = [f EXCEPT !.numbers = Sett!Written(f.numbers, e)])
    BY <1>1, <1>2, <1>4 DEF FileInOrder, Fields
  <1> QED BY <1>3, <1>4

\* What the numbers of a file that parses are.
LEMMA NumbersFit ==
    ASSUME NEW f, FileInOrder(f), Sett!Parses(f), NEW n, n = Sett!Filled(f)
    PROVE  /\ n.request + n.margin <= n.ttl /\ n.run <= n.daily /\ n.daily <= n.admin
           /\ n.base <= n.max /\ n.delay_min <= n.delay_max /\ n.minimum \in n.low..n.high
  <1>1. \A k \in DOMAIN Sett!Defaults : k \in DOMAIN n /\ n[k] \in Int
    BY DEF Sett!Filled, Sett!Defaults, FileInOrder
  <1>2. DOMAIN Sett!Defaults = {"admin", "daily", "run", "delay_min", "delay_max", "low", "minimum",
                                "high", "base", "max", "ttl", "request", "margin"}
    BY DEF Sett!Defaults
  <1>3. Sett!NumbersOk(n)
    BY DEF Sett!Parses
  <1> QED BY <1>1, <1>2, <1>3 DEF Sett!NumbersOk, Sett!LimitsOk, Sett!RankingOk, Sett!RetryOk,
             Sett!LeaseOk

LEMMA Canonical ==
    ASSUME NEW h, NEW c
    PROVE  c \in Sett!CanonicalQueries(Sett!Parsed(h)) <=>
              \E i \in DOMAIN h.queries :
                 c = <<Fold[h.queries[i].resume], Sett!SetOf(Sett!Folded(h.queries[i].names))>>
  <1>1. PICK q : q = Sett!Parsed(h).queries
    OBVIOUS
  <1>2. q = [i \in DOMAIN h.queries |->
                [resume |-> Fold[h.queries[i].resume], names |-> Sett!Folded(h.queries[i].names)]]
    BY <1>1 DEF Sett!Parsed, Sett!ParsedQuery
  <1>3. Sett!CanonicalQueries(Sett!Parsed(h)) = {<<q[i].resume, Sett!SetOf(q[i].names)>> : i \in DOMAIN q}
    BY <1>1 DEF Sett!CanonicalQueries
  <1> QED BY <1>2, <1>3

\* What the hash is made of.
LEMMA SameHash ==
    ASSUME NEW f, NEW g, FileInOrder(f), FileInOrder(g),
           Sett!CanonicalQueries(Sett!Parsed(f)) = Sett!CanonicalQueries(Sett!Parsed(g)),
           f.recommend = g.recommend, Fold[f.candidate] = Fold[g.candidate],
           Sett!SetOf(Sett!Folded(f.words)) = Sett!SetOf(Sett!Folded(g.words)),
           Sett!Folded(f.worklist) = Sett!Folded(g.worklist), Sett!Filled(f) = Sett!Filled(g),
           f.active = g.active, f.profiles = g.profiles, f.presets = g.presets
    PROVE  Sett!PolicyHash(f) = Sett!PolicyHash(g)
  <1>1. Sett!CandidateFacts(f) = Sett!CandidateFacts(g)
    BY DEF Sett!CandidateFacts
  <1>2. Sett!PolicyPresets(f) = Sett!PolicyPresets(g)
    BY DEF Sett!PolicyPresets
  <1>4. ASSUME NEW h
        PROVE  Sett!PolicyResumes(h) =
                  {r \in published : \E c \in Sett!CanonicalQueries(Sett!Parsed(h)) :
                                        c[1] \in {Fold[r], "published:*"}}
    <2>1. \A r : (\E c \in Sett!CanonicalQueries(Sett!Parsed(h)) : c[1] \in {Fold[r], "published:*"})
            <=> \E i \in DOMAIN h.queries : Fold[h.queries[i].resume] \in {Fold[r], "published:*"}
      <3> SUFFICES ASSUME NEW r
                   PROVE  (\E c \in Sett!CanonicalQueries(Sett!Parsed(h)) : c[1] \in {Fold[r], "published:*"})
            <=> \E i \in DOMAIN h.queries : Fold[h.queries[i].resume] \in {Fold[r], "published:*"}
        OBVIOUS
      <3>1. ASSUME NEW c \in Sett!CanonicalQueries(Sett!Parsed(h)), c[1] \in {Fold[r], "published:*"}
            PROVE  \E i \in DOMAIN h.queries : Fold[h.queries[i].resume] \in {Fold[r], "published:*"}
        BY <3>1, Canonical
      <3>2. ASSUME NEW i \in DOMAIN h.queries, Fold[h.queries[i].resume] \in {Fold[r], "published:*"}
            PROVE  \E c \in Sett!CanonicalQueries(Sett!Parsed(h)) : c[1] \in {Fold[r], "published:*"}
        <4>1. PICK c : c = <<Fold[h.queries[i].resume], Sett!SetOf(Sett!Folded(h.queries[i].names))>>
          OBVIOUS
        <4>2. c \in Sett!CanonicalQueries(Sett!Parsed(h)) /\ c[1] = Fold[h.queries[i].resume]
          BY <4>1, Canonical
        <4> QED BY <3>2, <4>2
      <3> QED BY <3>1, <3>2
    <2> QED BY <2>1 DEF Sett!PolicyResumes
  <1>5. Sett!PolicyResumes(f) = Sett!PolicyResumes(g)
    BY <1>4
  <1>6. \A h : Sett!PolicyHash(h) =
           <<Sett!CanonicalQueries(Sett!Parsed(h)), h.recommend, Fold[h.candidate],
             Sett!SetOf(Sett!Folded(h.words)), Sett!Folded(h.worklist), Sett!Filled(h),
             Sett!CandidateFacts(h), Sett!PolicyResumes(h), Sett!PolicyPresets(h)>>
    BY DEF Sett!PolicyHash, Sett!Parsed
  <1> QED BY <1>1, <1>2, <1>5, <1>6

\* Parsing what was parsed changes nothing.
LEMMA ParsedOnce ==
    ASSUME Sett!SettingsAssumption, NEW f, QueryTexts(f), NEW g, g.queries = Sett!Parsed(f).queries
    PROVE  Sett!CanonicalQueries(Sett!Parsed(g)) = Sett!CanonicalQueries(Sett!Parsed(f))
  <1>1. DOMAIN g.queries = DOMAIN f.queries
    BY DEF Sett!Parsed
  <1>2. ASSUME NEW i \in DOMAIN f.queries
        PROVE  /\ Fold[g.queries[i].resume] = Fold[f.queries[i].resume]
               /\ Sett!Folded(g.queries[i].names) = Sett!Folded(f.queries[i].names)
    <2>1. /\ g.queries[i].resume = Fold[f.queries[i].resume]
          /\ g.queries[i].names = Sett!Folded(f.queries[i].names)
      BY DEF Sett!Parsed, Sett!ParsedQuery
    <2> QED BY <2>1 DEF QueryTexts, Sett!SettingsAssumption, Sett!Folded
  <1>3. \A c : c \in Sett!CanonicalQueries(Sett!Parsed(g)) <=> c \in Sett!CanonicalQueries(Sett!Parsed(f))
    BY <1>1, <1>2, Canonical
  <1> QED BY <1>3 DEF Sett!CanonicalQueries

LEMMA SettStarts == ASSUME Sett!SettingsAssumption, Sett!Init PROVE SettInv
  <1>1. PICK c \in ProfileNames, a \in Facts :
         setFile = [queries |-> <<[resume |-> "published:*", names |-> <<>>]>>, recommend |-> TRUE,
                 candidate |-> c, words |-> <<>>, worklist |-> <<>>, numbers |-> << >>,
                 notify |-> 0, active |-> a, profiles |-> [n \in ProfileNames |-> a],
                 presets |-> [n \in PresetNames |-> "absent"]]
    BY DEF Sett!Init
  <1>2. PICK f : f = setFile
    OBVIOUS
  <1>3. QueryTexts(f)
    BY <1>2, ParsedTexts DEF Sett!Init
  <1>4. FileInOrder(f)
    BY <1>1, <1>2, <1>3 DEF FileInOrder, Fields
  <1>5. setGrant = Sett!None /\ setRun = Sett!None
    BY DEF Sett!Init
  <1> QED BY <1>2, <1>4, <1>5 DEF SettInv, Sett!GrantCoversRun, Sett!RunNumbersFit

\* What a step leaves of the file, and of the hash a grant is bound to.
FileMoves == FileInOrder(setFile') /\ Sett!ReauthorizationIsAnnounced /\ Sett!RespelledKeepsHash
LEMMA FileSteps ==
    ASSUME Sett!SettingsAssumption, FileInOrder(setFile), [Sett!Next]_(Sett!vars)
    PROVE  FileMoves
  <1> PICK f : f = setFile
    OBVIOUS
  <1> PICK g : g = setFile'
    OBVIOUS
  <1>1. FileInOrder(f)
    OBVIOUS
  <1> DEFINE Announced == setTold' = "unchanged" /\ g # f => Sett!PolicyHash(g) = Sett!PolicyHash(f)
  <1>2. ASSUME Sett!Update PROVE FileInOrder(g) /\ Announced
    <2>1. g \in Sett!Patches(f) /\ Sett!Parses(g)
          /\ (setTold' = "unchanged" => Sett!Projection(g) = Sett!Projection(f))
      BY <1>2, Zenon DEF Sett!Update
    <2>2. FileInOrder(g) /\ g.active = f.active /\ g.profiles = f.profiles /\ g.presets = f.presets
      BY <1>1, <2>1, PatchKeeps
    <2>3. ASSUME Sett!Projection(g) = Sett!Projection(f) PROVE Sett!PolicyHash(g) = Sett!PolicyHash(f)
      <3>1. \A h : /\ Sett!Projection(h).queries = Sett!Parsed(h).queries
                   /\ Sett!Projection(h).recommend = h.recommend
                   /\ Sett!Projection(h).candidate = Fold[h.candidate]
                   /\ Sett!Projection(h).words = Sett!Folded(h.words)
                   /\ Sett!Projection(h).worklist = Sett!Folded(h.worklist)
                   /\ Sett!Projection(h).numbers = Sett!Filled(h)
        BY DEF Sett!Projection, Sett!Parsed
      <3>2. Sett!CanonicalQueries(Sett!Parsed(g)) = Sett!CanonicalQueries(Sett!Parsed(f))
        BY <2>3, <3>1 DEF Sett!CanonicalQueries
      <3> QED BY <1>1, <2>2, <2>3, <3>1, <3>2, SameHash
    <2> QED BY <2>1, <2>2, <2>3
  <1>3. ASSUME Sett!UseResume PROVE FileInOrder(g) /\ Announced
    <2>1. PICK r \in Resumes, c \in ProfileNames :
             /\ g = [Sett!Used(f, r) EXCEPT !.candidate = c] /\ Sett!Parses(g)
             /\ setTold' = "unchanged" =>
                   g.queries = Sett!Parsed(f).queries /\ g.candidate = Fold[f.candidate]
      BY <1>3, Zenon DEF Sett!UseResume
    <2>2. g = [[f EXCEPT !.queries = Sett!UsedQueries(f, r)] EXCEPT !.candidate = c]
      BY <2>1 DEF Sett!Used
    <2>3. /\ DOMAIN g = DOMAIN f /\ g.candidate = c
          /\ \A k \in DOMAIN f : k \notin {"queries", "candidate"} => g[k] = f[k]
      BY <1>1, <2>2 DEF FileInOrder, Fields
    <2> HIDE <2>2
    <2>4. FileInOrder(g)
      BY <1>1, <2>1, <2>3, ParsedTexts DEF FileInOrder, Fields
    <2>5. ASSUME setTold' = "unchanged" PROVE Sett!PolicyHash(g) = Sett!PolicyHash(f)
      <3>1. Sett!CanonicalQueries(Sett!Parsed(g)) = Sett!CanonicalQueries(Sett!Parsed(f))
        BY <1>1, <2>1, <2>5, ParsedOnce DEF FileInOrder
      <3>2. Fold[g.candidate] = Fold[f.candidate]
        BY <1>1, <2>1, <2>5 DEF FileInOrder, Sett!SettingsAssumption
      <3>3. /\ g.recommend = f.recommend /\ g.words = f.words /\ g.worklist = f.worklist
            /\ g.numbers = f.numbers /\ g.active = f.active /\ g.profiles = f.profiles
            /\ g.presets = f.presets
        BY <1>1, <2>3 DEF FileInOrder, Fields
      <3> QED BY <1>1, <2>4, <3>1, <3>2, <3>3, SameHash DEF Sett!Filled
    <2> QED BY <2>4, <2>5
  <1>4. ASSUME Sett!EditPreset PROVE FileInOrder(g) /\ Announced
    <2>a. PICK n \in PresetNames : \E v : g = [f EXCEPT !.presets[n] = v] /\ setTold' = "none"
      BY <1>4, Zenon DEF Sett!EditPreset
    <2>1. PICK v : g = [f EXCEPT !.presets[n] = v] /\ setTold' = "none"
      BY <2>a
    <2>2. /\ DOMAIN g = DOMAIN f /\ g.presets = [f.presets EXCEPT ![n] = v]
          /\ \A k \in DOMAIN f : k # "presets" => g[k] = f[k]
      BY <1>1, <2>1 DEF FileInOrder, Fields
    <2>3. FileInOrder(g)
      BY <1>1, <2>2 DEF FileInOrder, Fields, QueryTexts
    <2> QED BY <2>1, <2>3
  <1>5. ASSUME Sett!EditProfile PROVE FileInOrder(g) /\ Announced
    <2>a. PICK n \in ProfileNames : \E v : g = [f EXCEPT !.profiles[n] = v] /\ setTold' = "none"
      BY <1>5, Zenon DEF Sett!EditProfile
    <2>1. PICK v : g = [f EXCEPT !.profiles[n] = v] /\ setTold' = "none"
      BY <2>a
    <2>2. DOMAIN g = DOMAIN f /\ \A k \in DOMAIN f : k # "profiles" => g[k] = f[k]
      BY <1>1, <2>1 DEF FileInOrder, Fields
    <2>3. FileInOrder(g)
      BY <1>1, <2>2 DEF FileInOrder, Fields, QueryTexts
    <2> QED BY <2>1, <2>3
  <1>6. ASSUME g = f PROVE FileInOrder(g) /\ Announced
    BY <1>1, <1>6
  <1>7. Sett!Publish \/ Sett!Enable \/ Sett!StartRun \/ Sett!EndRun \/ UNCHANGED Sett!vars => g = f
    BY DEF Sett!Publish, Sett!Enable, Sett!StartRun, Sett!EndRun, Sett!vars
  <1>8. FileInOrder(g) /\ Announced
    BY <1>2, <1>3, <1>4, <1>5, <1>6, <1>7 DEF Sett!Next
  <1>9. ASSUME Sett!Respelled(f, g) PROVE Sett!PolicyHash(g) = Sett!PolicyHash(f)
    <2>1. /\ \A k \in Fields \ {"queries", "words", "candidate", "notify"} : f[k] = g[k]
          /\ Sett!CanonicalQueries(Sett!Parsed(f)) = Sett!CanonicalQueries(Sett!Parsed(g))
          /\ Sett!SetOf(Sett!Folded(f.words)) = Sett!SetOf(Sett!Folded(g.words))
          /\ Fold[f.candidate] = Fold[g.candidate]
      BY <1>1, <1>9 DEF Sett!Respelled, Sett!SameApartFrom, FileInOrder
    <2>2. /\ f.recommend = g.recommend /\ f.worklist = g.worklist /\ f.numbers = g.numbers
          /\ f.active = g.active /\ f.profiles = g.profiles /\ f.presets = g.presets
      BY <2>1 DEF Fields
    <2> QED BY <1>1, <1>8, <2>1, <2>2, SameHash DEF Sett!Filled
  <1> QED BY <1>8, <1>9 DEF FileMoves, Sett!ReauthorizationIsAnnounced, Sett!RespelledKeepsHash

LEMMA SettSteps ==
    ASSUME Sett!SettingsAssumption, \A n \in PresetNames : Fold[n] = n, SettInv, [Sett!Next]_(Sett!vars)
    PROVE  SettInv'
  <1>1. FileInOrder(setFile')
    BY FileSteps DEF SettInv, FileMoves
  <1>2. CASE Sett!Enable
    <2>1. /\ setGrant' = [is |-> "grant", hash |-> Sett!PolicyHash(setFile), meaning |-> Sett!Meaning(setFile)]
          /\ Sett!Hashable(setFile) /\ setRun' = setRun
      BY <1>2 DEF Sett!Enable
    <2>2. PICK f : f = setFile
      OBVIOUS
    <2>3. MeansTheHash(Sett!Meaning(f), Sett!PolicyHash(f))
      BY <2>1, <2>2, HashTellsMeaning DEF SettInv
    <2>4. MeansTheHash(setGrant.meaning, setGrant.hash)'
      BY <2>1, <2>2, <2>3 DEF MeansTheHash
    <2> QED BY <1>1, <2>1, <2>4 DEF SettInv, Sett!GrantCoversRun, Sett!RunNumbersFit
  <1>3. CASE Sett!StartRun
    <2>1. PICK f : f = setFile
      OBVIOUS
    <2>2. /\ setRun' = [is |-> "run", meaning |-> Sett!Meaning(f), granted |-> setGrant.meaning,
                        valid |-> Sett!RuntimeValid(f),
                        asked |-> IF Sett!RuntimeValid(f) THEN Sett!Expanded(f) ELSE {}]
          /\ setGrant # Sett!None /\ setGrant' = setGrant /\ Sett!PolicyHash(f) = setGrant.hash
          /\ Sett!Parses(f) /\ Sett!Hashable(f)
      BY <1>3, <2>1, Zenon DEF Sett!StartRun
    <2>3. PICK m : m = Sett!Meaning(f)
      OBVIOUS
    <2>4. PICK g : g = setGrant.meaning
      OBVIOUS
    <2>5. PICK h : h = setGrant.hash
      OBVIOUS
    <2>6. MeansTheHash(m, h) /\ MeansTheHash(g, h)
      BY <2>1, <2>2, <2>3, <2>4, <2>5, HashTellsMeaning DEF SettInv
    <2>7. m.searches = Sett!Searches(f)
      BY <2>3 DEF Sett!Meaning
    <2>8. m = g
      <3>1. \A s : s \in m.searches <=> s \in g.searches
        BY <2>6, Zenon DEF MeansTheHash
      <3>2. m.searches = g.searches
        BY <3>1
      <3> QED BY <2>6, <3>2 DEF MeansTheHash
    <2>9. setRun'.meaning = m /\ setRun'.granted = g
      BY <2>2, <2>3, <2>4
    <2>10. Sett!GrantCoversRun'
      BY <2>8, <2>9 DEF Sett!GrantCoversRun
    <2>11. m.numbers = Sett!Filled(f)
      BY <2>3 DEF Sett!Meaning
    <2>12. Sett!RunNumbersFit'
      BY <2>1, <2>2, <2>9, <2>11, NumbersFit DEF Sett!RunNumbersFit, SettInv
    <2>13. (setGrant # Sett!None => MeansTheHash(setGrant.meaning, setGrant.hash))'
      BY <2>2 DEF SettInv, MeansTheHash, Sett!None
    <2> QED BY <1>1, <2>10, <2>12, <2>13 DEF SettInv
  <1>4. CASE Sett!EndRun
    BY <1>1, <1>4 DEF SettInv, Sett!EndRun, Sett!GrantCoversRun, Sett!RunNumbersFit, MeansTheHash
  <1>5. CASE UNCHANGED <<setGrant, setRun>>
    BY <1>1, <1>5 DEF SettInv, Sett!GrantCoversRun, Sett!RunNumbersFit, MeansTheHash
  <1> QED BY <1>2, <1>3, <1>4, <1>5 DEF Sett!Next, Sett!vars, Sett!Update, Sett!UseResume, Sett!EditPreset,
             Sett!EditProfile, Sett!Publish

\* A run searches for what its grant meant when it was given, however often the
\* file was edited in between, where presets are saved under folded names; and
\* the numbers it took from the file fit each other (_hh_engine_context,
\* policy_hash, parse_autopilot_settings).
THEOREM GrantsCoverRuns ==
    ASSUME Sett!SettingsAssumption, \A n \in PresetNames : Fold[n] = n
    PROVE  Sett!Spec => [](Sett!GrantCoversRun /\ Sett!RunNumbersFit)
  <1>1. SettInv => Sett!GrantCoversRun /\ Sett!RunNumbersFit
    BY DEF SettInv
  <1> QED BY <1>1, SettStarts, SettSteps, PTL DEF Sett!Spec

\* Another spelling of the same settings keeps their hash, and an update that
\* says the grant stays in force keeps it (policy_hash, _canonicalize,
\* update_hh_autopilot_config, use_resume_for_hh).
THEOREM HashStays ==
    ASSUME Sett!SettingsAssumption
    PROVE  Sett!Spec => [][Sett!RespelledKeepsHash /\ Sett!ReauthorizationIsAnnounced]_(Sett!vars)
  <1> DEFINE Inv == FileInOrder(setFile)
  <1>1. Sett!Init => Inv
    BY SettStarts DEF SettInv
  <1>2. Inv /\ [Sett!Next]_(Sett!vars) => Inv'
    BY FileSteps DEF FileMoves
  <1>3. Inv /\ [Sett!Next]_(Sett!vars) => [Sett!RespelledKeepsHash /\ Sett!ReauthorizationIsAnnounced]_(Sett!vars)
    BY FileSteps DEF FileMoves
  <1> QED BY <1>1, <1>2, <1>3, PTL DEF Sett!Spec
==============================================================================
