---------------------------- MODULE Lease_proofs ----------------------------
(***************************************************************************)
(* The properties of the lease, for every number of processes and every    *)
(* ttl, margin, timeout, wait and clock bound.                             *)
(***************************************************************************)
EXTENDS Lease, TLAPS

\* Who may hold the newest token, and what every token in a process's hands is
\* worth: HandlesOrdered is what TokenNamesOneOwner needs to be inductive.
HandlesOrdered ==
    \A o \in Owner :
        /\ handle[o].token <= row.token
        /\ phase[o] # "idle" => handle[o].token # 0
        /\ handle[o].token # 0 /\ handle[o].token = row.token => row.owner \in {o, NoOwner}

\* The write mark follows the row.
WritesBehindRow == lastWrite <= row.token

\* A renewed lease reaches a whole TTL beyond the executor's instant for as
\* long as it is not lost, and a POST is no older than the request timeout.
RenewalHolds ==
    \A o \in Owner :
        /\ phase[o] \in {"renewed", "posting"} /\ row.owner = o
              /\ row.token = handle[o].token => row.expires >= instant[o] + TTL
        /\ phase[o] = "posting" => clock <= posted[o] + RequestTimeout

\* An owned row has a token.
RowHasToken == row.owner # NoOwner => row.token # 0

IndInv ==
    /\ TypeOK
    /\ HandlesOrdered
    /\ TokenNamesOneOwner
    /\ WritesBehindRow
    /\ RowHasToken
    /\ HandleNeverAhead
    /\ RenewalHolds
    /\ QuickPostIsCovered
------------------------------------------------------------------------------
USE OwnerAssumption, ParameterAssumption, TTLAssumption

\* The account starts without a lease.
LEMMA InitInv == Init => IndInv
  BY DEF Init, IndInv, TypeOK, HandlesOrdered, TokenNamesOneOwner, WritesBehindRow,
         RowHasToken, HandleNeverAhead, RenewalHolds, QuickPostIsCovered, NoHandle, Phase

\* A process that ends, on its own or because it lost the lease, leaves either
\* a tombstone or the row of a newer owner.
LEMMA EndInv == ASSUME IndInv, NEW o \in Owner, End(o) PROVE IndInv'
  <1> USE DEF IndInv, TypeOK, End, Released, Forget, NoHandle, Phase
  <1>1. TypeOK' /\ RowHasToken'
    BY DEF RowHasToken
  <1>2. HandlesOrdered' /\ TokenNamesOneOwner' /\ WritesBehindRow'
    BY DEF HandlesOrdered, TokenNamesOneOwner, WritesBehindRow
  <1>3. HandleNeverAhead'
    BY DEF HandleNeverAhead, HandlesOrdered
  <1>4. RenewalHolds'
    BY DEF RenewalHolds, HandlesOrdered
  <1>5. QuickPostIsCovered'
    BY DEF QuickPostIsCovered, HandlesOrdered, TokenNamesOneOwner
  <1> QED BY <1>1, <1>2, <1>3, <1>4, <1>5

\* An owner that asks again has the newest token, so nobody else holds it.
LEMMA AcquireAgainInv ==
    ASSUME IndInv, NEW o \in Owner, NEW i \in Instants, AcquireAgain(o, i)
    PROVE  IndInv'
  <1> USE DEF IndInv, TypeOK, Instants, AcquireAgain, Later, Phase
  <1>1. TypeOK' /\ RowHasToken'
    BY DEF RowHasToken
  <1>2. row.token # 0
    BY DEF RowHasToken
  <1>3. HandlesOrdered'
    BY <1>2 DEF HandlesOrdered
  <1>4. TokenNamesOneOwner'
    BY DEF HandlesOrdered, TokenNamesOneOwner
  <1>5. WritesBehindRow' /\ HandleNeverAhead'
    BY DEF WritesBehindRow, HandleNeverAhead, HandlesOrdered
  <1>6. RenewalHolds' /\ QuickPostIsCovered'
    BY DEF RenewalHolds, QuickPostIsCovered, HandlesOrdered
  <1> QED BY <1>1, <1>3, <1>4, <1>5, <1>6

\* Whatever a process does with the lease keeps the invariant.
LEMMA StepInv == ASSUME IndInv, NEW o \in Owner, Step(o) PROVE IndInv'
  <1> USE DEF IndInv, TypeOK, HandlesOrdered, TokenNamesOneOwner, WritesBehindRow,
              RowHasToken, HandleNeverAhead, RenewalHolds, QuickPostIsCovered, Phase
  <1>1. ASSUME NEW i \in Instants, AcquireFree(o, i) PROVE IndInv'
    BY <1>1 DEF AcquireFree, GrantTo, Instants
  <1>2. ASSUME NEW i \in Instants, AcquireExpired(o, i) PROVE IndInv'
    BY <1>2 DEF AcquireExpired, GrantTo, Instants
  <1>3. ASSUME NEW i \in Instants, AcquireAgain(o, i) PROVE IndInv'
    BY <1>3, AcquireAgainInv
  <1>4. ASSUME NEW i \in Instants, KeeperRenews(o, i) PROVE IndInv'
    BY <1>4 DEF KeeperRenews, RenewOK, FenceOK, Later, Instants
  <1>5. ASSUME NEW i \in Instants, KeeperChecks(o, i) PROVE IndInv'
    BY <1>5 DEF KeeperChecks, vars
  <1>6. ASSUME NEW i \in Instants, FencedWrite(o, i) PROVE IndInv'
    BY <1>6 DEF FencedWrite, FenceOK
  <1>7. ASSUME BeginExecute(o) PROVE IndInv'
    BY <1>7 DEF BeginExecute
  <1>8. ASSUME RenewBeforeDispatch(o) PROVE IndInv'
    BY <1>8 DEF RenewBeforeDispatch, RenewOK, FenceOK, Later
  <1>9. ASSUME PrepareAndPost(o) PROVE IndInv'
    BY <1>9 DEF PrepareAndPost, FenceOK
  <1>10. ASSUME Finalize(o) PROVE IndInv'
    BY <1>10 DEF Finalize, Forget, FenceOK
  <1>11. ASSUME Release(o) \/ LoseLease(o) PROVE IndInv'
    <2>1. End(o)
      BY <1>11 DEF Release, LoseLease
    <2> QED BY <2>1, EndInv
  <1>12. ASSUME Crash(o) PROVE IndInv'
    BY <1>12 DEF Crash, Forget, NoHandle
  <1> QED BY <1>1, <1>2, <1>3, <1>4, <1>5, <1>6, <1>7, <1>8, <1>9, <1>10, <1>11, <1>12
          DEF Step

\* So does the passing of time, which the transport timeout bounds.
LEMMA NextInv == IndInv /\ [Next]_vars => IndInv'
  <1> SUFFICES ASSUME IndInv, [Next]_vars PROVE IndInv'
    OBVIOUS
  <1>1. CASE Tick
    BY <1>1 DEF Tick, IndInv, TypeOK, HandlesOrdered, TokenNamesOneOwner, WritesBehindRow,
                RowHasToken, HandleNeverAhead, RenewalHolds, QuickPostIsCovered, Phase
  <1>2. ASSUME NEW o \in Owner, Step(o) PROVE IndInv'
    BY <1>2, StepInv
  <1>3. CASE UNCHANGED vars
    BY <1>3 DEF vars, IndInv, TypeOK, HandlesOrdered, TokenNamesOneOwner, WritesBehindRow,
                RowHasToken, HandleNeverAhead, RenewalHolds, QuickPostIsCovered
  <1> QED BY <1>1, <1>2, <1>3 DEF Next

\* The inductive invariant holds of every behaviour of the lease.
THEOREM Inductive == Spec => []IndInv
  BY InitInv, NextInv, PTL DEF Spec
------------------------------------------------------------------------------
\* Rows, records and phases keep their shapes.
THEOREM TypeCorrect == Spec => []TypeOK
  <1>1. IndInv => TypeOK
    BY DEF IndInv
  <1> QED BY <1>1, Inductive, PTL

\* No two processes ever hold the same fencing token.
THEOREM TokensAreUnique == Spec => []TokenNamesOneOwner
  <1>1. IndInv => TokenNamesOneOwner
    BY DEF IndInv
  <1> QED BY <1>1, Inductive, PTL

\* The expiry the keeper remembers is never later than the row's.
THEOREM KeeperIsCautious == Spec => []HandleNeverAhead
  <1>1. IndInv => HandleNeverAhead
    BY DEF IndInv
  <1> QED BY <1>1, Inductive, PTL

\* A POST that starts within the margin ends inside the lease, for every TTL
\* the configuration accepts.
THEOREM PromptPostIsCovered == Spec => []QuickPostIsCovered
  <1>1. IndInv => QuickPostIsCovered
    BY DEF IndInv
  <1> QED BY <1>1, Inductive, PTL

\* What one step of the specification does to the row, as the abstract lock
\* sees it.
LEMMA StepIsLockStep ==
    ASSUME IndInv, IndInv', [Next]_vars
    PROVE  [Lock!Next]_(Lock!vars)
  <1> USE DEF Lock!Next, Lock!vars, Lock!Grant, Lock!Release, Lock!Write
  <1>1. CASE Tick
    BY <1>1 DEF Tick
  <1>2. ASSUME NEW o \in Owner, Step(o) PROVE [Lock!Next]_(Lock!vars)
    <2> USE DEF IndInv, TypeOK
    <2>1. ASSUME NEW i \in Instants, AcquireFree(o, i) \/ AcquireExpired(o, i)
          PROVE  Lock!Grant
      BY <1>2, <2>1 DEF AcquireFree, AcquireExpired, GrantTo
    <2>2. ASSUME NEW i \in Instants,
                 AcquireAgain(o, i) \/ KeeperRenews(o, i) \/ KeeperChecks(o, i)
          PROVE  UNCHANGED Lock!vars
      BY <1>2, <2>2 DEF AcquireAgain, KeeperRenews, KeeperChecks, vars
    <2>3. ASSUME NEW i \in Instants, FencedWrite(o, i) PROVE Lock!Write
      BY <1>2, <2>3 DEF FencedWrite, FenceOK
    <2>4. CASE BeginExecute(o) \/ RenewBeforeDispatch(o) \/ Crash(o)
      BY <1>2, <2>4 DEF BeginExecute, RenewBeforeDispatch, Crash
    <2>5. CASE PrepareAndPost(o) \/ Finalize(o)
      BY <1>2, <2>5 DEF PrepareAndPost, Finalize, FenceOK
    <2>6. CASE Release(o) \/ LoseLease(o)
      BY <1>2, <2>6 DEF Release, LoseLease, End, Released
    <2> QED BY <1>2, <2>1, <2>2, <2>3, <2>4, <2>5, <2>6 DEF Step
  <1>3. CASE UNCHANGED vars
    BY <1>3 DEF vars
  <1> QED BY <1>1, <1>2, <1>3 DEF Next

\* The lease implements the fenced lock: tokens only grow and a write is let
\* through only with the newest one, while it is held.
THEOREM Implements == Spec => ImplementsFencedLock
  <1>1. Init => Lock!Init
    BY DEF Init, Lock!Init
  <1>2. IndInv /\ IndInv' /\ [Next]_vars => [Lock!Next]_(Lock!vars)
    BY StepIsLockStep
  <1> QED BY <1>1, <1>2, Inductive, PTL DEF Spec, Lock!Spec, ImplementsFencedLock

\* A process that lost the lease cannot write behind its successor.
THEOREM NoWriteGoesBack == Spec => WritesNeverGoBack
  <1>1. ASSUME IndInv, [Next]_vars PROVE [lastWrite' >= lastWrite]_vars
    <2>1. ASSUME NEW o \in Owner, Step(o) PROVE lastWrite' >= lastWrite
      <3> USE DEF IndInv, TypeOK, WritesBehindRow
      <3>1. ASSUME lastWrite' # lastWrite PROVE lastWrite' = row.token
        BY <2>1, <3>1 DEF Step, AcquireFree, AcquireExpired, GrantTo, AcquireAgain,
                  KeeperRenews, KeeperChecks, FencedWrite, FenceOK, BeginExecute,
                  RenewBeforeDispatch, PrepareAndPost, Finalize, Release, LoseLease,
                  End, Crash, vars
      <3> QED BY <1>1, <3>1
    <2> QED BY <1>1, <2>1 DEF Next, Tick, IndInv, TypeOK
  <1> QED BY <1>1, Inductive, PTL DEF Spec, WritesNeverGoBack

\* Nobody takes the account from a holder whose lease has not expired.
THEOREM TakeoverWaits == Spec => NoEarlyTakeover
  <1>1. ASSUME IndInv, [Next]_vars
        PROVE  [row'.token # row.token => row.owner = NoOwner \/ row.expires <= clock]_vars
    <2>1. ASSUME NEW o \in Owner, Step(o), row'.token # row.token
          PROVE  row.owner = NoOwner \/ row.expires <= clock
      <3> USE DEF IndInv, TypeOK, Instants
      <3>1. \/ \E i \in Instants : AcquireFree(o, i)
            \/ \E i \in Instants : AcquireExpired(o, i)
        BY <1>1, <2>1 DEF Step, AcquireAgain, KeeperRenews, KeeperChecks, FencedWrite,
                    BeginExecute, RenewBeforeDispatch, PrepareAndPost, Finalize,
                    Release, LoseLease, End, Released, Crash, vars
      <3> QED BY <1>1, <3>1 DEF AcquireFree, AcquireExpired
    <2> QED BY <1>1, <2>1 DEF Next, Tick
  <1> QED BY <1>1, Inductive, PTL DEF Spec, NoEarlyTakeover
=============================================================================
