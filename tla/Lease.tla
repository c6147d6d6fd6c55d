-------------------------------- MODULE Lease --------------------------------
(***************************************************************************)
(* The account lease of hh_autopilot: one row of hh_autopilot_leases, the  *)
(* processes that acquire, renew and release it, the LeaseKeeper that      *)
(* renews it early, and the executor's renew / prepare / POST / finalise   *)
(* sequence that is meant to stay inside it.                               *)
(*                                                                         *)
(* Every repository method takes its instant before BEGIN IMMEDIATE is     *)
(* granted, so a transaction may run with an instant up to MaxWait in the  *)
(* past; the executor fixes one instant before it renders the letter and   *)
(* uses it for the renewal, the preparation and the finalisation.          *)
(***************************************************************************)
EXTENDS Integers

CONSTANTS
    Owner,            \* owner tokens, one per process that may run
    NoOwner,          \* LEASE_TOMBSTONE_OWNER, also the owner of no row
    TTL,              \* lease.ttl_seconds
    KeeperTTL,        \* ttl_seconds of the engine's LeaseKeeper
    Margin,           \* lease.renewal_margin_seconds
    RequestTimeout,   \* lease.request_timeout_seconds
    PromptPrepare,    \* TRUE: no time passes between renewal and POST
    MaxWait,          \* bound: longest wait for the database lock
    MaxClock,         \* bound: last instant
    MaxToken          \* bound: last fencing token

ASSUME OwnerAssumption == NoOwner \notin Owner
ASSUME ParameterAssumption ==
    /\ TTL \in Nat \ {0} /\ KeeperTTL \in Nat /\ Margin \in Nat \ {0}
    /\ RequestTimeout \in Nat \ {0}
    /\ PromptPrepare \in BOOLEAN
    /\ MaxWait \in Nat /\ MaxClock \in Nat /\ MaxToken \in Nat
ASSUME TTLAssumption == TTL >= RequestTimeout + Margin /\ KeeperTTL >= TTL

VARIABLES
    clock,       \* real time
    row,         \* the lease row; token 0 stands for no row
    handle,      \* the LeaseRecord each process holds; token 0 for none
    phase,       \* where each process is
    instant,     \* the instant each executor fixed before rendering
    posted,      \* when the executor's POST went out
    lastWrite    \* token of the last write the fence let through

vars == <<clock, row, handle, phase, instant, posted, lastWrite>>

Phase == {"idle", "holding", "rendering", "renewed", "posting"}

NoHandle == [token |-> 0, expires |-> 0]

TypeOK ==
    /\ clock \in Nat
    /\ row \in [owner : Owner \cup {NoOwner}, token : Nat, expires : Nat]
    /\ handle \in [Owner -> [token : Nat, expires : Nat]]
    /\ phase \in [Owner -> Phase]
    /\ instant \in [Owner -> Nat]
    /\ posted \in [Owner -> Nat]
    /\ lastWrite \in Nat

Init ==
    /\ clock = 0
    /\ row = [owner |-> NoOwner, token |-> 0, expires |-> 0]
    /\ handle = [o \in Owner |-> NoHandle]
    /\ phase = [o \in Owner |-> "idle"]
    /\ instant = [o \in Owner |-> 0]
    /\ posted = [o \in Owner |-> 0]
    /\ lastWrite = 0

Later(a, b) == IF a >= b THEN a ELSE b

\* Instants a transaction that commits now may carry.
Instants == {i \in 0..clock : clock <= i + MaxWait}
------------------------------------------------------------------------------
(* The checks the repository makes against the row. *)

\* Mutant: the token is not compared.
FenceIgnoresToken(t, i) ==
    /\ row.owner # NoOwner
    /\ row.expires > i

\* _assert_fence: newest token, not released, not expired at the instant.
FenceOK(t, i) ==
    /\ row.token = t
    /\ row.owner # NoOwner
    /\ row.expires > i

RenewOK(o, i) == row.owner = o /\ FenceOK(handle[o].token, i)

------------------------------------------------------------------------------
(* acquire_lease *)

\* Mutant: a grant over an expired or released row keeps its token.
GrantKeepsToken(o, i) ==
    LET next == [token |-> Later(row.token, 1), expires |-> i + TTL]
    IN  /\ row' = [owner |-> o, token |-> next.token, expires |-> next.expires]
        /\ handle' = [handle EXCEPT ![o] = next]
        /\ phase' = [phase EXCEPT ![o] = "holding"]
        /\ UNCHANGED <<clock, instant, posted, lastWrite>>

GrantTo(o, i) ==
    LET next == [token |-> row.token + 1, expires |-> i + TTL]
    IN  /\ row.token < MaxToken
        /\ row' = [owner |-> o, token |-> next.token, expires |-> next.expires]
        /\ handle' = [handle EXCEPT ![o] = next]
        /\ phase' = [phase EXCEPT ![o] = "holding"]
        /\ UNCHANGED <<clock, instant, posted, lastWrite>>

\* No row yet, or a tombstone.
AcquireFree(o, i) ==
    /\ phase[o] = "idle"
    /\ row.owner = NoOwner
    /\ GrantTo(o, i)

\* Mutant: the taker does not look at the expiry.
AcquireWithoutExpiry(o, i) ==
    /\ phase[o] = "idle"
    /\ row.owner # NoOwner
    /\ GrantTo(o, i)

\* The holder let the lease run out.
AcquireExpired(o, i) ==
    /\ phase[o] = "idle"
    /\ row.owner # NoOwner
    /\ row.expires <= i
    /\ GrantTo(o, i)

\* The same owner token asks again while its lease is live.
AcquireAgain(o, i) ==
    /\ phase[o] = "idle"
    /\ row.owner = o
    /\ row.expires > i
    /\ LET expires == Later(row.expires, i + TTL)
       IN  /\ row' = [row EXCEPT !.expires = expires]
           /\ handle' = [handle EXCEPT ![o] = [token |-> row.token, expires |-> expires]]
    /\ phase' = [phase EXCEPT ![o] = "holding"]
    /\ UNCHANGED <<clock, instant, posted, lastWrite>>
------------------------------------------------------------------------------
(* LeaseKeeper.ensure_current and the writes under the lease *)

KeeperRenews(o, i) ==
    /\ phase[o] = "holding"
    /\ handle[o].expires <= i + Margin
    /\ RenewOK(o, i)
    /\ LET expires == Later(row.expires, i + KeeperTTL)
       IN  /\ row' = [row EXCEPT !.expires = expires]
           /\ handle' = [handle EXCEPT ![o].expires = expires]
    /\ UNCHANGED <<clock, phase, instant, posted, lastWrite>>

KeeperChecks(o, i) ==
    /\ phase[o] = "holding"
    /\ handle[o].expires > i + Margin
    /\ FenceOK(handle[o].token, i)
    /\ UNCHANGED vars

EnsureCurrent(o, i) == KeeperRenews(o, i) \/ KeeperChecks(o, i)

\* Any repository write that supplies the fencing token.
FencedWrite(o, i) ==
    /\ phase[o] = "holding"
    /\ FenceOK(handle[o].token, i)
    /\ lastWrite' = handle[o].token
    /\ UNCHANGED <<clock, row, handle, phase, instant, posted>>
------------------------------------------------------------------------------
(* HHApplicationExecutor.execute *)

\* The executor's local variables end with it.
Forget(o) == /\ instant' = [instant EXCEPT ![o] = 0]
             /\ posted' = [posted EXCEPT ![o] = 0]

\* The instant is read here, before the cover letter is rendered.
BeginExecute(o) ==
    /\ phase[o] = "holding"
    /\ phase' = [phase EXCEPT ![o] = "rendering"]
    /\ instant' = [instant EXCEPT ![o] = clock]
    /\ UNCHANGED <<clock, row, handle, posted, lastWrite>>

\* Mutant: dispatch without the renewal.
NoRenewBeforeDispatch(o) ==
    /\ phase[o] = "rendering"
    /\ RenewOK(o, instant[o])
    /\ phase' = [phase EXCEPT ![o] = "renewed"]
    /\ UNCHANGED <<clock, row, handle, instant, posted, lastWrite>>

\* The executor keeps the renewed record to itself: the keeper's is unchanged.
RenewBeforeDispatch(o) ==
    /\ phase[o] = "rendering"
    /\ RenewOK(o, instant[o])
    /\ row' = [row EXCEPT !.expires = Later(@, instant[o] + TTL)]
    /\ phase' = [phase EXCEPT ![o] = "renewed"]
    /\ UNCHANGED <<clock, handle, instant, posted, lastWrite>>

PrepareAndPost(o) ==
    /\ phase[o] = "renewed"
    /\ FenceOK(handle[o].token, instant[o])
    /\ lastWrite' = handle[o].token
    /\ phase' = [phase EXCEPT ![o] = "posting"]
    /\ posted' = [posted EXCEPT ![o] = clock]
    /\ UNCHANGED <<clock, row, handle, instant>>

\* finalize_* runs with the instant of BeginExecute, not the present one.
Finalize(o) ==
    /\ phase[o] = "posting"
    /\ FenceOK(handle[o].token, instant[o])
    /\ lastWrite' = handle[o].token
    /\ phase' = [phase EXCEPT ![o] = "holding"]
    /\ Forget(o)
    /\ UNCHANGED <<clock, row, handle>>
------------------------------------------------------------------------------
(* The ways a process ends *)

\* Mutant: the release deletes the row, and with it the last token.
ReleaseDeletesRow(o) ==
    IF row.owner = o /\ row.token = handle[o].token
    THEN [owner |-> NoOwner, token |-> 0, expires |-> 0]
    ELSE row

\* release_lease: owner and token must match, expiry does not matter.
Released(o) ==
    IF row.owner = o /\ row.token = handle[o].token
    THEN [row EXCEPT !.owner = NoOwner, !.expires = 0]
    ELSE row

End(o) ==
    /\ row' = Released(o)
    /\ handle' = [handle EXCEPT ![o] = NoHandle]
    /\ phase' = [phase EXCEPT ![o] = "idle"]
    /\ Forget(o)
    /\ UNCHANGED <<clock, lastWrite>>

Release(o) == phase[o] = "holding" /\ End(o)

\* A check raised LostLease; the run is interrupted and its finally releases.
LoseLease(o) ==
    /\ \/ phase[o] = "holding" /\ \E i \in Instants : ~FenceOK(handle[o].token, i)
       \/ /\ phase[o] \in {"rendering", "renewed", "posting"}
          /\ ~FenceOK(handle[o].token, instant[o])
    /\ End(o)

\* The process dies; the row stays as it was.
Crash(o) ==
    /\ phase[o] # "idle"
    /\ handle' = [handle EXCEPT ![o] = NoHandle]
    /\ phase' = [phase EXCEPT ![o] = "idle"]
    /\ Forget(o)
    /\ UNCHANGED <<clock, row, lastWrite>>

\* The transport gives a POST no longer than the request timeout.  The comment
\* in execute that no blocking work may come between the renewal and the POST
\* is PromptPrepare; without it the process may be slow anywhere.
Tick ==
    /\ clock < MaxClock
    /\ \A o \in Owner : phase[o] = "posting" => clock < posted[o] + RequestTimeout
    /\ PromptPrepare => \A o \in Owner : phase[o] # "renewed"
    /\ clock' = clock + 1
    /\ UNCHANGED <<row, handle, phase, instant, posted, lastWrite>>

Step(o) ==
    \/ \E i \in Instants : \/ AcquireFree(o, i)
                           \/ AcquireExpired(o, i)
                           \/ AcquireAgain(o, i)
                           \/ KeeperRenews(o, i)
                           \/ KeeperChecks(o, i)
                           \/ FencedWrite(o, i)
    \/ BeginExecute(o)
    \/ RenewBeforeDispatch(o)
    \/ PrepareAndPost(o)
    \/ Finalize(o)
    \/ Release(o)
    \/ LoseLease(o)
    \/ Crash(o)

Next == Tick \/ \E o \in Owner : Step(o)

Spec == Init /\ [][Next]_vars
------------------------------------------------------------------------------
(* Properties *)

\* The abstract lock seen through the row.
Lock == INSTANCE FencedLock WITH
            token <- row.token, held <- row.owner # NoOwner, lastWrite <- lastWrite
ImplementsFencedLock == Lock!Spec
------------------------------------------------------------------------------
\* A fencing token names one owner: two processes never hold the same token,
\* whatever releases, expiries and crashes happened in between
\* (acquire_lease, release_lease).
TokenNamesOneOwner ==
    \A o, p \in Owner : o # p /\ handle[o].token # 0 => handle[o].token # handle[p].token

\* What a process remembers of its lease is never newer than the row, so the
\* keeper errs only towards renewing (LeaseKeeper, renew_lease).
HandleNeverAhead ==
    \A o \in Owner :
        /\ handle[o].token <= row.token
        /\ handle[o].token = row.token /\ row.owner = o => handle[o].expires <= row.expires

\* Accepted writes never go back to an older token: a process that lost the
\* lease cannot write behind its successor, even with an instant it fixed
\* long ago (_assert_fence).
WritesNeverGoBack == [][lastWrite' >= lastWrite]_vars

\* Nobody takes the account from a holder before its expiry, although the
\* taker's instant is older than the moment its transaction runs
\* (acquire_lease).
NoEarlyTakeover ==
    [][row'.token # row.token => row.owner = NoOwner \/ row.expires <= clock]_vars

\* A POST that starts less than the renewal margin after the executor fixed
\* its instant keeps the account to itself until it ends: this is what
\* ttl >= request_timeout + renewal_margin buys (config.py, executor.py).
QuickPostIsCovered ==
    \A o \in Owner :
        phase[o] = "posting" /\ posted[o] < instant[o] + Margin
            => row.owner = o /\ row.token = handle[o].token

\* Two owners never have requests out at the same time: the design states it
\* of the lease invariants.  The code renews with the instant it fixed before
\* rendering, so a slow letter leaves the POST uncovered.
NoOverlappingPosts ==
    \A o, p \in Owner : phase[o] = "posting" /\ phase[p] = "posting" => o = p
=============================================================================
