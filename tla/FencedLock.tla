----------------------------- MODULE FencedLock -----------------------------
(***************************************************************************)
(* What the account lease promises to the code that writes under it, with  *)
(* the owners, the clock and the expiry abstracted away: the lock hands    *)
(* out tokens that only grow, and a write is accepted only with the newest *)
(* token, and only while the lock is held.  Lease.tla implements it.       *)
(***************************************************************************)
EXTENDS Naturals

VARIABLES
    token,       \* newest fencing token handed out, 0 before the first
    held,        \* FALSE before the first grant and after a release
    lastWrite    \* token of the last write that was accepted

vars == <<token, held, lastWrite>>

TypeOK == /\ token \in Nat
          /\ held \in BOOLEAN
          /\ lastWrite \in Nat

Init == token = 0 /\ held = FALSE /\ lastWrite = 0

Grant == /\ token' = token + 1
         /\ held' = TRUE
         /\ UNCHANGED lastWrite

Release == /\ held
           /\ held' = FALSE
           /\ UNCHANGED <<token, lastWrite>>

Write == /\ held
         /\ lastWrite' = token
         /\ UNCHANGED <<token, held>>

Next == Grant \/ Release \/ Write

Spec == Init /\ [][Next]_vars
=============================================================================
