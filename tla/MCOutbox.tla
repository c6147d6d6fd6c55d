------------------------------ MODULE MCOutbox ------------------------------
(* Three events of two kinds, one sink and one tick at a time; the delay     *)
(* doubles once.                                                             *)
EXTENDS Outbox, TLC
CONSTANTS c1, f1, f2, s1, t1
=============================================================================
