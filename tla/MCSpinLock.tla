---------------------------- MODULE MCSpinLock ----------------------------
(* Four CPUs: one that holds, one that releases, and two that race to get in. *)
EXTENDS SpinLock

CONSTANTS c1, c2, c3, c4

MCCPU == {c1, c2, c3, c4}
=============================================================================
