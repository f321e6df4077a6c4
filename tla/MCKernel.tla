----------------------------- MODULE MCKernel -----------------------------
(* Small machines: one rich in data, one rich in processes and ticks. *)
EXTENDS Kernel

MCValues == {0, 1}
MCOneValue == {0}
MCStored == {1}
=============================================================================
