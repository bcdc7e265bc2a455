---------------------------- MODULE MCGuestGen2 ----------------------------
(* Model checking instance of GuestGen2.                                   *)
EXTENDS GuestGen2, TLC

Interchangeable == Permutations(GPUs)
=============================================================================
