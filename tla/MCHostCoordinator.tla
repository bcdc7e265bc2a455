-------------------------- MODULE MCHostCoordinator --------------------------
(* HostCoordinator with interchangeable links, for the runs without liveness. *)
EXTENDS HostCoordinator, TLC

Interchangeable == Permutations(GPUs)
==============================================================================
