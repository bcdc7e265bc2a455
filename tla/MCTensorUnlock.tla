---------------------------- MODULE MCTensorUnlock ----------------------------
(* TensorUnlock with interchangeable GPUs.                                 *)
EXTENDS TensorUnlock, TLC

Interchangeable == Permutations(GPUs)
==============================================================================
