----------------------------- MODULE MCGemmStress -----------------------------
(* GemmStress with four devices, one of them AMD, and six command lines.  *)
EXTENDS GemmStress

(* fp16 needs 48 bytes with block and 79 with full validation, fp32 74 and *)
(* 105: the budgets are for nothing, fp16 only, and everything.            *)
Square == [m |-> 2, n |-> 2, k |-> 2]

(* gemm_stress.py --devices 0 --repeats 2                                  *)
Default == [all |-> FALSE, devices |-> <<0>>, maxParallel |-> 0, parallel |-> FALSE,
            shapes |-> <<Square>>, dtypes |-> <<"fp16">>, repeats |-> 2,
            sustained |-> FALSE, validate |-> "auto", block |-> 1, every |-> 0,
            minTflops |-> 0, ratio |-> 0, maxMem |-> 120, failFast |-> FALSE,
            csv |-> FALSE]

(* Two cards at once with a Tensor gate.                                   *)
Gate == [Default EXCEPT !.devices = <<0, 1>>, !.parallel = TRUE, !.ratio = 3, !.repeats = 1]

(* All cards, two at a time, outputs wanted.                               *)
Batched == [Default EXCEPT !.all = TRUE, !.maxParallel = 2, !.repeats = 1, !.csv = TRUE,
                           !.validate = "block"]

(* One after the other, timed.                                             *)
Soak == [Default EXCEPT !.devices = <<0, 1>>, !.sustained = TRUE, !.every = 2,
                        !.minTflops = 2, !.failFast = TRUE, !.validate = "full",
                        !.shapes = <<Square, Square>>]

(* A device that is not there, in a parallel run and alone; only AMD.      *)
Unknown == [Default EXCEPT !.devices = <<7, 1>>, !.parallel = TRUE, !.validate = "off"]
Missing == [Default EXCEPT !.devices = <<3, 7>>]
AmdOnly == [Default EXCEPT !.devices = <<3>>]

CommandLines == {Gate, Batched, Soak, Unknown, Missing, AmdOnly}
==============================================================================
