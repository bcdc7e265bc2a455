----------------------------- MODULE GemmStress -----------------------------
(***************************************************************************)
(* tools/gemm_stress.py: the main thread that runs devices in batches, the *)
(* worker threads of a batch (the main thread itself when a batch is one   *)
(* device), Ctrl+C at any point of either, the grading of one config and   *)
(* the exit status.  A result of the multiplication is one of a few kinds: *)
(* right, wrong inside the tile that block validation compares, wrong only *)
(* outside of it, or not finite.  Medians are small whole numbers.         *)
(***************************************************************************)
EXTENDS Integers, FiniteSets, SequencesExt

CONSTANTS
  GPUs,           \* the device indices torch enumerates
  Amd,            \* those whose name is an AMD name
  Jobs,           \* command lines
  FreeMemory,     \* what mem_get_info may answer
  Medians,        \* TFLOPS
  MaxIters,       \* bound on the iterations of a sustained config
  MaxInterrupts   \* bound on Ctrl+C

Output == {"right", "corner", "rest", "nan"}

ASSUME GemmAssumption ==
  /\ GPUs \subseteq Nat /\ Amd \subseteq GPUs
  /\ Medians \subseteq Nat /\ FreeMemory \subseteq Nat
  /\ MaxIters \in Nat /\ MaxInterrupts \in Nat

VARIABLES
  job,
  at,         \* where the thread of a device is
  budget, iters, worst, last,   \* locals of run_device and run_config
  errs,       \* history: the errors of the outputs validated in this config
  results,    \* the ConfigResults of a device
  main,       \* where the main thread is
  num, got,   \* the batch, and how many of its results were collected
  perDevice,  \* devices in per_device
  stop,       \* "set" when _STOP is
  interrupts,
  rc, reported

configVars == <<iters, worst, last, errs>>
threadVars == <<at, budget, configVars, results>>
mainVars   == <<main, num, got, perDevice, rc, reported>>
vars == <<job, threadVars, mainVars, stop, interrupts>>

Known == GPUs \cup UNION {ToSet(j.devices) : j \in Jobs}

------------------------------------------------------------------------------
(* The command line.                                                       *)
SelectDevices(j) == SelectSeq(IF j.all THEN SetToSortSeq(GPUs, <) ELSE j.devices,
                              LAMBDA d : d \notin Amd)

(* What parse_args and main let through.  A selection from a list is a list *)
(* of devices, none of which is new.                                       *)
ASSUME JobsAssumption ==
  \A j \in Jobs :
    /\ j.repeats \in Nat \ {0} /\ j.maxParallel \in Nat
    /\ j.maxMem \in Int /\ j.ratio \in Int
    /\ j.shapes \in Seq([m : Int, n : Int, k : Int])
    /\ j.dtypes \in Seq({"fp16", "bf16", "fp32"})
    /\ SelectDevices(j) \in Seq(Known)

(* Mistake: a batch takes one device more than --max-parallel.             *)
BatchOver(devices, size) ==
  [b \in 1 .. (Len(devices) + size) \div (size + 1) |->
     SubSeq(devices, (b - 1) * (size + 1) + 1,
            IF b * (size + 1) < Len(devices) THEN b * (size + 1) ELSE Len(devices))]

BatchDevices(devices, size) ==
  [b \in 1 .. (Len(devices) + size - 1) \div size |->
     SubSeq(devices, (b - 1) * size + 1,
            IF b * size < Len(devices) THEN b * size ELSE Len(devices))]

Devices   == SelectDevices(job)
BatchSize == IF job.maxParallel > 0 THEN job.maxParallel
             ELSE IF job.parallel THEN Len(Devices) ELSE 1
Batches   == BatchDevices(Devices, BatchSize)
Batch     == Batches[num]

(* A ratio check needs a baseline: main appends fp32 to the types.         *)
Dtypes  == job.dtypes \o
           IF job.ratio > 0 /\ "fp32" \notin ToSet(job.dtypes) THEN <<"fp32">> ELSE <<>>
Configs == [i \in 1 .. Len(job.shapes) * Len(Dtypes) |->
              [shape |-> job.shapes[((i - 1) \div Len(Dtypes)) + 1],
               dtype |-> Dtypes[((i - 1) % Len(Dtypes)) + 1]]]

------------------------------------------------------------------------------
(* Memory and validation.                                                  *)
Lesser(a, b) == IF a <= b THEN a ELSE b

EstimateBytes(c, full) ==
  LET s     == c.shape
      elems == s.m * s.k + s.k * s.n + s.m * s.n
      bb    == Lesser(job.block, Lesser(s.m, s.n))
  IN  ((elems * (IF c.dtype = "fp32" THEN 4 ELSE 2)
        + 4 * (IF full THEN elems ELSE 2 * bb * s.k + bb * bb)) * 11) \div 10

Mode(c, bytes) == IF job.validate # "auto" THEN job.validate
                  ELSE IF EstimateBytes(c, TRUE) <= bytes THEN "full" ELSE "block"

Fits(c, bytes) == EstimateBytes(c, Mode(c, bytes) = "full") <= bytes

(* The relative error of an output, against --tol.                         *)
RelErr(output, mode) ==
  IF output = "nan" THEN "nan"
  ELSE IF output = "corner" \/ (output = "rest" /\ mode = "full") THEN "over" ELSE "ok"

(* max(worst_err, err): Python's max keeps its first argument when the     *)
(* comparison with the second is false, as it is with a NaN.               *)
Worse(w, err) == IF err = "over" THEN "over" ELSE w

Config(d)   == Configs[Len(results[d]) + 1]
ModeOf(d)   == Mode(Config(d), budget[d])
Target      == IF job.sustained THEN MaxIters ELSE job.repeats
Due(d, i)   == \/ i = 1
               \/ ~job.sustained /\ i = job.repeats
               \/ job.every > 0 /\ i % job.every = 0

------------------------------------------------------------------------------
(* What is known of a config that passed, and the status alone otherwise.  *)
Passed(t, e, n) == [status |-> "PASS", tflops |-> t, errs |-> e, iters |-> n]
Other(s)        == [status |-> s, tflops |-> 0, errs |-> {}, iters |-> 0]

Result == [status : {"PASS", "FAIL", "ERROR", "SKIP"}, tflops : Medians \cup {0},
           errs : SUBSET {"ok", "over", "nan"}, iters : Nat]

TypeOK ==
  /\ job \in Jobs
  /\ at \in [Known -> {"none", "setup", "pick", "prepare", "loop", "wound", "grade",
                       "done", "raised", "escaped"}]
  /\ budget \in [Known -> Int]
  /\ iters \in [Known -> Nat]
  /\ worst \in [Known -> {"ok", "over"}]
  /\ last \in [Known -> Output]
  /\ errs \in [Known -> SUBSET {"ok", "over", "nan"}]
  /\ results \in [Known -> Seq(Result)]
  /\ main \in {"batches", "single", "pool", "shutdown", "leaving", "unwinding",
               "returned", "outputs", "report", "exit"}
  /\ num \in 0 .. Len(Devices) /\ got \in 0 .. Len(Devices)
  /\ perDevice \subseteq ToSet(Devices)
  /\ stop \in {"clear", "set"} /\ interrupts \in 0 .. MaxInterrupts
  /\ rc \in {0, 1, 130} /\ reported \in {"no", "yes"}

(* main up to run_all: a command line without usable devices is refused.   *)
Init ==
  /\ job \in Jobs
  /\ at = [d \in Known |-> "none"]
  /\ budget = [d \in Known |-> 0] /\ iters = [d \in Known |-> 0]
  /\ worst = [d \in Known |-> "ok"] /\ last = [d \in Known |-> "right"]
  /\ errs = [d \in Known |-> {}] /\ results = [d \in Known |-> <<>>]
  /\ IF Devices = <<>> THEN main = "exit" /\ rc = 1 ELSE main = "batches" /\ rc = 0
  /\ num = 0 /\ got = 0 /\ perDevice = {}
  /\ stop = "clear" /\ interrupts = 0 /\ reported = "no"

------------------------------------------------------------------------------
(* A worker: run_device and run_config on device d.                        *)
Move(d, l) == at' = [at EXCEPT ![d] = l]

Reset(d) == /\ iters' = [iters EXCEPT ![d] = 0] /\ worst' = [worst EXCEPT ![d] = "ok"]
            /\ last' = [last EXCEPT ![d] = "right"] /\ errs' = [errs EXCEPT ![d] = {}]

(* Append a result and look for the next config, unless --fail-fast.       *)
Conclude(d, r) ==
  /\ results' = [results EXCEPT ![d] = Append(@, r)]
  /\ Reset(d)
  /\ Move(d, IF job.failFast /\ r.status \in {"FAIL", "ERROR"} THEN "done" ELSE "pick")

Setup(d) ==
  /\ at[d] = "setup"
  /\ IF d \in GPUs
     THEN /\ \E free \in FreeMemory :
               budget' = [budget EXCEPT ![d] = Lesser(job.maxMem, (free * 9) \div 10)]
          /\ Move(d, "pick")
     ELSE Move(d, "raised") /\ UNCHANGED budget
  /\ UNCHANGED <<job, configVars, results, mainVars, stop, interrupts>>

Pick(d) ==
  /\ at[d] = "pick"
  /\ Move(d, IF stop = "set" \/ Len(results[d]) = Len(Configs) THEN "done" ELSE "prepare")
  /\ UNCHANGED <<job, budget, configVars, results, mainVars, stop, interrupts>>

(* Over budget, no operands, no warmup, or ready for the timed loop.       *)
Prepare(d) ==
  /\ at[d] = "prepare"
  /\ IF Fits(Config(d), budget[d])
     THEN \/ Conclude(d, Other("ERROR"))
          \/ Move(d, "loop") /\ UNCHANGED <<configVars, results>>
     ELSE Conclude(d, Other("SKIP"))
  /\ UNCHANGED <<job, budget, mainVars, stop, interrupts>>

Validate(d, output) ==
  LET err == RelErr(output, ModeOf(d))
  IN  /\ worst' = [worst EXCEPT ![d] = Worse(@, err)]
      /\ errs' = [errs EXCEPT ![d] = @ \cup {err}]

(* One timed multiplication, validated when due.                           *)
Iterate(d) ==
  /\ at[d] = "loop" /\ stop = "clear" /\ iters[d] < Target
  /\ iters' = [iters EXCEPT ![d] = @ + 1]
  /\ \E output \in Output :
       /\ last' = [last EXCEPT ![d] = output]
       /\ IF job.validate # "off" /\ Due(d, iters[d] + 1)
          THEN Validate(d, output) ELSE UNCHANGED <<worst, errs>>
  /\ UNCHANGED <<job, at, budget, results, mainVars, stop, interrupts>>

(* Mistake: the flag stops the multiplications but does not end the loop.  *)
WindOnCount(d) ==
  /\ at[d] = "loop"
  /\ iters[d] = Target \/ (job.sustained /\ iters[d] > 0)
  /\ Move(d, "grade")
  /\ UNCHANGED <<job, budget, configVars, results, mainVars, stop, interrupts>>

(* The loop ends on the flag, the count or the clock; a sustained config   *)
(* validates its last output.                                              *)
Wind(d) ==
  /\ at[d] = "loop"
  /\ \/ stop = "set"
     \/ iters[d] = Target
     \/ job.sustained /\ iters[d] > 0
  /\ IF job.sustained /\ job.validate # "off" /\ iters[d] > 0
     THEN Validate(d, last[d]) ELSE UNCHANGED <<worst, errs>>
  /\ Move(d, "grade")
  /\ UNCHANGED <<job, budget, iters, last, results, mainVars, stop, interrupts>>

(* The timed multiplication or a validation raises RuntimeError.           *)
Abort(d) ==
  /\ at[d] = "loop"
  /\ Conclude(d, Other("ERROR"))
  /\ UNCHANGED <<job, budget, mainVars, stop, interrupts>>

(* Mistake: the stop flag is not asked again when a config is graded.      *)
VerdictUninterrupted(d, tflops) ==
  IF (job.validate # "off" /\ worst[d] = "over") \/ tflops < job.minTflops
  THEN "FAIL" ELSE "PASS"

(* "wound" is the loop left by KeyboardInterrupt: res.reason is set.       *)
Verdict(d, tflops) ==
  IF \/ job.validate # "off" /\ worst[d] = "over"
     \/ tflops < job.minTflops
     \/ at[d] = "wound" \/ stop = "set"
  THEN "FAIL" ELSE "PASS"

Grade(d) ==
  /\ at[d] \in {"grade", "wound"}
  /\ IF iters[d] = 0 THEN Conclude(d, Other("ERROR"))
     ELSE IF last[d] = "nan" THEN Conclude(d, Other("FAIL"))
     ELSE \E t \in Medians :
            Conclude(d, IF Verdict(d, t) = "PASS" THEN Passed(t, errs[d], iters[d])
                                                  ELSE Other("FAIL"))
  /\ UNCHANGED <<job, budget, mainVars, stop, interrupts>>

Thread(d) == Setup(d) \/ Pick(d) \/ Prepare(d) \/ Iterate(d) \/ Wind(d) \/ Grade(d)

------------------------------------------------------------------------------
(* The main thread: run_all.                                               *)
Idle(d)   == at[d] \in {"none", "done", "raised", "escaped"}
BatchIdle == \A d \in ToSet(Batch) : Idle(d)

NextBatch ==
  /\ main = "batches"
  /\ IF stop = "set" \/ num = Len(Batches)
     THEN main' = "returned" /\ UNCHANGED <<num, at>>
     ELSE /\ num' = num + 1
          /\ main' = IF Len(Batches[num + 1]) > 1 THEN "pool" ELSE "single"
          /\ at' = [d \in Known |-> IF d \in ToSet(Batches[num + 1]) THEN "setup" ELSE at[d]]
  /\ got' = 0
  /\ UNCHANGED <<job, budget, configVars, results, perDevice, rc, reported, stop, interrupts>>

Single ==
  /\ main = "single"
  /\ \/ /\ at[Batch[1]] = "done"
        /\ main' = "batches" /\ perDevice' = perDevice \cup {Batch[1]} /\ rc' = rc
     \/ at[Batch[1]] = "raised" /\ main' = "exit" /\ rc' = 1 /\ UNCHANGED perDevice
  /\ UNCHANGED <<job, threadVars, num, got, reported, stop, interrupts>>

(* Mistake: the last result of a batch is not waited for.                  *)
CollectButLast ==
  /\ main = "pool"
  /\ IF got = Len(Batch) - 1
     THEN main' = "batches" /\ UNCHANGED <<got, perDevice>>
     ELSE /\ at[Batch[got + 1]] = "done"
          /\ got' = got + 1 /\ perDevice' = perDevice \cup {Batch[got + 1]} /\ main' = main
  /\ UNCHANGED <<job, threadVars, num, rc, reported, stop, interrupts>>

(* pool.map hands out the results in the order of the batch.               *)
Collect ==
  /\ main = "pool"
  /\ IF got = Len(Batch)
     THEN main' = "batches" /\ UNCHANGED <<got, perDevice>>
     ELSE \/ /\ at[Batch[got + 1]] = "done"
             /\ got' = got + 1 /\ perDevice' = perDevice \cup {Batch[got + 1]} /\ main' = main
          \/ at[Batch[got + 1]] = "raised" /\ main' = "unwinding" /\ UNCHANGED <<got, perDevice>>
  /\ UNCHANGED <<job, threadVars, num, rc, reported, stop, interrupts>>

(* The with statement waits for the threads, then the exception goes on:   *)
(* KeyboardInterrupt is caught by run_all, RuntimeError by nobody.         *)
Leave ==
  /\ main \in {"shutdown", "leaving", "unwinding"}
  /\ BatchIdle
  /\ IF main = "unwinding" THEN main' = "exit" /\ rc' = 1 ELSE main' = "returned" /\ rc' = rc
  /\ UNCHANGED <<job, threadVars, num, got, perDevice, reported, stop, interrupts>>

------------------------------------------------------------------------------
(* main after run_all.                                                     *)
(* The medians of the passed fp32 configs of r with this shape; Python     *)
(* keeps the last.                                                         *)
Baseline(r, shape) ==
  LET B == {i \in DOMAIN r : /\ Configs[i] = [shape |-> shape, dtype |-> "fp32"]
                             /\ r[i].status = "PASS" /\ r[i].tflops > 0}
  IN  IF B = {} THEN 0 ELSE r[Max(B)].tflops

(* Mistake: without a baseline there is nothing to compare with.           *)
TooSlowOnly(r, i) ==
  LET base == Baseline(r, Configs[i].shape)
  IN  /\ Configs[i].dtype = "fp16" /\ r[i].status = "PASS"
      /\ base > 0 /\ r[i].tflops < job.ratio * base

TooSlow(r, i) ==
  LET base == Baseline(r, Configs[i].shape)
  IN  /\ Configs[i].dtype = "fp16" /\ r[i].status = "PASS"
      /\ base = 0 \/ r[i].tflops < job.ratio * base

ApplyTensorRatio ==
  /\ main = "returned"
  /\ main' = "outputs"
  /\ results' = IF stop = "set" \/ job.ratio <= 0 THEN results
                ELSE [d \in Known |-> IF d \notin perDevice THEN results[d]
                       ELSE [i \in DOMAIN results[d] |->
                               IF TooSlow(results[d], i)
                               THEN [results[d][i] EXCEPT !.status = "FAIL"]
                               ELSE results[d][i]]]
  /\ UNCHANGED <<job, at, budget, configVars, num, got, perDevice, rc, reported,
                 stop, interrupts>>

Statuses == UNION {{r.status : r \in ToSet(results[d])} : d \in perDevice}

(* --csv takes its columns from the first row, and fails without one.      *)
WriteOutputs ==
  /\ main = "outputs"
  /\ IF job.csv /\ Statuses = {} THEN main' = "exit" /\ rc' = 1
                                 ELSE main' = "report" /\ rc' = rc
  /\ UNCHANGED <<job, threadVars, num, got, perDevice, reported, stop, interrupts>>

ReportCode == IF {"FAIL", "ERROR"} \cap Statuses # {} \/ "PASS" \notin Statuses
              THEN 1 ELSE 0

Report ==
  /\ main = "report"
  /\ reported' = "yes"
  /\ rc' = IF stop = "set" THEN 130 ELSE ReportCode
  /\ main' = "exit"
  /\ UNCHANGED <<job, threadVars, num, got, perDevice, stop, interrupts>>

------------------------------------------------------------------------------
(* Ctrl+C reaches the main thread.  In run_config's loop the config is     *)
(* graded with what it has; elsewhere in a device run by main the device   *)
(* is lost.  With a pool the first one starts the shutdown, a further one  *)
(* leaves shutdown for the with statement's own wait, and one during that  *)
(* wait leaves run_all with threads still running.  After run_all nothing  *)
(* catches it.                                                             *)
InterruptSingle ==
  /\ main = "single"
  /\ IF at[Batch[1]] = "loop"
     THEN Move(Batch[1], "wound") /\ main' = main
     ELSE main' = "returned" /\ Move(Batch[1], IF at[Batch[1]] = "done" THEN "done" ELSE "escaped")
  /\ stop' = "set"
  /\ UNCHANGED rc

InterruptPool ==
  /\ main \in {"batches", "pool", "shutdown", "leaving", "unwinding"}
  /\ main' = IF main = "pool" /\ got < Len(Batch) THEN "shutdown"
             ELSE IF main = "shutdown" THEN "leaving" ELSE "returned"
  /\ stop' = "set"
  /\ UNCHANGED <<at, rc>>

InterruptLate ==
  /\ main \in {"returned", "outputs", "report"}
  /\ main' = "exit" /\ rc' = 130
  /\ UNCHANGED <<at, stop>>

Interrupt ==
  /\ interrupts < MaxInterrupts
  /\ interrupts' = interrupts + 1
  /\ InterruptSingle \/ InterruptPool \/ InterruptLate
  /\ UNCHANGED <<job, budget, configVars, results, num, got, perDevice, reported>>

------------------------------------------------------------------------------
Main == NextBatch \/ Single \/ Collect \/ Leave \/ ApplyTensorRatio \/ WriteOutputs \/ Report

Finished == main = "exit" /\ \A d \in Known : Idle(d)

(* The interpreter waits for the threads before the process is gone.       *)
Terminated == Finished /\ UNCHANGED vars

Next == Main \/ (\E d \in Known : Thread(d) \/ Abort(d)) \/ Interrupt \/ Terminated

Spec     == Init /\ [][Next]_vars
FairSpec == Spec /\ WF_vars(Main) /\ \A d \in Known : WF_vars(Thread(d))
------------------------------------------------------------------------------
(* Properties.                                                             *)

(* --max-parallel bounds the power draw: no more devices run at once than  *)
(* a batch holds, also when Ctrl+C leaves threads behind.                  *)
PowerBudget == Cardinality({d \in Known : ~Idle(d)}) <= BatchSize

(* A PASS, whatever was interrupted and wherever: the config made all its  *)
(* iterations, what was due was compared with the FP32 reference, and no   *)
(* error over the tolerance was seen in any of them.                       *)
PassIsEarned ==
  \A d \in Known : \A r \in ToSet(results[d]) : r.status = "PASS" =>
    /\ IF job.sustained THEN r.iters > 0 ELSE r.iters = job.repeats
    /\ job.validate # "off" => r.errs # {} /\ "over" \notin r.errs

(* What exit status 0 says (print_summary): nobody pressed Ctrl+C, every   *)
(* selected device reported a result for every config, at least one passed *)
(* and none failed, and every passed fp16 config beats a passed fp32 config *)
(* of its shape when --tensor-ratio asks for it.  That every config passed, *)
(* as docs/GEMM-STRESS.md:87 and the --help text have it, is not so: what   *)
(* is over the memory budget of its device is skipped, and a device that    *)
(* has skipped everything does not count against 0.                        *)
ZeroIsEarned == (main = "exit" /\ rc = 0) =>
  /\ interrupts = 0 /\ reported = "yes"
  /\ perDevice = ToSet(Devices) /\ "PASS" \in Statuses
  /\ \A d \in perDevice :
       /\ Len(results[d]) = Len(Configs)
       /\ \A i \in DOMAIN results[d] :
            /\ results[d][i].status \in {"PASS", "SKIP"}
            /\ (job.ratio > 0 /\ results[d][i].status = "PASS" /\ Configs[i].dtype = "fp16")
               => \E k \in DOMAIN results[d] :
                    /\ Configs[k] = [Configs[i] EXCEPT !.dtype = "fp32"]
                    /\ results[d][k].status = "PASS"
                    /\ results[d][i].tflops >= job.ratio * results[d][k].tflops

(* A report leaves out nobody: the devices of every batch before the last  *)
(* one are in it, however the last one was interrupted, and without an     *)
(* interrupt all are.                                                      *)
EarlierReported == (main = "exit" /\ reported = "yes") =>
  /\ \A b \in 1 .. num - 1 : ToSet(Batches[b]) \subseteq perDevice
  /\ stop = "clear" => perDevice = ToSet(Devices)

(* The process ends, the workers included, however often and wherever      *)
(* Ctrl+C is pressed and whatever the devices do.                          *)
RunEnds == <>Finished
------------------------------------------------------------------------------
(* docs/GEMM-STRESS.md: rel_err is the "worst relative Frobenius error",   *)
(* and --tol the maximum of it.                                            *)
PassWithinTolerance ==
  \A d \in Known : \A r \in ToSet(results[d]) :
    (r.status = "PASS" /\ job.validate # "off") => r.errs = {"ok"}
==============================================================================
