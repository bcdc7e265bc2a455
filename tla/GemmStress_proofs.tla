-------------------------- MODULE GemmStress_proofs --------------------------
(***************************************************************************)
(* Proofs about GemmStress for any devices, command lines and numbers.     *)
(* The argument has a half per thread kind.  The main thread starts a      *)
(* batch only when the one before is idle and all its results are in, so   *)
(* what runs is the batch num, and without an interrupt nobody is left     *)
(* out.  A worker that is about to grade a config has made its products,   *)
(* and the first of them has been compared.                                *)
(***************************************************************************)
EXTENDS GemmStress, FiniteSetTheorems, SequenceTheorems, TLAPS

Bad == {"FAIL", "ERROR"}

(* A command line without devices is over at once; otherwise a batch holds *)
(* one device at least, and num counts the batches that were started.      *)
Started ==
  /\ Devices = <<>> => main = "exit" /\ num = 0 /\ rc = 1 /\ reported = "no"
  /\ Devices # <<>> => num \in 0 .. Len(Batches)
  /\ main \in {"single", "pool", "shutdown", "leaving", "unwinding"} => num > 0

(* Only devices of the batch num run, and none between two batches.        *)
Running ==
  /\ \A d \in Known : ~Idle(d) => num > 0 /\ d \in ToSet(Batch)
  /\ main = "batches" => \A d \in Known : Idle(d)
  /\ main = "single" => Len(Batch) = 1
  /\ main = "pool" => got <= Len(Batch) /\ \A i \in 1 .. got : at[Batch[i]] = "done"

(* What is in per_device: the batches before num, of num what was          *)
(* collected, and all of it when the next one is due.                      *)
Collected ==
  /\ \A b \in 1 .. num - 1 : ToSet(Batches[b]) \subseteq perDevice
  /\ main = "batches" /\ num > 0 => ToSet(Batch) \subseteq perDevice
  /\ main = "pool" => \A i \in 1 .. got : Batch[i] \in perDevice
  /\ (stop = "clear" /\ (main \in {"returned", "outputs", "report"} \/ reported = "yes"))
     => num = Len(Batches) /\ ToSet(Batch) \subseteq perDevice /\ \A d \in Known : Idle(d)

(* How the run ends goes with the interrupts it has seen.                  *)
Ending ==
  /\ reported = "yes" => main = "exit"
  /\ main = "exit" /\ rc = 0 => reported = "yes" /\ stop = "clear"
  /\ main # "exit" => rc = 0
  /\ main \in {"shutdown", "leaving"} => stop = "set"
  /\ interrupts = 0 \/ stop = "set" \/ (main = "exit" /\ rc = 130)

(* A worker has no more results than configs, and one that is done without *)
(* an interrupt has them all, or one that --fail-fast stopped at.          *)
Through(d) == \/ stop = "set"
              \/ Len(results[d]) = Len(Configs)
              \/ \E i \in DOMAIN results[d] : results[d][i].status \in Bad

Complete ==
  \A d \in Known :
    /\ Len(results[d]) <= Len(Configs)
    /\ at[d] \in {"prepare", "loop", "wound", "grade"} => Len(results[d]) < Len(Configs)
    /\ at[d] = "done" \/ d \in perDevice => Through(d)

(* The locals of run_config: the worst error is over the tolerance when    *)
(* one was, the first product is compared, and grading without an          *)
(* interrupt finds all of them made.                                       *)
Measured ==
  \A d \in Known :
    /\ worst[d] = "over" <=> "over" \in errs[d]
    /\ iters[d] > 0 /\ job.validate # "off" => errs[d] # {}
    /\ at[d] = "grade" /\ stop = "clear"
       => iters[d] = Target \/ (job.sustained /\ iters[d] > 0)

(* A result that passed, and one that beats its baseline.                  *)
Earned(r) ==
  r.status = "PASS" =>
    /\ IF job.sustained THEN r.iters > 0 ELSE r.iters = job.repeats
    /\ job.validate # "off" => r.errs # {} /\ "over" \notin r.errs

Beaten(d, i) ==
  (results[d][i].status = "PASS" /\ Configs[i].dtype = "fp16")
  => \E k \in DOMAIN results[d] :
       /\ Configs[k] = [Configs[i] EXCEPT !.dtype = "fp32"]
       /\ results[d][k].status = "PASS"
       /\ results[d][i].tflops >= job.ratio * results[d][k].tflops

Graded ==
  /\ \A d \in Known : \A i \in DOMAIN results[d] : Earned(results[d][i])
  /\ (stop = "clear" /\ job.ratio > 0
        /\ (main \in {"outputs", "report"} \/ (main = "exit" /\ rc = 0)))
     => \A d \in perDevice : \A i \in DOMAIN results[d] : Beaten(d, i)
  /\ main = "exit" /\ rc = 0 => ReportCode = 0

IInv == /\ TypeOK
        /\ Started
        /\ Running
        /\ Collected
        /\ Ending
        /\ Complete
        /\ Measured
        /\ Graded
------------------------------------------------------------------------------

(* What a sequence that is written as a function has for length.           *)
LEMMA Tabulated ==
  ASSUME NEW n \in Nat, NEW s, DOMAIN s = 1 .. n, s = [i \in 1 .. n |-> s[i]]
  PROVE  Len(s) = n
  <1>1. s \in [1 .. n -> {s[i] : i \in 1 .. n}]
    OBVIOUS
  <1>2. s \in Seq({s[i] : i \in 1 .. n})
    BY <1>1, SeqDef
  <1>3. QED
    BY <1>1, <1>2, LenProperties

(* Division rounds down.                                                   *)
LEMMA Quotient ==
  ASSUME NEW a \in Nat, NEW k \in Nat \ {0}
  PROVE  a \div k \in Nat /\ (a \div k) * k <= a /\ a < (a \div k) * k + k
  OBVIOUS

(* Fewer batches are fewer devices.                                        *)
LEMMA Multiples ==
  ASSUME NEW a \in Nat, NEW b \in Nat, NEW k \in Nat \ {0}
  PROVE  /\ a * k \in Nat /\ b * k \in Nat
         /\ a <= b => a * k <= b * k
         /\ a < b => a * k + k <= b * k
  <1>1. a * k \in Nat /\ b * k \in Nat
    OBVIOUS
  <1>2. ASSUME a <= b
        PROVE  a * k <= b * k
    <2>1. PICK c \in Nat : b = a + c
      BY <1>2
    <2>2. b * k = a * k + c * k /\ c * k \in Nat
      BY <2>1
    <2>3. QED
      BY <1>1, <2>2
  <1>3. ASSUME a < b
        PROVE  a * k + k <= b * k
    <2>1. PICK c \in Nat : b = a + 1 + c
      BY <1>3, b - a - 1 \in Nat
    <2>2. b * k = a * k + k + c * k /\ c * k \in Nat
      BY <2>1
    <2>3. QED
      BY <1>1, <2>2
  <1>4. QED
    BY <1>1, <1>2, <1>3

(* batch_devices: every batch holds one device at least and no more than   *)
(* it may, and every device is in a batch.                                 *)
LEMMA Batching ==
  ASSUME NEW S, NEW s \in Seq(S), s # <<>>, NEW k \in Nat \ {0}
  PROVE  /\ Len(BatchDevices(s, k)) \in 1 .. Len(s)
         /\ \A b \in 1 .. Len(BatchDevices(s, k)) :
              /\ BatchDevices(s, k)[b] \in Seq(S)
              /\ Len(BatchDevices(s, k)[b]) \in 1 .. k
              /\ Len(BatchDevices(s, k)[b]) <= Len(s)
              /\ ToSet(BatchDevices(s, k)[b]) \subseteq ToSet(s)
         /\ ToSet(s) \subseteq UNION {ToSet(BatchDevices(s, k)[b]) :
                                        b \in 1 .. Len(BatchDevices(s, k))}
  <1> DEFINE q    == (Len(s) + k - 1) \div k
             B    == BatchDevices(s, k)
             lo(b) == (b - 1) * k + 1
             hi(b) == IF b * k < Len(s) THEN b * k ELSE Len(s)
  <1>1. Len(s) \in Nat \ {0} /\ DOMAIN s = 1 .. Len(s) /\ \A i \in 1 .. Len(s) : s[i] \in S
    BY LenProperties, EmptySeq
  <1>2. q \in Nat /\ q * k <= Len(s) + k - 1 /\ Len(s) + k - 1 < q * k + k
    BY <1>1, Quotient, Len(s) + k - 1 \in Nat
  <1>3. B = [b \in 1 .. q |-> SubSeq(s, lo(b), hi(b))]
    BY DEF BatchDevices
  <1>4. Len(B) = q
    BY <1>2, <1>3, Tabulated
  <1> HIDE DEF q, B
  <1>5. q \in 1 .. Len(s)
    <2>1. q # 0
      <3>1. q = 0 => q * k = 0
        OBVIOUS
      <3>2. QED
        BY <1>1, <1>2, <3>1
    <2>2. Len(s) < q => Len(s) * k + k <= q * k
      BY <1>1, <1>2, Multiples
    <2>3. Len(s) + k <= Len(s) * k + 1
      <3>1. Len(s) * k = (Len(s) - 1) * (k - 1) + Len(s) + k - 1
        BY <1>1
      <3>2. (Len(s) - 1) * (k - 1) \in Nat
        BY <1>1, Len(s) - 1 \in Nat, k - 1 \in Nat
      <3>3. QED
        BY <1>1, <3>1, <3>2, Len(s) * k \in Nat
    <2>4. QED
      BY <1>1, <1>2, <2>1, <2>2, <2>3, Len(s) * k \in Nat, q * k \in Nat
  <1>6. ASSUME NEW b \in 1 .. q
        PROVE  /\ lo(b) \in 1 .. Len(s) /\ hi(b) \in 1 .. Len(s)
               /\ lo(b) <= hi(b) /\ hi(b) - lo(b) + 1 <= k
    <2>1. (b - 1) * k \in Nat /\ b * k \in Nat /\ b * k = (b - 1) * k + k
      BY <1>2, b - 1 \in Nat, b \in Nat
    <2>2. b * k <= q * k
      BY <1>2, Multiples
    <2>3. QED
      BY <1>1, <1>2, <2>1, <2>2, q * k \in Nat
  <1>7. ASSUME NEW b \in 1 .. q
        PROVE  /\ B[b] \in Seq(S) /\ Len(B[b]) = hi(b) - lo(b) + 1
               /\ \A i \in 1 .. Len(B[b]) : B[b][i] = s[lo(b) + i - 1]
    <2>1. B[b] = SubSeq(s, lo(b), hi(b))
      BY <1>3
    <2>2. \A i \in lo(b) .. hi(b) : s[i] \in S
      BY <1>1, <1>6
    <2>3. lo(b) \in Int /\ hi(b) \in Int /\ lo(b) <= hi(b)
      BY <1>6
    <2> HIDE DEF lo, hi
    <2>4. QED
      BY <2>1, <2>2, <2>3, SubSeqProperties
  <1>8. ASSUME NEW b \in 1 .. q
        PROVE  /\ Len(B[b]) \in 1 .. k /\ Len(B[b]) <= Len(s)
               /\ ToSet(B[b]) \subseteq ToSet(s)
    <2> HIDE DEF lo, hi
    <2>1. Len(B[b]) \in 1 .. k /\ Len(B[b]) <= Len(s)
      BY <1>1, <1>6, <1>7
    <2>2. DOMAIN B[b] = 1 .. Len(B[b])
      BY <1>7, LenProperties
    <2>3. ASSUME NEW i \in 1 .. Len(B[b])
          PROVE  lo(b) + i - 1 \in 1 .. Len(s)
      BY <1>1, <1>6, <1>7
    <2>4. QED
      BY <1>1, <1>7, <2>1, <2>2, <2>3 DEF ToSet
  <1>9. ASSUME NEW i \in 1 .. Len(s)
        PROVE  \E b \in 1 .. q : s[i] \in ToSet(B[b])
    <2> DEFINE b == (i - 1) \div k + 1
    <2>1. /\ b - 1 \in Nat /\ b \in Nat /\ (b - 1) * k <= i - 1 /\ i - 1 < (b - 1) * k + k
      BY Quotient, i - 1 \in Nat
    <2> HIDE DEF b
    <2>2. b * k = (b - 1) * k + k /\ b * k \in Nat /\ (b - 1) * k \in Nat
      BY <2>1
    <2>3. b \in 1 .. q
      <3>1. q <= b - 1 => q * k <= (b - 1) * k
        BY <1>2, <2>1, Multiples
      <3>2. QED
        BY <1>1, <1>2, <2>1, <2>2, <3>1, q * k \in Nat
    <2> DEFINE j == i - (b - 1) * k
    <2>4. j \in 1 .. Len(B[b]) /\ lo(b) + j - 1 = i
      <3>1. lo(b) + j - 1 = i /\ j \in Nat \ {0} /\ i <= hi(b)
        BY <1>1, <2>1, <2>2
      <3> HIDE DEF j, lo, hi
      <3>2. Len(B[b]) = hi(b) - lo(b) + 1 /\ hi(b) \in Nat /\ lo(b) \in Nat
        BY <1>1, <1>6, <1>7, <2>3
      <3>3. QED
        BY <3>1, <3>2
    <2>5. B[b][j] = s[i]
      BY <1>7, <2>3, <2>4
    <2>6. DOMAIN B[b] = 1 .. Len(B[b])
      BY <1>7, <2>3, LenProperties
    <2> HIDE DEF j
    <2>7. QED
      BY <2>3, <2>4, <2>5, <2>6 DEF ToSet
  <1>10. ToSet(s) \subseteq UNION {ToSet(B[b]) : b \in 1 .. q}
    BY <1>1, <1>9 DEF ToSet
  <1>11. QED
    BY <1>4, <1>5, <1>7, <1>8, <1>10 DEF B
------------------------------------------------------------------------------

(* The command line never changes, and what is computed from it neither.   *)
LEMMA Fixed ==
  ASSUME UNCHANGED job
  PROVE  /\ Devices' = Devices /\ BatchSize' = BatchSize /\ Batches' = Batches
         /\ Configs' = Configs /\ Target' = Target
  <1>1. Devices' = Devices /\ BatchSize' = BatchSize
    BY DEF Devices, BatchSize
  <1>2. Batches' = Batches
    BY <1>1 DEF Batches
  <1>3. Configs' = Configs
    BY DEF Configs, Dtypes
  <1>4. QED
    BY <1>1, <1>2, <1>3 DEF Target

(* What a command line is.                                                 *)
LEMMA CommandLine ==
  ASSUME job \in Jobs
  PROVE  /\ Devices \in Seq(Known) /\ BatchSize \in Nat
         /\ Devices # <<>> => BatchSize \in Nat \ {0}
         /\ Len(Configs) \in Nat /\ DOMAIN Configs = 1 .. Len(Configs)
         /\ job.repeats \in Nat \ {0} /\ job.ratio \in Int
         /\ job.maxMem \in Int
  <1>1. Devices \in Seq(Known) /\ job.maxParallel \in Nat
    BY JobsAssumption DEF Devices
  <1>2. Len(Devices) \in Nat /\ (Devices # <<>> => Len(Devices) # 0)
    BY <1>1, LenProperties, EmptySeq
  <1>3. BatchSize \in Nat /\ (Devices # <<>> => BatchSize \in Nat \ {0})
    BY <1>1, <1>2 DEF BatchSize
  <1>4. Len(job.shapes) \in Nat
    BY JobsAssumption, LenProperties
  <1>5. Len(Dtypes) \in Nat
    <2> DEFINE T == {"fp16", "bf16", "fp32"}
    <2>1. job.dtypes \in Seq(T) /\ <<"fp32">> \in Seq(T) /\ <<>> \in Seq(T)
      BY JobsAssumption
    <2>2. Dtypes \in Seq(T)
      BY <2>1, ConcatProperties DEF Dtypes
    <2>3. QED
      BY <2>2, LenProperties
  <1>6. /\ Len(Configs) = Len(job.shapes) * Len(Dtypes)
        /\ DOMAIN Configs = 1 .. Len(Configs)
    <2> DEFINE n == Len(job.shapes) * Len(Dtypes)
    <2>1. n \in Nat
      BY <1>4, <1>5
    <2>2. DOMAIN Configs = 1 .. n /\ Configs = [i \in 1 .. n |-> Configs[i]]
      BY DEF Configs
    <2> HIDE DEF n
    <2>3. Len(Configs) = n
      BY <2>1, <2>2, Tabulated
    <2>4. QED
      BY <2>2, <2>3 DEF n
  <1>7. QED
    BY <1>1, <1>3, <1>4, <1>5, <1>6, JobsAssumption

(* The batches of a command line with devices.                             *)
LEMMA BatchType ==
  ASSUME job \in Jobs, Devices # <<>>
  PROVE  /\ Len(Batches) \in Nat \ {0} /\ Len(Batches) <= Len(Devices)
         /\ Len(Devices) \in Nat /\ DOMAIN Devices = 1 .. Len(Devices)
         /\ \A b \in 1 .. Len(Batches) :
              /\ Batches[b] \in Seq(Known) /\ DOMAIN Batches[b] = 1 .. Len(Batches[b])
              /\ Len(Batches[b]) \in Nat \ {0} /\ Len(Batches[b]) <= BatchSize
              /\ Len(Batches[b]) <= Len(Devices)
              /\ ToSet(Batches[b]) \subseteq ToSet(Devices)
              /\ \A i \in 1 .. Len(Batches[b]) :
                   Batches[b][i] \in Known /\ Batches[b][i] \in ToSet(Batches[b])
         /\ ToSet(Devices) \subseteq UNION {ToSet(Batches[b]) : b \in 1 .. Len(Batches)}
  <1>1. Devices \in Seq(Known) /\ BatchSize \in Nat \ {0}
    BY CommandLine
  <1>2. Len(Devices) \in Nat /\ DOMAIN Devices = 1 .. Len(Devices)
    BY <1>1, LenProperties
  <1>3. /\ Len(Batches) \in 1 .. Len(Devices)
        /\ \A b \in 1 .. Len(Batches) :
              /\ Batches[b] \in Seq(Known)
              /\ Len(Batches[b]) \in 1 .. BatchSize
              /\ Len(Batches[b]) <= Len(Devices)
              /\ ToSet(Batches[b]) \subseteq ToSet(Devices)
        /\ ToSet(Devices) \subseteq UNION {ToSet(Batches[b]) : b \in 1 .. Len(Batches)}
    BY <1>1, Batching DEF Batches
  <1>4. ASSUME NEW b \in 1 .. Len(Batches)
        PROVE  /\ DOMAIN Batches[b] = 1 .. Len(Batches[b])
               /\ \A i \in 1 .. Len(Batches[b]) :
                   Batches[b][i] \in Known /\ Batches[b][i] \in ToSet(Batches[b])
    <2>1. Batches[b] \in Seq(Known)
      BY <1>3
    <2>2. DOMAIN Batches[b] = 1 .. Len(Batches[b])
      BY <2>1, LenProperties
    <2>3. ASSUME NEW i \in 1 .. Len(Batches[b])
          PROVE  Batches[b][i] \in Known
      BY <2>1, <2>3, ElementOfSeq
    <2>4. QED
      BY <2>2, <2>3 DEF ToSet
  <1>5. QED
    BY <1>1, <1>2, <1>3, <1>4
------------------------------------------------------------------------------

(* A result appended by a worker, and what is left alone.                  *)
LEMMA Appended ==
  ASSUME TypeOK, NEW d \in Known, NEW r \in Result, Conclude(d, r)
  PROVE  /\ results' \in [Known -> Seq(Result)]
         /\ results'[d] = Append(results[d], r)
         /\ Len(results'[d]) = Len(results[d]) + 1
         /\ DOMAIN results'[d] = 1 .. Len(results[d]) + 1
         /\ DOMAIN results[d] = 1 .. Len(results[d])
         /\ \A i \in DOMAIN results[d] : results'[d][i] = results[d][i]
         /\ results'[d][Len(results[d]) + 1] = r
         /\ \A e \in Known \ {d} : results'[e] = results[e]
         /\ at' = [at EXCEPT ![d] = at'[d]]
         /\ at'[d] = IF job.failFast /\ r.status \in Bad THEN "done" ELSE "pick"
         /\ iters' = [iters EXCEPT ![d] = 0] /\ worst' = [worst EXCEPT ![d] = "ok"]
         /\ last' = [last EXCEPT ![d] = "right"] /\ errs' = [errs EXCEPT ![d] = {}]
  <1>1. results[d] \in Seq(Result) /\ results' = [results EXCEPT ![d] = Append(@, r)]
    BY DEF TypeOK, Conclude
  <1>2. /\ Append(results[d], r) \in Seq(Result)
        /\ Len(Append(results[d], r)) = Len(results[d]) + 1
        /\ \A i \in 1 .. Len(results[d]) : Append(results[d], r)[i] = results[d][i]
        /\ Append(results[d], r)[Len(results[d]) + 1] = r
    BY <1>1, AppendProperties
  <1>3. /\ DOMAIN Append(results[d], r) = 1 .. Len(results[d]) + 1
        /\ DOMAIN results[d] = 1 .. Len(results[d])
    BY <1>1, <1>2, LenProperties
  <1>4. results' \in [Known -> Seq(Result)] /\ results'[d] = Append(results[d], r)
        /\ \A e \in Known \ {d} : results'[e] = results[e]
    BY <1>1, <1>2 DEF TypeOK
  <1>5. /\ at' = [at EXCEPT ![d] = at'[d]]
        /\ at'[d] = IF job.failFast /\ r.status \in Bad THEN "done" ELSE "pick"
    BY DEF TypeOK, Conclude, Move, Bad
  <1>6. QED
    BY <1>2, <1>3, <1>4, <1>5 DEF Conclude, Reset

(* The results that workers append are results.                            *)
LEMMA ResultType ==
  /\ \A s \in {"FAIL", "ERROR", "SKIP"} : Other(s) \in Result
  /\ \A t \in Medians, e \in SUBSET {"ok", "over", "nan"}, n \in Nat :
       Passed(t, e, n) \in Result
  BY DEF Other, Passed, Result

(* What a grade may be: a config that is passed has earned it.             *)
LEMMA Grading ==
  ASSUME TypeOK, Measured, NEW d \in Known, Grade(d)
  PROVE  \E r \in Result : Conclude(d, r) /\ Earned(r)
  <1>1. Earned(Other("ERROR")) /\ Earned(Other("FAIL"))
    BY DEF Earned, Other
  <1>2. CASE iters[d] = 0 \/ last[d] = "nan"
    BY <1>1, <1>2, ResultType DEF Grade
  <1>3. CASE iters[d] # 0 /\ last[d] # "nan"
    <2>1. PICK t \in Medians :
            Conclude(d, IF Verdict(d, t) = "PASS" THEN Passed(t, errs[d], iters[d])
                                                  ELSE Other("FAIL"))
      BY <1>3 DEF Grade
    <2>2. CASE Verdict(d, t) # "PASS"
      BY <1>1, <2>1, <2>2, ResultType
    <2>3. CASE Verdict(d, t) = "PASS"
      <3>1. /\ at[d] = "grade" /\ stop = "clear"
            /\ job.validate # "off" => worst[d] # "over"
        BY <2>3 DEF Verdict, Grade, TypeOK
      <3>2. iters[d] \in Nat \ {0} /\ errs[d] \in SUBSET {"ok", "over", "nan"}
        BY <1>3 DEF TypeOK
      <3>3. iters[d] = Target \/ (job.sustained /\ iters[d] > 0)
        BY <3>1 DEF Measured
      <3>4. IF job.sustained THEN iters[d] > 0 ELSE iters[d] = job.repeats
        BY <3>2, <3>3 DEF Target
      <3>5. job.validate # "off" => errs[d] # {} /\ "over" \notin errs[d]
        BY <3>1, <3>2 DEF Measured
      <3>6. Earned(Passed(t, errs[d], iters[d]))
        BY <3>4, <3>5 DEF Earned, Passed
      <3>7. QED
        BY <2>1, <2>3, <3>2, <3>6, ResultType
    <2>4. QED
      BY <2>2, <2>3
  <1>4. QED
    BY <1>2, <1>3
------------------------------------------------------------------------------

Labels == {"none", "setup", "pick", "prepare", "loop", "wound", "grade", "done",
           "raised", "escaped"}

(* What a worker has to keep in type.                                      *)
ThreadType ==
  /\ at \in [Known -> Labels]
  /\ budget \in [Known -> Int]
  /\ iters \in [Known -> Nat]
  /\ worst \in [Known -> {"ok", "over"}]
  /\ last \in [Known -> Output]
  /\ errs \in [Known -> SUBSET {"ok", "over", "nan"}]
  /\ results \in [Known -> Seq(Result)]

LEMMA WorkerTyping ==
  ASSUME TypeOK, UNCHANGED <<job, mainVars, stop, interrupts>>
  PROVE  ThreadType /\ (ThreadType' => TypeOK')
  <1>1. Devices' = Devices
    BY Fixed DEF mainVars
  <1>2. ThreadType
    BY DEF TypeOK, ThreadType, Labels
  <1>3. ASSUME ThreadType'
        PROVE  TypeOK'
    BY <1>1, <1>3 DEF TypeOK, ThreadType, Labels, mainVars
  <1>4. QED
    BY <1>2, <1>3

(* A comparison keeps the types and is one of d alone.                     *)
LEMMA Validating ==
  ASSUME ThreadType, NEW d \in Known, NEW output,
         Validate(d, output) \/ UNCHANGED <<worst, errs>>
  PROVE  /\ worst' \in [Known -> {"ok", "over"}] /\ \A e \in Known \ {d} : worst'[e] = worst[e]
         /\ errs' \in [Known -> SUBSET {"ok", "over", "nan"}]
         /\ \A e \in Known \ {d} : errs'[e] = errs[e]
  <1> DEFINE err == RelErr(output, ModeOf(d))
  <1>1. CASE Validate(d, output)
    <2>1. err \in {"ok", "over", "nan"}
      BY DEF RelErr
    <2>2. /\ worst' = [worst EXCEPT ![d] = Worse(worst[d], err)]
          /\ errs' = [errs EXCEPT ![d] = errs[d] \cup {err}]
      BY <1>1 DEF Validate
    <2>3. worst[d] \in {"ok", "over"} /\ errs[d] \in SUBSET {"ok", "over", "nan"}
      BY DEF ThreadType
    <2>4. Worse(worst[d], err) \in {"ok", "over"}
      BY <2>3 DEF Worse
    <2> HIDE DEF err
    <2>5. QED
      BY <2>1, <2>2, <2>3, <2>4 DEF ThreadType
  <1>2. CASE UNCHANGED <<worst, errs>>
    BY <1>2 DEF ThreadType
  <1>3. QED
    BY <1>1, <1>2

(* A step of a worker: it leaves the main thread and the other workers     *)
(* alone, appends one result at most, and stops when it should.            *)
LEMMA WorkerStep ==
  ASSUME IInv, NEW d \in Known, Thread(d) \/ Abort(d)
  PROVE  /\ UNCHANGED <<job, main, num, got, perDevice, rc, reported, stop, interrupts>>
         /\ TypeOK' /\ ~Idle(d)
         /\ \A e \in Known \ {d} :
              at'[e] = at[e] /\ results'[e] = results[e] /\ iters'[e] = iters[e]
              /\ worst'[e] = worst[e] /\ errs'[e] = errs[e]
         /\ \/ /\ results'[d] = results[d]
               /\ at'[d] = "done" => stop = "set" \/ Len(results[d]) = Len(Configs)
               /\ at'[d] \in {"prepare", "loop", "wound", "grade"}
                  => at[d] \in {"prepare", "loop", "wound", "grade"}
                     \/ Len(results[d]) # Len(Configs)
            \/ \E r \in Result :
               /\ at[d] \in {"prepare", "loop", "wound", "grade"}
               /\ Conclude(d, r) /\ Earned(r)
  <1> DEFINE Busy == {"prepare", "loop", "wound", "grade"}
  <1>0. TypeOK /\ Measured
    BY DEF IInv
  <1>b. UNCHANGED <<job, mainVars, stop, interrupts>>
    BY DEF Thread, Setup, Pick, Prepare, Iterate, Wind, Grade, Abort
  <1>c. ThreadType /\ (ThreadType' => TypeOK')
    BY <1>0, <1>b, WorkerTyping
  <1>a. \A s \in {"FAIL", "ERROR", "SKIP"} : Earned(Other(s)) /\ Other(s) \in Result
    BY ResultType DEF Earned, Other
  <1>1. CASE Setup(d)
    <2>1. /\ \A free \in FreeMemory : Lesser(job.maxMem, (free * 9) \div 10) \in Int
      BY <1>0, CommandLine, GemmAssumption DEF Lesser, TypeOK
    <2>2. at[d] = "setup" /\ at' = [at EXCEPT ![d] = at'[d]] /\ at'[d] \in {"pick", "raised"}
      BY <1>0, <1>1 DEF Setup, Move, TypeOK
    <2>3. budget' \in [Known -> Int]
      BY <1>0, <1>1, <2>1 DEF Setup, TypeOK
    <2>4. TypeOK'
      BY <1>c, <1>1, <2>2, <2>3 DEF Setup, ThreadType, Labels, configVars, mainVars
    <2>5. QED
      BY <1>0, <1>1, <2>2, <2>4 DEF Setup, TypeOK, configVars, mainVars, Idle
  <1>2. CASE Pick(d)
    <2>2. /\ at[d] = "pick" /\ at' = [at EXCEPT ![d] = at'[d]] /\ at'[d] \in {"done", "prepare"}
          /\ at'[d] = "done" <=> stop = "set" \/ Len(results[d]) = Len(Configs)
      BY <1>0, <1>2 DEF Pick, Move, TypeOK
    <2>4. TypeOK'
      BY <1>c, <1>2, <2>2 DEF Pick, ThreadType, Labels, configVars, mainVars
    <2>5. QED
      BY <1>0, <1>2, <2>2, <2>4 DEF Pick, TypeOK, configVars, mainVars, Idle
  <1>3. CASE \E r \in Result : at[d] \in Busy /\ Conclude(d, r) /\ Earned(r)
             /\ UNCHANGED <<job, budget, mainVars, stop, interrupts>>
    <2>1. PICK r \in Result : at[d] \in Busy /\ Conclude(d, r) /\ Earned(r)
      BY <1>3
    <2>2. /\ results' \in [Known -> Seq(Result)]
          /\ \A e \in Known \ {d} : results'[e] = results[e]
          /\ at' = [at EXCEPT ![d] = at'[d]] /\ at'[d] \in {"done", "pick"}
          /\ iters' = [iters EXCEPT ![d] = 0] /\ worst' = [worst EXCEPT ![d] = "ok"]
          /\ last' = [last EXCEPT ![d] = "right"] /\ errs' = [errs EXCEPT ![d] = {}]
      BY <1>0, <2>1, Appended
    <2>3. TypeOK'
      <3>1. /\ at' \in [Known -> Labels] /\ budget' \in [Known -> Int]
            /\ iters' \in [Known -> Nat] /\ worst' \in [Known -> {"ok", "over"}]
        BY <1>c, <1>3, <2>2 DEF ThreadType, Labels
      <3>2. /\ last' \in [Known -> Output]
            /\ errs' \in [Known -> SUBSET {"ok", "over", "nan"}]
        BY <1>c, <2>2 DEF ThreadType, Output
      <3>3. QED
        BY <1>c, <2>2, <3>1, <3>2 DEF ThreadType
    <2>4. QED
      BY <1>0, <1>3, <2>1, <2>2, <2>3 DEF TypeOK, mainVars, Idle
  <1>4. CASE Prepare(d)
    <2>1. CASE \E s \in {"ERROR", "SKIP"} : Conclude(d, Other(s))
      BY <1>3, <1>4, <2>1, <1>a DEF Prepare
    <2>2. CASE Move(d, "loop") /\ UNCHANGED <<configVars, results>>
      <3>1. at[d] = "prepare" /\ at' = [at EXCEPT ![d] = at'[d]] /\ at'[d] = "loop"
        BY <1>0, <1>4, <2>2 DEF Prepare, Move, TypeOK
      <3>2. TypeOK'
        BY <1>c, <1>4, <2>2, <3>1 DEF Prepare, ThreadType, Labels, configVars, mainVars
      <3>3. QED
        BY <1>0, <1>4, <2>2, <3>1, <3>2 DEF Prepare, TypeOK, configVars, mainVars, Idle
    <2>3. QED
      BY <1>4, <2>1, <2>2 DEF Prepare
  <1>5. CASE Iterate(d)
    <2>1. /\ worst' \in [Known -> {"ok", "over"}] /\ \A e \in Known \ {d} : worst'[e] = worst[e]
          /\ errs' \in [Known -> SUBSET {"ok", "over", "nan"}]
          /\ \A e \in Known \ {d} : errs'[e] = errs[e]
      BY <1>c, <1>5, Validating DEF Iterate
    <2>2. /\ iters' \in [Known -> Nat] /\ \A e \in Known \ {d} : iters'[e] = iters[e]
          /\ last' \in [Known -> Output] /\ at[d] = "loop" /\ at' = at
      BY <1>0, <1>5 DEF Iterate, TypeOK
    <2>3. TypeOK'
      BY <1>c, <1>5, <2>1, <2>2 DEF Iterate, ThreadType, Labels, mainVars
    <2>4. QED
      BY <1>0, <1>5, <2>1, <2>2, <2>3 DEF Iterate, TypeOK, mainVars, Idle
  <1>6. CASE Wind(d)
    <2>1. /\ worst' \in [Known -> {"ok", "over"}] /\ \A e \in Known \ {d} : worst'[e] = worst[e]
          /\ errs' \in [Known -> SUBSET {"ok", "over", "nan"}]
          /\ \A e \in Known \ {d} : errs'[e] = errs[e]
      BY <1>c, <1>6, Validating DEF Wind
    <2>2. at[d] = "loop" /\ at' = [at EXCEPT ![d] = at'[d]] /\ at'[d] = "grade"
      BY <1>0, <1>6 DEF Wind, TypeOK, Move
    <2>3. TypeOK'
      <3>1. at' \in [Known -> Labels]
        BY <1>c, <2>2 DEF ThreadType, Labels
      <3>2. UNCHANGED <<budget, iters, last, results>>
        BY <1>6 DEF Wind
      <3>3. QED
        BY <1>c, <2>1, <3>1, <3>2 DEF ThreadType
    <2>4. QED
      BY <1>0, <1>6, <2>1, <2>2, <2>3 DEF Wind, TypeOK, mainVars, Idle
  <1>7. CASE Grade(d)
    <2>1. \E r \in Result : Conclude(d, r) /\ Earned(r)
      BY <1>0, <1>7, Grading
    <2>2. QED
      BY <1>3, <1>7, <2>1 DEF Grade
  <1>8. CASE Abort(d)
    BY <1>3, <1>8, <1>a DEF Abort
  <1>9. QED
    BY <1>1, <1>2, <1>4, <1>5, <1>6, <1>7, <1>8 DEF Thread
------------------------------------------------------------------------------

(* The batch that was started last.                                        *)
LEMMA CurrentBatch ==
  ASSUME TypeOK, Started, num > 0
  PROVE  /\ Devices # <<>> /\ num \in 1 .. Len(Batches) /\ Len(Batches) \in Nat
         /\ Len(Batch) \in Nat \ {0} /\ DOMAIN Batch = 1 .. Len(Batch)
         /\ Len(Batch) <= BatchSize /\ Len(Batch) <= Len(Devices) /\ Len(Devices) \in Nat
         /\ ToSet(Batch) \subseteq ToSet(Devices)
         /\ \A i \in 1 .. Len(Batch) : Batch[i] \in Known /\ Batch[i] \in ToSet(Batch)
  <1>1. job \in Jobs /\ num \in Int
    <2>1. Devices \in Seq(Known)
      BY CommandLine DEF TypeOK
    <2>2. Len(Devices) \in Nat
      BY <2>1, LenProperties
    <2>3. QED
      BY <2>2 DEF TypeOK
  <1>2. Devices # <<>>
    BY <1>1 DEF Started
  <1>3. num \in 1 .. Len(Batches) /\ Len(Batches) \in Nat
    BY <1>1, <1>2, BatchType DEF Started
  <1>4. QED
    BY <1>1, <1>2, <1>3, BatchType DEF Batch

LEMMA SameBatch ==
  ASSUME UNCHANGED <<job, num>>
  PROVE  Batch' = Batch
  BY Fixed DEF Batch

(* What an interrupt does to the main thread and the one worker it may     *)
(* end.                                                                    *)
LEMMA InterruptStep ==
  ASSUME TypeOK, Started, Interrupt
  PROVE  /\ UNCHANGED <<job, budget, configVars, results, num, got, perDevice, reported>>
         /\ interrupts' = interrupts + 1 /\ interrupts' \in 0 .. MaxInterrupts
         /\ main # "exit"
         /\ \/ /\ main = "single" /\ main' \in {"single", "returned"}
               /\ stop' = "set" /\ rc' = rc
               /\ at' = [at EXCEPT ![Batch[1]] = at'[Batch[1]]]
               /\ \/ at[Batch[1]] = "loop" /\ at'[Batch[1]] = "wound"
                  \/ main' = "returned" /\ at'[Batch[1]] \in {"done", "escaped"}
                     /\ (at'[Batch[1]] = "done" => at[Batch[1]] = "done")
            \/ /\ main \in {"batches", "pool", "shutdown", "leaving", "unwinding"}
               /\ main' \in {"shutdown", "leaving", "returned"}
               /\ (main' = "shutdown" => main = "pool") /\ (main' = "leaving" => main = "shutdown")
               /\ stop' = "set" /\ UNCHANGED <<at, rc>>
            \/ /\ main \in {"returned", "outputs", "report"}
               /\ main' = "exit" /\ rc' = 130 /\ UNCHANGED <<at, stop>>
  <1>1. interrupts' \in 0 .. MaxInterrupts
    BY GemmAssumption DEF Interrupt, TypeOK
  <1>2. CASE InterruptSingle
    <2>1. main = "single" => num > 0
      BY DEF Started
    <2>2. main = "single" => Batch[1] \in Known
      BY <2>1, CurrentBatch
    <2>3. QED
      BY <1>1, <1>2, <2>2 DEF Interrupt, InterruptSingle, TypeOK, Move
  <1>3. CASE InterruptPool
    BY <1>1, <1>3 DEF Interrupt, InterruptPool
  <1>4. CASE InterruptLate
    BY <1>1, <1>4 DEF Interrupt, InterruptLate
  <1>5. QED
    BY <1>2, <1>3, <1>4 DEF Interrupt

(* The pass over the results only takes PASS from some.                    *)
LEMMA RatioStep ==
  ASSUME TypeOK, ApplyTensorRatio
  PROVE  /\ results' \in [Known -> Seq(Result)]
         /\ \A d \in Known :
              /\ Len(results'[d]) = Len(results[d])
              /\ DOMAIN results'[d] = DOMAIN results[d]
              /\ \A i \in DOMAIN results[d] :
                   \/ results'[d][i] = results[d][i]
                   \/ /\ results[d][i].status = "PASS"
                      /\ results'[d][i] = [results[d][i] EXCEPT !.status = "FAIL"]
  <1> DEFINE swept(d) == [i \in DOMAIN results[d] |->
                            IF TooSlow(results[d], i)
                            THEN [results[d][i] EXCEPT !.status = "FAIL"]
                            ELSE results[d][i]]
  <1>1. ASSUME NEW d \in Known
        PROVE  results[d] \in Seq(Result) /\ DOMAIN results[d] = 1 .. Len(results[d])
               /\ Len(results[d]) \in Nat /\ \A i \in DOMAIN results[d] : results[d][i] \in Result
    <2>1. results[d] \in Seq(Result)
      BY DEF TypeOK
    <2>2. QED
      BY <2>1, LenProperties
  <1>2. ASSUME NEW d \in Known
        PROVE  /\ swept(d) \in Seq(Result) /\ Len(swept(d)) = Len(results[d])
               /\ DOMAIN swept(d) = DOMAIN results[d]
               /\ \A i \in DOMAIN results[d] :
                   \/ swept(d)[i] = results[d][i]
                   \/ /\ results[d][i].status = "PASS"
                      /\ swept(d)[i] = [results[d][i] EXCEPT !.status = "FAIL"]
    <2>1. ASSUME NEW i \in DOMAIN results[d]
          PROVE  swept(d)[i] \in Result
      <3>1. \A r \in Result : [r EXCEPT !.status = "FAIL"] \in Result
        BY DEF Result
      <3>2. swept(d)[i] \in {results[d][i], [results[d][i] EXCEPT !.status = "FAIL"]}
        OBVIOUS
      <3> HIDE DEF swept
      <3>3. QED
        BY <1>1, <3>1, <3>2
    <2>2. swept(d) \in [1 .. Len(results[d]) -> Result]
      BY <1>1, <2>1
    <2>3. swept(d) \in Seq(Result)
      BY <1>1, <2>2, SeqDef
    <2>4. Len(swept(d)) = Len(results[d])
      BY <1>1, <2>2, <2>3, LenProperties
    <2>5. QED
      BY <2>3, <2>4 DEF TooSlow
  <1>3. results' = results \/ results' = [d \in Known |-> IF d \notin perDevice THEN results[d]
                                                         ELSE swept(d)]
    BY DEF ApplyTensorRatio
  <1> HIDE DEF swept
  <1>4. results' \in [Known -> Seq(Result)]
    <2>1. CASE results' = results
      BY <2>1 DEF TypeOK
    <2>2. CASE results' = [d \in Known |-> IF d \notin perDevice THEN results[d] ELSE swept(d)]
      <3>1. \A d \in Known : results[d] \in Seq(Result) /\ swept(d) \in Seq(Result)
        BY <1>1, <1>2
      <3>2. QED
        BY <2>2, <3>1
    <2>3. QED
      BY <1>3, <2>1, <2>2
  <1>5. \A d \in Known : results'[d] = results[d] \/ results'[d] = swept(d)
    BY <1>3
  <1>6. ASSUME NEW d \in Known
        PROVE  /\ Len(results'[d]) = Len(results[d])
               /\ DOMAIN results'[d] = DOMAIN results[d]
               /\ \A i \in DOMAIN results[d] :
                   \/ results'[d][i] = results[d][i]
                   \/ /\ results[d][i].status = "PASS"
                      /\ results'[d][i] = [results[d][i] EXCEPT !.status = "FAIL"]
    <2>1. CASE results'[d] = results[d]
      BY <2>1
    <2>2. CASE results'[d] = swept(d)
      BY <1>2, <2>2
    <2>3. QED
      BY <1>5, <2>1, <2>2
  <1>7. QED
    BY <1>4, <1>6

(* The main thread between two batches.                                    *)
LEMMA LaunchStep ==
  ASSUME TypeOK, Started, NextBatch
  PROVE  /\ Devices # <<>> /\ num \in 0 .. Len(Batches) /\ Len(Batches) \in Nat \ {0}
         /\ \/ /\ stop = "set" \/ num = Len(Batches)
               /\ main' = "returned" /\ UNCHANGED <<num, at>>
            \/ /\ num' = num + 1 /\ num' \in 1 .. Len(Batches) /\ Batch' = Batches[num']
               /\ main' = "pool" \/ (main' = "single" /\ Len(Batch') = 1)
               /\ at' = [d \in Known |-> IF d \in ToSet(Batch') THEN "setup" ELSE at[d]]
  <1>1. Devices # <<>> /\ num \in 0 .. Len(Batches) /\ job \in Jobs
    BY DEF Started, NextBatch, TypeOK
  <1>2. Len(Batches) \in Nat \ {0}
    BY <1>1, BatchType
  <1>3. UNCHANGED job
    BY DEF NextBatch
  <1>4. Batch' = Batches[num']
    BY <1>3, Fixed DEF Batch
  <1>5. CASE stop = "set" \/ num = Len(Batches)
    BY <1>1, <1>2, <1>5 DEF NextBatch
  <1>6. CASE ~(stop = "set" \/ num = Len(Batches))
    <2>1. /\ num' = num + 1 /\ num' \in 1 .. Len(Batches)
          /\ main' = IF Len(Batches[num']) > 1 THEN "pool" ELSE "single"
          /\ at' = [d \in Known |-> IF d \in ToSet(Batches[num']) THEN "setup" ELSE at[d]]
      BY <1>1, <1>2, <1>6 DEF NextBatch
    <2>2. Len(Batches[num']) \in Nat \ {0}
      BY <1>1, <2>1, BatchType
    <2>3. at' = [d \in Known |-> IF d \in ToSet(Batch') THEN "setup" ELSE at[d]]
      BY <1>4, <2>1
    <2>4. main' = "pool" \/ (main' = "single" /\ Len(Batch') = 1)
      <3> DEFINE n == Len(Batches[num'])
      <3>1. n \in Nat \ {0} /\ main' = (IF n > 1 THEN "pool" ELSE "single") /\ Len(Batch') = n
        BY <1>4, <2>1, <2>2
      <3> HIDE DEF n
      <3>2. QED
        BY <3>1
    <2>5. QED
      BY <1>1, <1>2, <1>4, <2>1, <2>3, <2>4
  <1>7. QED
    BY <1>5, <1>6

(* The main thread with a batch: a device it waited for is done.           *)
LEMMA GatherStep ==
  ASSUME TypeOK, Started, Running, Single \/ Collect
  PROVE  /\ num > 0 /\ UNCHANGED <<job, threadVars, num, reported, stop, interrupts>>
         /\ \/ /\ main = "single" /\ main' = "batches" /\ rc' = rc /\ got' = got
               /\ at[Batch[1]] = "done" /\ perDevice' = perDevice \cup {Batch[1]}
               /\ Len(Batch) = 1
            \/ /\ main = "single" /\ main' = "exit" /\ rc' = 1 /\ UNCHANGED <<got, perDevice>>
            \/ /\ main = "pool" /\ main' = "batches" /\ UNCHANGED <<got, perDevice, rc>>
               /\ got = Len(Batch)
            \/ /\ main = "pool" /\ main' = "pool" /\ UNCHANGED rc
               /\ got + 1 \in 1 .. Len(Batch) /\ got' = got + 1
               /\ at[Batch[got + 1]] = "done" /\ perDevice' = perDevice \cup {Batch[got + 1]}
            \/ main = "pool" /\ main' = "unwinding" /\ UNCHANGED <<got, perDevice, rc>>
  <1>1. num > 0
    BY DEF Started, Single, Collect
  <1>2. Len(Batch) \in Nat
    BY <1>1, CurrentBatch
  <1>3. got \in Nat
    <2>1. Len(Devices) \in Nat
      BY <1>1, CurrentBatch
    <2>2. QED
      BY <2>1 DEF TypeOK
  <1>4. CASE Single
    BY <1>1, <1>4 DEF Single, Running
  <1>5. CASE Collect
    BY <1>1, <1>2, <1>3, <1>5 DEF Collect, Running
  <1>6. QED
    BY <1>4, <1>5

(* Every variable of the main thread keeps its type.                       *)
LEMMA MainTyping ==
  ASSUME TypeOK, Started, Running, Main \/ Interrupt
  PROVE  TypeOK'
  <1>1. UNCHANGED job
    BY DEF Main, NextBatch, Single, Collect, Leave, ApplyTensorRatio, WriteOutputs, Report,
           Interrupt
  <1>2. Devices' = Devices
    BY <1>1, Fixed
  <1>3. job \in Jobs /\ Devices \in Seq(Known)
    BY CommandLine DEF TypeOK
  <1>4. Len(Devices) \in Nat
    BY <1>3, LenProperties
  <1>5. CASE NextBatch
    <2>1. Len(Batches) <= Len(Devices)
      BY <1>3, <1>5, LaunchStep, BatchType
    <2>2. at' \in [Known -> Labels]
      BY <1>5, LaunchStep DEF TypeOK, Labels
    <2>3. num' \in 0 .. Len(Devices) /\ main' \in {"returned", "pool", "single"}
      BY <1>4, <1>5, <2>1, LaunchStep
    <2>4. QED
      BY <1>2, <1>4, <1>5, <2>2, <2>3 DEF NextBatch, TypeOK, configVars, Labels
  <1>6. CASE Single \/ Collect
    <2>1. /\ got' \in 0 .. Len(Devices)
          /\ main' \in {"batches", "exit", "pool", "unwinding"} /\ rc' \in {0, 1, 130}
      BY <1>4, <1>6, GatherStep, CurrentBatch DEF TypeOK
    <2>2. perDevice' \subseteq ToSet(Devices)
      <3>1. /\ Len(Batch) \in Nat \ {0} /\ ToSet(Batch) \subseteq ToSet(Devices)
            /\ \A i \in 1 .. Len(Batch) : Batch[i] \in ToSet(Batch)
        BY <1>6, GatherStep, CurrentBatch
      <3>2. perDevice' \subseteq perDevice \cup ToSet(Batch)
        BY <1>6, <3>1, GatherStep
      <3>3. QED
        BY <3>1, <3>2 DEF TypeOK
    <2>3. UNCHANGED <<job, threadVars, num, reported, stop, interrupts>>
      BY <1>6, GatherStep
    <2>4. QED
      BY <1>2, <2>1, <2>2, <2>3 DEF TypeOK, threadVars, configVars
  <1>7. CASE Leave
    BY <1>2, <1>7 DEF Leave, TypeOK, threadVars, configVars
  <1>8. CASE ApplyTensorRatio
    <2>1. results' \in [Known -> Seq(Result)]
      BY <1>8, RatioStep
    <2>2. QED
      BY <1>2, <1>8, <2>1 DEF ApplyTensorRatio, TypeOK, configVars
  <1>9. CASE WriteOutputs
    BY <1>2, <1>9 DEF WriteOutputs, TypeOK, threadVars, configVars
  <1>10. CASE Report
    BY <1>2, <1>10 DEF Report, TypeOK, threadVars, configVars, ReportCode
  <1>11. CASE Interrupt
    <2>1. /\ UNCHANGED <<job, budget, configVars, results, num, got, perDevice, reported>>
          /\ interrupts' \in 0 .. MaxInterrupts
      BY <1>11, InterruptStep
    <2>2. /\ main' \in {"single", "returned", "shutdown", "leaving", "exit"}
          /\ stop' \in {"clear", "set"} /\ rc' \in {0, 1, 130}
      BY <1>11, InterruptStep DEF TypeOK
    <2>3. at' \in [Known -> Labels]
      <3>1. at \in [Known -> Labels]
        BY DEF TypeOK, Labels
      <3>2. \/ at' = at
            \/ /\ at' = [at EXCEPT ![Batch[1]] = at'[Batch[1]]]
               /\ at'[Batch[1]] \in {"wound", "done", "escaped"}
        BY <1>11, InterruptStep
      <3>3. QED
        BY <3>1, <3>2 DEF Labels
    <2>4. QED
      BY <1>2, <2>1, <2>2, <2>3 DEF TypeOK, configVars, Labels
  <1>12. QED
    BY <1>5, <1>6, <1>7, <1>8, <1>9, <1>10, <1>11 DEF Main
------------------------------------------------------------------------------

Work == \E d \in Known : Thread(d) \/ Abort(d)
Step == Main \/ Work \/ Interrupt \/ UNCHANGED vars

LEMMA NextIsStep ==
  ASSUME [Next]_vars
  PROVE  Step
  BY DEF Next, Step, Work, Terminated

LEMMA SameJob ==
  ASSUME IInv, Step
  PROVE  /\ UNCHANGED job /\ Devices' = Devices /\ BatchSize' = BatchSize
         /\ Batches' = Batches /\ Configs' = Configs /\ Target' = Target
         /\ UNCHANGED num => Batch' = Batch
  <1>1. CASE Main \/ Interrupt
    <2>1. UNCHANGED job
      BY <1>1 DEF Main, NextBatch, Single, Collect, Leave, ApplyTensorRatio, WriteOutputs,
                  Report, Interrupt
    <2>2. QED
      BY <2>1, Fixed, SameBatch
  <1>2. CASE Work
    <2>1. UNCHANGED job
      BY <1>2, WorkerStep DEF Work
    <2>2. QED
      BY <2>1, Fixed, SameBatch
  <1>3. CASE UNCHANGED vars
    <2>1. UNCHANGED job
      BY <1>3 DEF vars
    <2>2. QED
      BY <2>1, Fixed, SameBatch
  <1>4. QED
    BY <1>1, <1>2, <1>3 DEF Step

(* The types.                                                              *)
LEMMA TypingStep ==
  ASSUME IInv, Step
  PROVE  TypeOK'
  <1>1. CASE Main \/ Interrupt
    BY <1>1, MainTyping DEF IInv
  <1>2. CASE Work
    BY <1>2, WorkerStep DEF Work
  <1>3. CASE UNCHANGED vars
    <2>1. UNCHANGED <<job, mainVars, stop, interrupts, threadVars>> /\ TypeOK
      BY <1>3 DEF vars, IInv
    <2>2. ThreadType'
      BY <2>1, WorkerTyping DEF ThreadType, threadVars, configVars
    <2>3. QED
      BY <2>1, <2>2, WorkerTyping
  <1>4. QED
    BY <1>1, <1>2, <1>3 DEF Step

(* The number of the batch.                                                *)
LEMMA StartedStep ==
  ASSUME IInv, Step
  PROVE  Started'
  <1>1. TypeOK /\ Started /\ Running /\ Devices' = Devices /\ Batches' = Batches
    BY SameJob DEF IInv
  <1>2. CASE NextBatch
    <2>1. rc' = rc /\ reported' = reported
      BY <1>2 DEF NextBatch
    <2>2. QED
      BY <1>1, <1>2, LaunchStep DEF Started
  <1>3. CASE Single \/ Collect
    BY <1>1, <1>3, GatherStep DEF Started
  <1>4. CASE Leave
    BY <1>1, <1>4 DEF Started, Leave
  <1>5. CASE ApplyTensorRatio
    BY <1>1, <1>5 DEF Started, ApplyTensorRatio
  <1>6. CASE WriteOutputs
    BY <1>1, <1>6 DEF Started, WriteOutputs
  <1>7. CASE Report
    BY <1>1, <1>7 DEF Started, Report
  <1>8. CASE Interrupt
    BY <1>1, <1>8, InterruptStep DEF Started
  <1>9. CASE Work
    BY <1>1, <1>9, WorkerStep DEF Started, Work
  <1>10. CASE UNCHANGED vars
    BY <1>1, <1>10 DEF Started, vars, mainVars
  <1>11. QED
    BY <1>2, <1>3, <1>4, <1>5, <1>6, <1>7, <1>8, <1>9, <1>10 DEF Step, Main

(* Who runs.                                                               *)
LEMMA RunningStep ==
  ASSUME IInv, Step
  PROVE  Running'
  <1>1. TypeOK /\ Started /\ Running
    BY DEF IInv
  <1>2. UNCHANGED num => Batch' = Batch
    BY SameJob
  <1>a. num > 0 => \A i \in 1 .. Len(Batch) : Batch[i] \in Known /\ Batch[i] \in ToSet(Batch)
    BY <1>1, CurrentBatch
  <1>3. CASE NextBatch
    <2>1. got' = 0 /\ \A d \in Known : Idle(d)
      BY <1>1, <1>3 DEF NextBatch, Running
    <2>2. CASE UNCHANGED <<num, at>> /\ main' = "returned"
      BY <1>1, <2>1, <2>2 DEF Running, Idle
    <2>3. CASE /\ num' = num + 1 /\ num' \in 1 .. Len(Batches)
               /\ main' = "pool" \/ (main' = "single" /\ Len(Batch') = 1)
               /\ at' = [d \in Known |-> IF d \in ToSet(Batch') THEN "setup" ELSE at[d]]
      <3>1. \A d \in Known : ~Idle(d)' => num' > 0 /\ d \in ToSet(Batch')
        BY <2>1, <2>3 DEF Idle
      <3>2. Len(Batch') \in Nat
        <4>1. job \in Jobs /\ Devices # <<>> /\ Batch' = Batches[num']
          BY <1>1, <1>3, <2>3, LaunchStep DEF TypeOK
        <4>2. Len(Batches[num']) \in Nat
          BY <2>3, <4>1, BatchType
        <4>3. QED
          BY <4>1, <4>2
      <3>3. QED
        BY <2>1, <2>3, <3>1, <3>2 DEF Running
    <2>4. QED
      BY <1>1, <1>3, <2>2, <2>3, LaunchStep
  <1>4. CASE Single \/ Collect
    <2>1. UNCHANGED at /\ Batch' = Batch /\ num' = num /\ num > 0
      BY <1>1, <1>2, <1>4, GatherStep DEF threadVars
    <2>2. Len(Batch) \in Nat \ {0} /\ DOMAIN Batch = 1 .. Len(Batch) /\ got \in Nat
      BY <1>1, <2>1, CurrentBatch DEF TypeOK
    <2>3. \A d \in Known : Idle(d)' <=> Idle(d)
      BY <2>1 DEF Idle
    <2>4. main' = "batches" => \A d \in Known : Idle(d)
      <3>1. CASE main = "single" /\ Len(Batch) = 1 /\ at[Batch[1]] = "done"
        <4>1. ToSet(Batch) = {Batch[1]}
          BY <2>2, <3>1 DEF ToSet
        <4>2. Idle(Batch[1])
          BY <3>1 DEF Idle
        <4>3. QED
          BY <1>1, <4>1, <4>2 DEF Running
      <3>2. CASE main = "pool" /\ got = Len(Batch)
        <4>1. \A i \in 1 .. Len(Batch) : Idle(Batch[i])
          BY <1>1, <3>2 DEF Running, Idle
        <4>2. QED
          BY <1>1, <2>2, <4>1 DEF Running, ToSet
      <3>3. QED
        BY <1>1, <1>4, <3>1, <3>2, GatherStep
    <2>5. main' = "pool" => got' <= Len(Batch) /\ \A i \in 1 .. got' : at[Batch[i]] = "done"
      BY <1>1, <1>4, <2>2, GatherStep DEF Running
    <2>6. main' # "single"
      BY <1>1, <1>4, GatherStep
    <2>7. QED
      BY <1>1, <2>1, <2>3, <2>4, <2>5, <2>6 DEF Running
  <1>5. CASE Leave \/ ApplyTensorRatio \/ WriteOutputs \/ Report
    <2>1. UNCHANGED <<at, num>> /\ main' \in {"exit", "returned", "outputs", "report"}
      BY <1>5 DEF Leave, ApplyTensorRatio, WriteOutputs, Report, threadVars
    <2>2. QED
      BY <1>1, <1>2, <2>1 DEF Running, Idle
  <1>6. CASE Interrupt
    <2>1. /\ UNCHANGED num /\ main' \notin {"batches", "pool"}
          /\ main' = "single" => main = "single"
          /\ \A d \in Known : ~Idle(d)' => ~Idle(d)
      <3>1. UNCHANGED num /\ main' \notin {"batches", "pool"} /\ (main' = "single" => main = "single")
        BY <1>1, <1>6, InterruptStep
      <3>2. at' = at \/ /\ at' = [at EXCEPT ![Batch[1]] = at'[Batch[1]]]
                        /\ \/ at[Batch[1]] = "loop" /\ at'[Batch[1]] = "wound"
                           \/ at'[Batch[1]] \in {"done", "escaped"}
        BY <1>1, <1>6, InterruptStep
      <3>3. at \in [Known -> Labels]
        BY <1>1 DEF TypeOK, Labels
      <3>4. QED
        BY <3>1, <3>2, <3>3 DEF Idle
    <2>2. QED
      BY <1>1, <1>2, <2>1 DEF Running
  <1>7. CASE Work
    <2>1. PICK d \in Known : Thread(d) \/ Abort(d)
      BY <1>7 DEF Work
    <2>2. /\ UNCHANGED <<main, num, got>> /\ ~Idle(d)
          /\ \A e \in Known \ {d} : at'[e] = at[e]
      BY <2>1, WorkerStep
    <2>3. Batch' = Batch
      BY <1>2, <2>2
    <2>4. main # "batches" /\ num > 0 /\ d \in ToSet(Batch)
      BY <1>1, <2>2 DEF Running
    <2>5. \A e \in Known : ~Idle(e)' => e \in ToSet(Batch)
      BY <1>1, <2>2, <2>4 DEF Running, Idle
    <2>6. main = "pool" => \A i \in 1 .. got : at'[Batch[i]] = "done"
      <3>1. SUFFICES ASSUME main = "pool", NEW i \in 1 .. got
                     PROVE  at'[Batch[i]] = "done"
        OBVIOUS
      <3>2. at[Batch[i]] = "done" /\ got <= Len(Batch) /\ Len(Batch) \in Nat /\ got \in Int
        BY <1>1, <2>4, <3>1, CurrentBatch DEF Running, TypeOK
      <3>3. Batch[i] \in Known
        BY <1>a, <2>4, <3>2
      <3>4. QED
        BY <2>2, <3>2, <3>3 DEF Idle
    <2>7. QED
      BY <1>1, <2>2, <2>3, <2>4, <2>5, <2>6 DEF Running
  <1>8. CASE UNCHANGED vars
    <2>1. UNCHANGED <<at, num, got, main>>
      BY <1>8 DEF vars, threadVars, mainVars
    <2>2. QED
      BY <1>1, <1>2, <2>1 DEF Running, Idle
  <1>9. QED
    BY <1>3, <1>4, <1>5, <1>6, <1>7, <1>8 DEF Step, Main

(* Interrupts and the exit status.                                         *)
LEMMA EndingStep ==
  ASSUME IInv, Step
  PROVE  Ending'
  <1>1. TypeOK /\ Started /\ Running /\ Ending
    BY DEF IInv
  <1>2. CASE NextBatch
    BY <1>1, <1>2, LaunchStep DEF Ending, NextBatch
  <1>3. CASE Single \/ Collect
    BY <1>1, <1>3, GatherStep DEF Ending
  <1>4. CASE Leave
    BY <1>1, <1>4 DEF Ending, Leave
  <1>5. CASE ApplyTensorRatio
    BY <1>1, <1>5 DEF Ending, ApplyTensorRatio
  <1>6. CASE WriteOutputs
    BY <1>1, <1>6 DEF Ending, WriteOutputs
  <1>7. CASE Report
    BY <1>1, <1>7 DEF Ending, Report, TypeOK
  <1>8. CASE Interrupt
    <2>1. interrupts' = interrupts + 1 /\ reported' = reported /\ main # "exit"
      BY <1>1, <1>8, InterruptStep
    <2>2. \/ stop' = "set" /\ rc' = rc /\ main' # "exit"
          \/ main' = "exit" /\ rc' = 130 /\ stop' = stop
      BY <1>1, <1>8, InterruptStep
    <2>3. QED
      BY <1>1, <2>1, <2>2 DEF Ending
  <1>9. CASE Work
    BY <1>1, <1>9, WorkerStep DEF Ending, Work
  <1>10. CASE UNCHANGED vars
    BY <1>1, <1>10 DEF Ending, vars, mainVars
  <1>11. QED
    BY <1>2, <1>3, <1>4, <1>5, <1>6, <1>7, <1>8, <1>9, <1>10 DEF Step, Main

(* What was collected.                                                     *)
LEMMA CollectedStep ==
  ASSUME IInv, Step
  PROVE  Collected'
  <1>1. TypeOK /\ Started /\ Running /\ Collected /\ Ending
    BY DEF IInv
  <1>2. (UNCHANGED num => Batch' = Batch) /\ Batches' = Batches
    BY SameJob
  <1>3. CASE NextBatch
    <2>1. /\ main = "batches" /\ perDevice' = perDevice /\ stop' = stop /\ reported' = reported
          /\ got' = 0 /\ Devices # <<>> /\ num \in 0 .. Len(Batches) /\ Len(Batches) \in Nat \ {0}
          /\ \A d \in Known : Idle(d)
      BY <1>1, <1>3, LaunchStep DEF NextBatch, Running
    <2>2. reported # "yes"
      BY <1>1, <2>1 DEF Ending
    <2>3. CASE /\ stop = "set" \/ num = Len(Batches)
               /\ main' = "returned" /\ UNCHANGED <<num, at>>
      <3>1. \A d \in Known : Idle(d)'
        BY <2>1, <2>3 DEF Idle
      <3>2. QED
        BY <1>1, <1>2, <2>1, <2>3, <3>1 DEF Collected
    <2>4. CASE /\ num' = num + 1 /\ main' \in {"pool", "single"}
      <3>1. \A b \in 1 .. num' - 1 : ToSet(Batches[b]) \subseteq perDevice
        BY <1>1, <2>1, <2>4 DEF Collected, Batch
      <3>2. QED
        BY <1>2, <2>1, <2>2, <2>4, <3>1 DEF Collected
    <2>5. QED
      BY <1>1, <1>3, <2>3, <2>4, LaunchStep
  <1>4. CASE Single \/ Collect
    <2>1. /\ UNCHANGED <<at, num, reported, stop>> /\ Batch' = Batch /\ num > 0
          /\ perDevice \subseteq perDevice'
          /\ main' \in {"batches", "exit", "pool", "unwinding"} /\ main # "exit"
      BY <1>1, <1>2, <1>4, GatherStep DEF threadVars
    <2>2. Len(Batch) \in Nat \ {0} /\ DOMAIN Batch = 1 .. Len(Batch) /\ got \in Nat
      BY <1>1, <2>1, CurrentBatch DEF TypeOK
    <2>3. main' = "batches" => ToSet(Batch) \subseteq perDevice'
      <3>1. CASE main = "single" /\ Len(Batch) = 1 /\ perDevice' = perDevice \cup {Batch[1]}
        BY <2>2, <3>1 DEF ToSet
      <3>2. CASE main = "pool" /\ got = Len(Batch) /\ perDevice' = perDevice
        BY <1>1, <2>2, <3>2 DEF Collected, ToSet
      <3>3. QED
        BY <1>1, <1>4, <3>1, <3>2, GatherStep
    <2>4. main' = "pool" => \A i \in 1 .. got' : Batch[i] \in perDevice'
      BY <1>1, <1>4, <2>2, GatherStep DEF Collected
    <2>5. reported' # "yes"
      BY <1>1, <2>1 DEF Ending
    <2>6. QED
      BY <1>1, <1>2, <2>1, <2>3, <2>4, <2>5 DEF Collected
  <1>5. CASE Leave \/ ApplyTensorRatio \/ WriteOutputs \/ Report
    <2>1. /\ UNCHANGED <<at, num, perDevice, stop>>
          /\ main' \in {"exit", "returned", "outputs", "report"}
          /\ \/ reported' = reported /\ main # "exit"
             \/ main = "report"
      BY <1>5 DEF Leave, ApplyTensorRatio, WriteOutputs, Report, threadVars
    <2>2. \/ main \in {"returned", "outputs", "report"}
          \/ main' = "returned" /\ stop = "set"
          \/ main' = "exit" /\ reported' # "yes"
      <3>1. CASE Leave
        BY <1>1, <3>1 DEF Leave, Ending, TypeOK
      <3>2. QED
        BY <1>5, <3>1 DEF ApplyTensorRatio, WriteOutputs, Report
    <2>3. QED
      BY <1>1, <1>2, <2>1, <2>2 DEF Collected, Idle
  <1>6. CASE Interrupt
    <2>1. /\ UNCHANGED <<num, perDevice, reported>> /\ main # "exit"
          /\ main' \notin {"batches", "pool"}
          /\ stop' = "set" \/ (main' = "exit" /\ stop' = stop)
      BY <1>1, <1>6, InterruptStep
    <2>2. reported # "yes"
      BY <1>1, <2>1 DEF Ending
    <2>3. QED
      BY <1>1, <1>2, <2>1, <2>2 DEF Collected
  <1>7. CASE Work
    <2>1. PICK d \in Known : Thread(d) \/ Abort(d)
      BY <1>7 DEF Work
    <2>2. UNCHANGED <<main, num, got, perDevice, stop, reported>> /\ ~Idle(d)
      BY <2>1, WorkerStep
    <2>3. ~(stop = "clear" /\ (main \in {"returned", "outputs", "report"} \/ reported = "yes"))
      BY <1>1, <2>2 DEF Collected
    <2>4. QED
      BY <1>1, <1>2, <2>2, <2>3 DEF Collected
  <1>8. CASE UNCHANGED vars
    <2>1. UNCHANGED <<at, num, got, main, perDevice, stop, reported>>
      BY <1>8 DEF vars, threadVars, mainVars
    <2>2. QED
      BY <1>1, <1>2, <2>1 DEF Collected, Idle
  <1>9. QED
    BY <1>3, <1>4, <1>5, <1>6, <1>7, <1>8 DEF Step, Main

(* How far the workers are.                                                *)
LEMMA CompleteStep ==
  ASSUME IInv, Step
  PROVE  Complete'
  <1> DEFINE Busy == {"prepare", "loop", "wound", "grade"}
  <1>1. TypeOK /\ Started /\ Running /\ Complete
    BY DEF IInv
  <1>2. Configs' = Configs /\ Len(Configs) \in Nat
    BY <1>1, SameJob, CommandLine DEF TypeOK
  <1>a. ASSUME NEW d \in Known
        PROVE  /\ DOMAIN results[d] = 1 .. Len(results[d]) /\ Len(results[d]) \in Nat
               /\ \A i \in DOMAIN results[d] : results[d][i] \in Result
    <2>1. results[d] \in Seq(Result)
      BY <1>1 DEF TypeOK
    <2>2. QED
      BY <2>1, LenProperties
  <1>b. ASSUME results' = results, stop = "set" => stop' = "set",
               NEW d \in Known, at'[d] = at[d] \/ at'[d] \notin Busy \cup {"done"},
               d \in perDevice' => d \in perDevice \/ at[d] = "done"
        PROVE  /\ Len(results'[d]) <= Len(Configs')
               /\ at'[d] \in Busy => Len(results'[d]) < Len(Configs')
               /\ at'[d] = "done" \/ d \in perDevice' => Through(d)'
    BY <1>1, <1>2, <1>b DEF Complete, Through
  <1>3. CASE NextBatch
    <2>1. /\ results' = results /\ stop' = stop /\ perDevice' = perDevice
          /\ \A d \in Known : at'[d] = at[d] \/ at'[d] = "setup"
      BY <1>1, <1>3, LaunchStep DEF NextBatch
    <2>2. QED
      BY <1>b, <2>1 DEF Complete
  <1>4. CASE Single \/ Collect
    <2>1. /\ results' = results /\ stop' = stop /\ at' = at
          /\ \A d \in Known : d \in perDevice' => d \in perDevice \/ at[d] = "done"
      BY <1>1, <1>4, GatherStep DEF threadVars
    <2>2. QED
      BY <1>b, <2>1 DEF Complete
  <1>5. CASE Leave \/ WriteOutputs \/ Report
    <2>1. results' = results /\ stop' = stop /\ at' = at /\ perDevice' = perDevice
      BY <1>5 DEF Leave, WriteOutputs, Report, threadVars
    <2>2. QED
      BY <1>b, <2>1 DEF Complete
  <1>6. CASE ApplyTensorRatio
    <2>1. stop' = stop /\ at' = at /\ perDevice' = perDevice
      BY <1>6 DEF ApplyTensorRatio
    <2>2. \A d \in Known :
              /\ Len(results'[d]) = Len(results[d])
              /\ DOMAIN results'[d] = DOMAIN results[d]
              /\ \A i \in DOMAIN results[d] :
                   results[d][i].status # "PASS" => results'[d][i] = results[d][i]
      BY <1>1, <1>6, RatioStep
    <2>3. \A d \in Known : Through(d) => Through(d)'
      BY <1>2, <2>1, <2>2 DEF Through, Bad
    <2>4. QED
      BY <1>1, <1>2, <2>1, <2>2, <2>3 DEF Complete
  <1>7. CASE Interrupt
    <2>1. /\ results' = results /\ perDevice' = perDevice /\ (stop = "set" => stop' = "set")
      BY <1>1, <1>7, InterruptStep DEF configVars
    <2>2. ASSUME NEW d \in Known
          PROVE  \/ at'[d] = at[d] \/ at'[d] \notin Busy \cup {"done"}
                 \/ at[d] = "loop" /\ at'[d] = "wound"
      <3>1. at \in [Known -> Labels]
        BY <1>1 DEF TypeOK, Labels
      <3>2. at' = at \/ /\ at' = [at EXCEPT ![Batch[1]] = at'[Batch[1]]]
                        /\ \/ at[Batch[1]] = "loop" /\ at'[Batch[1]] = "wound"
                           \/ at'[Batch[1]] = "escaped"
                           \/ at'[Batch[1]] = "done" /\ at[Batch[1]] = "done"
        BY <1>1, <1>7, InterruptStep
      <3>3. QED
        BY <3>1, <3>2
    <2>3. ASSUME NEW d \in Known, at[d] = "loop", at'[d] = "wound"
          PROVE  /\ Len(results'[d]) <= Len(Configs')
                 /\ at'[d] \in Busy => Len(results'[d]) < Len(Configs')
                 /\ at'[d] = "done" \/ d \in perDevice' => Through(d)'
      BY <1>1, <1>2, <2>1, <2>3 DEF Complete, Through
    <2>4. QED
      BY <1>b, <2>1, <2>2, <2>3 DEF Complete
  <1>8. CASE Work
    <2>1. PICK d \in Known : Thread(d) \/ Abort(d)
      BY <1>8 DEF Work
    <2>2. /\ UNCHANGED <<perDevice, stop>> /\ ~Idle(d)
          /\ \A e \in Known \ {d} : at'[e] = at[e] /\ results'[e] = results[e]
      BY <2>1, WorkerStep
    <2>3. ASSUME NEW e \in Known \ {d}
          PROVE  /\ Len(results'[e]) <= Len(Configs')
                 /\ at'[e] \in Busy => Len(results'[e]) < Len(Configs')
                 /\ at'[e] = "done" \/ e \in perDevice' => Through(e)'
      BY <1>1, <1>2, <2>2 DEF Complete, Through
    <2>4. /\ Len(results'[d]) <= Len(Configs')
          /\ at'[d] \in Busy => Len(results'[d]) < Len(Configs')
          /\ at'[d] = "done" \/ d \in perDevice' => Through(d)'
      <3>1. CASE /\ results'[d] = results[d]
                 /\ at'[d] = "done" => stop = "set" \/ Len(results[d]) = Len(Configs)
                 /\ at'[d] \in Busy => at[d] \in Busy \/ Len(results[d]) # Len(Configs)
        BY <1>1, <1>2, <1>a, <2>2, <3>1 DEF Complete, Through
      <3>2. CASE \E r \in Result : at[d] \in Busy /\ Conclude(d, r) /\ Earned(r)
        <4>1. PICK r \in Result : at[d] \in Busy /\ Conclude(d, r)
          BY <3>2
        <4>2. /\ Len(results'[d]) = Len(results[d]) + 1
              /\ DOMAIN results'[d] = 1 .. Len(results[d]) + 1
              /\ \A i \in DOMAIN results[d] : results'[d][i] = results[d][i]
              /\ results'[d][Len(results[d]) + 1] = r
              /\ at'[d] = "done" => r.status \in Bad
              /\ at'[d] \in {"done", "pick"}
          BY <1>1, <4>1, Appended
        <4>3. Len(results[d]) < Len(Configs)
          BY <1>1, <4>1 DEF Complete
        <4>4. d \in perDevice => Through(d)
          BY <1>1 DEF Complete
        <4>5. Through(d) => Through(d)'
          <5>1. DOMAIN results[d] \subseteq DOMAIN results'[d]
            BY <1>a, <4>2
          <5>2. QED
            BY <1>2, <2>2, <4>2, <4>3, <5>1 DEF Through
        <4>6. at'[d] = "done" => Through(d)'
          <5>1. Len(results[d]) + 1 \in DOMAIN results'[d]
            BY <1>a, <4>2
          <5>2. QED
            BY <4>2, <5>1 DEF Through
        <4>7. QED
          BY <1>2, <1>a, <2>2, <4>2, <4>3, <4>4, <4>5, <4>6
      <3>3. QED
        BY <2>1, <3>1, <3>2, WorkerStep
    <2>5. QED
      BY <2>3, <2>4 DEF Complete
  <1>9. CASE UNCHANGED vars
    <2>1. UNCHANGED <<at, results, stop, perDevice>>
      BY <1>9 DEF vars, threadVars, mainVars
    <2>2. QED
      BY <1>b, <2>1 DEF Complete
  <1>10. QED
    BY <1>3, <1>4, <1>5, <1>6, <1>7, <1>8, <1>9 DEF Step, Main

(* The locals of run_config.                                               *)
LEMMA MeasuredStep ==
  ASSUME IInv, Step
  PROVE  Measured'
  <1> DEFINE Sound(d) == /\ worst[d] = "over" <=> "over" \in errs[d]
                         /\ iters[d] > 0 /\ job.validate # "off" => errs[d] # {}
                         /\ at[d] = "grade" /\ stop = "clear"
                            => iters[d] = Target \/ (job.sustained /\ iters[d] > 0)
  <1>1. TypeOK /\ Started /\ Running /\ Measured
    BY DEF IInv
  <1>2. job' = job /\ Target' = Target
    BY SameJob
  <1>a. \A d \in Known : Sound(d)
    BY <1>1 DEF Measured
  <1>b. ASSUME NEW d \in Known, worst'[d] = worst[d], errs'[d] = errs[d], iters'[d] = iters[d],
               stop' = "clear" => stop = "clear", at'[d] = at[d] \/ at'[d] # "grade"
        PROVE  Sound(d)'
    BY <1>2, <1>a, <1>b
  <1>c. ASSUME configVars' = configVars, stop' = "clear" => stop = "clear",
               \A d \in Known : at'[d] = at[d] \/ at'[d] # "grade"
        PROVE  Measured'
    <2>1. worst' = worst /\ errs' = errs /\ iters' = iters
      BY <1>c DEF configVars
    <2>2. \A d \in Known : Sound(d)'
      BY <1>b, <1>c, <2>1
    <2>3. QED
      BY <2>2 DEF Measured
  <1>3. CASE NextBatch
    <2>1. /\ configVars' = configVars /\ stop' = stop
          /\ \A d \in Known : at'[d] = at[d] \/ at'[d] = "setup"
      BY <1>1, <1>3, LaunchStep DEF NextBatch
    <2>2. QED
      BY <1>c, <2>1
  <1>4. CASE Single \/ Collect \/ Leave \/ ApplyTensorRatio \/ WriteOutputs \/ Report
    <2>1. configVars' = configVars /\ stop' = stop /\ at' = at
      BY <1>4 DEF Single, Collect, Leave, ApplyTensorRatio, WriteOutputs, Report, threadVars
    <2>2. QED
      BY <1>c, <2>1
  <1>5. CASE Interrupt
    <2>1. configVars' = configVars /\ (stop' = "clear" => stop = "clear")
      BY <1>1, <1>5, InterruptStep
    <2>2. at \in [Known -> Labels]
      BY <1>1 DEF TypeOK, Labels
    <2>3. at' = at \/ /\ at' = [at EXCEPT ![Batch[1]] = at'[Batch[1]]]
                      /\ at'[Batch[1]] \in {"wound", "escaped", "done"}
      BY <1>1, <1>5, InterruptStep
    <2>4. \A d \in Known : at'[d] = at[d] \/ at'[d] # "grade"
      BY <2>2, <2>3
    <2>5. QED
      BY <1>c, <2>1, <2>4
  <1>6. CASE Work
    <2>1. PICK d \in Known : Thread(d) \/ Abort(d)
      BY <1>6 DEF Work
    <2>2. /\ stop' = stop
          /\ \A e \in Known \ {d} : at'[e] = at[e] /\ iters'[e] = iters[e]
                                    /\ worst'[e] = worst[e] /\ errs'[e] = errs[e]
      BY <2>1, WorkerStep
    <2>3. \A e \in Known \ {d} : Sound(e)'
      BY <1>b, <2>2
    <2>4. /\ at \in [Known -> Labels] /\ worst \in [Known -> {"ok", "over"}]
          /\ errs \in [Known -> SUBSET {"ok", "over", "nan"}] /\ iters \in [Known -> Nat]
      BY <1>1 DEF TypeOK, Labels
    <2>a. ASSUME NEW output, Validate(d, output)
          PROVE  /\ worst'[d] = "over" <=> "over" \in errs'[d]
                 /\ errs'[d] # {}
      <3> DEFINE err == RelErr(output, ModeOf(d))
      <3>1. /\ worst'[d] = Worse(worst[d], err) /\ errs'[d] = errs[d] \cup {err}
        BY <2>4, <2>a DEF Validate
      <3>2. worst[d] = "over" <=> "over" \in errs[d]
        BY <1>a
      <3> HIDE DEF err
      <3>3. QED
        BY <3>1, <3>2 DEF Worse
    <2>5. Sound(d)'
      <3>1. CASE Setup(d) \/ Pick(d)
        <4>1. configVars' = configVars /\ at'[d] # "grade"
          BY <2>4, <3>1 DEF Setup, Pick, Move
        <4>2. QED
          BY <1>b, <2>2, <4>1 DEF configVars
      <3>2. CASE \E r \in Result : Conclude(d, r)
        <4>1. iters'[d] = 0 /\ worst'[d] = "ok" /\ errs'[d] = {} /\ at'[d] \in {"pick", "done"}
          BY <1>1, <2>4, <3>2, Appended
        <4>2. QED
          BY <4>1
      <3>3. CASE Prepare(d)
        <4>1. CASE \E s \in {"ERROR", "SKIP"} : Conclude(d, Other(s))
          BY <3>2, <4>1, ResultType
        <4>2. CASE Move(d, "loop") /\ UNCHANGED <<configVars, results>>
          <5>1. configVars' = configVars /\ at'[d] # "grade"
            BY <2>4, <4>2 DEF Move
          <5>2. QED
            BY <1>b, <2>2, <5>1 DEF configVars
        <4>3. QED
          BY <3>3, <4>1, <4>2 DEF Prepare
      <3>4. CASE Iterate(d)
        <4>1. at[d] = "loop" /\ at' = at /\ iters'[d] = iters[d] + 1 /\ iters[d] \in Nat
          BY <2>4, <3>4 DEF Iterate
        <4>2. PICK output \in Output :
                IF job.validate # "off" /\ Due(d, iters[d] + 1)
                THEN Validate(d, output) ELSE UNCHANGED <<worst, errs>>
          BY <3>4 DEF Iterate
        <4>3. iters[d] = 0 => Due(d, iters[d] + 1)
          BY <4>1 DEF Due
        <4>4. worst'[d] = "over" <=> "over" \in errs'[d]
          BY <1>a, <2>a, <4>2
        <4>5. job.validate # "off" => errs'[d] # {}
          BY <1>a, <2>a, <4>1, <4>2, <4>3
        <4>6. QED
          BY <1>2, <4>1, <4>4, <4>5
      <3>5. CASE Wind(d)
        <4>1. /\ iters' = iters
              /\ Validate(d, last[d]) \/ UNCHANGED <<worst, errs>>
              /\ \/ stop = "set"
                 \/ iters[d] = Target
                 \/ job.sustained /\ iters[d] > 0
          BY <3>5 DEF Wind
        <4>2. worst'[d] = "over" <=> "over" \in errs'[d]
          BY <1>a, <2>a, <4>1
        <4>3. iters[d] > 0 /\ job.validate # "off" => errs'[d] # {}
          BY <1>a, <2>a, <4>1
        <4>4. QED
          BY <1>2, <2>2, <4>1, <4>2, <4>3
      <3>6. CASE Grade(d)
        BY <1>1, <3>2, <3>6, Grading
      <3>7. CASE Abort(d)
        BY <3>2, <3>7, ResultType DEF Abort
      <3>8. QED
        BY <2>1, <3>1, <3>3, <3>4, <3>5, <3>6, <3>7 DEF Thread
    <2>6. QED
      BY <2>3, <2>5 DEF Measured
  <1>7. CASE UNCHANGED vars
    <2>1. configVars' = configVars /\ stop' = stop /\ at' = at
      BY <1>7 DEF vars, threadVars
    <2>2. QED
      BY <1>c, <2>1
  <1>8. QED
    BY <1>3, <1>4, <1>5, <1>6, <1>7 DEF Step, Main

(* A finite set of numbers that is not empty has a greatest one.           *)
LEMMA Greatest ==
  ASSUME NEW n \in Nat, NEW B \in SUBSET (1 .. n), B # {}
  PROVE  Max(B) \in B
  <1> DEFINE C == {n - x : x \in B}
  <1>1. C \in SUBSET Nat /\ C # {}
    <2>1. \A x \in B : n - x \in Nat
      OBVIOUS
    <2>2. QED
      BY <2>1
  <1>2. PICK c \in C : \A x \in C : ~(<<x, c>> \in OpToRel(<, Nat))
    BY <1>1, WFMin, NatLessThanWellFounded
  <1>3. ASSUME NEW x \in C
        PROVE  c <= x
    <2>1. <<x, c>> \in Nat \X Nat => ~(<<x, c>>[1] < <<x, c>>[2])
      BY <1>2 DEF OpToRel
    <2>2. QED
      BY <1>1, <2>1
  <1>4. PICK b \in B : c = n - b
    BY <1>2
  <1>5. \A x \in B : b >= x
    <2>1. \A x \in B : c <= n - x
      BY <1>3
    <2>2. QED
      BY <1>4, <2>1
  <1>6. QED
    BY <1>5 DEF Max

(* A config that still passes after the ratio pass beats a baseline that   *)
(* does.                                                                   *)
LEMMA Swept ==
  ASSUME TypeOK, Complete, ApplyTensorRatio, stop # "set", job.ratio > 0,
         NEW d \in perDevice, NEW i \in DOMAIN results[d]
  PROVE  Beaten(d, i)'
  <1> DEFINE r == results[d]
             T(j) == TooSlow(r, j)
  <1>1. d \in Known /\ job.ratio \in Int
    <2>1. Devices \in Seq(Known) /\ job.ratio \in Int
      BY CommandLine DEF TypeOK
    <2>2. DOMAIN Devices = 1 .. Len(Devices) /\ \A k \in 1 .. Len(Devices) : Devices[k] \in Known
      BY <2>1, LenProperties
    <2>3. QED
      BY <2>1, <2>2 DEF TypeOK, ToSet
  <1>2. /\ r \in Seq(Result) /\ DOMAIN r = 1 .. Len(r) /\ Len(r) \in Nat
        /\ \A j \in DOMAIN r : r[j] \in Result
    <2>1. r \in Seq(Result)
      BY <1>1 DEF TypeOK
    <2>2. QED
      BY <2>1, LenProperties
  <1>3. /\ DOMAIN results'[d] = DOMAIN r
        /\ \A j \in DOMAIN r : results'[d][j] = IF T(j) THEN [r[j] EXCEPT !.status = "FAIL"]
                                                ELSE r[j]
    <2>1. results' = [e \in Known |-> IF e \notin perDevice THEN results[e]
                       ELSE [j \in DOMAIN results[e] |->
                               IF TooSlow(results[e], j)
                               THEN [results[e][j] EXCEPT !.status = "FAIL"]
                               ELSE results[e][j]]]
      BY <1>1 DEF ApplyTensorRatio
    <2>2. QED
      BY <1>1, <2>1
  <1>4. UNCHANGED job /\ Configs' = Configs
    BY Fixed DEF ApplyTensorRatio
  <1> DEFINE base == Baseline(r, Configs[i].shape)
             B    == {k \in DOMAIN r :
                        /\ Configs[k] = [shape |-> Configs[i].shape, dtype |-> "fp32"]
                        /\ r[k].status = "PASS" /\ r[k].tflops > 0}
  <1>5. SUFFICES ASSUME results'[d][i].status = "PASS", Configs[i].dtype = "fp16"
                 PROVE  \E k \in DOMAIN results'[d] :
                          /\ Configs[k] = [Configs[i] EXCEPT !.dtype = "fp32"]
                          /\ results'[d][k].status = "PASS"
                          /\ results'[d][i].tflops >= job.ratio * results'[d][k].tflops
    BY <1>4 DEF Beaten
  <1>6. ~T(i) /\ results'[d][i] = r[i] /\ r[i].status = "PASS"
    <2>1. T(i) => results'[d][i].status = "FAIL"
      <3>1. r[i] \in Result
        BY <1>2
      <3>2. [r[i] EXCEPT !.status = "FAIL"].status = "FAIL"
        BY <3>1 DEF Result
      <3> HIDE DEF T
      <3>3. QED
        BY <1>3, <3>2
    <2> HIDE DEF T
    <2>2. QED
      BY <1>3, <1>5, <2>1
  <1>7. base # 0 /\ ~(r[i].tflops < job.ratio * base)
    BY <1>5, <1>6 DEF TooSlow
  <1>8. B # {} /\ base = r[Max(B)].tflops
    BY <1>7 DEF Baseline
  <1>9. Max(B) \in B
    <2>1. B \in SUBSET (1 .. Len(r))
      BY <1>2
    <2> HIDE DEF B, r
    <2>2. QED
      BY <1>2, <1>8, <2>1, Greatest
  <1>10. PICK k \in B : k = Max(B)
    BY <1>9
  <1>11. ~T(k) /\ results'[d][k] = r[k]
    <2>1. Configs[k].dtype = "fp32"
      BY <1>10
    <2>2. ~T(k)
      BY <2>1 DEF TooSlow
    <2> HIDE DEF T
    <2>3. QED
      BY <1>3, <1>10, <2>2
  <1>12. Configs[k] = [Configs[i] EXCEPT !.dtype = "fp32"]
    <2>1. PICK s, t : Configs[i] = [shape |-> s, dtype |-> t]
      <3>1. DOMAIN Configs = 1 .. Len(Configs) /\ Len(Configs) \in Nat
        BY CommandLine DEF TypeOK
      <3>2. \A j \in DOMAIN Configs : \E s, t : Configs[j] = [shape |-> s, dtype |-> t]
        BY DEF Configs
      <3>3. i \in DOMAIN Configs
        BY <1>1, <1>2, <3>1 DEF Complete
      <3>4. QED
        BY <3>2, <3>3
    <2>2. QED
      BY <1>10, <2>1
  <1>13. r[i].tflops \in Nat /\ base \in Nat /\ job.ratio * base \in Int
    <2>1. r[i].tflops \in Nat /\ r[k].tflops \in Nat
      <3>1. \A q \in Result : q.tflops \in Nat
        <4>1. \A q \in Result : q.tflops \in Medians \cup {0}
          BY DEF Result
        <4>2. Medians \cup {0} \subseteq Nat
          BY GemmAssumption
        <4>3. QED
          BY <4>1, <4>2
      <3>2. i \in DOMAIN r /\ k \in DOMAIN r
        BY <1>10
      <3> HIDE DEF r
      <3>3. QED
        BY <1>2, <3>1, <3>2
    <2>2. base = r[k].tflops
      BY <1>8, <1>10
    <2> HIDE DEF base, r
    <2>3. QED
      BY <1>1, <2>1, <2>2
  <1>14. r[i].tflops >= job.ratio * r[k].tflops
    <2>1. base = r[k].tflops
      BY <1>8, <1>10
    <2> HIDE DEF base, r
    <2>2. QED
      BY <1>7, <1>13, <2>1
  <1>15. QED
    BY <1>3, <1>6, <1>10, <1>11, <1>12, <1>14

(* What was earned.                                                        *)
LEMMA GradedStep ==
  ASSUME IInv, Step
  PROVE  Graded'
  <1> DEFINE All    == \A d \in Known : \A i \in DOMAIN results[d] : Earned(results[d][i])
             Asked  == /\ stop = "clear" /\ job.ratio > 0
                       /\ main \in {"outputs", "report"} \/ (main = "exit" /\ rc = 0)
             Ahead  == \A d \in perDevice : \A i \in DOMAIN results[d] : Beaten(d, i)
             Zero   == main = "exit" /\ rc = 0
  <1>1. TypeOK /\ Started /\ Running /\ Collected /\ Ending /\ Complete /\ Measured
    BY DEF IInv
  <1>2. All /\ (Asked => Ahead) /\ (Zero => ReportCode = 0)
    BY DEF IInv, Graded
  <1>3. job' = job /\ Configs' = Configs
    BY SameJob
  <1>4. SUFFICES All' /\ (Asked' => Ahead') /\ (Zero' => ReportCode' = 0)
    BY DEF Graded
  <1>a. ASSUME results' = results
        PROVE  All'
    BY <1>2, <1>3, <1>a DEF Earned
  <1>b. ASSUME results' = results, perDevice' = perDevice, Asked' => Asked, Zero' => Zero
        PROVE  All' /\ (Asked' => Ahead') /\ (Zero' => ReportCode' = 0)
    <2>1. Ahead => Ahead'
      BY <1>3, <1>b DEF Beaten
    <2>2. ReportCode' = ReportCode
      BY <1>b DEF ReportCode, Statuses
    <2> HIDE DEF All, Asked, Ahead, Zero
    <2>3. QED
      BY <1>2, <1>a, <1>b, <2>1, <2>2
  <1>5. CASE NextBatch \/ Single \/ Collect \/ Leave
    <2>1. results' = results /\ main' \notin {"outputs", "report"}
      BY <1>5 DEF NextBatch, Single, Collect, Leave, threadVars
    <2>2. ~(main' = "exit" /\ rc' = 0)
      BY <1>5 DEF NextBatch, Single, Collect, Leave
    <2>3. QED
      BY <1>a, <2>1, <2>2
  <1>6. CASE ApplyTensorRatio
    <2>1. main' = "outputs" /\ stop' = stop /\ perDevice' = perDevice
      BY <1>6 DEF ApplyTensorRatio
    <2>2. All'
      <3>1. ASSUME NEW d \in Known, NEW i \in DOMAIN results'[d]
            PROVE  Earned(results[d][i])'
        <4>1. i \in DOMAIN results[d] /\ results[d] \in Seq(Result)
          BY <1>1, <1>6, RatioStep DEF TypeOK
        <4>2. results[d][i] \in Result /\ Earned(results[d][i])
          BY <1>2, <4>1, LenProperties
        <4>3. \/ results'[d][i] = results[d][i]
              \/ results'[d][i] = [results[d][i] EXCEPT !.status = "FAIL"]
          BY <1>1, <1>6, <4>1, RatioStep
        <4>4. Earned(results'[d][i])
          BY <4>2, <4>3 DEF Earned, Result
        <4>5. QED
          BY <1>3, <4>4 DEF Earned
      <3>2. QED
        BY <3>1
    <2>3. Asked' => Ahead'
      <3>1. SUFFICES ASSUME Asked', NEW d \in perDevice, NEW i \in DOMAIN results'[d]
                     PROVE  Beaten(d, i)'
        BY <2>1
      <3>2. stop # "set" /\ job.ratio > 0
        BY <1>3, <2>1, <3>1
      <3>3. d \in Known
        <4>1. Devices \in Seq(Known)
          BY <1>1, CommandLine DEF TypeOK
        <4>2. DOMAIN Devices = 1 .. Len(Devices) /\ \A k \in 1 .. Len(Devices) : Devices[k] \in Known
          BY <4>1, LenProperties
        <4>3. QED
          BY <1>1, <4>2 DEF TypeOK, ToSet
      <3>4. i \in DOMAIN results[d]
        BY <1>1, <1>6, <3>3, RatioStep
      <3>5. QED
        BY <1>1, <1>6, <3>2, <3>4, Swept
    <2> HIDE DEF All, Asked, Ahead
    <2>4. QED
      BY <2>1, <2>2, <2>3
  <1>7. CASE WriteOutputs
    <2>1. /\ results' = results /\ perDevice' = perDevice /\ stop' = stop
          /\ main = "outputs" /\ main' \in {"exit", "report"}
          /\ main' = "exit" => rc' = 1
      BY <1>7 DEF WriteOutputs, threadVars
    <2>2. QED
      BY <1>3, <1>b, <2>1
  <1>8. CASE Report
    <2>1. /\ results' = results /\ perDevice' = perDevice /\ stop' = stop
          /\ main = "report" /\ main' = "exit"
          /\ rc' = IF stop = "set" THEN 130 ELSE ReportCode
      BY <1>8 DEF Report, threadVars
    <2>2. ReportCode' = ReportCode
      BY <2>1 DEF ReportCode, Statuses
    <2>3. Asked' => Asked
      BY <1>3, <2>1
    <2>4. Ahead => Ahead'
      BY <1>3, <2>1 DEF Beaten
    <2>5. Zero' => ReportCode' = 0
      BY <2>1, <2>2
    <2> HIDE DEF All, Asked, Ahead, Zero
    <2>6. QED
      BY <1>2, <1>a, <2>1, <2>3, <2>4, <2>5
  <1>9. CASE Interrupt
    <2>1. /\ results' = results /\ perDevice' = perDevice
          /\ main' \notin {"outputs", "report"} /\ (main' = "exit" => rc' = 130)
      BY <1>1, <1>9, InterruptStep DEF configVars
    <2>2. QED
      BY <1>b, <2>1
  <1>10. CASE Work
    <2>1. PICK d \in Known : Thread(d) \/ Abort(d)
      BY <1>10 DEF Work
    <2>2. /\ UNCHANGED <<main, perDevice, rc, stop, reported>> /\ ~Idle(d)
          /\ \A e \in Known \ {d} : results'[e] = results[e]
      BY <2>1, WorkerStep
    <2>3. ~Asked' /\ ~Zero'
      <3>1. ~(stop = "clear" /\ (main \in {"returned", "outputs", "report"} \/ reported = "yes"))
        BY <1>1, <2>2 DEF Collected
      <3>2. main = "exit" /\ rc = 0 => reported = "yes" /\ stop = "clear"
        BY <1>1 DEF Ending
      <3>3. QED
        BY <2>2, <3>1, <3>2
    <2>4. All'
      <3>1. ASSUME NEW e \in Known \ {d}, NEW i \in DOMAIN results'[e]
            PROVE  Earned(results[e][i])'
        BY <1>2, <1>3, <2>2 DEF Earned
      <3>2. ASSUME NEW i \in DOMAIN results'[d]
            PROVE  Earned(results[d][i])'
        <4>1. CASE results'[d] = results[d]
          BY <1>2, <1>3, <4>1 DEF Earned
        <4>2. CASE \E r \in Result : Conclude(d, r) /\ Earned(r)
          <5>1. PICK r \in Result : Conclude(d, r) /\ Earned(r)
            BY <4>2
          <5>2. /\ DOMAIN results'[d] = 1 .. Len(results[d]) + 1
                /\ DOMAIN results[d] = 1 .. Len(results[d])
                /\ \A j \in DOMAIN results[d] : results'[d][j] = results[d][j]
                /\ results'[d][Len(results[d]) + 1] = r
            BY <1>1, <5>1, Appended
          <5>3. Len(results[d]) \in Nat
            <6>1. results[d] \in Seq(Result)
              BY <1>1 DEF TypeOK
            <6>2. QED
              BY <6>1, LenProperties
          <5>4. Earned(results'[d][i])
            BY <1>2, <5>1, <5>2, <5>3
          <5>5. QED
            BY <1>3, <5>4 DEF Earned
        <4>3. QED
          BY <2>1, <4>1, <4>2, WorkerStep
      <3>3. QED
        BY <3>1, <3>2
    <2> HIDE DEF All, Asked, Zero
    <2>5. QED
      BY <2>3, <2>4
  <1>11. CASE UNCHANGED vars
    <2>1. UNCHANGED <<results, perDevice, stop, main, rc>>
      BY <1>11 DEF vars, threadVars, mainVars
    <2>2. QED
      BY <1>3, <1>b, <2>1
  <1>12. QED
    BY <1>5, <1>6, <1>7, <1>8, <1>9, <1>10, <1>11 DEF Step, Main
------------------------------------------------------------------------------

(* The invariant holds when run_all is about to start.                     *)
LEMMA Beginning ==
  ASSUME Init
  PROVE  IInv
  <1>1. /\ Devices \in Seq(Known) /\ Len(Devices) \in Nat
        /\ Len(Configs) \in Nat
    BY CommandLine, LenProperties DEF Init
  <1>2. Devices # <<>> => Len(Batches) \in Nat \ {0}
    BY BatchType DEF Init
  <1>3. /\ results = [d \in Known |-> <<>>] /\ main \in {"exit", "batches"} /\ rc \in {0, 1}
        /\ main = "exit" => rc = 1
        /\ main = "batches" => rc = 0 /\ Devices # <<>>
        /\ main = "exit" <=> Devices = <<>>
    BY DEF Init
  <1>4. \A d \in Known : results[d] = <<>> /\ Len(results[d]) = 0 /\ DOMAIN results[d] = {}
    <2>1. Len(<<>>) = 0 /\ DOMAIN <<>> = {}
      OBVIOUS
    <2>2. QED
      BY <1>3, <2>1
  <1>5. TypeOK
    <2>1. results \in [Known -> Seq(Result)]
      BY <1>3
    <2>2. QED
      BY <1>1, <1>3, <2>1, GemmAssumption DEF Init, TypeOK, Output
  <1>6. Started
    BY <1>2, <1>3 DEF Init, Started
  <1>7. Running
    BY <1>3 DEF Init, Running, Idle
  <1>8. Collected
    BY <1>3 DEF Init, Collected
  <1>9. Ending
    BY <1>3 DEF Init, Ending
  <1>10. Complete
    BY <1>1, <1>4 DEF Init, Complete
  <1>11. Measured
    BY DEF Init, Measured
  <1>12. Graded
    BY <1>3, <1>4 DEF Init, Graded
  <1>13. QED
    BY <1>5, <1>6, <1>7, <1>8, <1>9, <1>10, <1>11, <1>12 DEF IInv

(* The invariant holds in every reachable state.                           *)
THEOREM Invariance == Spec => []IInv
  <1>1. Init => IInv
    BY Beginning
  <1>2. IInv /\ [Next]_vars => IInv'
    <2>1. SUFFICES ASSUME IInv, [Next]_vars
                   PROVE  IInv'
      OBVIOUS
    <2>2. Step
      BY <2>1, NextIsStep
    <2>3. QED
      BY <2>1, <2>2, TypingStep, StartedStep, RunningStep, CollectedStep, EndingStep,
         CompleteStep, MeasuredStep, GradedStep DEF IInv
  <1>3. QED
    BY <1>1, <1>2, PTL DEF Spec

(* Every variable keeps its type.                                          *)
THEOREM Typing == Spec => []TypeOK
  <1>1. IInv => TypeOK
    BY DEF IInv
  <1>2. QED
    BY <1>1, Invariance, PTL

(* --max-parallel bounds the devices that run at once, for any number of   *)
(* devices, wherever the run is interrupted.                               *)
THEOREM Power == Spec => []PowerBudget
  <1>1. IInv => PowerBudget
    <2> SUFFICES ASSUME IInv
                 PROVE  PowerBudget
      OBVIOUS
    <2> DEFINE On == {d \in Known : ~Idle(d)}
    <2>1. TypeOK /\ Started /\ Running
      BY DEF IInv
    <2>2. BatchSize \in Nat
      BY <2>1, CommandLine DEF TypeOK
    <2>3. CASE num > 0
      <3>1. /\ Len(Batch) \in Nat /\ DOMAIN Batch = 1 .. Len(Batch) /\ Len(Batch) <= BatchSize
            /\ \A i \in 1 .. Len(Batch) : Batch[i] \in ToSet(Batch)
        BY <2>1, <2>3, CurrentBatch
      <3>2. On \subseteq ToSet(Batch)
        BY <2>1 DEF Running
      <3> DEFINE f == [i \in 1 .. Len(Batch) |-> Batch[i]]
      <3>3. f \in Surjection(1 .. Len(Batch), ToSet(Batch))
        BY <3>1 DEF Surjection, ToSet
      <3>4. IsFiniteSet(1 .. Len(Batch)) /\ Cardinality(1 .. Len(Batch)) = Len(Batch)
        BY <3>1, FS_Interval
      <3>5. IsFiniteSet(ToSet(Batch)) /\ Cardinality(ToSet(Batch)) <= Len(Batch)
        BY <3>3, <3>4, FS_Surjection
      <3>6. Cardinality(On) <= Cardinality(ToSet(Batch)) /\ IsFiniteSet(On)
        BY <3>2, <3>5, FS_Subset
      <3>7. Cardinality(On) \in Nat /\ Cardinality(ToSet(Batch)) \in Nat
        BY <3>5, <3>6, FS_CardinalityType
      <3>8. QED
        BY <2>2, <3>1, <3>5, <3>6, <3>7 DEF PowerBudget
    <2>4. CASE ~(num > 0)
      <3>1. On = {}
        BY <2>1, <2>4 DEF Running
      <3>2. QED
        BY <2>2, <3>1, FS_EmptySet DEF PowerBudget
    <2>5. QED
      BY <2>3, <2>4
  <1>2. QED
    BY <1>1, Invariance, PTL

(* A config passes only with all its products made and none of those that  *)
(* were compared over the tolerance.                                       *)
THEOREM Passes == Spec => []PassIsEarned
  <1>1. IInv => PassIsEarned
    BY DEF IInv, Graded, Earned, PassIsEarned, ToSet
  <1>2. QED
    BY <1>1, Invariance, PTL

(* The devices that must be in a report are.                               *)
LEMMA Reporting ==
  ASSUME IInv, reported = "yes"
  PROVE  /\ \A b \in 1 .. num - 1 : ToSet(Batches[b]) \subseteq perDevice
         /\ stop = "clear" => perDevice = ToSet(Devices)
  <1>1. TypeOK /\ Started /\ Collected
    BY DEF IInv
  <1>2. Devices # <<>> /\ job \in Jobs
    BY <1>1 DEF Started, TypeOK
  <1>3. /\ Len(Batches) \in Nat \ {0}
        /\ ToSet(Devices) \subseteq UNION {ToSet(Batches[b]) : b \in 1 .. Len(Batches)}
    BY <1>2, BatchType
  <1>4. ASSUME stop = "clear"
        PROVE  perDevice = ToSet(Devices)
    <2>1. num = Len(Batches) /\ ToSet(Batches[num]) \subseteq perDevice
      BY <1>1, <1>4 DEF Collected, Batch
    <2>2. \A b \in 1 .. Len(Batches) : ToSet(Batches[b]) \subseteq perDevice
      BY <1>1, <1>3, <2>1 DEF Collected
    <2>3. ASSUME NEW x \in ToSet(Devices)
          PROVE  x \in perDevice
      <3>1. PICK b \in 1 .. Len(Batches) : x \in ToSet(Batches[b])
        BY <1>3
      <3>2. QED
        BY <2>2, <3>1
    <2>4. QED
      BY <1>1, <2>3 DEF TypeOK
  <1>5. QED
    BY <1>1, <1>4 DEF Collected

(* A report leaves out no device of a batch before the last one, and       *)
(* without an interrupt none at all.                                       *)
THEOREM Reports == Spec => []EarlierReported
  <1>1. IInv => EarlierReported
    BY Reporting DEF EarlierReported
  <1>2. QED
    BY <1>1, Invariance, PTL

(* Exit status 0 is given only to a run without interrupts in which every  *)
(* device has a result for every config, one passed, none failed, and the  *)
(* ratio holds.                                                            *)
THEOREM Zero == Spec => []ZeroIsEarned
  <1>1. IInv => ZeroIsEarned
    <2> SUFFICES ASSUME IInv, main = "exit", rc = 0
                 PROVE  /\ interrupts = 0 /\ reported = "yes"
                        /\ perDevice = ToSet(Devices) /\ "PASS" \in Statuses
                        /\ \A d \in perDevice :
                             /\ Len(results[d]) = Len(Configs)
                             /\ \A i \in DOMAIN results[d] :
                                  /\ results[d][i].status \in {"PASS", "SKIP"}
                                  /\ job.ratio > 0 => Beaten(d, i)
      BY DEF ZeroIsEarned, Beaten
    <2>1. TypeOK /\ Ending /\ Complete /\ Graded
      BY DEF IInv
    <2>2. reported = "yes" /\ stop = "clear" /\ interrupts = 0
      BY <2>1 DEF Ending
    <2>3. perDevice = ToSet(Devices)
      BY <2>2, Reporting
    <2>4. ReportCode = 0
      BY <2>1 DEF Graded
    <2>5. "PASS" \in Statuses /\ Bad \cap Statuses = {}
      BY <2>4 DEF ReportCode, Bad
    <2>6. ASSUME NEW d \in perDevice
          PROVE  /\ Len(results[d]) = Len(Configs)
                 /\ \A i \in DOMAIN results[d] :
                      /\ results[d][i].status \in {"PASS", "SKIP"}
                      /\ job.ratio > 0 => Beaten(d, i)
      <3>1. d \in Known
        <4>1. Devices \in Seq(Known)
          BY <2>1, CommandLine DEF TypeOK
        <4>2. DOMAIN Devices = 1 .. Len(Devices) /\ \A k \in 1 .. Len(Devices) : Devices[k] \in Known
          BY <4>1, LenProperties
        <4>3. QED
          BY <2>3, <4>2 DEF ToSet
      <3>2. \A i \in DOMAIN results[d] : results[d][i].status \in Statuses
        BY DEF Statuses, ToSet
      <3>3. \A i \in DOMAIN results[d] : results[d][i] \in Result
        <4>1. results[d] \in Seq(Result)
          BY <2>1, <3>1 DEF TypeOK
        <4>2. QED
          BY <4>1, LenProperties
      <3>4. \A i \in DOMAIN results[d] : results[d][i].status \in {"PASS", "SKIP"}
        <4>1. \A i \in DOMAIN results[d] :
                results[d][i].status \in {"PASS", "FAIL", "ERROR", "SKIP"}
          BY <3>3 DEF Result
        <4>2. QED
          BY <2>5, <3>2, <4>1 DEF Bad
      <3>5. Len(results[d]) = Len(Configs)
        <4>1. Through(d)
          BY <2>1, <3>1 DEF Complete
        <4>2. QED
          BY <2>2, <2>5, <3>2, <4>1 DEF Through
      <3>6. job.ratio > 0 => \A i \in DOMAIN results[d] : Beaten(d, i)
        BY <2>1, <2>2 DEF Graded
      <3>7. QED
        BY <3>4, <3>5, <3>6
    <2>7. QED
      BY <2>2, <2>3, <2>5, <2>6
  <1>2. QED
    BY <1>1, Invariance, PTL
==============================================================================
