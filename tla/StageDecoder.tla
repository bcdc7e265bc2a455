---------------------------- MODULE StageDecoder ----------------------------
(***************************************************************************)
(* tools/decode_gv100_stages.py: the lines of a kernel log into runs, and  *)
(* the checks that make a run valid.  A line is a record whose field m is  *)
(* its marker; a cut line has lost its fields.  Registers are pairs of a   *)
(* name and an index; one of the physical registers stands for those that  *)
(* are only required to be there.  Timestamps follow the sequence numbers  *)
(* and are left out.                                                       *)
(***************************************************************************)
EXTENDS Integers, FiniteSets, SequencesExt

CONSTANTS
  Families,       \* the families of mask registers: raw, ctrl, status
  MaxGpcs,
  PpcsPerGpc,
  MissedSymbols,  \* the probed functions
  Bdfs            \* PCI addresses, strings

LiveGrType == 34
GrBit      == 4096
AllOnes    == -1   \* 0xffffffff as a signed number

CoreSequence == <<"nvidia_baseline", "post_entry", "post_return",
                  "gr_reset_mask_return", "gr_reset_return",
                  "oneinit_entry", "oneinit_return", "ctxctl_entry", "ctxctl_return">>
ResetStages   == {"gr_reset_mask_return", "gr_reset_return"}
OnceStages    == ToSet(CoreSequence) \ ResetStages
LogicalStages == {"nvidia_baseline", "oneinit_return", "ctxctl_entry", "ctxctl_return"}

Pmc    == <<"pmc", 0>>
Gpcs   == <<"gpcs", 0>>
Pipe   == <<"pipe", 0>>
MaskRegs     == Families \X (1 .. MaxGpcs)
PhysicalRegs == {Pmc} \cup MaskRegs
Counts(n)    == {<<"tpc", g>> : g \in 1 .. n}
Masks(n)     == {<<"ppc", g * 10 + p>> : g \in 1 .. n, p \in 1 .. PpcsPerGpc}
LogicalRegs  == {Gpcs, Pipe} \cup Counts(MaxGpcs) \cup Masks(MaxGpcs)

------------------------------------------------------------------------------
(* Reading.                                                                *)
NewRun(ln, armed) ==
  [begin   |-> IF ln.cut THEN "none" ELSE ln.bdf,
   end     |-> "none",
   records |-> IF ln.cut THEN -1 ELSE ln.records,
   dropped |-> IF ln.cut THEN -1 ELSE ln.dropped,
   pmu     |-> IF ln.cut THEN -1 ELSE ln.pmu,
   armed   |-> IF ln.cut THEN 0 ELSE armed[ln.bdf],
   stages  |-> <<>>, missed |-> <<>>, orphans |-> 0,
   unparsed |-> IF ln.cut THEN 1 ELSE 0,
   complete |-> FALSE]

Unparsed(run) == [run EXCEPT !.unparsed = @ + 1]

OnStage(run, ln) ==
  IF ln.cut THEN Unparsed(run)
  ELSE [run EXCEPT !.stages = Append(@,
          [seq |-> ln.seq, name |-> ln.name, rc |-> ln.rc, post |-> ln.post,
           invalid |-> ln.invalid, values |-> <<>>])]

(* A value goes to the stage with its sequence number if that is one.      *)
OnValue(run, ln) ==
  LET S == {i \in DOMAIN run.stages : run.stages[i].seq = ln.seq}
  IN  IF ln.cut THEN Unparsed(run)
      ELSE IF Cardinality(S) # 1 THEN [run EXCEPT !.orphans = @ + 1]
      ELSE [run EXCEPT !.stages[CHOOSE i \in S : TRUE].values =
                         Append(@, [reg |-> ln.reg, value |-> ln.value])]

OnMissed(run, ln) ==
  IF ln.cut THEN Unparsed(run)
  ELSE [run EXCEPT !.missed = Append(@, [symbol |-> ln.symbol, n |-> ln.n])]

OnEnd(run, ln) ==
  [run EXCEPT !.end = IF ln.cut THEN "none" ELSE ln.bdf, !.complete = TRUE]

(* The runs read so far, the open one, and the ARMED types by address.     *)
Begun == [runs |-> <<>>, open |-> <<>>, armed |-> [b \in Bdfs |-> 0]]

FeedStage(acc, ln) ==
  CASE ln.m = "ARMED" -> IF ln.cut THEN acc ELSE [acc EXCEPT !.armed[ln.bdf] = ln.type]
    [] ln.m = "BEGIN" -> [acc EXCEPT !.runs = @ \o acc.open,
                                     !.open = <<NewRun(ln, acc.armed)>>]
    [] ln.m # "ARMED" /\ ln.m # "BEGIN" /\ acc.open = <<>> -> acc
    [] ln.m = "END" /\ acc.open # <<>> ->
         [acc EXCEPT !.runs = Append(@, OnEnd(acc.open[1], ln)), !.open = <<>>]
    [] ln.m = "STAGE"  /\ acc.open # <<>> -> [acc EXCEPT !.open[1] = OnStage(@, ln)]
    [] ln.m = "VALUE"  /\ acc.open # <<>> -> [acc EXCEPT !.open[1] = OnValue(@, ln)]
    [] ln.m = "MISSED" /\ acc.open # <<>> -> [acc EXCEPT !.open[1] = OnMissed(@, ln)]

(* Lines without the prefix are skipped.                                   *)
Feed(acc, ln) == IF ln.from = "cmp100_stage_ro" THEN FeedStage(acc, ln) ELSE acc

(* The n lines after the m-th.                                             *)
ReadLines(acc, text, m, n) ==
  LET read[i \in 0 .. n] == IF i = 0 THEN acc ELSE Feed(read[i - 1], text[m + i])
  IN  read[n]

(* The log is read in pieces: EXCEPT has TLC compute what one piece gives  *)
(* before it reads the next, or the recursion is as deep as the log.       *)
StagePiece == 8

ReadStages(text) ==
  LET pieces == Len(text) \div StagePiece
      read[k \in 0 .. pieces] ==
        IF k = 0 THEN <<Begun>>
        ELSE [read[k - 1] EXCEPT ![1] = ReadLines(@, text, StagePiece * (k - 1), StagePiece)]
  IN  ReadLines(read[pieces][1], text, StagePiece * pieces, Len(text) - StagePiece * pieces)

ParseRuns(text) == LET acc == ReadStages(text) IN acc.runs \o acc.open

------------------------------------------------------------------------------
(* Validation: each operator is the set of error codes of one group.       *)
Flag(code, wrong) == IF wrong THEN {code} ELSE {}

(* _value_map: the first value of each register.                           *)
ValueMap(stage) ==
  LET At(r) == {i \in DOMAIN stage.values : stage.values[i].reg = r}
  IN  [r \in {v.reg : v \in ToSet(stage.values)} |-> stage.values[Min(At(r))].value]

StreamErrors(run) ==
  Flag("missing_end", ~run.complete)
  \cup Flag("missing_begin_bdf", run.begin = "none")
  \cup Flag("bdf_mismatch", run.complete /\ run.begin # run.end)
  \cup Flag("record_count_mismatch", run.records # Len(run.stages))
  \cup Flag("records_dropped", run.dropped # 0)
  \cup Flag("unparsed_capture_lines", run.unparsed > 0)
  \cup Flag("orphan_values", run.orphans > 0)
  \cup Flag("unexpected_live_gr_type", run.armed \notin {0, LiveGrType})
  \cup Flag("noncontiguous_stage_seq",
            \E i \in DOMAIN run.stages : run.stages[i].seq # i - 1)

TopologyErrors(vals) ==
  IF Gpcs \notin DOMAIN vals THEN {"missing_logical_gpc_count"}
  ELSE IF vals[Gpcs] \notin 1 .. MaxGpcs THEN {"invalid_logical_gpc_count"}
  ELSE Flag("missing_compute_pipe_control", Pipe \notin DOMAIN vals)
       \cup Flag("missing_gpc_tpc_counts", ~(Counts(vals[Gpcs]) \subseteq DOMAIN vals))
       \cup Flag("missing_ppc_masks", ~(Masks(vals[Gpcs]) \subseteq DOMAIN vals))

StageErrors(stage) ==
  LET vals == ValueMap(stage)
  IN  Flag("collector_invalid", stage.invalid # 0)
      \cup Flag("negative_return", stage.rc < 0)
      \cup Flag("duplicate_register", Len(stage.values) # Cardinality(DOMAIN vals))
      \cup Flag("all_ones_value", \E r \in DOMAIN vals : vals[r] = AllOnes)
      \cup Flag("missing_physical_registers", ~(PhysicalRegs \subseteq DOMAIN vals))
      \cup IF stage.name \in LogicalStages
           THEN Flag("pmc_gr_bit_clear",
                     Pmc \in DOMAIN vals /\ (vals[Pmc] \div GrBit) % 2 = 0)
                \cup TopologyErrors(vals)
           ELSE Flag("logical_values_at_unsafe_stage", DOMAIN vals \cap LogicalRegs # {})

Named(run, names) == {i \in DOMAIN run.stages : run.stages[i].name \in names}
Seqno(run, i)     == run.stages[i].seq
(* The sequence number of a stage that is there once.                      *)
Only(run, name)   == Seqno(run, CHOOSE i \in Named(run, {name}) : TRUE)
Once(run, name)   == Cardinality(Named(run, {name})) = 1

(* A mask stage and the reset that follows it immediately.                 *)
Paired(run, i, k) ==
  /\ run.stages[i].name = "gr_reset_mask_return"
  /\ run.stages[k].name = "gr_reset_return"
  /\ Seqno(run, k) = Seqno(run, i) + 1

(* The resets between post_return and oneinit_entry.                       *)
InitialResets(run) ==
  IF Once(run, "post_return") /\ Once(run, "oneinit_entry")
  THEN {i \in Named(run, ResetStages) :
          Seqno(run, i) > Only(run, "post_return") /\ Seqno(run, i) < Only(run, "oneinit_entry")}
  ELSE {}

InitialPair(run) ==
  LET R == InitialResets(run)
  IN  IF Cardinality(R) = 2 /\ \E i, k \in R : Paired(run, i, k) THEN R ELSE {}

(* How many of the stages in S come before i: by sequence number, equal    *)
(* ones (which are an error) in the order of the lines.                    *)
Earlier(run, S, i) ==
  {k \in S : \/ Seqno(run, k) < Seqno(run, i)
             \/ Seqno(run, k) = Seqno(run, i) /\ k < i}
Rank(run, S, i) == Cardinality(Earlier(run, S, i))

(* The resets after ctxctl_return, taken two by two.                       *)
TrailingResets(run) ==
  IF Once(run, "ctxctl_return")
  THEN {i \in Named(run, ResetStages) : Seqno(run, i) > Only(run, "ctxctl_return")}
  ELSE {}

(* Mistake: only the initial pair is looked for.                           *)
NoTrailingPairs(run) == {}

TrailingPairs(run) ==
  LET T == TrailingResets(run)
      pair(i, k) == /\ Rank(run, T, i) % 2 = 0 /\ Rank(run, T, k) = Rank(run, T, i) + 1
                    /\ Paired(run, i, k)
  IN  {i \in T : \E k \in T : pair(i, k) \/ pair(k, i)}

(* Every reset is of the initial pair or of a pair after ctxctl.           *)
ResetErrors(run) ==
  LET paired == InitialPair(run) \cup TrailingPairs(run)
  IN  Flag("ambiguous_initial_reset", InitialPair(run) = {})
      \cup Flag("unclassified_reset_events",
                \/ TrailingResets(run) \ TrailingPairs(run) # {}
                \/ \E i \in Named(run, ResetStages) :
                     Seqno(run, i) \notin {Seqno(run, p) : p \in paired})

OrderErrors(run) ==
  LET core == Named(run, OnceStages) \cup InitialPair(run)
  IN  Flag("missing_or_duplicate_stage", \E name \in OnceStages : ~Once(run, name))
      \cup Flag("stage_order",
                /\ \A name \in OnceStages : Once(run, name)
                /\ InitialPair(run) # {}
                /\ \E i \in core : run.stages[i].name # CoreSequence[Rank(run, core, i) + 1])

ExpectedRc(name) == IF name = "gr_reset_mask_return" THEN GrBit ELSE 0

ReturnErrors(run) ==
  LET post(name) == run.stages[CHOOSE i \in Named(run, {name}) : TRUE].post
  IN  Flag("unexpected_return",
           \E i \in DOMAIN run.stages :
             /\ run.stages[i].name \in ToSet(CoreSequence)
             /\ run.stages[i].name \in ResetStages \/ Once(run, run.stages[i].name)
             /\ run.stages[i].rc # ExpectedRc(run.stages[i].name))
      \cup (IF Once(run, "post_entry") /\ Once(run, "post_return")
            THEN Flag("post_value_not_boolean",
                      ~({post("post_entry"), post("post_return")} \subseteq {0, 1}))
                 \cup Flag("post_value_mismatch", post("post_entry") # post("post_return"))
                 \cup Flag("forced_post_requires_pmu",
                           1 \in {post("post_entry"), post("post_return")} /\ run.pmu # 1)
            ELSE {})

(* Mistake: that the counters are there is enough.                         *)
CountersThere(run) ==
  Flag("missing_or_duplicate_missed_counter",
       \E s \in MissedSymbols :
         Cardinality({i \in DOMAIN run.missed : run.missed[i].symbol = s}) # 1)

ProbeErrors(run) ==
  Flag("probe_missed", \E m \in ToSet(run.missed) : m.n # 0)
  \cup Flag("missing_or_duplicate_missed_counter",
            \E s \in MissedSymbols :
              Cardinality({i \in DOMAIN run.missed : run.missed[i].symbol = s}) # 1)

(* _validate_run.                                                          *)
Errors(run) == StreamErrors(run)
               \cup (UNION {StageErrors(s) : s \in ToSet(run.stages)})
               \cup ResetErrors(run) \cup OrderErrors(run) \cup ReturnErrors(run)
               \cup ProbeErrors(run)

------------------------------------------------------------------------------
(* Mistake: every observation is compared with the first.                  *)
ChangedSinceFirst(run) ==
  {i \in 1 .. Len(run.stages) - 1 :
     \E r \in MaskRegs :
       /\ r \in DOMAIN ValueMap(run.stages[1]) \cap DOMAIN ValueMap(run.stages[i + 1])
       /\ ValueMap(run.stages[1])[r] # ValueMap(run.stages[i + 1])[r]}

(* The pairs of successive observations with a mask slot that differs.     *)
Transitions(run) ==
  LET all     == DOMAIN run.stages
      Vals(i) == ValueMap(run.stages[i])
  IN  {Rank(run, all, i) + 1 :
         i \in {i \in all : \E k \in all, r \in MaskRegs :
                  /\ Rank(run, all, k) = Rank(run, all, i) + 1
                  /\ r \in DOMAIN Vals(i) \cap DOMAIN Vals(k)
                  /\ Vals(i)[r] # Vals(k)[r]}}

(* main without --all: the latest complete run, and the exit code.         *)
DecodeStages(text) ==
  LET runs     == ParseRuns(text)
      complete == {i \in DOMAIN runs : runs[i].complete}
  IN  IF complete = {} THEN [run |-> <<>>, errors |-> {}, changed |-> {}, code |-> 2]
      ELSE LET run == runs[Max(complete)]
               errors == Errors(run)
           IN  [run |-> <<run>>, errors |-> errors, changed |-> Transitions(run),
                code |-> IF errors = {} THEN 0 ELSE 2]
==============================================================================
