------------------------------ MODULE Captures ------------------------------
(***************************************************************************)
(* Kernel-log captures from the GPU to the reports of the two decoders.    *)
(* The collectors (kernel modules that are not published) record and dump, *)
(* several at a time; the log loses, cuts or repeats lines; the decoders   *)
(* read what is left.  What really happened stays in scenario, and the     *)
(* properties compare the reports with it.                                 *)
(***************************************************************************)
EXTENDS StageDecoder, TopDecoder

CONSTANTS
  MaskOrder,   \* the mask registers in the order they are printed
  SymbolOrder,
  Scenarios,   \* what the collectors saw
  Losses       \* "lines": at most two lines anywhere; "burst": one gap

(* Every mask register and every probed function is printed once.          *)
ASSUME OrderAssumption ==
  /\ MaskOrder \in Seq(MaskRegs) /\ ToSet(MaskOrder) = MaskRegs
  /\ SymbolOrder \in Seq(MissedSymbols) /\ ToSet(SymbolOrder) = MissedSymbols
  /\ \A i, k \in DOMAIN MaskOrder : MaskOrder[i] = MaskOrder[k] => i = k
  /\ \A i, k \in DOMAIN SymbolOrder : SymbolOrder[i] = SymbolOrder[k] => i = k
  /\ Families # {} /\ MissedSymbols # {}
  /\ Families \cap {"pmc", "gpcs", "pipe", "tpc", "ppc"} = {}
  /\ MaxGpcs \in Nat \ {0} /\ PpcsPerGpc \in Nat /\ TopWords \in Nat
  /\ "none" \notin Bdfs

VARIABLES
  scenario,
  pos,        \* how much of its dump each collector has printed
  printed,    \* the log as printed, and
  text,       \* as it was saved
  noise,      \* what happened to it in between
  phase, stageReport, topReport

vars == <<scenario, pos, printed, text, noise, phase, stageReport, topReport>>

------------------------------------------------------------------------------
(* The stage collector.  A life of the driver has some reset pairs after   *)
(* post_return and after ctxctl_return, may end with a failing return, and *)
(* may change the masks at one event; the collector may have missed some   *)
(* events, had no room for them, or read all ones from one of them on.     *)
ResetPairs(n) ==
  [i \in 1 .. 2 * n |-> IF i % 2 = 1 THEN "gr_reset_mask_return" ELSE "gr_reset_return"]

Course(life) == SubSeq(CoreSequence, 1, 3) \o ResetPairs(life.resets)
                \o SubSeq(CoreSequence, 6, 9) \o ResetPairs(life.trailing)
Events(life) == IF life.fault = "failed" THEN SubSeq(Course(life), 1, life.at)
                ELSE Course(life)

Observed(life, i) ==
  LET name == Events(life)[i]
      gone == life.fault = "gone" /\ i >= life.at
      true(r) == IF r = Pmc THEN GrBit
                 ELSE IF r \in MaskRegs THEN (IF life.flip > 0 /\ i >= life.flip THEN 1 ELSE 0)
                 ELSE 1
  IN  [name |-> name,
       rc |-> IF life.fault = "failed" /\ i = life.at THEN -22 ELSE ExpectedRc(name),
       post |-> IF name \in {"post_entry", "post_return"} THEN life.post ELSE -1,
       invalid |-> IF gone THEN 1 ELSE 0,
       vals |-> [r \in PhysicalRegs \cup
                       (IF name \in LogicalStages
                        THEN {Gpcs, Pipe} \cup Counts(1) \cup Masks(1) ELSE {})
                 |-> IF gone THEN AllOnes ELSE true(r)]]

(* Where something went wrong there are events, and no mask changes after  *)
(* the last.                                                               *)
Life == {l \in [bdf : Bdfs, resets : Nat, trailing : Nat, post : {0, 1}, flip : Nat,
                fault : {"none", "failed", "gone", "missed", "dropped"}, at : Nat, to : Nat] :
           /\ l.flip <= Len(Course(l))
           /\ l.fault # "none" => l.at \in 1 .. Len(Course(l))
           /\ l.fault \in {"missed", "dropped"} => l.to \in l.at .. Len(Course(l))}

(* What the collector stored: events at .. to may not be there.            *)
Stored(life) ==
  LET gap == IF life.fault \in {"missed", "dropped"} THEN life.to - life.at + 1 ELSE 0
  IN  [i \in 1 .. Len(Events(life)) - gap |->
         Observed(life, IF gap > 0 /\ i >= life.at THEN i + gap ELSE i)]

Order(name) == <<Pmc>> \o MaskOrder \o
  (IF name \in LogicalStages
   THEN <<Gpcs, Pipe, <<"tpc", 1>> >> \o [p \in 1 .. PpcsPerGpc |-> <<"ppc", 10 + p>>]
   ELSE <<>>)

(* The lines of a dump, and the dump.                                      *)
Armed(life) == [from |-> "cmp100_stage_ro", cut |-> FALSE, m |-> "ARMED",
                bdf |-> life.bdf, type |-> LiveGrType]
Begin(life) == [from |-> "cmp100_stage_ro", cut |-> FALSE, m |-> "BEGIN",
                bdf |-> life.bdf, records |-> Len(Stored(life)), pmu |-> life.post,
                dropped |-> IF life.fault = "dropped" THEN 1 ELSE 0]
Stage(life, i) == [from |-> "cmp100_stage_ro", cut |-> FALSE, m |-> "STAGE", seq |-> i - 1,
                   name |-> Stored(life)[i].name, rc |-> Stored(life)[i].rc,
                   post |-> Stored(life)[i].post, invalid |-> Stored(life)[i].invalid]
Value(life, i, r) == [from |-> "cmp100_stage_ro", cut |-> FALSE, m |-> "VALUE", seq |-> i - 1,
                      reg |-> r, value |-> Stored(life)[i].vals[r]]
Missed(life, i) == [from |-> "cmp100_stage_ro", cut |-> FALSE, m |-> "MISSED",
                    symbol |-> SymbolOrder[i],
                    n |-> IF i = 1 /\ life.fault = "missed" THEN 1 ELSE 0]
Ended(life) == [from |-> "cmp100_stage_ro", cut |-> FALSE, m |-> "END", bdf |-> life.bdf]

Block(life, i) ==
  LET regs == Order(Stored(life)[i].name)
  IN  <<Stage(life, i)>> \o [k \in DOMAIN regs |-> Value(life, i, regs[k])]

StageDump(life) ==
  <<Armed(life), Begin(life)>>
  \o FlattenSeq([i \in DOMAIN Stored(life) |-> Block(life, i)])
  \o [i \in DOMAIN SymbolOrder |-> Missed(life, i)]
  \o <<Ended(life)>>

(* The TOP collector: a table and the PMC register of one GPU, with the    *)
(* address on the delimiters or not.                                       *)
Mark(snap, m) == [from |-> "cmp100_boot_ro", cut |-> FALSE, m |-> m,
                  bdf |-> IF snap.marked THEN snap.bdf ELSE "none"]
Reg(snap, r, v) == [from |-> "cmp100_boot_ro", cut |-> FALSE, m |-> "REG",
                    bdf |-> snap.bdf, reg |-> r, value |-> v]

TopDump(snap) ==
  <<Mark(snap, "BEGIN")>>
  \o [i \in 1 .. TopWords |-> Reg(snap, TopReg(i - 1), snap.table[i])]
  \o <<Reg(snap, PmcReg, snap.pmc), Mark(snap, "END")>>

TopWord  == [kind : 0 .. 3, more : BOOLEAN, inst : Nat, reset : Int, type : STRING,
             ones : BOOLEAN, bits : SUBSET Nat]
Snapshot == [bdf : Bdfs, marked : BOOLEAN, table : [1 .. TopWords -> TopWord], pmc : TopWord]

(* A scenario has lives, one after the other, or snapshots of two GPUs at  *)
(* the same time.  A stage dump is printed as a whole, the lines of TOP    *)
(* dumps interleave.                                                       *)
ASSUME ScenarioAssumption ==
  \A s \in Scenarios :
    \/ s.kind = "lives" /\ s.of \in Seq(Life) /\ s.of # <<>>
    \/ /\ s.kind = "snapshots" /\ s.of \in Seq(Snapshot)
       /\ \A i, k \in DOMAIN s.of : s.of[i].bdf = s.of[k].bdf => i = k

Chunks(c) ==
  CASE scenario.kind = "lives" -> IF c = 1 THEN [i \in DOMAIN scenario.of |-> StageDump(scenario.of[i])]
                                           ELSE <<>>
    [] scenario.kind = "snapshots" ->
         IF c \in DOMAIN scenario.of
         THEN LET dump == TopDump(scenario.of[c]) IN [i \in DOMAIN dump |-> <<dump[i]>>]
         ELSE <<>>

Collectors == {1, 2}
------------------------------------------------------------------------------
NoStages == [run |-> <<>>, errors |-> {}, changed |-> {}, code |-> 2]
NoTop    == [snapshots |-> <<>>, valid |-> FALSE]

Init ==
  /\ scenario \in Scenarios
  /\ pos = [c \in Collectors |-> 0]
  /\ printed = <<>> /\ text = <<>> /\ noise = "none" /\ phase = "printing"
  /\ stageReport = NoStages /\ topReport = NoTop

Dump(c) ==
  /\ phase = "printing"
  /\ pos[c] < Len(Chunks(c))
  /\ printed' = printed \o Chunks(c)[pos[c] + 1]
  /\ pos' = [pos EXCEPT ![c] = @ + 1]
  /\ UNCHANGED <<scenario, text, noise, phase, stageReport, topReport>>

Printed == \A c \in Collectors : pos[c] = Len(Chunks(c))
Lines   == 1 .. Len(printed)

Saved(how, log) ==
  /\ phase = "printing" /\ Printed
  /\ noise' = how /\ text' = log /\ phase' = "saved"
  /\ UNCHANGED <<scenario, pos, printed, stageReport, topReport>>

SaveWhole == Saved("none", printed)

(* Lines i and k are lost, in a burst those between them as well.          *)
Without(i, k) == SubSeq(printed, 1, i - 1)
                 \o (IF Losses = "burst" THEN <<>> ELSE SubSeq(printed, i + 1, k - 1))
                 \o SubSeq(printed, k + 1, Len(printed))

SaveSome == \E i, k \in Lines : i <= k /\ Saved("lost", Without(i, k))

(* A line that lost its fields, that is there twice, or the log appended   *)
(* to itself.                                                              *)
SaveCut      == \E i \in Lines : Saved("cut", [printed EXCEPT ![i].cut = TRUE])
SaveRepeated == \E i \in Lines :
  Saved("repeated", SubSeq(printed, 1, i) \o SubSeq(printed, i, Len(printed)))
SaveTwice    == Saved("twice", printed \o printed)

Decode ==
  /\ phase = "saved"
  /\ phase' = "decoded"
  /\ stageReport' = DecodeStages(text) /\ topReport' = DecodeTop(text)
  /\ UNCHANGED <<scenario, pos, printed, text, noise>>

Terminated == phase = "decoded" /\ UNCHANGED vars

Next == \/ \E c \in Collectors : Dump(c)
        \/ SaveWhole \/ SaveSome \/ SaveCut \/ SaveRepeated \/ SaveTwice
        \/ Decode \/ Terminated

Spec == Init /\ [][Next]_vars
------------------------------------------------------------------------------
(* Properties.                                                             *)

Accepted == phase = "decoded" /\ scenario.kind = "lives" /\ stageReport.code = 0
Legal(life) == life.resets = 1 /\ life.fault = "none"

SameStages(run, life) ==
  /\ Len(run.stages) = Len(Stored(life))
  /\ \A i \in DOMAIN run.stages : /\ run.stages[i].name = Stored(life)[i].name
                                  /\ ValueMap(run.stages[i]) = Stored(life)[i].vals

(* A run that is accepted is, stage by stage and register by register,     *)
(* what one collector recorded of one life, and that life was complete:    *)
(* nothing is put together from two captures, taken for another stage's,   *)
(* or missed without being noticed.                                        *)
AcceptedIsWitnessed == Accepted =>
  \E life \in ToSet(scenario.of) : Legal(life) /\ SameStages(stageReport.run[1], life)

(* A log of legal lives in which nothing was lost is accepted, and the     *)
(* last life is what is reported.                                          *)
CleanAccepted ==
  (/\ phase = "decoded" /\ scenario.kind = "lives" /\ noise \in {"none", "twice"}
   /\ \A life \in ToSet(scenario.of) : Legal(life))
  => Accepted /\ SameStages(stageReport.run[1], scenario.of[Len(scenario.of)])

(* The mask comparison of an accepted run names the one pair of stages     *)
(* between which the masks changed, and no other.                          *)
ComparisonExact == Accepted =>
  \E life \in ToSet(scenario.of) :
    /\ SameStages(stageReport.run[1], life)
    /\ stageReport.changed = IF life.flip > 1 THEN {life.flip - 1} ELSE {}

(* The reset selectors of the GR engines in a table, by position: a device *)
(* is a maximal stretch of words that are valid, all but the last with the *)
(* continuation bit.                                                       *)
ValidWords(t) == {i \in DOMAIN t : t[i].kind # 0}
DeviceEnds(t) == {i \in ValidWords(t) : ~t[i].more}
DeviceWords(t, e) ==
  {i \in ValidWords(t) : i <= e /\ \A f \in DeviceEnds(t) : f < e => f < i}
LastOf(t, S, default, field) == IF S = {} THEN default ELSE t[Max(S)][field]
EngineType(t, e) == LastOf(t, {i \in DeviceWords(t, e) : t[i].kind = 3}, "none", "type")
Selector(t, e) ==
  LastOf(t, {i \in DeviceWords(t, e) : t[i].kind = 2 /\ t[i].reset >= 0}, -1, "reset")
GrSelectors(t) == {<<e, Selector(t, e)>> : e \in {e \in DeviceEnds(t) : EngineType(t, e) = "GR"}}
Unfinished(t)  == ValidWords(t) # {} /\ Max(ValidWords(t)) \notin DeviceEnds(t)

GrSelector(t) ==
  IF Unfinished(t) \/ (\E i \in DOMAIN t : t[i].ones) \/ Cardinality(GrSelectors(t)) # 1 THEN -1
  ELSE (CHOOSE p \in GrSelectors(t) : TRUE)[2]

(* A derived GR reset selector is the one of the only GR engine in the     *)
(* table of the GPU it is reported for, and the engine is reported enabled *)
(* or not as PMC had it, whatever the log lost and however the dumps of    *)
(* two GPUs ran into each other.                                           *)
SelectorWitnessed == phase = "decoded" =>
  \A s \in ToSet(topReport.snapshots) : s.selector # -1 =>
    \E snap \in ToSet(scenario.of) :
      /\ s.bdfs = {snap.bdf}
      /\ s.selector = GrSelector(snap.table)
      /\ s.enabled \in {"unknown", IF s.selector \in snap.pmc.bits THEN "set" ELSE "clear"}

==============================================================================
