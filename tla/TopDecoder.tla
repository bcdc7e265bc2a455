----------------------------- MODULE TopDecoder -----------------------------
(***************************************************************************)
(* tools/decode_gv100_top.py: the TOP register table of a GPU from a       *)
(* kernel log, and the reset selector of its GR engine.  A register value  *)
(* is a record of the fields that matter for that: the kind of a TOP word  *)
(* (0 is not valid, 1 DATA, 2 ENUM, 3 ENGINE_TYPE), whether the record     *)
(* continues, the instance (DATA), the reset selector or -1 (ENUM), the    *)
(* type (ENGINE_TYPE), whether all bits are set, and the bits of PMC.      *)
(***************************************************************************)
EXTENDS Integers, FiniteSets, SequencesExt

CONSTANT TopWords   \* 64 in the source

TopReg(i) == <<"top", i>>
PmcReg    == <<"pmc", 0>>

------------------------------------------------------------------------------
(* decode_top_words.                                                       *)
NewRecord == [type |-> "none", inst |-> 0, reset |-> -1]

(* Engines other than CE have one instance whatever the table says.        *)
Finish(r) == [type |-> r.type, inst |-> IF r.type = "CE" THEN r.inst ELSE 0,
              reset |-> r.reset]

Absorb(r, w) ==
  CASE w.kind = 1 -> [r EXCEPT !.inst = w.inst]
    [] w.kind = 2 -> [r EXCEPT !.reset = IF w.reset >= 0 THEN w.reset ELSE @]
    [] w.kind = 3 -> [r EXCEPT !.type = w.type]

(* One word, on the open record and the finished devices.                  *)
Word(acc, w) ==
  LET r == IF acc.open = <<>> THEN NewRecord ELSE acc.open[1]
  IN  IF w.kind = 0 THEN acc
      ELSE IF w.more THEN [acc EXCEPT !.open = <<Absorb(r, w)>>]
      ELSE [devices |-> Append(acc.devices, Finish(Absorb(r, w))), open |-> <<>>]

DecodeWords(words) ==
  LET read[i \in 0 .. Len(words)] ==
        IF i = 0 THEN [devices |-> <<>>, open |-> <<>>] ELSE Word(read[i - 1], words[i])
  IN  read[Len(words)]

------------------------------------------------------------------------------
(* A snapshot is what was read between BEGIN and END.                      *)
Occurrences(s, reg) == {i \in DOMAIN s.regs : s.regs[i].reg = reg}

(* _single_register: a value that occurs once and is not all ones.         *)
Trusted(s, reg) ==
  LET O == Occurrences(s, reg)
  IN  {s.regs[i].value : i \in {i \in O : Cardinality(O) = 1 /\ ~s.regs[i].value.ones}}

AllOnesOnce(s, reg) ==
  LET O == Occurrences(s, reg)
  IN  Cardinality(O) = 1 /\ \E i \in O : s.regs[i].value.ones

BdfsSeen(s) == {r.bdf : r \in ToSet(s.regs)}

(* Mistake: whose registers the lines are is not compared.                 *)
InputValidAnyBdf(s) ==
  /\ s.closed /\ s.regs # <<>>
  /\ \A i \in 0 .. TopWords - 1 :
       /\ Cardinality(Occurrences(s, TopReg(i))) = 1
       /\ \A o \in Occurrences(s, TopReg(i)) : ~s.regs[o].value.ones

(* Complete, of one GPU, every TOP word once and none of them all ones.    *)
InputValid(s) ==
  /\ s.closed
  /\ Cardinality(BdfsSeen(s)) = 1
  /\ {s.begin, s.end} \ {"none"} \subseteq BdfsSeen(s)
  /\ \A i \in 0 .. TopWords - 1 :
       /\ Cardinality(Occurrences(s, TopReg(i))) = 1
       /\ \A o \in Occurrences(s, TopReg(i)) : ~s.regs[o].value.ones

Table(s) == [i \in 1 .. TopWords |->
               s.regs[CHOOSE o \in Occurrences(s, TopReg(i - 1)) : TRUE].value]

(* The selector of the GR engine if there is one such device, or -1.       *)
GrReset(devices) ==
  LET gr == {i \in DOMAIN devices : devices[i].type = "GR" /\ devices[i].inst = 0}
  IN  IF Cardinality(gr) = 1 THEN devices[CHOOSE i \in gr : TRUE].reset ELSE -1

(* _finalize_snapshot: the selector is -1 unless it can be derived.        *)
Finalize(s) ==
  LET decoded  == IF InputValid(s) THEN DecodeWords(Table(s))
                  ELSE [devices |-> <<>>, open |-> <<>>]
      derived  == InputValid(s) /\ decoded.open = <<>>
      selector == IF derived THEN GrReset(decoded.devices) ELSE -1
  IN  [bdfs     |-> BdfsSeen(s),
       devices  |-> IF derived THEN decoded.devices ELSE <<>>,
       selector |-> selector,
       enabled  |-> IF selector = -1 \/ Trusted(s, PmcReg) = {} THEN "unknown"
                    ELSE IF \E v \in Trusted(s, PmcReg) : selector \in v.bits
                         THEN "set" ELSE "clear",
       valid    |-> derived /\ ~AllOnesOnce(s, PmcReg)]

------------------------------------------------------------------------------
(* parse_capture: snapshots, the open one, and the number of complaints.   *)
(* Lines without the prefix are skipped.                                   *)
Field(ln) == IF ln.cut THEN "none" ELSE ln.bdf
Opened(ln) == [begin |-> Field(ln), end |-> "none", closed |-> FALSE, regs |-> <<>>]

NoSnapshots  == [snapshots |-> <<>>, open |-> <<>>, notes |-> 0]

FeedTop(acc, ln) ==
  CASE ln.from # "cmp100_boot_ro" -> acc
    [] ln.from = "cmp100_boot_ro" /\ ln.m = "BEGIN" ->
         [snapshots |-> acc.snapshots \o acc.open, open |-> <<Opened(ln)>>,
          notes |-> acc.notes + Len(acc.open)]
    [] ln.from = "cmp100_boot_ro" /\ ln.m = "END" ->
         IF acc.open = <<>> THEN [acc EXCEPT !.notes = @ + 1]
         ELSE [acc EXCEPT !.open = <<>>,
                 !.snapshots = Append(@, [acc.open[1] EXCEPT !.end = Field(ln),
                                                             !.closed = TRUE])]
    [] ln.from = "cmp100_boot_ro" /\ ln.m = "REG" ->
         IF ln.cut THEN acc
         ELSE IF acc.open = <<>> THEN [acc EXCEPT !.notes = @ + 1]
         ELSE [acc EXCEPT !.open[1].regs =
                 Append(@, [bdf |-> ln.bdf, reg |-> ln.reg, value |-> ln.value])]

(* The n lines after the m-th.                                             *)
ReadTopLines(acc, text, m, n) ==
  LET read[i \in 0 .. n] == IF i = 0 THEN acc ELSE FeedTop(read[i - 1], text[m + i])
  IN  read[n]

(* The log is read in pieces: EXCEPT has TLC compute what one piece gives  *)
(* before it reads the next, or the recursion is as deep as the log.       *)
TopPiece == 8

ReadTop(text) ==
  LET pieces == Len(text) \div TopPiece
      read[k \in 0 .. pieces] ==
        IF k = 0 THEN <<NoSnapshots>>
        ELSE [read[k - 1] EXCEPT ![1] = ReadTopLines(@, text, TopPiece * (k - 1), TopPiece)]
  IN  ReadTopLines(read[pieces][1], text, TopPiece * pieces, Len(text) - TopPiece * pieces)

DecodeTop(text) ==
  LET acc   == ReadTop(text)
      all   == acc.snapshots \o acc.open
      found == [i \in DOMAIN all |-> Finalize(all[i])]
  IN  [snapshots |-> found,
       valid |-> /\ acc.notes = 0 /\ acc.open = <<>> /\ found # <<>>
                 /\ \A i \in DOMAIN found : found[i].valid]
==============================================================================
