--------------------------- MODULE Captures_proofs ---------------------------
(***************************************************************************)
(* What an accepted report says of the GPU, for any capture: lives and     *)
(* tables of any length, any number of lives, any loss.                    *)
(***************************************************************************)
EXTENDS Captures, Decoders_proofs

------------------------------------------------------------------------------
(* A TOP table.  What the decoder has read up to word i: a device for each *)
(* word that ends one, made of the words since the one before, and an open *)
(* record if there are words since the last.                               *)
Ends(t, i) == {e \in DeviceEnds(t) : e <= i}
Since(t, i) == {w \in ValidWords(t) : w <= i /\ \A e \in Ends(t, i) : e < w}
TypeIn(t, W) == LastOf(t, {w \in W : t[w].kind = 3}, "none", "type")
ResetIn(t, W) == LastOf(t, {w \in W : t[w].kind = 2 /\ t[w].reset >= 0}, -1, "reset")
TopRecord == [type : {"none"} \cup STRING, inst : Nat, reset : Int]

DevicesRead(t, devices, i) ==
  \E ends \in [1 .. Len(devices) -> Ends(t, i)] :
    /\ \A e \in Ends(t, i) : \E j \in 1 .. Len(devices) : ends[j] = e
    /\ \A j, k \in 1 .. Len(devices) : ends[j] = ends[k] => j = k
    /\ \A j \in 1 .. Len(devices) :
         /\ devices[j].type = EngineType(t, ends[j])
         /\ devices[j].reset = Selector(t, ends[j])
         /\ devices[j].type = "GR" => devices[j].inst = 0

OpenRead(t, open, i) ==
  IF Since(t, i) = {} THEN open = <<>>
  ELSE \E r \in TopRecord : /\ open = <<r>>
                            /\ r.type = TypeIn(t, Since(t, i))
                            /\ r.reset = ResetIn(t, Since(t, i))

(* A word adds to a record what it is for, also when it is the first.      *)
LEMMA WordAdds ==
  ASSUME TopWords \in Nat, NEW t \in [1 .. TopWords -> TopWord], NEW i \in 0 .. TopWords - 1,
         NEW W, W \subseteq 1 .. i, NEW r \in TopRecord, t[i + 1].kind # 0,
         r.type = TypeIn(t, W), r.reset = ResetIn(t, W)
  PROVE  /\ Absorb(r, t[i + 1]) \in TopRecord
         /\ Absorb(r, t[i + 1]).type = TypeIn(t, W \cup {i + 1})
         /\ Absorb(r, t[i + 1]).reset = ResetIn(t, W \cup {i + 1})
  <1> DEFINE w == t[i + 1]
             T(V) == {v \in V : t[v].kind = 3}
             R(V) == {v \in V : t[v].kind = 2 /\ t[v].reset >= 0}
             V == W \cup {i + 1}
  <1>1. w \in TopWord /\ i + 1 \in 1 .. TopWords
    OBVIOUS
  <1>2. \A S : S \subseteq 1 .. i => Max(S \cup {i + 1}) = i + 1
    <2> TAKE S
    <2> HAVE S \subseteq 1 .. i
    <2> DEFINE X == S \cup {i + 1}
    <2>1. X \subseteq 0 .. i + 1 /\ X # {} /\ i + 1 \in X /\ i + 1 \in Nat
      OBVIOUS
    <2> HIDE DEF X
    <2>2. Max(X) \in X /\ \A x \in X : x <= Max(X)
      BY <2>1, MaxOf
    <2>3. Max(X) \in 0 .. i + 1 /\ i + 1 <= Max(X)
      BY <2>1, <2>2
    <2>4. Max(X) = i + 1
      BY <2>3
    <2>5. QED
      BY <2>4 DEF X
  <1>3. TypeIn(t, V) = IF w.kind = 3 THEN w.type ELSE r.type
    <2>1. CASE w.kind = 3
      <3>1. T(V) = T(W) \cup {i + 1} /\ T(W) \subseteq 1 .. i
        BY <2>1
      <3>2. Max(T(V)) = i + 1
        BY <1>2, <3>1
      <3>3. QED
        BY <2>1, <3>1, <3>2 DEF TypeIn, LastOf
    <2>2. CASE w.kind # 3
      <3>1. T(V) = T(W)
        BY <2>2
      <3>2. QED
        BY <2>2, <3>1 DEF TypeIn
    <2>3. QED
      BY <2>1, <2>2
  <1>4. ResetIn(t, V) = IF w.kind = 2 /\ w.reset >= 0 THEN w.reset ELSE r.reset
    <2>1. CASE w.kind = 2 /\ w.reset >= 0
      <3>1. R(V) = R(W) \cup {i + 1} /\ R(W) \subseteq 1 .. i
        BY <2>1
      <3>2. Max(R(V)) = i + 1
        BY <1>2, <3>1
      <3>3. QED
        BY <2>1, <3>1, <3>2 DEF ResetIn, LastOf
    <2>2. CASE ~(w.kind = 2 /\ w.reset >= 0)
      <3>1. R(V) = R(W)
        BY <2>2
      <3>2. QED
        BY <2>2, <3>1 DEF ResetIn
    <2>3. QED
      BY <2>1, <2>2
  <1>5. w.kind \in {1, 2, 3} /\ w.inst \in Nat /\ w.reset \in Int /\ w.type \in STRING
    BY <1>1 DEF TopWord
  <1> HIDE DEF w, V
  <1>6. /\ Absorb(r, w) \in TopRecord
        /\ Absorb(r, w).type = (IF w.kind = 3 THEN w.type ELSE r.type)
        /\ Absorb(r, w).reset = (IF w.kind = 2 /\ w.reset >= 0 THEN w.reset ELSE r.reset)
    <2>1. CASE w.kind = 1
      BY <1>5, <2>1 DEF Absorb, TopRecord
    <2>2. CASE w.kind = 2
      BY <1>5, <2>2 DEF Absorb, TopRecord
    <2>3. CASE w.kind = 3
      BY <1>5, <2>3 DEF Absorb, TopRecord
    <2>4. QED
      BY <1>5, <2>1, <2>2, <2>3
  <1>7. QED
    BY <1>3, <1>4, <1>6 DEF w, V

(* One word more: what is read stays what the table says up to there.      *)
LEMMA WordStep ==
  ASSUME TopWords \in Nat, NEW t \in [1 .. TopWords -> TopWord], NEW i \in 0 .. TopWords - 1,
         NEW acc, acc.devices \in Seq(TopRecord),
         acc = [devices |-> acc.devices, open |-> acc.open],
         DevicesRead(t, acc.devices, i), OpenRead(t, acc.open, i)
  PROVE  /\ Word(acc, t[i + 1]).devices \in Seq(TopRecord)
         /\ Word(acc, t[i + 1]) = [devices |-> Word(acc, t[i + 1]).devices,
                                   open |-> Word(acc, t[i + 1]).open]
         /\ DevicesRead(t, Word(acc, t[i + 1]).devices, i + 1)
         /\ OpenRead(t, Word(acc, t[i + 1]).open, i + 1)
  <1> DEFINE w == t[i + 1]
             W == Since(t, i)
             V == W \cup {i + 1}
             rec == IF acc.open = <<>> THEN NewRecord ELSE acc.open[1]
             devs == acc.devices
             n == Len(devs)
  <1>1. /\ i + 1 \in 1 .. TopWords /\ w \in TopWord /\ i \in Nat
        /\ w.kind \in 0 .. 3 /\ w.more \in BOOLEAN
    BY DEF TopWord
  <1>2. W \subseteq 1 .. i /\ DOMAIN t = 1 .. TopWords
    BY DEF Since, ValidWords
  <1>3. ValidWords(t) \subseteq 1 .. TopWords /\ DeviceEnds(t) \subseteq ValidWords(t)
    BY <1>2 DEF ValidWords, DeviceEnds
  <1>4. n \in Nat
    BY LenProperties
  <1>5. CASE w.kind = 0
    <2>1. i + 1 \notin ValidWords(t)
      BY <1>5 DEF ValidWords
    <2>2. /\ \A e \in ValidWords(t) : e <= i + 1 <=> e <= i
      BY <1>3, <2>1
    <2>3. Ends(t, i + 1) = Ends(t, i)
      BY <1>3, <2>2 DEF Ends
    <2>4. Since(t, i + 1) = Since(t, i)
      BY <2>2, <2>3 DEF Since
    <2>5. Word(acc, w) = acc
      BY <1>5 DEF Word
    <2>6. DevicesRead(t, acc.devices, i + 1)
      BY <2>3 DEF DevicesRead
    <2>7. OpenRead(t, acc.open, i + 1)
      BY <2>4 DEF OpenRead
    <2>8. QED
      BY <2>5, <2>6, <2>7
  <1>6. CASE w.kind # 0
    <2>1. i + 1 \in ValidWords(t)
      BY <1>1, <1>2, <1>6 DEF ValidWords
    <2>2. rec \in TopRecord /\ rec.type = TypeIn(t, W) /\ rec.reset = ResetIn(t, W)
      <3>1. CASE W = {}
        <4>1. acc.open = <<>>
          BY <3>1 DEF OpenRead
        <4>2. TypeIn(t, W) = "none" /\ ResetIn(t, W) = -1
          BY <3>1 DEF TypeIn, ResetIn, LastOf
        <4>3. rec = NewRecord
          BY <4>1
        <4>4. NewRecord \in TopRecord /\ NewRecord.type = "none" /\ NewRecord.reset = -1
          <5>1. "none" \in {"none"} \cup STRING
            OBVIOUS
          <5>2. 0 \in Nat /\ -1 \in Int
            OBVIOUS
          <5>3. [type |-> "none", inst |-> 0, reset |-> -1] \in TopRecord
            BY <5>1, <5>2 DEF TopRecord
          <5>4. QED
            BY <5>3 DEF NewRecord
        <4> HIDE DEF rec, W
        <4>5. QED
          BY <4>2, <4>3, <4>4
      <3>2. CASE W # {}
        <4>1. PICK r \in TopRecord : /\ acc.open = <<r>>
                                     /\ r.type = TypeIn(t, W)
                                     /\ r.reset = ResetIn(t, W)
          BY <3>2 DEF OpenRead
        <4>2. rec = r
          BY <4>1
        <4>3. QED
          BY <4>1, <4>2
      <3>3. QED
        BY <3>1, <3>2
    <2> DEFINE new == Absorb(rec, w)
    <2> HIDE DEF rec
    <2>3. new \in TopRecord /\ new.type = TypeIn(t, V) /\ new.reset = ResetIn(t, V)
      <3> HIDE DEF W
      <3> QED BY <1>2, <1>6, <2>2, WordAdds
    <2>4. Word(acc, w) = IF w.more THEN [acc EXCEPT !.open = <<new>>]
                         ELSE [devices |-> Append(devs, Finish(new)), open |-> <<>>]
      BY <1>6 DEF Word, rec
    <2> HIDE DEF new
    <2>5. CASE w.more
      <3>1. i + 1 \notin DeviceEnds(t)
        BY <2>5 DEF DeviceEnds
      <3>2. Ends(t, i + 1) = Ends(t, i)
        BY <1>3, <3>1 DEF Ends
      <3>3. Since(t, i + 1) = V
        <4>1. \A e \in Ends(t, i) : e < i + 1
          BY <1>3 DEF Ends
        <4>2. QED
          BY <1>3, <2>1, <3>2, <4>1 DEF Since
      <3>4. Word(acc, w) = [devices |-> devs, open |-> <<new>>]
        BY <2>4, <2>5
      <3>5. V # {}
        OBVIOUS
      <3> HIDE DEF V
      <3>6. OpenRead(t, <<new>>, i + 1)
        BY <2>3, <3>3, <3>5 DEF OpenRead
      <3>7. DevicesRead(t, devs, i + 1)
        BY <3>2 DEF DevicesRead
      <3>8. QED
        BY <3>4, <3>6, <3>7
    <2>6. CASE ~w.more
      <3>1. i + 1 \in DeviceEnds(t)
        BY <1>1, <2>1, <2>6 DEF DeviceEnds
      <3>2. Ends(t, i + 1) = Ends(t, i) \cup {i + 1}
        BY <1>3, <3>1 DEF Ends
      <3>3. Since(t, i + 1) = {}
        <4>1. ASSUME NEW x \in Since(t, i + 1) PROVE FALSE
          <5>1. x \in Int /\ x <= i + 1 /\ i + 1 < x
            BY <1>3, <3>2 DEF Since
          <5>2. QED
            BY <5>1
        <4>2. QED
          BY <4>1
      <3>4. DeviceWords(t, i + 1) = V
        <4>1. \A f \in DeviceEnds(t) : f < i + 1 <=> f \in Ends(t, i)
          BY <1>3 DEF Ends
        <4>2. \A e \in Ends(t, i) : e < i + 1
          BY <4>1 DEF Ends
        <4>3. ASSUME NEW k \in ValidWords(t)
              PROVE  k \in DeviceWords(t, i + 1) <=> k \in V
          <5>1. k \in DeviceWords(t, i + 1) <=> k <= i + 1 /\ \A f \in Ends(t, i) : f < k
            BY <4>1, <1>3 DEF DeviceWords, Ends
          <5>2. k \in Int /\ (k <= i + 1 <=> k <= i \/ k = i + 1)
            BY <1>3
          <5>3. k = i + 1 => \A f \in Ends(t, i) : f < k
            BY <4>2
          <5>4. k \in W <=> k <= i /\ \A f \in Ends(t, i) : f < k
            BY DEF Since
          <5> HIDE DEF W
          <5>5. QED
            BY <5>1, <5>2, <5>3, <5>4
        <4>4. DeviceWords(t, i + 1) \subseteq ValidWords(t) /\ V \subseteq ValidWords(t)
          BY <2>1 DEF DeviceWords, Since
        <4> HIDE DEF V
        <4>5. QED
          BY <4>3, <4>4
      <3> DEFINE d == Finish(new)
                 devs2 == Append(devs, d)
      <3>5. /\ d \in TopRecord /\ d.type = EngineType(t, i + 1) /\ d.reset = Selector(t, i + 1)
            /\ d.type = "GR" => d.inst = 0
        <4>1. d.type = new.type /\ d.reset = new.reset /\ d \in TopRecord
              /\ (d.type = "GR" => d.inst = 0)
          BY <2>3 DEF Finish, TopRecord
        <4>2. EngineType(t, i + 1) = TypeIn(t, V) /\ Selector(t, i + 1) = ResetIn(t, V)
          BY <3>4 DEF EngineType, Selector, TypeIn, ResetIn
        <4>3. QED
          BY <2>3, <4>1, <4>2
      <3> HIDE DEF d
      <3>6. /\ devs2 \in Seq(TopRecord) /\ Len(devs2) = n + 1
            /\ \A j \in 1 .. n : devs2[j] = devs[j]
            /\ devs2[n + 1] = d
        BY <3>5, AppendProperties
      <3> HIDE DEF devs2
      <3>7. PICK ends \in [1 .. n -> Ends(t, i)] :
              /\ \A e \in Ends(t, i) : \E j \in 1 .. n : ends[j] = e
              /\ \A j, k \in 1 .. n : ends[j] = ends[k] => j = k
              /\ \A j \in 1 .. n :
                   /\ devs[j].type = EngineType(t, ends[j])
                   /\ devs[j].reset = Selector(t, ends[j])
                   /\ devs[j].type = "GR" => devs[j].inst = 0
        BY DEF DevicesRead
      <3> DEFINE more == [j \in 1 .. n + 1 |-> IF j = n + 1 THEN i + 1 ELSE ends[j]]
      <3>8. \A j \in 1 .. n : more[j] = ends[j] /\ ends[j] \in Ends(t, i) /\ ends[j] # i + 1
        <4>1. i + 1 \notin Ends(t, i)
          BY <1>1 DEF Ends
        <4>2. QED
          BY <1>4, <4>1
      <3>9. more[n + 1] = i + 1 /\ \A j \in 1 .. n + 1 : j = n + 1 \/ j \in 1 .. n
        BY <1>4
      <3>10. more \in [1 .. n + 1 -> Ends(t, i + 1)]
        BY <3>2, <3>8, <3>9
      <3> HIDE DEF more
      <3>11. \A e \in Ends(t, i + 1) : \E j \in 1 .. n + 1 : more[j] = e
        <4> TAKE e \in Ends(t, i + 1)
        <4>1. CASE e = i + 1
          BY <1>4, <3>9, <4>1
        <4>2. CASE e \in Ends(t, i)
          <5>1. PICK j \in 1 .. n : ends[j] = e
            BY <3>7, <4>2
          <5>2. j \in 1 .. n + 1
            BY <1>4
          <5>3. QED
            BY <3>8, <5>1, <5>2
        <4>3. QED
          BY <3>2, <4>1, <4>2
      <3>12. \A j, k \in 1 .. n + 1 : more[j] = more[k] => j = k
        BY <3>7, <3>8, <3>9
      <3>13. \A j \in 1 .. n + 1 :
               /\ devs2[j].type = EngineType(t, more[j])
               /\ devs2[j].reset = Selector(t, more[j])
               /\ devs2[j].type = "GR" => devs2[j].inst = 0
        BY <3>5, <3>6, <3>7, <3>8, <3>9
      <3>14. DevicesRead(t, devs2, i + 1)
        <4> DEFINE m == Len(devs2)
        <4>1. m = n + 1
          BY <3>6
        <4>2. more \in [1 .. m -> Ends(t, i + 1)]
          BY <3>10, <4>1
        <4>3. \A e \in Ends(t, i + 1) : \E j \in 1 .. m : more[j] = e
          BY <3>11, <4>1
        <4>4. \A j, k \in 1 .. m : more[j] = more[k] => j = k
          BY <3>12, <4>1
        <4>5. \A j \in 1 .. m :
                /\ devs2[j].type = EngineType(t, more[j])
                /\ devs2[j].reset = Selector(t, more[j])
                /\ devs2[j].type = "GR" => devs2[j].inst = 0
          BY <3>13, <4>1
        <4>6. QED
          BY <4>2, <4>3, <4>4, <4>5 DEF DevicesRead
      <3>15. Word(acc, w) = [devices |-> devs2, open |-> <<>>]
        BY <2>4, <2>6 DEF devs2, d
      <3>16. OpenRead(t, <<>>, i + 1)
        BY <3>3 DEF OpenRead
      <3>17. QED
        BY <3>6, <3>14, <3>15, <3>16
    <2>7. QED
      BY <2>5, <2>6
  <1>7. QED
    BY <1>5, <1>6

(* The whole table: one device for each word that ends one, and an open    *)
(* record if the last valid word does not.                                 *)
LEMMA TableRead ==
  ASSUME TopWords \in Nat, NEW t \in [1 .. TopWords -> TopWord]
  PROVE  /\ DecodeWords(t).devices \in Seq(TopRecord)
         /\ DevicesRead(t, DecodeWords(t).devices, TopWords)
         /\ OpenRead(t, DecodeWords(t).open, TopWords)
  <1>1. Len(t) = TopWords
    BY LenProperties, SeqDef
  <1>2. PICK read : /\ DecodeWords(t) = read[TopWords]
                    /\ read[0] = [devices |-> <<>>, open |-> <<>>]
                    /\ \A i \in 1 .. TopWords : read[i] = Word(read[i - 1], t[i])
    BY <1>1, WordsRead
  <1> DEFINE Good(acc, i) == /\ acc.devices \in Seq(TopRecord)
                             /\ acc = [devices |-> acc.devices, open |-> acc.open]
                             /\ DevicesRead(t, acc.devices, i)
                             /\ OpenRead(t, acc.open, i)
             S == {i \in 0 .. TopWords : Good(read[i], i)}
  <1>3. 0 \in S
    <2>1. Ends(t, 0) = {} /\ Since(t, 0) = {}
      <3>1. \A w \in DOMAIN t : w \in Int /\ ~(w <= 0)
        OBVIOUS
      <3>2. QED
        BY <3>1 DEF Ends, Since, DeviceEnds, ValidWords
    <2>2. OpenRead(t, <<>>, 0)
      BY <2>1 DEF OpenRead
    <2> DEFINE d == <<>>
    <2>3. d \in Seq(TopRecord) /\ Len(d) = 0 /\ 1 .. Len(d) = {}
      BY EmptySeq
    <2>4. DevicesRead(t, d, 0)
      <3> HIDE DEF d
      <3>1. [j \in 1 .. Len(d) |-> 0] \in [1 .. Len(d) -> Ends(t, 0)]
        BY <2>3
      <3>2. QED
        BY <2>1, <2>3, <3>1 DEF DevicesRead
    <2>5. read[0].devices = d /\ read[0].open = <<>>
      BY <1>2
    <2>6. read[0] = [devices |-> read[0].devices, open |-> read[0].open]
      BY <1>2
    <2> HIDE DEF d
    <2>7. Good(read[0], 0)
      BY <2>2, <2>3, <2>4, <2>5, <2>6
    <2>8. QED
      BY <2>7
  <1>4. ASSUME NEW i \in 0 .. TopWords - 1, i \in S PROVE i + 1 \in S
    <2>1. Good(read[i], i)
      BY <1>4
    <2>2. i + 1 \in 1 .. TopWords /\ (i + 1) - 1 = i /\ i + 1 \in 0 .. TopWords
      OBVIOUS
    <2>3. read[i + 1] = Word(read[i], t[i + 1])
      BY <1>2, <2>2
    <2>4. Good(Word(read[i], t[i + 1]), i + 1)
      BY <2>1, WordStep
    <2> HIDE DEF Good
    <2>5. QED
      BY <2>2, <2>3, <2>4
  <1>5. TopWords \in S
    <2> HIDE DEF S
    <2>1. 0 .. TopWords \subseteq S
      BY <1>3, <1>4, InductionTo
    <2>2. QED
      BY <2>1
  <1>6. QED
    BY <1>2, <1>5

(* The selector that the decoder derives from a table is the one of the    *)
(* only GR engine in it.                                                   *)
LEMMA SelectorOfTable ==
  ASSUME TopWords \in Nat, NEW t \in [1 .. TopWords -> TopWord],
         \A i \in 1 .. TopWords : ~t[i].ones, DecodeWords(t).open = <<>>,
         GrReset(DecodeWords(t).devices) # -1
  PROVE  GrReset(DecodeWords(t).devices) = GrSelector(t)
  <1> DEFINE devs == DecodeWords(t).devices
             n == Len(devs)
             gr == {j \in DOMAIN devs : devs[j].type = "GR" /\ devs[j].inst = 0}
  <1>1. devs \in Seq(TopRecord) /\ DevicesRead(t, devs, TopWords)
        /\ OpenRead(t, DecodeWords(t).open, TopWords)
    BY TableRead
  <1>2. n \in Nat /\ DOMAIN devs = 1 .. n
    BY <1>1, LenProperties
  <1>3. Ends(t, TopWords) = DeviceEnds(t)
    BY DEF Ends, DeviceEnds, ValidWords
  <1>4. PICK ends \in [1 .. n -> DeviceEnds(t)] :
              /\ \A e \in DeviceEnds(t) : \E j \in 1 .. n : ends[j] = e
              /\ \A j, k \in 1 .. n : ends[j] = ends[k] => j = k
              /\ \A j \in 1 .. n :
                   /\ devs[j].type = EngineType(t, ends[j])
                   /\ devs[j].reset = Selector(t, ends[j])
                   /\ devs[j].type = "GR" => devs[j].inst = 0
    <2> HIDE DEF devs
    <2> QED BY <1>1, <1>3 DEF DevicesRead
  <1> HIDE DEF devs
  <1>5. Cardinality(gr) = 1 /\ GrReset(devs) = devs[CHOOSE j \in gr : TRUE].reset
    BY DEF GrReset, devs
  <1>6. IsFiniteSet(gr)
    <2>1. IsFiniteSet(1 .. n)
      BY <1>2, FS_Interval
    <2>2. gr \subseteq 1 .. n
      BY <1>2
    <2>3. QED
      BY <2>1, <2>2, FS_Subset
  <1>7. PICK j : gr = {j}
    BY <1>5, <1>6, OneElement
  <1>8. j \in 1 .. n /\ devs[j].type = "GR" /\ GrReset(devs) = devs[j].reset
    BY <1>2, <1>5, <1>7
  <1>9. GrSelectors(t) = {<<ends[j], Selector(t, ends[j])>>}
    <2>1. \A e \in DeviceEnds(t) : EngineType(t, e) = "GR" <=> e = ends[j]
      <3> TAKE e \in DeviceEnds(t)
      <3>1. PICK k \in 1 .. n : ends[k] = e
        BY <1>4
      <3>2. devs[k].type = EngineType(t, e) /\ (devs[k].type = "GR" => devs[k].inst = 0)
        BY <1>4, <3>1
      <3>3. EngineType(t, e) = "GR" => k = j
        BY <1>2, <1>7, <3>2
      <3>4. EngineType(t, ends[j]) = "GR"
        BY <1>4, <1>8
      <3>5. QED
        BY <3>1, <3>3, <3>4
    <2>2. ends[j] \in DeviceEnds(t)
      BY <1>4, <1>8
    <2>3. QED
      BY <2>1, <2>2 DEF GrSelectors
  <1>10. ~Unfinished(t)
    <2>1. CASE ValidWords(t) = {}
      BY <2>1 DEF Unfinished
    <2>2. CASE ValidWords(t) # {}
      <3> DEFINE m == Max(ValidWords(t))
      <3>1. ValidWords(t) \subseteq 0 .. TopWords
        BY DEF ValidWords
      <3>2. m \in ValidWords(t) /\ \A x \in ValidWords(t) : x <= m
        BY <2>2, <3>1, MaxOf
      <3> HIDE DEF m
      <3>3. Since(t, TopWords) = {}
        BY <1>1 DEF OpenRead
      <3>4. m <= TopWords /\ m \in Int
        BY <3>1, <3>2
      <3>5. PICK e \in DeviceEnds(t) : ~(e < m)
        BY <1>3, <3>2, <3>3, <3>4 DEF Since
      <3>6. e \in ValidWords(t) /\ e \in Int
        BY <3>1 DEF DeviceEnds
      <3>7. e = m
        BY <3>2, <3>4, <3>5, <3>6
      <3>8. QED
        BY <3>5, <3>7 DEF Unfinished, m
    <2>3. QED
      BY <2>1, <2>2
  <1>11. Cardinality(GrSelectors(t)) = 1
    BY <1>9, FS_Singleton
  <1>12. GrSelector(t) = Selector(t, ends[j])
    <2> DEFINE p == CHOOSE p \in GrSelectors(t) : TRUE
    <2>1. p = <<ends[j], Selector(t, ends[j])>>
      BY <1>9
    <2>2. GrSelector(t) = p[2]
      BY <1>10, <1>11 DEF GrSelector
    <2> HIDE DEF p
    <2>3. QED
      BY <2>1, <2>2
  <1>13. QED
    BY <1>4, <1>8, <1>12 DEF devs

------------------------------------------------------------------------------
(* The stages of a life, in order: the core stages with the reset pairs    *)
(* after post_return and at the end.                                       *)
Names == ToSet(CoreSequence)

LEMMA Core ==
  /\ Sized(CoreSequence, Names, 9)
  /\ Names = {"nvidia_baseline", "post_entry", "post_return",
              "gr_reset_mask_return", "gr_reset_return",
              "oneinit_entry", "oneinit_return", "ctxctl_entry", "ctxctl_return"}
  <1>1. Len(CoreSequence) = 9 /\ DOMAIN CoreSequence = 1 .. 9
    BY DEF CoreSequence
  <1>2. \A i \in 1 .. 9 : CoreSequence[i] \in Names
    BY <1>1 DEF Names, ToSet
  <1>3. CoreSequence = [i \in 1 .. 9 |-> CoreSequence[i]]
    BY DEF CoreSequence
  <1>4. CoreSequence \in [1 .. 9 -> Names]
    BY <1>2, <1>3
  <1>5. Names = {CoreSequence[i] : i \in 1 .. 9}
    BY <1>1 DEF Names, ToSet
  <1>6. {CoreSequence[i] : i \in 1 .. 9} =
          {CoreSequence[1], CoreSequence[2], CoreSequence[3], CoreSequence[4], CoreSequence[5],
           CoreSequence[6], CoreSequence[7], CoreSequence[8], CoreSequence[9]}
    <2>1. 1 .. 9 = {1, 2, 3, 4, 5, 6, 7, 8, 9}
      OBVIOUS
    <2>2. QED
      BY <2>1
  <1>7. Sized(CoreSequence, Names, 9)
    BY <1>4, Listed
  <1>8. QED
    BY <1>5, <1>6, <1>7 DEF CoreSequence

LEMMA CourseIs ==
  ASSUME NEW life \in Life
  PROVE  /\ Sized(Course(life), Names, 7 + 2 * life.resets + 2 * life.trailing)
         /\ \A i \in 1 .. 3 : Course(life)[i] = CoreSequence[i]
         /\ \A i \in 1 .. 2 * life.resets : Course(life)[3 + i] = ResetPairs(life.resets)[i]
         /\ \A i \in 6 .. 9 : Course(life)[2 * life.resets - 2 + i] = CoreSequence[i]
         /\ \A i \in 1 .. 2 * life.trailing :
              Course(life)[7 + 2 * life.resets + i] = ResetPairs(life.trailing)[i]
  <1> DEFINE A == SubSeq(CoreSequence, 1, 3)
             C == SubSeq(CoreSequence, 6, 9)
             B == ResetPairs(life.resets)
             D == ResetPairs(life.trailing)
             R == 2 * life.resets
             Q == 2 * life.trailing
  <1>1. life.resets \in Nat /\ life.trailing \in Nat
    BY DEF Life
  <1>2. Sized(CoreSequence, Names, 9)
        /\ "gr_reset_mask_return" \in Names /\ "gr_reset_return" \in Names
    BY Core
  <1>3. Sized(A, Names, 3) /\ \A i \in 1 .. 3 : A[i] = CoreSequence[i]
    <2>1. 9 \in Nat /\ 1 \in 1 .. 9 + 1 /\ 3 \in 1 - 1 .. 9
      OBVIOUS
    <2>2. Sized(A, Names, 3 - 1 + 1) /\ Taken(A, CoreSequence, 1, 3)
      BY <1>2, <2>1, Part, Zenon
    <2> HIDE DEF A
    <2>3. QED
      BY <2>2 DEF Taken
  <1>4. Sized(C, Names, 4) /\ \A i \in 1 .. 4 : C[i] = CoreSequence[5 + i]
    <2>1. 9 \in Nat /\ 6 \in 1 .. 9 + 1 /\ 9 \in 6 - 1 .. 9
      OBVIOUS
    <2>2. Sized(C, Names, 9 - 6 + 1) /\ Taken(C, CoreSequence, 6, 9)
      BY <1>2, <2>1, Part, Zenon
    <2> HIDE DEF C
    <2>3. \A i \in 1 .. 4 : C[i] = CoreSequence[5 + i]
      <3> TAKE i \in 1 .. 4
      <3>1. C[i] = CoreSequence[6 + i - 1] /\ 6 + i - 1 = 5 + i
        BY <2>2 DEF Taken
      <3>2. QED
        BY <3>1
    <2>4. QED
      BY <2>2, <2>3
  <1>5. R \in Nat /\ Sized(B, Names, R)
    <2>1. R \in Nat
      BY <1>1
    <2> HIDE DEF R
    <2>2. B = [i \in 1 .. R |-> IF i % 2 = 1 THEN "gr_reset_mask_return" ELSE "gr_reset_return"]
      BY DEF ResetPairs, R
    <2>3. B \in [1 .. R -> Names]
      BY <1>2, <2>2
    <2>4. QED
      BY <2>1, <2>3, Listed
  <1>6. Q \in Nat /\ Sized(D, Names, Q)
    <2>1. Q \in Nat
      BY <1>1
    <2> HIDE DEF Q
    <2>2. D = [i \in 1 .. Q |-> IF i % 2 = 1 THEN "gr_reset_mask_return" ELSE "gr_reset_return"]
      BY DEF ResetPairs, Q
    <2>3. D \in [1 .. Q -> Names]
      BY <1>2, <2>2
    <2>4. QED
      BY <2>1, <2>3, Listed
  <1> HIDE DEF A, B, C, D, R, Q
  <1> DEFINE AB == A \o B
             ABC == AB \o C
             c == ABC \o D
  <1>7. Sized(AB, Names, 3 + R) /\ Glued(AB, A, B, 3, R)
    <2>1. 3 \in Nat
      OBVIOUS
    <2>2. QED
      BY <1>3, <1>5, <2>1, Joined, Zenon
  <1> HIDE DEF AB
  <1>8. Sized(ABC, Names, (3 + R) + 4) /\ Glued(ABC, AB, C, 3 + R, 4)
    <2>1. 3 + R \in Nat /\ 4 \in Nat
      BY <1>5
    <2>2. QED
      BY <1>4, <1>7, <2>1, Joined, Zenon
  <1> HIDE DEF ABC
  <1>9. Sized(c, Names, 7 + R + Q) /\ Glued(c, ABC, D, 7 + R, Q)
    <2>1. 7 + R \in Nat /\ (3 + R) + 4 = 7 + R
      BY <1>5
    <2>2. Sized(ABC, Names, 7 + R)
      BY <1>8, <2>1
    <2>3. QED
      BY <1>6, <2>1, <2>2, Joined, Zenon
  <1>10. Course(life) = c
    BY DEF Course, A, B, C, D, AB, ABC
  <1> HIDE DEF c
  <1>11. \A i \in 1 .. 3 : c[i] = CoreSequence[i]
    <2> TAKE i \in 1 .. 3
    <2>1. i \in 1 .. 7 + R /\ i \in 1 .. 3 + R
      BY <1>5
    <2>2. QED
      BY <1>3, <1>7, <1>8, <1>9, <2>1 DEF Glued
  <1>12. \A i \in 1 .. R : c[3 + i] = B[i]
    <2> TAKE i \in 1 .. R
    <2>1. 3 + i \in 1 .. 7 + R /\ 3 + i \in 1 .. 3 + R
      BY <1>5
    <2>2. QED
      BY <1>7, <1>8, <1>9, <2>1 DEF Glued
  <1>13. \A i \in 6 .. 9 : c[R - 2 + i] = CoreSequence[i]
    <2> TAKE i \in 6 .. 9
    <2>1. i - 5 \in 1 .. 4 /\ 3 + R + (i - 5) = R - 2 + i /\ 5 + (i - 5) = i
          /\ R - 2 + i \in 1 .. 7 + R
      BY <1>5
    <2>2. ABC[3 + R + (i - 5)] = C[i - 5] /\ C[i - 5] = CoreSequence[5 + (i - 5)]
      BY <1>4, <1>8, <2>1 DEF Glued
    <2>3. c[R - 2 + i] = ABC[R - 2 + i]
      BY <1>9, <2>1 DEF Glued
    <2>4. QED
      BY <2>1, <2>2, <2>3
  <1>14. QED
    BY <1>9, <1>10, <1>11, <1>12, <1>13 DEF B, D, R, Q, Glued

(* What the collector has stored of a life.                                *)
LEMMA EventsAre ==
  ASSUME NEW life \in Life
  PROVE  \E n \in Nat : /\ Sized(Events(life), Names, n)
                        /\ IF life.fault = "failed"
                           THEN n = life.at /\ life.at \in 1 .. n
                           ELSE Events(life) = Course(life)
  <1> DEFINE m == 7 + 2 * life.resets + 2 * life.trailing
  <1>1. m \in Nat
    BY DEF Life
  <1>2. Sized(Course(life), Names, m)
    BY CourseIs
  <1> HIDE DEF m
  <1>3. CASE life.fault = "failed"
    <2>1. life.at \in 1 .. m
      BY <1>2, <1>3 DEF Life, Sized
    <2>2. 1 \in 1 .. m + 1 /\ life.at \in 1 - 1 .. m /\ life.at - 1 + 1 = life.at
          /\ life.at \in Nat /\ life.at \in 1 .. life.at
      BY <1>1, <2>1
    <2>3. Sized(SubSeq(Course(life), 1, life.at), Names, life.at - 1 + 1)
      BY <1>1, <1>2, <2>2, Part, Zenon
    <2>4. Events(life) = SubSeq(Course(life), 1, life.at)
      BY <1>3 DEF Events
    <2>5. Sized(Events(life), Names, life.at)
      BY <2>2, <2>3, <2>4
    <2>6. QED
      BY <1>3, <2>2, <2>5
  <1>4. CASE life.fault # "failed"
    <2>1. Events(life) = Course(life)
      BY <1>4 DEF Events
    <2>2. QED
      BY <1>1, <1>2, <1>4, <2>1
  <1>5. QED
    BY <1>3, <1>4

LEMMA StoredIs ==
  ASSUME NEW life \in Life
  PROVE  \E n \in Nat :
           /\ DOMAIN Stored(life) = 1 .. n /\ Len(Stored(life)) = n
           /\ \A i \in 1 .. n : \E k \in Nat : /\ Stored(life)[i] = Observed(life, k)
                                               /\ Events(life)[k] \in Names
           /\ life.fault \notin {"missed", "dropped"} =>
                /\ Sized(Events(life), Names, n)
                /\ \A i \in 1 .. n : Stored(life)[i] = Observed(life, i)
  <1>1. PICK m \in Nat : /\ Sized(Events(life), Names, m)
                         /\ life.fault # "failed" => Events(life) = Course(life)
    BY EventsAre
  <1>2. Len(Events(life)) = m /\ \A k \in 1 .. m : Events(life)[k] \in Names
    BY <1>1, ElementOfSeq DEF Sized
  <1> DEFINE gap == IF life.fault \in {"missed", "dropped"} THEN life.to - life.at + 1 ELSE 0
             n == m - gap
  <1>3. gap \in Nat /\ n \in Nat
    <2>1. CASE life.fault \in {"missed", "dropped"}
      <3>1. life.at \in 1 .. m /\ life.to \in life.at .. m
        BY <1>1, <1>2, <2>1 DEF Life
      <3>2. QED
        BY <2>1, <3>1
    <2>2. CASE life.fault \notin {"missed", "dropped"}
      BY <2>2
    <2>3. QED
      BY <2>1, <2>2
  <1> DEFINE at(i) == IF gap > 0 /\ i >= life.at THEN i + gap ELSE i
  <1>4. Stored(life) = [i \in 1 .. n |-> Observed(life, at(i))]
    BY <1>2 DEF Stored
  <1>5. gap > 0 => life.at \in Nat
    BY DEF Life
  <1>6. life.fault \notin {"missed", "dropped"} => gap = 0
    OBVIOUS
  <1> HIDE DEF gap
  <1>7. \A i \in 1 .. n : at(i) \in 1 .. m
    BY <1>3, <1>5
  <1>8. gap = 0 => n = m /\ \A i \in 1 .. n : at(i) = i
    OBVIOUS
  <1> HIDE DEF n, at
  <1>9. DOMAIN Stored(life) = 1 .. n /\ Len(Stored(life)) = n
    BY <1>3, <1>4
  <1>10. \A i \in 1 .. n : Stored(life)[i] = Observed(life, at(i))
    BY <1>4
  <1> HIDE DEF Stored
  <1>11. \A i \in 1 .. n : /\ at(i) \in Nat /\ Stored(life)[i] = Observed(life, at(i))
                           /\ Events(life)[at(i)] \in Names
    BY <1>2, <1>7, <1>10
  <1>12. QED
    BY <1>1, <1>3, <1>6, <1>8, <1>9, <1>10, <1>11

(* The registers that are read at a stage, and their order in a dump.      *)
Regs(name) == PhysicalRegs \cup
              (IF name \in LogicalStages
               THEN {Gpcs, Pipe} \cup Counts(1) \cup Masks(1) ELSE {})

LEMMA OrderIs ==
  ASSUME OrderAssumption, NEW name
  PROVE  \E a \in Nat, m \in Nat :
           /\ Sized(MaskOrder, MaskRegs, a)
           /\ Sized(Order(name), Regs(name), m)
           /\ m = IF name \in LogicalStages THEN a + 4 + PpcsPerGpc ELSE a + 1
           /\ Order(name)[1] = Pmc
           /\ \A i \in 1 .. a : Order(name)[1 + i] = MaskOrder[i]
           /\ name \in LogicalStages =>
                /\ Order(name)[a + 2] = Gpcs /\ Order(name)[a + 3] = Pipe
                /\ Order(name)[a + 4] = <<"tpc", 1>>
                /\ \A p \in 1 .. PpcsPerGpc : Order(name)[a + 4 + p] = <<"ppc", 10 + p>>
  <1> DEFINE a == Len(MaskOrder)
             b == PpcsPerGpc
             P == <<Pmc>> \o MaskOrder
             G == <<Gpcs, Pipe, <<"tpc", 1>> >>
             H == [p \in 1 .. b |-> <<"ppc", 10 + p>>]
             L == G \o H
             R == Regs(name)
  <1>1. a \in Nat /\ b \in Nat /\ Sized(MaskOrder, MaskRegs, a)
    BY LenProperties DEF OrderAssumption, Sized
  <1>2. Sized(MaskOrder, R, a)
    <2>1. MaskRegs \subseteq R
      BY DEF Regs, PhysicalRegs
    <2>2. QED
      BY <1>1, <2>1, SeqMonotonic DEF Sized
  <1>3. Sized(<<Pmc>>, R, 1) /\ <<Pmc>>[1] = Pmc
    <2>1. Pmc \in R
      BY DEF Regs, PhysicalRegs
    <2>2. QED
      BY <2>1 DEF Sized
  <1>4. Sized(P, R, 1 + a) /\ Glued(P, <<Pmc>>, MaskOrder, 1, a)
    <2>1. 1 \in Nat
      OBVIOUS
    <2>2. QED
      BY <1>1, <1>2, <1>3, <2>1, Joined, Zenon
  <1>5. CASE name \notin LogicalStages
    <2>1. Order(name) = P \o <<>>
      BY <1>5 DEF Order
    <2>2. Order(name) = P
      BY <1>4, <2>1, ConcatEmptySeq DEF Sized
    <2> HIDE DEF P, R
    <2>3. Order(name)[1] = Pmc /\ \A i \in 1 .. a : Order(name)[1 + i] = MaskOrder[i]
      BY <1>3, <1>4, <2>2 DEF Glued
    <2>4. a + 1 \in Nat /\ 1 + a = a + 1
      BY <1>1
    <2>5. Sized(Order(name), R, a + 1)
      BY <1>4, <2>2, <2>4
    <2> HIDE DEF a
    <2>6. QED
      BY <1>1, <1>5, <2>3, <2>4, <2>5 DEF R
  <1>6. CASE name \in LogicalStages
    <2>1. Sized(G, R, 3) /\ G[1] = Gpcs /\ G[2] = Pipe /\ G[3] = <<"tpc", 1>>
      <3>1. Gpcs \in R /\ Pipe \in R /\ <<"tpc", 1>> \in R
        BY <1>6 DEF Regs, Counts
      <3>2. QED
        BY <3>1 DEF Sized
    <2>2. Sized(H, R, b)
      <3>1. ASSUME NEW p \in 1 .. b PROVE <<"ppc", 10 + p>> \in R
        <4>1. <<"ppc", 1 * 10 + p>> \in Masks(1) /\ 1 * 10 + p = 10 + p
          BY <1>1 DEF Masks
        <4>2. QED
          BY <1>6, <4>1 DEF Regs
      <3>2. H \in [1 .. b -> R]
        BY <3>1
      <3>3. QED
        BY <1>1, <3>2, Listed
    <2>3. \A p \in 1 .. b : H[p] = <<"ppc", 10 + p>>
      OBVIOUS
    <2> HIDE DEF G, H, P, R
    <2>4. Sized(L, R, 3 + b) /\ Glued(L, G, H, 3, b)
      <3>1. 3 \in Nat
        OBVIOUS
      <3>2. QED
        BY <1>1, <2>1, <2>2, <3>1, Joined, Zenon
    <2> DEFINE O == P \o L
    <2> HIDE DEF L, a
    <2>5. Sized(O, R, (1 + a) + (3 + b)) /\ Glued(O, P, L, 1 + a, 3 + b)
      <3>1. 1 + a \in Nat /\ 3 + b \in Nat
        BY <1>1
      <3>2. QED
        BY <1>4, <2>4, <3>1, Joined, Zenon
    <2>6. Order(name) = O
      BY <1>6 DEF Order, O, P, L, G, H
    <2> HIDE DEF O
    <2>7. O[1] = Pmc /\ \A i \in 1 .. a : O[1 + i] = MaskOrder[i]
      <3>1. \A i \in 1 .. 1 + a : O[i] = P[i]
        BY <2>5 DEF Glued
      <3>2. 1 \in 1 .. 1 + a /\ \A i \in 1 .. a : 1 + i \in 1 .. 1 + a
        BY <1>1
      <3>3. P[1] = Pmc /\ \A i \in 1 .. a : P[1 + i] = MaskOrder[i]
        BY <1>3, <1>4 DEF Glued
      <3>4. QED
        BY <3>1, <3>2, <3>3
    <2>8. \A i \in 1 .. 3 + b : O[(1 + a) + i] = L[i]
      BY <2>5 DEF Glued
    <2>9. L[1] = Gpcs /\ L[2] = Pipe /\ L[3] = <<"tpc", 1>>
          /\ \A p \in 1 .. b : L[3 + p] = <<"ppc", 10 + p>>
      <3>1. \A i \in 1 .. 3 : L[i] = G[i]
        BY <2>4 DEF Glued
      <3>2. L[1] = G[1] /\ L[2] = G[2] /\ L[3] = G[3]
        BY <3>1
      <3>3. \A p \in 1 .. b : L[3 + p] = H[p]
        BY <2>4 DEF Glued
      <3>4. QED
        BY <2>1, <2>3, <3>2, <3>3
    <2>10. /\ 1 \in 1 .. 3 + b /\ 2 \in 1 .. 3 + b /\ 3 \in 1 .. 3 + b
           /\ (1 + a) + 1 = a + 2 /\ (1 + a) + 2 = a + 3 /\ (1 + a) + 3 = a + 4
           /\ \A p \in 1 .. b : 3 + p \in 1 .. 3 + b /\ (1 + a) + (3 + p) = a + 4 + p
           /\ (1 + a) + (3 + b) = a + 4 + b /\ a + 4 + b \in Nat
      BY <1>1
    <2>11. O[a + 2] = Gpcs /\ O[a + 3] = Pipe /\ O[a + 4] = <<"tpc", 1>>
      <3>1. O[(1 + a) + 1] = L[1] /\ O[(1 + a) + 2] = L[2] /\ O[(1 + a) + 3] = L[3]
        BY <2>8, <2>10
      <3>2. QED
        BY <2>9, <2>10, <3>1
    <2>12. \A p \in 1 .. b : O[a + 4 + p] = <<"ppc", 10 + p>>
      <3> TAKE p \in 1 .. b
      <3>1. O[(1 + a) + (3 + p)] = L[3 + p]
        BY <2>8, <2>10
      <3>2. QED
        BY <2>9, <2>10, <3>1
    <2>13. Sized(Order(name), R, a + 4 + b)
      BY <2>5, <2>6, <2>10
    <2>14. QED
      BY <1>1, <1>6, <2>6, <2>7, <2>10, <2>11, <2>12, <2>13 DEF R
  <1>7. QED
    BY <1>5, <1>6

(* The lines of the dump of a life, those between its first two and its    *)
(* last one, and their place.                                              *)
Values(life, i)  == {Value(life, i, r) : r \in Regs(Stored(life)[i].name)}
InnerLines(life) ==
  {Stage(life, i) : i \in DOMAIN Stored(life)}
  \cup {Missed(life, i) : i \in DOMAIN SymbolOrder}
  \cup UNION {Values(life, i) : i \in DOMAIN Stored(life)}
StageLines(life) == InnerLines(life) \cup {Armed(life), Begin(life), Ended(life)}

LEMMA BlockIs ==
  ASSUME OrderAssumption, NEW life \in Life, NEW i \in DOMAIN Stored(life)
  PROVE  \E m \in Nat :
           /\ Sized(Order(Stored(life)[i].name), Regs(Stored(life)[i].name), m)
           /\ Sized(Block(life, i), InnerLines(life), 1 + m)
           /\ Block(life, i)[1] = Stage(life, i)
           /\ \A k \in 1 .. m :
                Block(life, i)[1 + k] = Value(life, i, Order(Stored(life)[i].name)[k])
  <1> DEFINE name == Stored(life)[i].name
             V == [k \in DOMAIN Order(name) |-> Value(life, i, Order(name)[k])]
  <1>1. PICK m \in Nat : Sized(Order(name), Regs(name), m)
    <2> HIDE DEF name
    <2> QED BY OrderIs
  <1>2. DOMAIN Order(name) = 1 .. m /\ \A k \in 1 .. m : Order(name)[k] \in Regs(name)
    <2> HIDE DEF name
    <2> QED BY <1>1, LenProperties, ElementOfSeq DEF Sized
  <1>3. \A k \in 1 .. m : Value(life, i, Order(name)[k]) \in InnerLines(life)
    <2> TAKE k \in 1 .. m
    <2>1. Value(life, i, Order(name)[k]) \in Values(life, i)
      BY <1>2 DEF Values
    <2>2. QED
      BY <2>1 DEF InnerLines
  <1>4. Sized(V, InnerLines(life), m)
    <2>1. V \in [1 .. m -> InnerLines(life)]
      BY <1>2, <1>3
    <2> HIDE DEF V
    <2>2. QED
      BY <1>1, <2>1, Listed
  <1>5. Sized(<<Stage(life, i)>>, InnerLines(life), 1) /\ <<Stage(life, i)>>[1] = Stage(life, i)
    <2>1. Stage(life, i) \in InnerLines(life)
      BY DEF InnerLines
    <2>2. QED
      BY <2>1 DEF Sized
  <1>6. Block(life, i) = <<Stage(life, i)>> \o V
    BY DEF Block
  <1>7. \A k \in 1 .. m : V[k] = Value(life, i, Order(name)[k])
    BY <1>2
  <1> HIDE DEF V
  <1>8. /\ Sized(Block(life, i), InnerLines(life), 1 + m)
        /\ Glued(Block(life, i), <<Stage(life, i)>>, V, 1, m)
    <2>1. 1 \in Nat
      OBVIOUS
    <2>2. /\ Sized(<<Stage(life, i)>> \o V, InnerLines(life), 1 + m)
          /\ Glued(<<Stage(life, i)>> \o V, <<Stage(life, i)>>, V, 1, m)
      BY <1>4, <1>5, <2>1, Joined, Zenon
    <2>3. QED
      BY <1>6, <2>2
  <1>9. Block(life, i)[1] = Stage(life, i) /\ \A k \in 1 .. m : Block(life, i)[1 + k] = V[k]
    BY <1>5, <1>8 DEF Glued
  <1>10. QED
    BY <1>1, <1>7, <1>8, <1>9

LEMMA DumpIs ==
  ASSUME OrderAssumption, NEW life \in Life
  PROVE  \E n \in Nat :
           /\ Sized(StageDump(life), StageLines(life), n)
           /\ StageDump(life)[1] = Armed(life) /\ StageDump(life)[2] = Begin(life)
           /\ StageDump(life)[n] = Ended(life) /\ n >= 3
           /\ \A p \in 3 .. n - 1 : StageDump(life)[p] \in InnerLines(life)
           /\ \A i \in DOMAIN SymbolOrder :
                \E p \in 3 .. n - 1 : StageDump(life)[p] = Missed(life, i)
  <1> DEFINE Inner == InnerLines(life)
             All == StageLines(life)
             H == <<Armed(life), Begin(life)>>
             B == [i \in DOMAIN Stored(life) |-> Block(life, i)]
             F == FlattenSeq(B)
             M == [i \in DOMAIN SymbolOrder |-> Missed(life, i)]
             E == <<Ended(life)>>
             f == Len(F)
             m == Len(SymbolOrder)
  <1>1. F \in Seq(Inner) /\ f \in Nat
    <2>1. PICK n \in Nat : DOMAIN Stored(life) = 1 .. n
      BY StoredIs
    <2>2. \A i \in DOMAIN Stored(life) : Block(life, i) \in Seq(Inner)
      <3> TAKE i \in DOMAIN Stored(life)
      <3>1. QED
        BY BlockIs DEF Sized
    <2>3. B \in [1 .. n -> Seq(Inner)]
      BY <2>1, <2>2
    <2> HIDE DEF B
    <2>4. Sized(B, Seq(Inner), n)
      BY <2>3, Listed
    <2> HIDE DEF Inner
    <2>5. PICK flat : Flats(flat, B, Seq(Inner), n)
      BY <2>4, Flattened, Zenon
    <2>6. F \in Seq(Inner)
      BY <2>5 DEF Flats
    <2>7. QED
      BY <2>6, LenProperties
  <1>2. Inner \subseteq All /\ Armed(life) \in All /\ Begin(life) \in All /\ Ended(life) \in All
    BY DEF StageLines
  <1>3. Sized(F, All, f)
    <2> HIDE DEF F, Inner, All
    <2> QED BY <1>1, <1>2, SeqMonotonic DEF Sized
  <1>4. m \in Nat /\ DOMAIN SymbolOrder = 1 .. m
    BY LenProperties DEF OrderAssumption
  <1>5. \A i \in 1 .. m : M[i] = Missed(life, i) /\ M[i] \in Inner
    <2> TAKE i \in 1 .. m
    <2>1. i \in DOMAIN SymbolOrder /\ M[i] = Missed(life, i)
      BY <1>4
    <2>2. Missed(life, i) \in {Missed(life, k) : k \in DOMAIN SymbolOrder}
      BY <2>1
    <2>3. Missed(life, i) \in Inner
      BY <2>2 DEF InnerLines
    <2>4. QED
      BY <2>1, <2>3
  <1>6. Sized(M, All, m)
    <2>1. M \in [1 .. m -> All]
      BY <1>2, <1>4, <1>5
    <2> HIDE DEF M, All, m
    <2>2. QED
      BY <1>4, <2>1, Listed
  <1>7. Sized(H, All, 2) /\ H[1] = Armed(life) /\ H[2] = Begin(life)
    BY <1>2 DEF Sized
  <1>8. Sized(E, All, 1) /\ E[1] = Ended(life)
    BY <1>2 DEF Sized
  <1>9. \A i \in 1 .. f : F[i] \in Inner
    <2> HIDE DEF F, Inner
    <2> QED BY <1>1, ElementOfSeq
  <1>10. StageDump(life) = ((H \o F) \o M) \o E
    BY DEF StageDump
  <1> HIDE DEF F, M, E, H, Inner, All, f, m
  <1>11. Sized(H \o F, All, 2 + f) /\ Glued(H \o F, H, F, 2, f)
    <2>1. 2 \in Nat
      OBVIOUS
    <2>2. QED
      BY <1>1, <1>3, <1>7, <2>1, Joined, Zenon
  <1> DEFINE HF == H \o F
  <1> HIDE DEF HF
  <1>12. Sized(HF \o M, All, (2 + f) + m) /\ Glued(HF \o M, HF, M, 2 + f, m)
    <2>1. 2 + f \in Nat /\ Sized(HF, All, 2 + f)
      BY <1>1, <1>11 DEF HF
    <2>2. QED
      BY <1>4, <1>6, <2>1, Joined, Zenon
  <1> DEFINE HFM == HF \o M
  <1> HIDE DEF HFM
  <1>13. Sized(HFM \o E, All, ((2 + f) + m) + 1) /\ Glued(HFM \o E, HFM, E, (2 + f) + m, 1)
    <2>1. (2 + f) + m \in Nat /\ 1 \in Nat /\ Sized(HFM, All, (2 + f) + m)
      BY <1>1, <1>4, <1>12 DEF HFM
    <2>2. QED
      BY <1>8, <2>1, Joined, Zenon
  <1> DEFINE D == StageDump(life)
             n == ((2 + f) + m) + 1
  <1>14. Sized(D, All, n) /\ Glued(D, HFM, E, (2 + f) + m, 1)
    BY <1>10, <1>13 DEF HF, HFM
  <1> HIDE DEF D
  <1>15. n \in Nat /\ n >= 3
    BY <1>1, <1>4
  <1>16. \A i \in 1 .. (2 + f) + m : D[i] = HFM[i]
    BY <1>14 DEF Glued
  <1>17. D[n] = Ended(life)
    <2>1. \A i \in 1 .. 1 : D[((2 + f) + m) + i] = E[i]
      BY <1>14 DEF Glued
    <2>2. D[((2 + f) + m) + 1] = E[1]
      BY <2>1
    <2>3. QED
      BY <1>8, <2>2
  <1>18. \A i \in 1 .. 2 + f : HFM[i] = HF[i]
    BY <1>12 DEF Glued, HFM
  <1>19. \A i \in 1 .. m : HFM[(2 + f) + i] = M[i]
    BY <1>12 DEF Glued, HFM
  <1>20. (\A i \in 1 .. 2 : HF[i] = H[i]) /\ \A i \in 1 .. f : HF[2 + i] = F[i]
    BY <1>11 DEF Glued, HF
  <1>21. D[1] = Armed(life) /\ D[2] = Begin(life)
    <2>1. /\ 1 \in 1 .. (2 + f) + m /\ 2 \in 1 .. (2 + f) + m
          /\ 1 \in 1 .. 2 + f /\ 2 \in 1 .. 2 + f /\ 1 \in 1 .. 2 /\ 2 \in 1 .. 2
      BY <1>1, <1>4
    <2>2. D[1] = HFM[1] /\ D[2] = HFM[2] /\ HFM[1] = HF[1] /\ HFM[2] = HF[2]
      BY <1>16, <1>18, <2>1
    <2>3. HF[1] = H[1] /\ HF[2] = H[2]
      BY <1>20, <2>1
    <2>4. QED
      BY <1>7, <2>2, <2>3
  <1>22. \A i \in 1 .. m : D[(2 + f) + i] = Missed(life, i) /\ (2 + f) + i \in 3 .. n - 1
    <2> TAKE i \in 1 .. m
    <2>1. (2 + f) + i \in 1 .. (2 + f) + m /\ (2 + f) + i \in 3 .. n - 1
      BY <1>1, <1>4
    <2>2. QED
      BY <1>5, <1>16, <1>19, <2>1
  <1>23. \A p \in 3 .. n - 1 : D[p] \in Inner
    <2> TAKE p \in 3 .. n - 1
    <2>1. CASE p <= 2 + f
      <3>1. p - 2 \in 1 .. f /\ 2 + (p - 2) = p /\ p \in 1 .. 2 + f /\ p \in 1 .. (2 + f) + m
        BY <1>1, <1>4, <2>1
      <3>2. HF[2 + (p - 2)] = F[p - 2] /\ F[p - 2] \in Inner
        BY <1>9, <1>20, <3>1
      <3>3. D[p] = HF[p]
        BY <1>16, <1>18, <3>1
      <3>4. QED
        BY <3>1, <3>2, <3>3
    <2>2. CASE ~(p <= 2 + f)
      <3>1. p - (2 + f) \in 1 .. m /\ (2 + f) + (p - (2 + f)) = p
        BY <1>1, <1>4, <2>2
      <3>2. D[(2 + f) + (p - (2 + f))] = Missed(life, p - (2 + f))
        BY <1>22, <3>1
      <3>3. Missed(life, p - (2 + f)) \in Inner
        BY <1>5, <3>1
      <3>4. QED
        BY <3>1, <3>2, <3>3
    <2>3. QED
      BY <2>1, <2>2
  <1>24. \A i \in DOMAIN SymbolOrder : \E p \in 3 .. n - 1 : D[p] = Missed(life, i)
    BY <1>4, <1>22
  <1> HIDE DEF n
  <1>25. QED
    BY <1>14, <1>15, <1>17, <1>21, <1>23, <1>24 DEF D, Inner, All

------------------------------------------------------------------------------
(* The lines of a scenario, and what becomes of them when they are saved:  *)
(* a saved line is a printed one, at most without its fields.              *)
TopLines(snap) ==
  {Mark(snap, "BEGIN"), Mark(snap, "END"), Reg(snap, PmcReg, snap.pmc)}
  \cup {Reg(snap, TopReg(i - 1), snap.table[i]) : i \in 1 .. TopWords}
LinesOf(s, x) == IF s.kind = "lives" THEN StageLines(x) ELSE TopLines(x)
PrintedLines(s) == UNION {LinesOf(s, s.of[i]) : i \in DOMAIN s.of}
Cut(ln)     == [ln EXCEPT !.cut = TRUE]
SavedLines(s) == PrintedLines(s) \cup {Cut(ln) : ln \in PrintedLines(s)}

SavedAs ==
  \/ noise = "none" /\ text = printed
  \/ noise = "lost" /\ \E i, k \in Lines : i <= k /\ text = Without(i, k)
  \/ noise = "cut" /\ \E i \in Lines : text = [printed EXCEPT ![i].cut = TRUE]
  \/ noise = "repeated" /\ \E i \in Lines :
       text = SubSeq(printed, 1, i) \o SubSeq(printed, i, Len(printed))
  \/ noise = "twice" /\ text = printed \o printed

LEMMA SavedType ==
  ASSUME NEW L, printed \in Seq(L), SavedAs
  PROVE  text \in Seq(L \cup {Cut(ln) : ln \in L})
  <1> DEFINE n == Len(printed)
             K == L \cup {Cut(ln) : ln \in L}
  <1>1. n \in Nat /\ \A i \in 1 .. n : printed[i] \in L
    BY LenProperties, ElementOfSeq
  <1>2. \A i, k \in Int : i >= 1 /\ k <= n => SubSeq(printed, i, k) \in Seq(L)
    <2> TAKE i, k \in Int
    <2> HAVE i >= 1 /\ k <= n
    <2>1. \A j \in i .. k : printed[j] \in L
      BY <1>1
    <2>2. QED
      BY <2>1, SubSeqProperties
  <1>3. \A t : t \in Seq(L) => t \in Seq(K)
    BY SeqMonotonic
  <1>4. CASE text = printed
    BY <1>3, <1>4
  <1>5. CASE \E i, k \in Lines : i <= k /\ text = Without(i, k)
    <2>1. PICK i \in Lines, k \in Lines : i <= k /\ text = Without(i, k)
      BY <1>5
    <2>2. i \in Int /\ k \in Int /\ i - 1 \in Int /\ k - 1 \in Int /\ i + 1 \in Int /\ k + 1 \in Int
          /\ 1 \in Int /\ n \in Int /\ i - 1 <= n /\ i + 1 >= 1 /\ k - 1 <= n /\ k + 1 >= 1
      BY <1>1 DEF Lines
    <2> DEFINE A == SubSeq(printed, 1, i - 1)
               B == IF Losses = "burst" THEN <<>> ELSE SubSeq(printed, i + 1, k - 1)
               C == SubSeq(printed, k + 1, n)
    <2>3. A \in Seq(L) /\ C \in Seq(L)
      BY <1>2, <2>2
    <2>4. B \in Seq(L)
      BY <1>2, <2>2, EmptySeq
    <2>5. text = A \o B \o C
      BY <2>1 DEF Without
    <2> HIDE DEF A, B, C, n
    <2>6. text \in Seq(L)
      BY <2>3, <2>4, <2>5, ConcatProperties
    <2>7. QED
      BY <1>3, <2>6
  <1>6. CASE \E i \in Lines : text = [printed EXCEPT ![i].cut = TRUE]
    <2>1. PICK i \in Lines : text = [printed EXCEPT ![i].cut = TRUE]
      BY <1>6
    <2>2. i \in 1 .. n
      BY DEF Lines
    <2>3. text = [printed EXCEPT ![i] = Cut(printed[i])]
      BY <1>1, <2>1, <2>2 DEF Cut
    <2>4. printed \in Seq(K) /\ Cut(printed[i]) \in K
      BY <1>1, <1>3, <2>2
    <2>5. QED
      <3> HIDE DEF K
      <3> QED BY <2>2, <2>3, <2>4, ExceptSeq
  <1>7. CASE \E i \in Lines : text = SubSeq(printed, 1, i) \o SubSeq(printed, i, n)
    <2>1. PICK i \in Lines : text = SubSeq(printed, 1, i) \o SubSeq(printed, i, n)
      BY <1>7
    <2>2. i \in Int /\ 1 \in Int /\ n \in Int /\ i >= 1 /\ i <= n
      BY <1>1 DEF Lines
    <2>3. SubSeq(printed, 1, i) \in Seq(L) /\ SubSeq(printed, i, n) \in Seq(L)
      BY <1>2, <2>2
    <2>4. text \in Seq(L)
      BY <2>1, <2>3, ConcatProperties
    <2>5. QED
      BY <1>3, <2>4
  <1>8. CASE text = printed \o printed
    <2>1. text \in Seq(L)
      BY <1>8, ConcatProperties
    <2>2. QED
      BY <1>3, <2>1
  <1>9. QED
    BY <1>4, <1>5, <1>6, <1>7, <1>8 DEF SavedAs

(* What is printed, chunk by chunk, is made of lines of the scenario.      *)
LEMMA TopDumpIs ==
  ASSUME OrderAssumption, NEW snap
  PROVE  TopDump(snap) \in Seq(TopLines(snap))
  <1> DEFINE L == TopLines(snap)
             T == [i \in 1 .. TopWords |-> Reg(snap, TopReg(i - 1), snap.table[i])]
             A == <<Mark(snap, "BEGIN")>>
             C == <<Reg(snap, PmcReg, snap.pmc), Mark(snap, "END")>>
  <1>1. A \in Seq(L) /\ C \in Seq(L)
    BY DEF TopLines
  <1>2. T \in Seq(L)
    <2>1. \A i \in 1 .. TopWords : T[i] \in L
      <3> TAKE i \in 1 .. TopWords
      <3>1. Reg(snap, TopReg(i - 1), snap.table[i])
              \in {Reg(snap, TopReg(j - 1), snap.table[j]) : j \in 1 .. TopWords}
        OBVIOUS
      <3>2. QED
        BY <3>1 DEF TopLines
    <2>2. T \in [1 .. TopWords -> L] /\ TopWords \in Nat
      BY <2>1 DEF OrderAssumption
    <2> HIDE DEF T, L
    <2>3. Sized(T, L, TopWords)
      BY <2>2, Listed
    <2>4. QED
      BY <2>3 DEF Sized
  <1>3. TopDump(snap) = (A \o T) \o C
    BY DEF TopDump
  <1> HIDE DEF A, C, T, L
  <1>4. A \o T \in Seq(L)
    BY <1>1, <1>2, ConcatProperties
  <1>5. QED
    BY <1>1, <1>3, <1>4, ConcatProperties DEF L

LEMMA ChunksAre ==
  ASSUME OrderAssumption, ScenarioAssumption, scenario \in Scenarios
  PROVE  \A c \in Collectors : \E n \in Nat :
           Sized(Chunks(c), Seq(PrintedLines(scenario)), n)
  <1> DEFINE L == PrintedLines(scenario)
  <1> SUFFICES ASSUME NEW c \in Collectors PROVE \E n \in Nat : Sized(Chunks(c), Seq(L), n)
    OBVIOUS
  <1>1. Sized(<<>>, Seq(L), 0)
    <2> HIDE DEF L
    <2> QED BY EmptySeq DEF Sized
  <1>2. CASE scenario.kind = "lives"
    <2>1. scenario.of \in Seq(Life)
      BY <1>2 DEF ScenarioAssumption
    <2> DEFINE n == Len(scenario.of)
    <2>2. n \in Nat /\ DOMAIN scenario.of = 1 .. n /\ \A i \in 1 .. n : scenario.of[i] \in Life
      BY <2>1, LenProperties, ElementOfSeq
    <2>3. ASSUME NEW i \in 1 .. n PROVE StageDump(scenario.of[i]) \in Seq(L)
      <3>1. StageDump(scenario.of[i]) \in Seq(StageLines(scenario.of[i]))
        BY <2>2, DumpIs DEF Sized
      <3>2. StageLines(scenario.of[i]) \subseteq L
        BY <1>2, <2>2 DEF PrintedLines, LinesOf
      <3>3. QED
        <4> HIDE DEF L
        <4> QED BY <3>1, <3>2, SeqMonotonic
    <2>4. CASE c = 1
      <3> DEFINE D == [i \in DOMAIN scenario.of |-> StageDump(scenario.of[i])]
      <3>1. Chunks(c) = D
        BY <1>2, <2>4 DEF Chunks
      <3>2. D \in [1 .. n -> Seq(L)]
        BY <2>2, <2>3
      <3> HIDE DEF D, n
      <3>3. QED
        BY <2>2, <3>1, <3>2, Listed
    <2>5. CASE c # 1
      <3>1. Chunks(c) = <<>>
        BY <1>2, <2>5 DEF Chunks
      <3>2. QED
        BY <1>1, <3>1
    <2>6. QED
      BY <2>4, <2>5
  <1>3. CASE scenario.kind = "snapshots"
    <2>1. CASE c \in DOMAIN scenario.of
      <3> DEFINE dump == TopDump(scenario.of[c])
                 n == Len(dump)
      <3>1. dump \in Seq(TopLines(scenario.of[c]))
        BY TopDumpIs
      <3>2. TopLines(scenario.of[c]) \subseteq L
        BY <1>3, <2>1 DEF PrintedLines, LinesOf
      <3>3. n \in Nat /\ DOMAIN dump = 1 .. n /\ \A i \in 1 .. n : dump[i] \in L
        <4> HIDE DEF dump, L
        <4> QED BY <3>1, <3>2, LenProperties, ElementOfSeq
      <3>4. Chunks(c) = [i \in DOMAIN dump |-> <<dump[i]>>]
        BY <1>3, <2>1 DEF Chunks
      <3> HIDE DEF dump, L
      <3>5. Chunks(c) \in [1 .. n -> Seq(L)]
        BY <3>3, <3>4
      <3> HIDE DEF n
      <3>6. QED
        BY <3>3, <3>5, Listed
    <2>2. CASE c \notin DOMAIN scenario.of
      <3>1. Chunks(c) = <<>>
        BY <1>3, <2>2 DEF Chunks
      <3>2. QED
        BY <1>1, <3>1
    <2>3. QED
      BY <2>1, <2>2
  <1>4. QED
    BY <1>2, <1>3 DEF ScenarioAssumption

(* The inductive invariant: the log is what the collectors have printed so *)
(* far, a saved log is what became of all of it, and the reports are those *)
(* of the saved log.                                                       *)
PrintedAs ==
  scenario.kind = "lives" => printed = FlattenSeq(SubSeq(Chunks(1), 1, pos[1]))

IInv ==
  /\ scenario \in Scenarios
  /\ phase \in {"printing", "saved", "decoded"}
  /\ pos \in [Collectors -> Nat] /\ \A c \in Collectors : pos[c] <= Len(Chunks(c))
  /\ printed \in Seq(PrintedLines(scenario))
  /\ PrintedAs
  /\ phase # "printing" => Printed /\ SavedAs
  /\ phase = "decoded" => stageReport = DecodeStages(text) /\ topReport = DecodeTop(text)

LEMMA InvInit ==
  ASSUME OrderAssumption, ScenarioAssumption, Init
  PROVE  IInv
  <1>1. scenario \in Scenarios /\ phase = "printing" /\ printed = <<>>
        /\ pos = [c \in Collectors |-> 0]
    BY DEF Init
  <1>2. \A c \in Collectors : Len(Chunks(c)) \in Nat
    BY <1>1, ChunksAre DEF Sized
  <1>3. pos \in [Collectors -> Nat] /\ \A c \in Collectors : pos[c] = 0
    BY <1>1
  <1>4. \A c \in Collectors : pos[c] <= Len(Chunks(c))
    BY <1>2, <1>3
  <1>5. PrintedAs
    <2>1. pos[1] = 0
      BY <1>3 DEF Collectors
    <2>2. SubSeq(Chunks(1), 1, 0) = <<>>
      BY SubSeqEmpty
    <2>3. FlattenSeq(<<>>) = <<>>
      BY DEF FlattenSeq
    <2>4. QED
      BY <1>1, <2>1, <2>2, <2>3 DEF PrintedAs
  <1>6. QED
    BY <1>1, <1>3, <1>4, <1>5, EmptySeq DEF IInv

LEMMA InvNext ==
  ASSUME OrderAssumption, ScenarioAssumption, IInv, [Next]_vars
  PROVE  IInv'
  <1>1. ASSUME NEW c \in Collectors, Dump(c) PROVE IInv'
    <2> DEFINE L == PrintedLines(scenario)
    <2>1. PICK n \in Nat : Sized(Chunks(c), Seq(L), n)
      BY ChunksAre DEF IInv
    <2>2. Len(Chunks(c)) = n /\ \A i \in 1 .. n : Chunks(c)[i] \in Seq(L)
      <3> HIDE DEF L
      <3> QED BY <2>1, ElementOfSeq DEF Sized
    <2>3. /\ pos[c] < n /\ printed' = printed \o Chunks(c)[pos[c] + 1]
          /\ pos' = [pos EXCEPT ![c] = @ + 1]
          /\ scenario' = scenario /\ phase' = phase /\ phase = "printing"
      BY <1>1, <2>2 DEF Dump
    <2>4. pos \in [Collectors -> Nat] /\ pos[c] \in Nat /\ pos[c] + 1 \in 1 .. n
          /\ pos[c] \in 0 .. n - 1
      BY <2>3 DEF IInv
    <2>5. printed' \in Seq(L)
      <3>1. printed \in Seq(L)
        BY <2>3 DEF IInv
      <3>3. Chunks(c)[pos[c] + 1] \in Seq(L)
        BY <2>2, <2>4
      <3> HIDE DEF L
      <3>2. QED
        BY <2>3, <3>1, <3>3, ConcatProperties
    <2>6. \A d \in Collectors : Chunks(d)' = Chunks(d)
      BY <2>3 DEF Chunks
    <2>7. pos' \in [Collectors -> Nat] /\ \A d \in Collectors : pos'[d] <= Len(Chunks(d))
      <3>1. pos' \in [Collectors -> Nat]
        BY <2>3, <2>4
      <3>2. ASSUME NEW d \in Collectors PROVE pos'[d] <= Len(Chunks(d))
        <4>1. CASE d = c
          BY <2>2, <2>3, <2>4, <4>1
        <4>2. CASE d # c
          BY <2>3, <2>4, <4>2 DEF IInv
        <4>3. QED
          BY <4>1, <4>2
      <3>3. QED
        BY <3>1, <3>2
    <2>8. PrintedAs'
      <3> SUFFICES ASSUME scenario.kind = "lives"
                   PROVE  printed' = FlattenSeq(SubSeq(Chunks(1)', 1, pos'[1]))
        BY <2>3 DEF PrintedAs
      <3>1. c = 1
        <4>1. c = 2 => Chunks(c) = <<>>
          BY DEF Chunks
        <4>2. c = 2 => n = 0
          BY <2>2, <4>1
        <4>3. QED
          BY <2>4, <4>2 DEF Collectors
      <3>2. printed = FlattenSeq(SubSeq(Chunks(1), 1, pos[1]))
        BY DEF IInv, PrintedAs
      <3>3. pos'[1] = pos[1] + 1 /\ Chunks(1)' = Chunks(1)
        BY <2>3, <2>4, <2>6, <3>1
      <3>4. FlattenSeq(SubSeq(Chunks(1), 1, pos[1] + 1))
              = FlattenSeq(SubSeq(Chunks(1), 1, pos[1])) \o Chunks(1)[pos[1] + 1]
        <4>1. Sized(Chunks(1), Seq(L), n) /\ pos[1] \in 0 .. n - 1
          BY <2>1, <2>4, <3>1
        <4>2. n \in Nat
          BY <2>1
        <4>3. FlatNext(Chunks(1), pos[1])
          <5> HIDE DEF L
          <5> QED BY <4>1, <4>2, FlattenNext, Zenon
        <4>4. QED
          BY <4>3 DEF FlatNext, FlatTo
      <3>5. QED
        BY <2>3, <3>1, <3>2, <3>3, <3>4
    <2>9. QED
      BY <2>3, <2>5, <2>6, <2>7, <2>8 DEF IInv
  <1>2. ASSUME NEW how, NEW log, Saved(how, log), SavedAs' PROVE IInv'
    BY <1>2 DEF Saved, IInv, PrintedAs, Printed, Chunks
  <1>3. CASE SaveWhole
    <2>1. Saved("none", printed)
      BY <1>3 DEF SaveWhole
    <2>2. SavedAs'
      BY <2>1 DEF Saved, SavedAs
    <2>3. QED
      BY <1>2, <2>1, <2>2
  <1>4. CASE SaveSome
    <2>1. PICK i \in Lines, k \in Lines : i <= k /\ Saved("lost", Without(i, k))
      BY <1>4 DEF SaveSome
    <2>2. printed' = printed /\ noise' = "lost" /\ text' = Without(i, k)
      BY <2>1 DEF Saved
    <2>3. SavedAs'
      BY <2>1, <2>2 DEF SavedAs, Lines, Without
    <2>4. QED
      BY <1>2, <2>1, <2>3
  <1>5. CASE SaveCut
    <2>1. PICK i \in Lines : Saved("cut", [printed EXCEPT ![i].cut = TRUE])
      BY <1>5 DEF SaveCut
    <2>2. SavedAs'
      BY <2>1 DEF Saved, SavedAs, Lines
    <2>3. QED
      BY <1>2, <2>1, <2>2
  <1>6. CASE SaveRepeated
    <2>1. PICK i \in Lines :
            Saved("repeated", SubSeq(printed, 1, i) \o SubSeq(printed, i, Len(printed)))
      BY <1>6 DEF SaveRepeated
    <2>2. SavedAs'
      BY <2>1 DEF Saved, SavedAs, Lines
    <2>3. QED
      BY <1>2, <2>1, <2>2
  <1>7. CASE SaveTwice
    <2>1. Saved("twice", printed \o printed)
      BY <1>7 DEF SaveTwice
    <2>2. SavedAs'
      BY <2>1 DEF Saved, SavedAs
    <2>3. QED
      BY <1>2, <2>1, <2>2
  <1>8. ASSUME UNCHANGED <<scenario, pos, printed, text, noise>>
         PROVE  /\ PrintedAs => PrintedAs'
                /\ Printed => Printed'
                /\ SavedAs => SavedAs'
                /\ \A c : Chunks(c)' = Chunks(c)
    <2>1. \A c : Chunks(c)' = Chunks(c)
      BY <1>8 DEF Chunks
    <2>2. PrintedAs => PrintedAs'
      BY <1>8, <2>1 DEF PrintedAs
    <2>3. Printed => Printed'
      BY <1>8, <2>1 DEF Printed
    <2>4. Lines' = Lines /\ \A i, k : Without(i, k)' = Without(i, k)
      BY <1>8 DEF Lines, Without
    <2>5. SavedAs => SavedAs'
      BY <1>8, <2>4 DEF SavedAs
    <2>6. QED
      BY <2>1, <2>2, <2>3, <2>5
  <1>9. CASE Decode
    <2>1. /\ phase = "saved" /\ phase' = "decoded"
          /\ stageReport' = DecodeStages(text) /\ topReport' = DecodeTop(text)
          /\ UNCHANGED <<scenario, pos, printed, text, noise>>
      BY <1>9 DEF Decode
    <2>2. PrintedAs' /\ Printed' /\ SavedAs'
      BY <1>8, <2>1 DEF IInv
    <2>3. \A c \in Collectors : pos'[c] <= Len(Chunks(c)')
      BY <1>8, <2>1 DEF IInv
    <2>4. QED
      BY <2>1, <2>2, <2>3 DEF IInv
  <1>10. CASE UNCHANGED vars
    <2>1. UNCHANGED <<scenario, pos, printed, text, noise, phase, stageReport, topReport>>
      BY <1>10 DEF vars
    <2>2. PrintedAs' /\ (phase # "printing" => Printed' /\ SavedAs')
      BY <1>8, <2>1 DEF IInv
    <2>3. \A c \in Collectors : pos'[c] <= Len(Chunks(c)')
      BY <1>8, <2>1 DEF IInv
    <2>4. QED
      BY <2>1, <2>2, <2>3 DEF IInv
  <1>11. QED
    BY <1>1, <1>3, <1>4, <1>5, <1>6, <1>7, <1>9, <1>10 DEF Next, Terminated

(* The inductive invariant holds for any scenario and any loss.            *)
THEOREM Invariance ==
  ASSUME OrderAssumption, ScenarioAssumption
  PROVE  Spec => []IInv
  <1>1. Init => IInv
    BY InvInit
  <1>2. IInv /\ [Next]_vars => IInv'
    BY InvNext
  <1>3. QED
    BY <1>1, <1>2, PTL DEF Spec

------------------------------------------------------------------------------
(* A selector is never wrong.  What is in the log of the TOP collectors: a *)
(* register line with its fields says what one of the GPUs has.            *)
Tells(r, snap) == /\ r.bdf = snap.bdf
                  /\ \/ r.reg = PmcReg /\ r.value = snap.pmc
                     \/ \E i \in 1 .. TopWords : /\ r.reg = TopReg(i - 1)
                                                /\ r.value = snap.table[i]

LEMMA StageLineIs ==
  ASSUME NEW life, NEW ln \in StageLines(life)
  PROVE  ln.from = "cmp100_stage_ro" /\ Cut(ln).from = "cmp100_stage_ro"
  <1>1. CASE ln \in {Armed(life), Begin(life), Ended(life)}
    BY <1>1 DEF Armed, Begin, Ended, Cut
  <1>2. CASE ln \in {Stage(life, i) : i \in DOMAIN Stored(life)}
    BY <1>2 DEF Stage, Cut
  <1>3. CASE ln \in {Missed(life, i) : i \in DOMAIN SymbolOrder}
    BY <1>3 DEF Missed, Cut
  <1>4. CASE ln \in UNION {Values(life, i) : i \in DOMAIN Stored(life)}
    <2>1. PICK i \in DOMAIN Stored(life) : ln \in Values(life, i)
      BY <1>4
    <2>2. PICK r : ln = Value(life, i, r)
      BY <2>1 DEF Values
    <2>3. QED
      BY <2>2 DEF Value, Cut
  <1>5. QED
    BY <1>1, <1>2, <1>3, <1>4 DEF StageLines, InnerLines

LEMMA TopLineIs ==
  ASSUME NEW snap, NEW ln \in TopLines(snap)
  PROVE  /\ ln.from = "cmp100_boot_ro" /\ ln.m \in {"BEGIN", "END", "REG"} /\ ~ln.cut
         /\ Cut(ln).from = "cmp100_boot_ro" /\ Cut(ln).m \in {"BEGIN", "END", "REG"}
         /\ Cut(ln).cut
         /\ ln.m = "REG" => Tells([bdf |-> ln.bdf, reg |-> ln.reg, value |-> ln.value], snap)
  <1>1. CASE ln \in {Mark(snap, "BEGIN"), Mark(snap, "END")}
    BY <1>1 DEF Mark, Cut
  <1>2. CASE ln = Reg(snap, PmcReg, snap.pmc)
    BY <1>2 DEF Reg, Cut, Tells
  <1>3. CASE ln \in {Reg(snap, TopReg(i - 1), snap.table[i]) : i \in 1 .. TopWords}
    BY <1>3 DEF Reg, Cut, Tells
  <1>4. QED
    BY <1>1, <1>2, <1>3 DEF TopLines

(* The saved log, of the stage collector or of the TOP collectors.         *)
LEMMA TopLogIs ==
  ASSUME text \in Seq(SavedLines(scenario)), scenario.kind \in {"lives", "snapshots"}
  PROVE  /\ TopLog(text)
         /\ \A r \in RegsOf(text) : /\ scenario.kind = "snapshots"
                                   /\ \E k \in DOMAIN scenario.of : Tells(r, scenario.of[k])
  <1>1. Len(text) \in Nat /\ \A p \in 1 .. Len(text) : text[p] \in SavedLines(scenario)
    BY LenProperties, ElementOfSeq
  <1>2. ASSUME NEW ln \in PrintedLines(scenario)
        PROVE  \E k \in DOMAIN scenario.of : ln \in LinesOf(scenario, scenario.of[k])
    BY DEF PrintedLines
  <1>3. ASSUME NEW ln \in SavedLines(scenario)
        PROVE  /\ ln.from = "cmp100_boot_ro" => ln.m \in {"BEGIN", "END", "REG"}
               /\ ln.from = "cmp100_boot_ro" /\ ln.m = "REG" /\ ~ln.cut =>
                    /\ scenario.kind = "snapshots"
                    /\ \E k \in DOMAIN scenario.of :
                         Tells([bdf |-> ln.bdf, reg |-> ln.reg, value |-> ln.value],
                               scenario.of[k])
    <2>1. PICK whole \in PrintedLines(scenario) : ln = whole \/ ln = Cut(whole)
      BY DEF SavedLines
    <2>2. PICK k \in DOMAIN scenario.of : whole \in LinesOf(scenario, scenario.of[k])
      BY <1>2
    <2>3. CASE scenario.kind = "lives"
      <3>1. whole \in StageLines(scenario.of[k])
        BY <2>2, <2>3 DEF LinesOf
      <3>2. ln.from = "cmp100_stage_ro"
        BY <2>1, <3>1, StageLineIs
      <3>3. QED
        BY <3>2
    <2>4. CASE scenario.kind = "snapshots"
      <3>1. whole \in TopLines(scenario.of[k])
        BY <2>2, <2>4 DEF LinesOf
      <3>2. /\ ln.from = "cmp100_boot_ro" => ln.m \in {"BEGIN", "END", "REG"}
            /\ ln = whole \/ ln.cut
        BY <2>1, <3>1, TopLineIs
      <3>3. ASSUME ln.m = "REG", ~ln.cut
            PROVE  Tells([bdf |-> ln.bdf, reg |-> ln.reg, value |-> ln.value], scenario.of[k])
        BY <3>1, <3>2, <3>3, TopLineIs
      <3>4. QED
        BY <2>2, <2>4, <3>2, <3>3
    <2>5. QED
      BY <2>3, <2>4
  <1>4. TopLog(text)
    BY <1>1, <1>3 DEF TopLog
  <1>5. ASSUME NEW r \in RegsOf(text)
        PROVE  /\ scenario.kind = "snapshots"
               /\ \E k \in DOMAIN scenario.of : Tells(r, scenario.of[k])
    <2>1. PICK p \in 1 .. Len(text) :
            /\ text[p].from = "cmp100_boot_ro" /\ text[p].m = "REG" /\ ~text[p].cut
            /\ r = [bdf |-> text[p].bdf, reg |-> text[p].reg, value |-> text[p].value]
      BY DEF RegsOf
    <2>2. QED
      BY <1>1, <1>3, <2>1
  <1>6. QED
    BY <1>4, <1>5

LEMMA SelectorTrue ==
  ASSUME OrderAssumption, ScenarioAssumption, IInv
  PROVE  SelectorWitnessed
  <1> SUFFICES ASSUME phase = "decoded", NEW s \in ToSet(topReport.snapshots), s.selector # -1
               PROVE  \E snap \in ToSet(scenario.of) :
                        /\ s.bdfs = {snap.bdf}
                        /\ s.selector = GrSelector(snap.table)
                        /\ s.enabled \in {"unknown", IF s.selector \in snap.pmc.bits
                                                     THEN "set" ELSE "clear"}
    BY DEF SelectorWitnessed
  <1>1. text \in Seq(SavedLines(scenario))
    BY SavedType DEF IInv, SavedLines
  <1>2. /\ scenario.kind \in {"lives", "snapshots"}
        /\ scenario.kind = "snapshots" =>
             /\ scenario.of \in Seq(Snapshot)
             /\ \A i, k \in DOMAIN scenario.of : scenario.of[i].bdf = scenario.of[k].bdf => i = k
    BY DEF IInv, ScenarioAssumption
  <1>3. PICK x \in SnapsOf(text) : s = Finalize(x)
    <2> DEFINE a == ReadTop(text).snapshots
               b == ReadTop(text).open
               all == a \o b
               X == SnapsOf(text)
    <2>1. a \in Seq(X) /\ b \in Seq(X)
      BY <1>1, <1>2, TopLogIs, TopReadType
    <2>2. topReport.snapshots = [i \in DOMAIN all |-> Finalize(all[i])]
      <3>1. topReport = DecodeTop(text)
        BY DEF IInv
      <3>2. DecodeTop(text).snapshots = [i \in DOMAIN all |-> Finalize(all[i])]
        BY DEF DecodeTop
      <3>3. QED
        BY <3>1, <3>2
    <2> HIDE DEF a, b, X
    <2>3. all \in Seq(X)
      BY <2>1, ConcatProperties
    <2> HIDE DEF all
    <2>4. DOMAIN all = 1 .. Len(all) /\ \A i \in 1 .. Len(all) : all[i] \in X
      BY <2>3, LenProperties, ElementOfSeq
    <2>5. PICK i \in DOMAIN all : s = Finalize(all[i])
      BY <2>2 DEF ToSet
    <2>6. QED
      BY <2>4, <2>5 DEF X
  <1> DEFINE t == Table(x)
             Found(b) ==
               /\ Finalize(x).bdfs = {b}
               /\ \E r \in RegsOf(text) : r.bdf = b
               /\ \A i \in 1 .. TopWords :
                    /\ ~Table(x)[i].ones
                    /\ \E r \in RegsOf(text) :
                         r.bdf = b /\ r.reg = TopReg(i - 1) /\ r.value = Table(x)[i]
               /\ \/ Finalize(x).enabled = "unknown"
                  \/ \E r \in RegsOf(text) :
                       /\ r.bdf = b /\ r.reg = PmcReg
                       /\ Finalize(x).enabled = IF Finalize(x).selector \in r.value.bits
                                                THEN "set" ELSE "clear"
  <1>4. /\ DecodeWords(t).open = <<>> /\ s.selector = GrReset(DecodeWords(t).devices)
        /\ DOMAIN t = 1 .. TopWords /\ \E b : Found(b)
    <2>1. TopWords \in Nat
      BY DEF OrderAssumption
    <2>2. Finalize(x).selector # -1
      BY <1>3
    <2>3. /\ DecodeWords(Table(x)).open = <<>>
          /\ Finalize(x).selector = GrReset(DecodeWords(Table(x)).devices)
          /\ DOMAIN Table(x) = 1 .. TopWords /\ \E b : Found(b)
      BY <2>1, <2>2, SelectorLines, Zenon
    <2> HIDE DEF Found
    <2>4. QED
      BY <1>3, <2>3
  <1>5. PICK b : Found(b)
    BY <1>4
  <1>6. /\ s.bdfs = {b}
        /\ \E r \in RegsOf(text) : r.bdf = b
        /\ \A i \in 1 .. TopWords :
             /\ ~t[i].ones
             /\ \E r \in RegsOf(text) : r.bdf = b /\ r.reg = TopReg(i - 1) /\ r.value = t[i]
        /\ \/ s.enabled = "unknown"
           \/ \E r \in RegsOf(text) :
                /\ r.bdf = b /\ r.reg = PmcReg
                /\ s.enabled = IF s.selector \in r.value.bits THEN "set" ELSE "clear"
    BY <1>3, <1>5 DEF t
  <1> HIDE DEF t, Found
  <1>7. scenario.kind = "snapshots"
    BY <1>1, <1>2, <1>6, TopLogIs
  <1>8. PICK k \in DOMAIN scenario.of : scenario.of[k].bdf = b
    <2>1. PICK r \in RegsOf(text) : r.bdf = b
      BY <1>6
    <2>2. PICK j \in DOMAIN scenario.of : Tells(r, scenario.of[j])
      BY <1>1, <1>2, <2>1, TopLogIs
    <2>3. QED
      BY <2>1, <2>2 DEF Tells
  <1> DEFINE snap == scenario.of[k]
  <1>9. ASSUME NEW r \in RegsOf(text), r.bdf = b PROVE Tells(r, snap)
    <2>1. PICK j \in DOMAIN scenario.of : Tells(r, scenario.of[j])
      BY <1>1, <1>2, TopLogIs
    <2>2. scenario.of[j].bdf = scenario.of[k].bdf
      BY <1>8, <1>9, <2>1 DEF Tells
    <2>3. j = k
      BY <1>2, <1>7, <2>2
    <2>4. QED
      BY <2>1, <2>3
  <1>10. snap \in ToSet(scenario.of) /\ snap \in Snapshot
    BY <1>2, <1>7, LenProperties, ElementOfSeq DEF ToSet
  <1>11. snap.bdf = b /\ snap.table \in [1 .. TopWords -> TopWord]
    BY <1>8, <1>10 DEF Snapshot
  <1> HIDE DEF snap
  <1>12. ASSUME NEW i \in 1 .. TopWords PROVE t[i] = snap.table[i] /\ ~snap.table[i].ones
    <2>1. PICK r \in RegsOf(text) : r.bdf = b /\ r.reg = TopReg(i - 1) /\ r.value = t[i]
      BY <1>6
    <2>2. Tells(r, snap)
      BY <1>9, <2>1
    <2>3. TopReg(i - 1) # PmcReg
      BY DEF TopReg, PmcReg
    <2>4. PICK j \in 1 .. TopWords : r.reg = TopReg(j - 1) /\ r.value = snap.table[j]
      BY <2>1, <2>2, <2>3 DEF Tells
    <2>5. i - 1 = j - 1
      BY <2>1, <2>4 DEF TopReg
    <2>6. i = j
      BY <2>5 DEF OrderAssumption
    <2>7. QED
      BY <1>6, <2>1, <2>4, <2>6
  <1>13. t = snap.table
    <2>1. DOMAIN snap.table = 1 .. TopWords
      BY <1>11
    <2>2. t = [i \in 1 .. TopWords |-> t[i]]
      BY <1>3, <1>4 DEF t, Table
    <2>3. snap.table = [i \in 1 .. TopWords |-> snap.table[i]]
      BY <1>11
    <2>4. QED
      BY <1>12, <2>2, <2>3
  <1>14. s.selector = GrSelector(snap.table)
    BY <1>4, <1>11, <1>12, <1>13, SelectorOfTable DEF OrderAssumption
  <1>15. s.enabled \in {"unknown", IF s.selector \in snap.pmc.bits THEN "set" ELSE "clear"}
    <2>1. CASE s.enabled = "unknown"
      BY <2>1
    <2>2. CASE \E r \in RegsOf(text) :
                 /\ r.bdf = b /\ r.reg = PmcReg
                 /\ s.enabled = IF s.selector \in r.value.bits THEN "set" ELSE "clear"
      <3>1. PICK r \in RegsOf(text) :
              /\ r.bdf = b /\ r.reg = PmcReg
              /\ s.enabled = IF s.selector \in r.value.bits THEN "set" ELSE "clear"
        BY <2>2
      <3>2. Tells(r, snap)
        BY <1>9, <3>1
      <3>3. \A i : TopReg(i - 1) # PmcReg
        BY DEF TopReg, PmcReg
      <3>4. r.value = snap.pmc
        BY <3>1, <3>2, <3>3 DEF Tells
      <3>5. QED
        BY <3>1, <3>4
    <2>3. QED
      BY <1>6, <2>1, <2>2
  <1>16. QED
    BY <1>6, <1>10, <1>11, <1>14, <1>15

(* A derived GR reset selector is that of the only GR engine in the table  *)
(* of the GPU it is reported for, and the engine is enabled or not as PMC  *)
(* had it: for tables of any length, any words in them, and any loss.      *)
THEOREM SelectorIsWitnessed ==
  ASSUME OrderAssumption, ScenarioAssumption
  PROVE  Spec => []SelectorWitnessed
  <1>1. IInv => SelectorWitnessed
    BY SelectorTrue
  <1>2. QED
    BY <1>1, Invariance, PTL

------------------------------------------------------------------------------
(* A run that was read from the lines of one life.                         *)
SavedOf(life) == StageLines(life) \cup {Cut(ln) : ln \in StageLines(life)}

LEMMA LineIs ==
  ASSUME NEW life, NEW ln \in StageLines(life)
  PROVE  /\ ~ln.cut /\ Ours(ln) /\ Cut(ln).cut /\ Ours(Cut(ln)) /\ Cut(ln).m = ln.m
         /\ ln.m \in {"ARMED", "BEGIN", "STAGE", "VALUE", "MISSED", "END"}
         /\ ln.m = "ARMED" => ln = Armed(life)
         /\ ln.m = "BEGIN" => ln = Begin(life)
         /\ ln.m = "END" => ln = Ended(life)
         /\ ln.m = "STAGE" => \E i \in DOMAIN Stored(life) : ln = Stage(life, i)
         /\ ln.m = "VALUE" => \E i \in DOMAIN Stored(life) :
                                \E r \in Regs(Stored(life)[i].name) : ln = Value(life, i, r)
         /\ ln.m = "MISSED" => \E i \in DOMAIN SymbolOrder : ln = Missed(life, i)
  <1>1. CASE ln \in {Armed(life), Begin(life), Ended(life)}
    BY <1>1 DEF Armed, Begin, Ended, Cut, Ours
  <1>2. CASE ln \in {Stage(life, i) : i \in DOMAIN Stored(life)}
    BY <1>2 DEF Stage, Cut, Ours
  <1>3. CASE ln \in {Missed(life, i) : i \in DOMAIN SymbolOrder}
    BY <1>3 DEF Missed, Cut, Ours
  <1>4. CASE ln \in UNION {Values(life, i) : i \in DOMAIN Stored(life)}
    <2>1. PICK i \in DOMAIN Stored(life) : ln \in Values(life, i)
      BY <1>4
    <2>2. PICK r \in Regs(Stored(life)[i].name) : ln = Value(life, i, r)
      BY <2>1 DEF Values
    <2>3. /\ ~ln.cut /\ Ours(ln) /\ Cut(ln).cut /\ Ours(Cut(ln)) /\ Cut(ln).m = ln.m
          /\ ln.m = "VALUE"
      BY <2>2 DEF Value, Cut, Ours
    <2>4. QED
      BY <2>2, <2>3
  <1>5. QED
    BY <1>1, <1>2, <1>3, <1>4 DEF StageLines, InnerLines

LEMMA SavedLineIs ==
  ASSUME NEW life, NEW ln \in SavedOf(life), ~ln.cut
  PROVE  ln \in StageLines(life)
  <1>1. PICK whole \in StageLines(life) : ln = whole \/ ln = Cut(whole)
    BY DEF SavedOf
  <1>2. QED
    BY <1>1, LineIs

(* Its stages, as far as they go, are those that were stored.              *)
TakenFrom(stage, R, G) ==
  /\ stage.values \in Seq([reg : R, value : {G[r] : r \in R}])
  /\ \A v \in DOMAIN stage.values : stage.values[v].value = G[stage.values[v].reg]
Agrees(run, life) ==
  /\ Len(run.stages) \in Nat /\ DOMAIN run.stages = 1 .. Len(run.stages)
  /\ \A k \in DOMAIN run.stages :
       \E i \in DOMAIN Stored(life) :
         /\ run.stages[k].seq = i - 1
         /\ run.stages[k].name = Stored(life)[i].name
         /\ run.stages[k].rc = Stored(life)[i].rc
         /\ run.stages[k].invalid = Stored(life)[i].invalid
         /\ TakenFrom(run.stages[k], Regs(Stored(life)[i].name), Stored(life)[i].vals)

AllOf(log, b, e, life) == \A p \in b .. e : log[p] \in SavedOf(life)
Reports(run, life) ==
  /\ Agrees(run, life)
  /\ run.begin # "none" => /\ run.records = Len(Stored(life))
                           /\ run.dropped = Begin(life).dropped
  /\ \A k \in DOMAIN run.missed :
       \E i \in DOMAIN SymbolOrder : /\ run.missed[k].symbol = SymbolOrder[i]
                                     /\ run.missed[k].n = Missed(life, i).n

LEMMA RunAgrees ==
  ASSUME NEW life \in Life, NEW log, NEW V, NEW run, NEW b \in Nat, NEW e \in Nat,
         WholeRun(log, V, run, b, e), AllOf(log, b, e, life)
  PROVE  Reports(run, life)
  <1> DEFINE i0 == e - 1
             X == StagesIn(log, b, i0)
             Y == MissedIn(log, b, i0)
  <1>1. b < e /\ Stretch(log, b, i0) /\ run \in RunsIn(log, V, b, i0)
    BY DEF WholeRun
  <1>2. /\ run.stages \in Seq(X) /\ run.missed \in Seq(Y) /\ run.begin = Field(log[b])
        /\ ~log[b].cut => run.records = log[b].records /\ run.dropped = log[b].dropped
    BY <1>1 DEF RunsIn, Record
  <1>3. ASSUME NEW m, NEW p \in Within(log, b, i0, m)
        PROVE  log[p] \in StageLines(life) /\ log[p].m = m
    <2>1. p \in b .. e
      BY <1>1 DEF Within
    <2>2. QED
      BY <2>1, SavedLineIs DEF Within, AllOf
  <1>4. ASSUME run.begin # "none"
        PROVE  run.records = Len(Stored(life)) /\ run.dropped = Begin(life).dropped
    <2>1. ~log[b].cut
      BY <1>2, <1>4 DEF Field
    <2>2. log[b] \in StageLines(life) /\ log[b].m = "BEGIN"
      BY <1>1, <2>1, SavedLineIs DEF Stretch, AllOf
    <2>3. log[b] = Begin(life)
      BY <2>2, LineIs
    <2>4. Begin(life).records = Len(Stored(life))
      BY DEF Begin
    <2>5. QED
      BY <1>2, <2>1, <2>3, <2>4
  <1>5. \A k \in DOMAIN run.missed : run.missed[k] \in Y
    <2> HIDE DEF Y
    <2> QED BY <1>2, LenProperties, ElementOfSeq
  <1>6. ASSUME NEW k \in DOMAIN run.missed
        PROVE  \E i \in DOMAIN SymbolOrder : /\ run.missed[k].symbol = SymbolOrder[i]
                                             /\ run.missed[k].n = Missed(life, i).n
    <2>1. PICK p \in Within(log, b, i0, "MISSED") :
            run.missed[k] = [symbol |-> log[p].symbol, n |-> log[p].n]
      BY <1>5 DEF MissedIn
    <2>2. log[p] \in StageLines(life) /\ log[p].m = "MISSED"
      BY <1>3
    <2>3. PICK i \in DOMAIN SymbolOrder : log[p] = Missed(life, i)
      BY <2>2, LineIs
    <2>4. Missed(life, i).symbol = SymbolOrder[i]
      BY DEF Missed
    <2>5. QED
      BY <2>1, <2>3, <2>4
  <1>7. /\ Len(run.stages) \in Nat /\ DOMAIN run.stages = 1 .. Len(run.stages)
        /\ \A k \in DOMAIN run.stages : run.stages[k] \in X
    <2> HIDE DEF X
    <2> QED BY <1>2, LenProperties, ElementOfSeq
  <1>8. ASSUME NEW k \in DOMAIN run.stages
        PROVE  \E i \in DOMAIN Stored(life) :
                 /\ run.stages[k].seq = i - 1
                 /\ run.stages[k].name = Stored(life)[i].name
                 /\ run.stages[k].rc = Stored(life)[i].rc
                 /\ run.stages[k].invalid = Stored(life)[i].invalid
                 /\ TakenFrom(run.stages[k], Regs(Stored(life)[i].name), Stored(life)[i].vals)
    <2>1. PICK p \in Within(log, b, i0, "STAGE") : run.stages[k] \in StageAt(log, b, i0, p)
      BY <1>7 DEF StagesIn
    <2> DEFINE ln == log[p]
               W == ValuesIn(log, b, i0, ln.seq)
    <2>2. PICK values \in Seq(W) : run.stages[k] = StageWith(ln, values)
      BY <2>1 DEF StageAt
    <2>3. PICK i \in DOMAIN Stored(life) : ln = Stage(life, i)
      <3>1. ln \in StageLines(life) /\ ln.m = "STAGE"
        BY <1>3
      <3>2. QED
        BY <3>1, LineIs
    <2>4. /\ ln.seq = i - 1 /\ ln.name = Stored(life)[i].name /\ ln.rc = Stored(life)[i].rc
          /\ ln.invalid = Stored(life)[i].invalid
      BY <2>3 DEF Stage
    <2> DEFINE R == Regs(Stored(life)[i].name)
               G == Stored(life)[i].vals
               T == [reg : R, value : {G[r] : r \in R}]
    <2>5. ASSUME NEW w \in W PROVE w \in T /\ w.value = G[w.reg]
      <3>1. PICK q \in Within(log, b, i0, "VALUE") :
              log[q].seq = i - 1 /\ w = [reg |-> log[q].reg, value |-> log[q].value]
        BY <2>4 DEF ValuesIn
      <3>2. log[q] \in StageLines(life) /\ log[q].m = "VALUE"
        BY <1>3
      <3>3. PICK j \in DOMAIN Stored(life) :
              \E r \in Regs(Stored(life)[j].name) : log[q] = Value(life, j, r)
        BY <3>2, LineIs
      <3>4. PICK r \in Regs(Stored(life)[j].name) : log[q] = Value(life, j, r)
        BY <3>3
      <3>5. log[q].seq = j - 1 /\ log[q].reg = r /\ log[q].value = Stored(life)[j].vals[r]
        BY <3>4 DEF Value
      <3>6. DOMAIN Stored(life) \subseteq Nat
        BY StoredIs
      <3>7. j = i
        BY <3>1, <3>5, <3>6
      <3>8. r \in R /\ w.reg = r /\ w.value = G[r] /\ w = [reg |-> r, value |-> G[r]]
        BY <3>1, <3>4, <3>5, <3>7
      <3> HIDE DEF R, G
      <3>9. QED
        BY <3>8
    <2>6. values \in Seq(T) /\ \A v \in DOMAIN values : values[v].value = G[values[v].reg]
      <3>1. W \subseteq T
        BY <2>5
      <3>2. \A v \in DOMAIN values : values[v] \in W
        <4> HIDE DEF W
        <4> QED BY <2>2, LenProperties, ElementOfSeq
      <3> HIDE DEF W, T, R, G
      <3>3. values \in Seq(T)
        BY <2>2, <3>1, SeqMonotonic
      <3>4. QED
        BY <2>5, <3>2, <3>3
    <2> HIDE DEF W, G, T, R
    <2>7. /\ run.stages[k].seq = ln.seq /\ run.stages[k].name = ln.name
          /\ run.stages[k].rc = ln.rc /\ run.stages[k].invalid = ln.invalid
          /\ run.stages[k].values = values
      BY <2>2 DEF StageWith
    <2>8. TakenFrom(run.stages[k], R, G)
      BY <2>6, <2>7 DEF TakenFrom, T
    <2>9. QED
      BY <2>4, <2>7, <2>8 DEF G, R
  <1>9. Agrees(run, life)
    BY <1>7, <1>8 DEF Agrees
  <1>10. QED
    BY <1>4, <1>6, <1>9 DEF Reports

LEMMA Validated ==
  ASSUME NEW run, Errors(run) = {}
  PROVE  /\ run.begin # "none" /\ run.records = Len(run.stages) /\ run.dropped = 0
         /\ \A i \in DOMAIN run.stages :
              /\ run.stages[i].seq = i - 1 /\ run.stages[i].invalid = 0
              /\ ~(run.stages[i].rc < 0)
              /\ PhysicalRegs \subseteq DOMAIN ValueMap(run.stages[i])
              /\ run.stages[i].name \in LogicalStages =>
                   TopologyErrors(ValueMap(run.stages[i])) = {}
         /\ InitialPair(run) # {}
         /\ \A m \in ToSet(run.missed) : m.n = 0
         /\ \A s \in MissedSymbols :
              Cardinality({i \in DOMAIN run.missed : run.missed[i].symbol = s}) = 1
  <1>1. \A code, wrong : Flag(code, wrong) = {} => ~wrong
    BY DEF Flag
  <1>2. StreamErrors(run) = {} /\ ResetErrors(run) = {} /\ ProbeErrors(run) = {}
        /\ \A s \in ToSet(run.stages) : StageErrors(s) = {}
    <2> DEFINE E == {StageErrors(s) : s \in ToSet(run.stages)}
    <2>1. Errors(run) = StreamErrors(run) \cup (UNION E) \cup ResetErrors(run)
                        \cup OrderErrors(run) \cup ReturnErrors(run) \cup ProbeErrors(run)
      BY DEF Errors
    <2>2. ASSUME NEW s \in ToSet(run.stages) PROVE StageErrors(s) \subseteq UNION E
      <3>1. StageErrors(s) \in E
        OBVIOUS
      <3> HIDE DEF E
      <3>2. QED
        BY <3>1
    <2> HIDE DEF E
    <2>3. UNION E = {} /\ StreamErrors(run) = {} /\ ResetErrors(run) = {} /\ ProbeErrors(run) = {}
      BY <2>1
    <2>4. QED
      BY <2>2, <2>3
  <1>3. /\ Flag("missing_begin_bdf", run.begin = "none") = {}
        /\ Flag("record_count_mismatch", run.records # Len(run.stages)) = {}
        /\ Flag("records_dropped", run.dropped # 0) = {}
        /\ Flag("noncontiguous_stage_seq",
                \E i \in DOMAIN run.stages : run.stages[i].seq # i - 1) = {}
    BY <1>2 DEF StreamErrors
  <1>4. /\ run.begin # "none" /\ run.records = Len(run.stages) /\ run.dropped = 0
        /\ \A i \in DOMAIN run.stages : run.stages[i].seq = i - 1
    BY <1>3 DEF Flag
  <1>5. ASSUME NEW i \in DOMAIN run.stages
        PROVE  /\ run.stages[i].invalid = 0
               /\ ~(run.stages[i].rc < 0)
               /\ PhysicalRegs \subseteq DOMAIN ValueMap(run.stages[i])
               /\ run.stages[i].name \in LogicalStages =>
                    TopologyErrors(ValueMap(run.stages[i])) = {}
    <2> DEFINE s == run.stages[i]
               vals == ValueMap(s)
    <2>1. s \in ToSet(run.stages)
      BY DEF ToSet
    <2>2. StageErrors(s) = {}
      BY <1>2, <2>1
    <2> HIDE DEF s
    <2>3. /\ Flag("collector_invalid", s.invalid # 0) = {}
          /\ Flag("negative_return", s.rc < 0) = {}
          /\ Flag("missing_physical_registers", ~(PhysicalRegs \subseteq DOMAIN vals)) = {}
          /\ s.name \in LogicalStages => TopologyErrors(vals) = {}
      BY <2>2 DEF StageErrors
    <2> HIDE DEF vals
    <2>4. s.invalid = 0 /\ ~(s.rc < 0) /\ PhysicalRegs \subseteq DOMAIN vals
      BY <2>3 DEF Flag
    <2>5. QED
      BY <2>3, <2>4 DEF s, vals
  <1>6. InitialPair(run) # {}
    <2>1. Flag("ambiguous_initial_reset", InitialPair(run) = {}) = {}
      BY <1>2 DEF ResetErrors
    <2>2. QED
      BY <2>1 DEF Flag
  <1>7. /\ \A m \in ToSet(run.missed) : m.n = 0
        /\ \A s \in MissedSymbols :
             Cardinality({i \in DOMAIN run.missed : run.missed[i].symbol = s}) = 1
    BY <1>2 DEF ProbeErrors, Flag
  <1>8. QED
    BY <1>4, <1>5, <1>6, <1>7

(* What the collector sees at an event.                                    *)
Truth(life, k, r) == IF r = Pmc THEN GrBit
                     ELSE IF r \in MaskRegs THEN (IF life.flip > 0 /\ k >= life.flip THEN 1 ELSE 0)
                     ELSE 1

LEMMA ObservedIs ==
  ASSUME NEW life, NEW k
  PROVE  /\ Observed(life, k).name = Events(life)[k]
         /\ Observed(life, k).invalid = IF life.fault = "gone" /\ k >= life.at THEN 1 ELSE 0
         /\ life.fault = "failed" /\ k = life.at => Observed(life, k).rc = -22
  BY DEF Observed

LEMMA ObservedValues ==
  ASSUME NEW life, NEW k
  PROVE  Observed(life, k).vals =
           [r \in Regs(Events(life)[k]) |->
              IF life.fault = "gone" /\ k >= life.at THEN AllOnes ELSE Truth(life, k, r)]
  BY DEF Observed, Regs, Truth

LEMMA GpcsIs ==
  ASSUME OrderAssumption, NEW life, NEW k
  PROVE  Truth(life, k, Gpcs) = 1
  <1>1. Gpcs # Pmc /\ Gpcs \notin MaskRegs
    BY DEF OrderAssumption, Gpcs, Pmc, MaskRegs
  <1>2. QED
    BY <1>1 DEF Truth

(* The first value of a register is as good as any.                        *)
LEMMA ValuesAre ==
  ASSUME NEW R, NEW G, NEW stage, TakenFrom(stage, R, G)
  PROVE  /\ DOMAIN ValueMap(stage) \subseteq R
         /\ ValueMap(stage) = [r \in DOMAIN ValueMap(stage) |-> G[r]]
  <1> DEFINE vs == stage.values
             D == {v.reg : v \in ToSet(vs)}
             At(r) == {i \in DOMAIN vs : vs[i].reg = r}
             T == [reg : R, value : {G[r] : r \in R}]
  <1>1. ValueMap(stage) = [r \in D |-> vs[Min(At(r))].value] /\ DOMAIN ValueMap(stage) = D
    BY DEF ValueMap
  <1>2. Len(vs) \in Nat /\ DOMAIN vs = 1 .. Len(vs) /\ \A i \in DOMAIN vs : vs[i] \in T
    <2>1. vs \in Seq(T)
      BY DEF TakenFrom
    <2> HIDE DEF T, vs
    <2>2. QED
      BY <2>1, LenProperties, ElementOfSeq
  <1>3. ASSUME NEW r \in D PROVE r \in R /\ vs[Min(At(r))].value = G[r]
    <2>1. PICK i \in DOMAIN vs : vs[i].reg = r
      BY DEF ToSet
    <2>2. At(r) \subseteq 0 .. Len(vs) /\ At(r) # {}
      BY <1>2, <2>1
    <2>3. Min(At(r)) \in At(r)
      <3> HIDE DEF At
      <3> QED BY <1>2, <2>2, MinOf
    <2>4. /\ Min(At(r)) \in DOMAIN vs /\ vs[Min(At(r))].reg = r
          /\ \A v \in DOMAIN vs : vs[v].value = G[vs[v].reg]
      BY <2>3 DEF TakenFrom
    <2>5. r \in R
      BY <1>2, <2>1
    <2> HIDE DEF At, D, T
    <2>6. QED
      BY <2>4, <2>5
  <1> HIDE DEF D, At, vs
  <1>4. QED
    BY <1>1, <1>3

(* An accepted run is of a life without a fault,                           *)
Follows(run, life, n) ==
  /\ Sized(Course(life), Names, n) /\ Len(run.stages) = n /\ DOMAIN run.stages = 1 .. n
  /\ DOMAIN Stored(life) = 1 .. n /\ Len(Stored(life)) = n
  /\ \A i \in 1 .. n :
       /\ run.stages[i].seq = i - 1
       /\ run.stages[i].name = Course(life)[i] /\ Stored(life)[i].name = Course(life)[i]
       /\ Stored(life)[i] = Observed(life, i)
       /\ TakenFrom(run.stages[i], Regs(Course(life)[i]), Stored(life)[i].vals)

LEMMA Faultless ==
  ASSUME OrderAssumption, NEW life \in Life, NEW run, Reports(run, life), Errors(run) = {}
  PROVE  /\ life.fault = "none"
         /\ \E n \in Nat : Follows(run, life, n)
  <1>1. /\ life.fault \in {"none", "failed", "gone", "missed", "dropped"}
        /\ Agrees(run, life)
        /\ run.records = Len(Stored(life)) /\ run.dropped = Begin(life).dropped
        /\ \A k \in DOMAIN run.missed :
             \E i \in DOMAIN SymbolOrder : /\ run.missed[k].symbol = SymbolOrder[i]
                                           /\ run.missed[k].n = Missed(life, i).n
    <2>1. life.fault \in {"none", "failed", "gone", "missed", "dropped"}
      BY DEF Life
    <2>2. run.begin # "none"
      BY Validated
    <2>3. QED
      BY <2>1, <2>2 DEF Reports
  <1>2. life.fault # "dropped"
    BY <1>1, Validated DEF Begin
  <1>3. life.fault # "missed"
    <2>1. 1 \in DOMAIN SymbolOrder /\ SymbolOrder[1] \in MissedSymbols
      <3>1. SymbolOrder # <<>>
        BY DEF OrderAssumption, ToSet
      <3>2. QED
        BY <3>1, LenProperties, ElementOfSeq, EmptySeq DEF OrderAssumption
    <2> DEFINE S == {i \in DOMAIN run.missed : run.missed[i].symbol = SymbolOrder[1]}
    <2>2. Cardinality(S) = 1
      BY <2>1, Validated
    <2>3. S # {}
      <3> HIDE DEF S
      <3> QED BY <2>2, NotEmpty
    <2>4. PICK k \in DOMAIN run.missed : run.missed[k].symbol = SymbolOrder[1]
      BY <2>3
    <2>5. PICK i \in DOMAIN SymbolOrder : /\ run.missed[k].symbol = SymbolOrder[i]
                                          /\ run.missed[k].n = Missed(life, i).n
      BY <1>1
    <2>6. i = 1
      BY <2>1, <2>4, <2>5 DEF OrderAssumption
    <2>7. run.missed[k].n = 0
      BY Validated DEF ToSet
    <2>8. QED
      BY <2>5, <2>6, <2>7 DEF Missed
  <1>4. PICK n \in Nat :
          /\ DOMAIN Stored(life) = 1 .. n /\ Len(Stored(life)) = n
          /\ Sized(Events(life), Names, n)
          /\ \A i \in 1 .. n : Stored(life)[i] = Observed(life, i)
    BY <1>1, <1>2, <1>3, StoredIs
  <1>5. Len(run.stages) = n /\ DOMAIN run.stages = 1 .. n
    BY <1>1, <1>4, Validated DEF Agrees
  <1>6. ASSUME NEW i \in 1 .. n
        PROVE  /\ run.stages[i].seq = i - 1
               /\ run.stages[i].name = Stored(life)[i].name
               /\ run.stages[i].rc = Stored(life)[i].rc
               /\ run.stages[i].invalid = Stored(life)[i].invalid
               /\ TakenFrom(run.stages[i], Regs(Stored(life)[i].name), Stored(life)[i].vals)
    <2>1. PICK j \in DOMAIN Stored(life) :
            /\ run.stages[i].seq = j - 1
            /\ run.stages[i].name = Stored(life)[j].name
            /\ run.stages[i].rc = Stored(life)[j].rc
            /\ run.stages[i].invalid = Stored(life)[j].invalid
            /\ TakenFrom(run.stages[i], Regs(Stored(life)[j].name), Stored(life)[j].vals)
      BY <1>1, <1>5 DEF Agrees
    <2>2. run.stages[i].seq = i - 1
      BY <1>5, Validated
    <2>3. j = i
      BY <1>4, <2>1, <2>2
    <2>4. QED
      BY <2>1, <2>3
  <1>7. life.fault # "gone"
    <2> SUFFICES ASSUME life.fault = "gone" PROVE FALSE
      OBVIOUS
    <2>1. life.at \in 1 .. n
      BY <1>4, EventsAre DEF Life, Sized, Events
    <2>2. Stored(life)[life.at] = Observed(life, life.at) /\ life.at >= life.at
      BY <1>4, <2>1
    <2>3. Observed(life, life.at).invalid = 1
      BY <2>2, ObservedIs
    <2>4. run.stages[life.at].invalid = 0
      BY <1>5, <2>1, Validated
    <2>5. QED
      BY <1>6, <2>1, <2>2, <2>3, <2>4
  <1>8. life.fault # "failed"
    <2> SUFFICES ASSUME life.fault = "failed" PROVE FALSE
      OBVIOUS
    <2>1. life.at \in 1 .. n
      BY <1>4, EventsAre DEF Sized
    <2>2. Stored(life)[life.at] = Observed(life, life.at)
      BY <1>4, <2>1
    <2>3. Observed(life, life.at).rc = -22
      BY ObservedIs
    <2>4. ~(run.stages[life.at].rc < 0)
      BY <1>5, <2>1, Validated
    <2>5. QED
      BY <1>6, <2>1, <2>2, <2>3, <2>4
  <1>9. Events(life) = Course(life)
    BY <1>8 DEF Events
  <1>10. ASSUME NEW i \in 1 .. n
         PROVE  run.stages[i].name = Course(life)[i] /\ Stored(life)[i].name = Course(life)[i]
    <2>1. run.stages[i].name = Stored(life)[i].name /\ Stored(life)[i] = Observed(life, i)
      BY <1>4, <1>6
    <2>2. Observed(life, i).name = Course(life)[i]
      BY <1>9, ObservedIs
    <2>3. QED
      BY <2>1, <2>2
  <1>11. Follows(run, life, n)
    BY <1>4, <1>5, <1>6, <1>9, <1>10 DEF Follows
  <1>12. QED
    BY <1>1, <1>2, <1>3, <1>7, <1>8, <1>11

(* with one pair of resets before oneinit,                                 *)
LEMMA OneReset ==
  ASSUME NEW life \in Life, NEW n \in Nat, Sized(Course(life), Names, n), NEW run,
         DOMAIN run.stages = 1 .. n, InitialPair(run) # {},
         \A i \in 1 .. n : run.stages[i].seq = i - 1 /\ run.stages[i].name = Course(life)[i]
  PROVE  life.resets = 1
  <1> DEFINE c == Course(life)
             R == life.resets
             T == life.trailing
             m == 7 + 2 * R + 2 * T
             I == InitialResets(run)
  <1>1. R \in Nat /\ T \in Nat /\ m \in Nat
    BY DEF Life
  <1>2. Sized(c, Names, m)
    BY CourseIs
  <1>3. n = m
    BY <1>2 DEF Sized
  <1>4. c[3] = "post_return"
    <2>1. c[3] = CoreSequence[3]
      BY CourseIs
    <2>2. QED
      BY <2>1 DEF CoreSequence
  <1>5. c[2 * R + 4] = "oneinit_entry"
    <2>1. 6 \in 6 .. 9 /\ 2 * R - 2 + 6 = 2 * R + 4
      BY <1>1
    <2>2. c[2 * R - 2 + 6] = CoreSequence[6]
      BY <2>1, CourseIs
    <2>3. QED
      BY <2>1, <2>2 DEF CoreSequence
  <1>6. \A i \in 4 .. 2 * R + 3 : c[i] \in ResetStages
    <2> TAKE i \in 4 .. 2 * R + 3
    <2>1. i - 3 \in 1 .. 2 * R /\ 3 + (i - 3) = i
      <3> HIDE DEF R, T, c, I
      <3> QED BY <1>1
    <2>2. c[3 + (i - 3)] = ResetPairs(R)[i - 3]
      BY <2>1, CourseIs
    <2>3. ResetPairs(R)[i - 3] \in ResetStages
      BY <2>1 DEF ResetPairs, ResetStages
    <2>4. QED
      BY <2>1, <2>2, <2>3
  <1>7. 3 \in 1 .. n /\ 2 * R + 4 \in 1 .. n /\ 4 .. 2 * R + 3 \subseteq 1 .. n
    <2> HIDE DEF R, T
    <2> QED BY <1>1, <1>3
  <1> HIDE DEF c, m
  <1>8. Cardinality(I) = 2
    BY DEF InitialPair
  <1>9. I # {}
    <2> HIDE DEF I
    <2> QED BY <1>8, NotEmpty
  <1>10. Once(run, "post_return") /\ Once(run, "oneinit_entry")
    BY <1>9 DEF InitialResets
  <1>11. ASSUME NEW name, Once(run, name), NEW i \in 1 .. n, c[i] = name
         PROVE  Only(run, name) = i - 1
    <2> DEFINE N == Named(run, {name})
    <2>1. i \in N /\ N \subseteq 1 .. n
      BY <1>11 DEF Named, c
    <2>2. Cardinality(N) = 1
      BY <1>11 DEF Once
    <2>3. IsFiniteSet(N)
      <3> HIDE DEF N
      <3>1. 1 \in Int /\ n \in Int /\ N \subseteq 1 .. n
        BY <2>1
      <3>2. QED
        BY <3>1, FiniteInterval
    <2>4. PICK x : N = {x}
      <3> HIDE DEF N
      <3> QED BY <2>2, <2>3, OneElement
    <2>5. (CHOOSE k \in N : TRUE) = i
      <3> HIDE DEF N
      <3> QED BY <2>1, <2>4
    <2>6. QED
      BY <1>11, <2>5 DEF Only, Seqno
  <1>12. Only(run, "post_return") = 2 /\ Only(run, "oneinit_entry") = 2 * R + 3
    <2>1. (2 * R + 4) - 1 = 2 * R + 3
      BY <1>1
    <2>2. Only(run, "post_return") = 3 - 1
      BY <1>4, <1>7, <1>10, <1>11
    <2>3. Only(run, "oneinit_entry") = (2 * R + 4) - 1
      <3>1. \A i \in 1 .. n : c[i] = "oneinit_entry" => Only(run, "oneinit_entry") = i - 1
        BY <1>10, <1>11
      <3>2. QED
        BY <1>5, <1>7, <3>1
    <2>4. QED
      BY <2>1, <2>2, <2>3
  <1>13. I = {i \in Named(run, ResetStages) : i - 1 > 2 /\ i - 1 < 2 * R + 3}
    <2>1. I = {i \in Named(run, ResetStages) :
                 Seqno(run, i) > 2 /\ Seqno(run, i) < 2 * R + 3}
      BY <1>10, <1>12 DEF InitialResets
    <2>2. \A i \in Named(run, ResetStages) : Seqno(run, i) = i - 1
      BY DEF Named, Seqno
    <2> HIDE DEF I
    <2>3. QED
      BY <2>1, <2>2
  <1>14. \A i \in 1 .. n : i \in Named(run, ResetStages) <=> c[i] \in ResetStages
    BY DEF Named, c
  <1>15. Named(run, ResetStages) \subseteq 1 .. n
    BY DEF Named
  <1> HIDE DEF I, R
  <1>16. I = 4 .. 2 * R + 3
    <2>1. \A i \in I : i \in 4 .. 2 * R + 3
      BY <1>1, <1>13, <1>15
    <2>2. \A i \in 4 .. 2 * R + 3 : i \in I
      BY <1>1, <1>6, <1>7, <1>13, <1>14
    <2>3. QED
      BY <2>1, <2>2
  <1>17. Cardinality(4 .. 2 * R + 3) = 2 * R
    <2>1. 4 \in Int /\ 2 * R + 3 \in Int
      BY <1>1
    <2>2. Cardinality(4 .. 2 * R + 3) = IF 4 > 2 * R + 3 THEN 0 ELSE (2 * R + 3) - 4 + 1
      BY <2>1, FS_Interval
    <2>3. QED
      BY <1>1, <2>2
  <1>18. QED
    BY <1>1, <1>8, <1>16, <1>17 DEF R

(* and its stages are those of that life.                                  *)
Numbered(run) == /\ DOMAIN run.stages = 1 .. Len(run.stages) /\ Len(run.stages) \in Nat
                 /\ \A i \in DOMAIN run.stages : run.stages[i].seq = i - 1

LEMMA RunIsLife ==
  ASSUME OrderAssumption, NEW life \in Life, NEW log, NEW V, NEW run, NEW b \in Nat, NEW e \in Nat,
         WholeRun(log, V, run, b, e), AllOf(log, b, e, life), Errors(run) = {}
  PROVE  Legal(life) /\ SameStages(run, life) /\ Numbered(run)
  <1>1. Reports(run, life)
    BY RunAgrees, Zenon
  <1>2. life.fault = "none"
    BY <1>1, Faultless
  <1>3. PICK n \in Nat : Follows(run, life, n)
    BY <1>1, Faultless
  <1>4. life.resets = 1
    <2>1. InitialPair(run) # {}
      BY Validated
    <2>2. QED
      BY <1>3, <2>1, OneReset DEF Follows
  <1>5. ASSUME NEW i \in 1 .. n
        PROVE  /\ run.stages[i].name = Stored(life)[i].name
               /\ ValueMap(run.stages[i]) = Stored(life)[i].vals
    <2> DEFINE s == run.stages[i]
               name == Course(life)[i]
               G == Stored(life)[i].vals
               D == DOMAIN ValueMap(s)
    <2>1. /\ s.name = name /\ Stored(life)[i].name = name /\ Stored(life)[i] = Observed(life, i)
          /\ TakenFrom(s, Regs(name), G) /\ i \in DOMAIN run.stages
      BY <1>3 DEF Follows
    <2>2. Events(life) = Course(life)
      BY <1>2 DEF Events
    <2>3. G = [r \in Regs(name) |-> Truth(life, i, r)]
      <3>1. Observed(life, i).vals = [r \in Regs(name) |-> Truth(life, i, r)]
        BY <1>2, <2>2, ObservedValues
      <3>2. QED
        BY <2>1, <3>1
    <2> HIDE DEF s, G, name
    <2>4. D \subseteq Regs(name) /\ ValueMap(s) = [r \in D |-> G[r]]
      BY <2>1, ValuesAre
    <2>5. /\ PhysicalRegs \subseteq D
          /\ name \in LogicalStages => TopologyErrors(ValueMap(s)) = {}
      <3>1. \A q \in DOMAIN run.stages :
              /\ PhysicalRegs \subseteq DOMAIN ValueMap(run.stages[q])
              /\ run.stages[q].name \in LogicalStages =>
                   TopologyErrors(ValueMap(run.stages[q])) = {}
        BY Validated
      <3>2. s = run.stages[i]
        BY DEF s
      <3>3. PhysicalRegs \subseteq D
        BY <2>1, <3>1, <3>2
      <3>4. s.name \in LogicalStages => TopologyErrors(ValueMap(s)) = {}
        BY <2>1, <3>1, <3>2
      <3>5. QED
        BY <2>1, <3>3, <3>4
    <2>6. ASSUME name \in LogicalStages PROVE {Gpcs, Pipe} \cup Counts(1) \cup Masks(1) \subseteq D
      <3> DEFINE vals == ValueMap(s)
      <3> HIDE DEF vals
      <3>1. TopologyErrors(vals) = {}
        BY <2>5, <2>6 DEF vals
      <3>2. Gpcs \in DOMAIN vals /\ vals[Gpcs] \in 1 .. MaxGpcs
        BY <3>1 DEF TopologyErrors
      <3>3. vals[Gpcs] = 1
        <4>1. Gpcs \in D /\ Gpcs \in Regs(name)
          BY <2>4, <3>2 DEF vals
        <4>2. vals[Gpcs] = G[Gpcs]
          BY <2>4, <4>1 DEF vals
        <4>3. G[Gpcs] = Truth(life, i, Gpcs)
          BY <2>3, <4>1
        <4>4. QED
          BY <4>2, <4>3, GpcsIs
      <3>4. /\ Flag("missing_compute_pipe_control", Pipe \notin DOMAIN vals) = {}
            /\ Flag("missing_gpc_tpc_counts", ~(Counts(vals[Gpcs]) \subseteq DOMAIN vals)) = {}
            /\ Flag("missing_ppc_masks", ~(Masks(vals[Gpcs]) \subseteq DOMAIN vals)) = {}
        BY <3>1, <3>2 DEF TopologyErrors
      <3>5. Pipe \in DOMAIN vals /\ Counts(1) \subseteq DOMAIN vals /\ Masks(1) \subseteq DOMAIN vals
        BY <3>3, <3>4 DEF Flag
      <3>6. QED
        BY <3>2, <3>5 DEF vals
    <2>7. D = Regs(name)
      BY <2>4, <2>5, <2>6 DEF Regs
    <2>8. ValueMap(s) = G
      <3>1. G = [r \in Regs(name) |-> G[r]]
        BY <2>3
      <3>2. QED
        BY <2>4, <2>7, <3>1
    <2>9. QED
      BY <2>1, <2>8 DEF s, G
  <1>6. QED
    <2>1. Len(run.stages) = n /\ DOMAIN run.stages = 1 .. n /\ Len(Stored(life)) = n
          /\ \A i \in 1 .. n : run.stages[i].seq = i - 1
      BY <1>3 DEF Follows
    <2>2. Numbered(run)
      BY <2>1 DEF Numbered
    <2>3. SameStages(run, life)
      BY <1>5, <2>1 DEF SameStages
    <2>4. QED
      BY <1>2, <1>4, <2>2, <2>3 DEF Legal

------------------------------------------------------------------------------
(* The log that was printed: the dumps of the lives, one after the other.  *)
(* own says whose line it is; in a dump nothing but ARMED comes before     *)
(* BEGIN, nothing after END, and every counter is there.                   *)
LinesOfAll(of) == UNION {StageLines(of[j]) : j \in DOMAIN of}
Ordered(s, own) ==
  \A p, q \in 1 .. Len(s) : p < q =>
    /\ own[p] <= own[q]
    /\ own[p] = own[q] => /\ s[q].m = "BEGIN" => s[p].m = "ARMED"
                          /\ s[p].m # "END"
Dumped(s, own, of, j) ==
  /\ \E p \in 1 .. Len(s) : own[p] = j /\ s[p].m = "BEGIN"
  /\ \E p \in 1 .. Len(s) : own[p] = j /\ s[p].m = "END"
  /\ \A i \in DOMAIN SymbolOrder :
       \E p \in 1 .. Len(s) : own[p] = j /\ s[p] = Missed(of[j], i)
Owned(s, own, of, k) ==
  /\ s \in Seq(LinesOfAll(of)) /\ own \in [1 .. Len(s) -> 1 .. k]
  /\ \A p \in 1 .. Len(s) : s[p] \in StageLines(of[own[p]])
  /\ Ordered(s, own)
  /\ \A j \in 1 .. k : Dumped(s, own, of, j)

LEMMA InnerIs ==
  ASSUME NEW life, NEW ln \in InnerLines(life)
  PROVE  ln.m \in {"STAGE", "VALUE", "MISSED"}
  <1>1. CASE ln \in {Stage(life, i) : i \in DOMAIN Stored(life)}
    BY <1>1 DEF Stage
  <1>2. CASE ln \in {Missed(life, i) : i \in DOMAIN SymbolOrder}
    BY <1>2 DEF Missed
  <1>3. CASE ln \in UNION {Values(life, i) : i \in DOMAIN Stored(life)}
    <2>1. PICK i \in DOMAIN Stored(life) : ln \in Values(life, i)
      BY <1>3
    <2>2. PICK r : ln = Value(life, i, r)
      BY <2>1 DEF Values
    <2>3. QED
      BY <2>2 DEF Value
  <1>4. QED
    BY <1>1, <1>2, <1>3 DEF InnerLines

LEMMA DumpOrder ==
  ASSUME OrderAssumption, NEW life \in Life
  PROVE  \E n \in Nat :
           /\ Sized(StageDump(life), StageLines(life), n)
           /\ \A p, q \in 1 .. n : p < q =>
                /\ StageDump(life)[q].m = "BEGIN" => StageDump(life)[p].m = "ARMED"
                /\ StageDump(life)[p].m # "END"
           /\ \E p \in 1 .. n : StageDump(life)[p].m = "BEGIN"
           /\ \E p \in 1 .. n : StageDump(life)[p].m = "END"
           /\ \A i \in DOMAIN SymbolOrder : \E p \in 1 .. n : StageDump(life)[p] = Missed(life, i)
  <1> DEFINE d == StageDump(life)
  <1>1. PICK n \in Nat :
          /\ Sized(d, StageLines(life), n)
          /\ d[1] = Armed(life) /\ d[2] = Begin(life) /\ d[n] = Ended(life) /\ n >= 3
          /\ \A p \in 3 .. n - 1 : d[p] \in InnerLines(life)
          /\ \A i \in DOMAIN SymbolOrder : \E p \in 3 .. n - 1 : d[p] = Missed(life, i)
    BY DumpIs
  <1> HIDE DEF d
  <1>2. /\ d[1].m = "ARMED" /\ d[2].m = "BEGIN" /\ d[n].m = "END"
        /\ \A p \in 3 .. n - 1 : d[p].m \in {"STAGE", "VALUE", "MISSED"}
    BY <1>1, InnerIs DEF Armed, Begin, Ended
  <1>3. ASSUME NEW p \in 1 .. n, NEW q \in 1 .. n, p < q
        PROVE  (d[q].m = "BEGIN" => d[p].m = "ARMED") /\ d[p].m # "END"
    <2>1. (p = 1 \/ p = 2 \/ p \in 3 .. n - 1) /\ (q = 2 \/ q = n \/ q \in 3 .. n - 1)
      BY <1>1, <1>3
    <2>2. d[p].m # "END"
      BY <1>2, <2>1
    <2>3. d[q].m = "BEGIN" => q = 2
      BY <1>2, <2>1
    <2>4. q = 2 => p = 1
      BY <1>3
    <2>5. QED
      BY <1>2, <2>2, <2>3, <2>4
  <1>4. 2 \in 1 .. n /\ n \in 1 .. n /\ 3 .. n - 1 \subseteq 1 .. n
    BY <1>1
  <1>5. (\E p \in 1 .. n : d[p].m = "BEGIN") /\ (\E p \in 1 .. n : d[p].m = "END")
    BY <1>2, <1>4
  <1>6. \A i \in DOMAIN SymbolOrder : \E p \in 1 .. n : d[p] = Missed(life, i)
    BY <1>1, <1>4
  <1>7. QED
    BY <1>1, <1>3, <1>5, <1>6 DEF d

LEMMA OwnedMore ==
  ASSUME OrderAssumption, NEW of \in Seq(Life), NEW k \in 0 .. Len(of) - 1, NEW s, NEW own,
         Owned(s, own, of, k)
  PROVE  \E own1 : Owned(s \o StageDump(of[k + 1]), own1, of, k + 1)
  <1> DEFINE life == of[k + 1]
             X == LinesOfAll(of)
             L == Len(s)
             d == StageDump(life)
             t == s \o d
  <1>1. Len(of) \in Nat /\ DOMAIN of = 1 .. Len(of) /\ k + 1 \in 1 .. Len(of) /\ life \in Life
        /\ k \in Nat
    BY LenProperties, ElementOfSeq
  <1>2. s \in Seq(X) /\ L \in Nat
    BY LenProperties DEF Owned
  <1>3. PICK n \in Nat :
           /\ Sized(d, StageLines(life), n)
           /\ \A p, q \in 1 .. n : p < q =>
                (d[q].m = "BEGIN" => d[p].m = "ARMED") /\ d[p].m # "END"
           /\ \E p \in 1 .. n : d[p].m = "BEGIN"
           /\ \E p \in 1 .. n : d[p].m = "END"
           /\ \A i \in DOMAIN SymbolOrder : \E p \in 1 .. n : d[p] = Missed(life, i)
    <2> HIDE DEF life
    <2> QED BY <1>1, DumpOrder
  <1>4. StageLines(life) \subseteq X
    BY <1>1 DEF LinesOfAll
  <1>5. \A p \in 1 .. n : d[p] \in StageLines(life)
    <2> HIDE DEF d, life
    <2> QED BY <1>3, ElementOfSeq DEF Sized
  <1>6. Sized(d, X, n) /\ Sized(s, X, L)
    <2> HIDE DEF X, d, life
    <2> QED BY <1>2, <1>3, <1>4, SeqMonotonic DEF Sized
  <1> HIDE DEF X, d, L
  <1>7. Sized(t, X, L + n) /\ Glued(t, s, d, L, n)
    BY <1>2, <1>6, Joined, Zenon
  <1> HIDE DEF t
  <1> DEFINE own1 == [p \in 1 .. L + n |-> IF p <= L THEN own[p] ELSE k + 1]
  <1>8. ASSUME NEW p \in 1 .. L + n
        PROVE  \/ p \in 1 .. L /\ t[p] = s[p] /\ own1[p] = own[p]
               \/ p - L \in 1 .. n /\ t[p] = d[p - L] /\ own1[p] = k + 1 /\ ~(p <= L)
    <2>1. CASE p <= L
      <3>1. p \in 1 .. L /\ own1[p] = own[p]
        BY <1>2, <2>1
      <3>2. QED
        BY <1>7, <3>1 DEF Glued
    <2>2. CASE ~(p <= L)
      <3>1. p - L \in 1 .. n /\ L + (p - L) = p /\ own1[p] = k + 1
        BY <1>2, <2>2
      <3>2. t[L + (p - L)] = d[p - L]
        BY <1>7, <3>1 DEF Glued
      <3>3. QED
        BY <2>2, <3>1, <3>2
    <2>3. QED
      BY <2>1, <2>2
  <1>9. \A p \in 1 .. L : own[p] \in 1 .. k
    BY DEF Owned, L
  <1>10. /\ \A p \in 1 .. L : p \in 1 .. L + n /\ t[p] = s[p] /\ own1[p] = own[p]
         /\ \A p \in 1 .. n : L + p \in 1 .. L + n /\ t[L + p] = d[p] /\ own1[L + p] = k + 1
    <2>1. ASSUME NEW p \in 1 .. L PROVE p \in 1 .. L + n /\ t[p] = s[p] /\ own1[p] = own[p]
      <3>1. p \in 1 .. L + n /\ own1[p] = own[p]
        BY <1>2
      <3>2. QED
        BY <1>7, <3>1 DEF Glued
    <2>2. ASSUME NEW p \in 1 .. n
          PROVE  L + p \in 1 .. L + n /\ t[L + p] = d[p] /\ own1[L + p] = k + 1
      <3>1. L + p \in 1 .. L + n /\ ~(L + p <= L)
        BY <1>2
      <3>2. own1[L + p] = k + 1
        BY <3>1
      <3>3. QED
        BY <1>7, <3>1, <3>2 DEF Glued
    <2> HIDE DEF own1
    <2>3. QED
      BY <2>1, <2>2
  <1>11. own1 \in [1 .. L + n -> 1 .. k + 1]
    BY <1>1, <1>2, <1>9
  <1> HIDE DEF own1
  <1>12. \A p \in 1 .. L + n : t[p] \in StageLines(of[own1[p]])
    <2> TAKE p \in 1 .. L + n
    <2>1. CASE p \in 1 .. L /\ t[p] = s[p] /\ own1[p] = own[p]
      BY <2>1 DEF Owned, L
    <2>2. CASE p - L \in 1 .. n /\ t[p] = d[p - L] /\ own1[p] = k + 1
      BY <1>5, <2>2
    <2>3. QED
      BY <1>8, <2>1, <2>2
  <1>13. t \in Seq(X) /\ Len(t) = L + n
    BY <1>7 DEF Sized
  <1>14. Ordered(t, own1)
    <2>1. SUFFICES ASSUME NEW p \in 1 .. L + n, NEW q \in 1 .. L + n, p < q
                   PROVE  /\ own1[p] <= own1[q]
                          /\ own1[p] = own1[q] => /\ t[q].m = "BEGIN" => t[p].m = "ARMED"
                                                  /\ t[p].m # "END"
      BY <1>13 DEF Ordered
    <2>2. CASE q <= L
      <3>1. /\ p \in 1 .. L /\ t[p] = s[p] /\ own1[p] = own[p]
            /\ q \in 1 .. L /\ t[q] = s[q] /\ own1[q] = own[q]
        <4>1. p \in 1 .. L /\ q \in 1 .. L
          BY <1>2, <2>1, <2>2
        <4>2. QED
          BY <1>10, <4>1
      <3>2. QED
        BY <2>1, <3>1 DEF Owned, Ordered, L
    <2>3. CASE p <= L /\ ~(q <= L)
      <3>1. p \in 1 .. L /\ own1[p] = own[p] /\ own1[q] = k + 1
        BY <1>8, <2>3
      <3>2. own[p] \in 1 .. k
        BY <1>9, <3>1
      <3>3. QED
        BY <1>1, <3>1, <3>2
    <2>4. CASE ~(p <= L) /\ ~(q <= L)
      <3>1. /\ p - L \in 1 .. n /\ t[p] = d[p - L] /\ own1[p] = k + 1
            /\ q - L \in 1 .. n /\ t[q] = d[q - L] /\ own1[q] = k + 1
        BY <1>8, <2>4
      <3>2. p - L < q - L
        BY <1>2, <2>1
      <3>3. own1[p] <= own1[q]
        <4>1. k + 1 <= k + 1
          BY <1>1
        <4>2. QED
          BY <3>1, <4>1
      <3>4. /\ d[q - L].m = "BEGIN" => d[p - L].m = "ARMED"
            /\ d[p - L].m # "END"
        <4>1. p - L \in 1 .. n /\ q - L \in 1 .. n
          BY <3>1
        <4>2. QED
          BY <1>3, <3>2, <4>1
      <3>5. QED
        BY <3>1, <3>3, <3>4
    <2>5. QED
      BY <1>2, <2>1, <2>2, <2>3, <2>4
  <1>15. ASSUME NEW j \in 1 .. k + 1 PROVE Dumped(t, own1, of, j)
    <2>1. CASE j \in 1 .. k
      <3>1. Dumped(s, own, of, j)
        BY <2>1 DEF Owned
      <3>2. QED
        <4>1. Len(t) = L + n
          BY <1>13
        <4>2. /\ \E p \in 1 .. L : own[p] = j /\ s[p].m = "BEGIN"
              /\ \E p \in 1 .. L : own[p] = j /\ s[p].m = "END"
              /\ \A m \in DOMAIN SymbolOrder :
                   \E p \in 1 .. L : own[p] = j /\ s[p] = Missed(of[j], m)
          BY <3>1 DEF Dumped, L
        <4>3. /\ \E p \in 1 .. L + n : own1[p] = j /\ t[p].m = "BEGIN"
              /\ \E p \in 1 .. L + n : own1[p] = j /\ t[p].m = "END"
          BY <1>10, <4>2
        <4>4. ASSUME NEW m \in DOMAIN SymbolOrder
              PROVE  \E p \in 1 .. L + n : own1[p] = j /\ t[p] = Missed(of[j], m)
          <5>1. PICK p \in 1 .. L : own[p] = j /\ s[p] = Missed(of[j], m)
            BY <4>2
          <5>2. p \in 1 .. L + n /\ own1[p] = j /\ t[p] = Missed(of[j], m)
            BY <1>10, <5>1
          <5>3. QED
            BY <5>2
        <4>5. QED
          BY <4>1, <4>3, <4>4 DEF Dumped
    <2>2. CASE j = k + 1
      <3>1. \E p \in 1 .. L + n : own1[p] = j /\ t[p].m = "BEGIN"
        <4>1. PICK p \in 1 .. n : d[p].m = "BEGIN"
          BY <1>3
        <4>2. L + p \in 1 .. L + n /\ t[L + p] = d[p] /\ own1[L + p] = k + 1
          BY <1>10
        <4>3. QED
          BY <2>2, <4>1, <4>2
      <3>2. \E p \in 1 .. L + n : own1[p] = j /\ t[p].m = "END"
        <4>1. PICK p \in 1 .. n : d[p].m = "END"
          BY <1>3
        <4>2. L + p \in 1 .. L + n /\ t[L + p] = d[p] /\ own1[L + p] = k + 1
          BY <1>10
        <4>3. QED
          BY <2>2, <4>1, <4>2
      <3>3. \A i \in DOMAIN SymbolOrder :
              \E p \in 1 .. L + n : own1[p] = j /\ t[p] = Missed(of[j], i)
        <4> TAKE i \in DOMAIN SymbolOrder
        <4>1. PICK p \in 1 .. n : d[p] = Missed(life, i)
          BY <1>3
        <4>2. L + p \in 1 .. L + n /\ t[L + p] = d[p] /\ own1[L + p] = k + 1
          BY <1>10
        <4>3. t[L + p] = Missed(of[j], i)
          BY <2>2, <4>1, <4>2
        <4>4. QED
          BY <2>2, <4>2, <4>3
      <3>4. QED
        BY <1>13, <3>1, <3>2, <3>3 DEF Dumped
    <2>3. QED
      BY <1>1, <2>1, <2>2
  <1>16. Owned(t, own1, of, k + 1)
    BY <1>11, <1>12, <1>13, <1>14, <1>15 DEF Owned, X
  <1>17. QED
    BY <1>16 DEF t, d

LEMMA OwnedAll ==
  ASSUME OrderAssumption, ScenarioAssumption, IInv, Printed, scenario.kind = "lives"
  PROVE  \E own : Owned(printed, own, scenario.of, Len(scenario.of))
  <1> DEFINE of == scenario.of
             N == Len(of)
             ss == Chunks(1)
             L == Seq(PrintedLines(scenario))
             T == {k \in 0 .. N : \E own : Owned(FlatTo(ss, k), own, of, k)}
  <1>1. of \in Seq(Life) /\ N \in Nat /\ DOMAIN of = 1 .. N
    <2>1. of \in Seq(Life)
      BY DEF IInv, ScenarioAssumption
    <2>2. QED
      BY <2>1, LenProperties
  <1>2. ss = [i \in 1 .. N |-> StageDump(of[i])]
    BY <1>1 DEF Chunks
  <1>3. Sized(ss, L, N)
    <2>1. PICK n \in Nat : Sized(Chunks(1), Seq(PrintedLines(scenario)), n)
      BY ChunksAre DEF IInv, Collectors
    <2>2. DOMAIN ss = 1 .. n
      BY <2>1, LenProperties DEF Sized
    <2>3. 1 .. n = 1 .. N
      BY <1>2, <2>2
    <2>4. n = N
      BY <1>1, <2>1, <2>3
    <2>5. QED
      BY <2>1, <2>4
  <1> HIDE DEF ss, L, N, of
  <1>4. 0 \in T
    <2>1. FlatTo(ss, 0) = <<>>
      <3>1. SubSeq(ss, 1, 0) = <<>>
        BY SubSeqEmpty
      <3>2. FlattenSeq(<<>>) = <<>>
        BY DEF FlattenSeq
      <3>3. QED
        BY <3>1, <3>2 DEF FlatTo
    <2>2. \E own : Owned(<<>>, own, of, 0)
      <3> DEFINE e == <<>>
                 own == [p \in 1 .. 0 |-> 0]
      <3>1. e \in Seq(LinesOfAll(of)) /\ Len(e) = 0 /\ 1 .. Len(e) = {} /\ 1 .. 0 = {}
        BY EmptySeq
      <3>2. own \in [1 .. Len(e) -> 1 .. 0]
        BY <3>1
      <3> HIDE DEF e, own
      <3>3. Owned(e, own, of, 0)
        BY <3>1, <3>2 DEF Owned, Ordered
      <3>4. QED
        BY <3>3 DEF e
    <2>3. 0 \in 0 .. N
      BY <1>1
    <2>4. QED
      BY <2>1, <2>2, <2>3
  <1>5. ASSUME NEW k \in 0 .. N - 1, k \in T PROVE k + 1 \in T
    <2>1. PICK own : Owned(FlatTo(ss, k), own, of, k)
      BY <1>5
    <2>2. \E own1 : Owned(FlatTo(ss, k) \o StageDump(of[k + 1]), own1, of, k + 1)
      BY <1>1, <2>1, OwnedMore DEF N
    <2>3. k + 1 \in 1 .. N /\ k + 1 \in 0 .. N
      BY <1>1
    <2>4. ss[k + 1] = StageDump(of[k + 1])
      BY <1>2, <2>3
    <2>5. FlatNext(ss, k)
      BY <1>1, <1>3, FlattenNext, Zenon DEF L
    <2>6. FlatTo(ss, k + 1) = FlatTo(ss, k) \o StageDump(of[k + 1])
      BY <2>4, <2>5 DEF FlatNext
    <2>7. QED
      BY <2>2, <2>3, <2>6
  <1>6. 0 .. N \subseteq T
    <2> HIDE DEF T
    <2> QED BY <1>1, <1>4, <1>5, InductionTo
  <1>7. printed = FlatTo(ss, N)
    <2>1. pos[1] = N
      BY <1>3 DEF Printed, Collectors, Sized, ss
    <2>2. printed = FlattenSeq(SubSeq(Chunks(1), 1, pos[1]))
      BY DEF IInv, PrintedAs
    <2>3. QED
      BY <2>1, <2>2 DEF FlatTo, ss
  <1>8. N \in T
    BY <1>1, <1>6
  <1>9. QED
    BY <1>7, <1>8 DEF N, of

------------------------------------------------------------------------------
(* The log as it was saved: src says which printed line a saved line is.   *)
(* Either from every line on all the later ones are still there, in order, *)
(* or two of the lines are missing.                                        *)
Unbroken(log, saved, src) ==
  /\ src \in [1 .. Len(saved) -> 1 .. Len(log)]
  /\ \A p \in 1 .. Len(saved) : saved[p] \in {log[src[p]], Cut(log[src[p]])}
  /\ \A b \in 1 .. Len(saved), x \in 1 .. Len(log) : src[b] <= x =>
       \E p \in 1 .. Len(saved) :
         b <= p /\ src[p] = x /\ \A q \in b .. p : src[b] <= src[q] /\ src[q] <= x
Broken(log, saved, src, i, k) ==
  /\ src \in [1 .. Len(saved) -> 1 .. Len(log)]
  /\ \A p \in 1 .. Len(saved) : saved[p] = log[src[p]]
  /\ \A p, q \in 1 .. Len(saved) : p < q => src[p] < src[q]
  /\ \A x \in 1 .. Len(log) : x = i \/ x = k \/ \E p \in 1 .. Len(saved) : src[p] = x

LEMMA SameIs ==
  ASSUME NEW L, NEW log \in Seq(L), NEW saved, Len(saved) = Len(log),
         \A p \in 1 .. Len(log) : saved[p] \in {log[p], Cut(log[p])}
  PROVE  \E src : Unbroken(log, saved, src)
  <1> DEFINE n == Len(log)
             src == [p \in 1 .. n |-> p]
  <1>1. n \in Nat
    BY LenProperties
  <1> HIDE DEF n
  <1>2. src \in [1 .. n -> 1 .. n] /\ \A p \in 1 .. n : src[p] = p
    OBVIOUS
  <1> HIDE DEF src
  <1>3. ASSUME NEW b \in 1 .. n, NEW x \in 1 .. n, src[b] <= x
        PROVE  \E p \in 1 .. n :
                 b <= p /\ src[p] = x /\ \A q \in b .. p : src[b] <= src[q] /\ src[q] <= x
    <2>1. b <= x /\ src[x] = x /\ \A q \in b .. x : q \in 1 .. n
      BY <1>1, <1>2, <1>3
    <2>2. \A q \in b .. x : src[b] <= src[q] /\ src[q] <= x
      BY <1>1, <1>2, <2>1
    <2>3. QED
      BY <2>1, <2>2
  <1>4. Unbroken(log, saved, src)
    BY <1>2, <1>3 DEF Unbroken, n
  <1>5. QED
    BY <1>4

(* A log whose first m lines are those of the log, and whose others are    *)
(* those from line a on.                                                   *)
LEMMA AgainIs ==
  ASSUME NEW L, NEW log \in Seq(L), NEW m \in 1 .. Len(log), NEW a \in 1 .. m + 1, NEW saved,
         Glued(saved, SubSeq(log, 1, m), SubSeq(log, a, Len(log)), m, Len(log) - a + 1),
         Len(saved) = m + (Len(log) - a + 1), a = m \/ (m = Len(log) /\ a = 1)
  PROVE  \E src : Unbroken(log, saved, src)
  <1> DEFINE n == Len(log)
             w == m + (n - a + 1)
             src == [p \in 1 .. w |-> IF p <= m THEN p ELSE p - m + a - 1]
  <1>1. n \in Nat /\ m \in 1 .. n /\ a \in 1 .. n /\ w \in Nat /\ Len(saved) = w
    BY LenProperties
  <1>2. /\ Taken(SubSeq(log, 1, m), log, 1, m)
        /\ Taken(SubSeq(log, a, n), log, a, n)
    <2>1. Sized(log, L, n) /\ 1 \in 1 .. n + 1 /\ m \in 1 - 1 .. n
          /\ a \in 1 .. n + 1 /\ n \in a - 1 .. n
      BY <1>1 DEF Sized
    <2> HIDE DEF n
    <2>2. QED
      BY <1>1, <2>1, Part, Zenon
  <1>3. /\ \A p \in 1 .. m : saved[p] = log[p]
        /\ \A p \in 1 .. n - a + 1 : saved[m + p] = log[a + p - 1]
    <2>1. \A p \in 1 .. m : SubSeq(log, 1, m)[p] = log[p]
      <3>1. \A p \in 1 .. m : p \in 1 .. m - 1 + 1 /\ 1 + p - 1 = p
        BY <1>1
      <3>2. \A p \in 1 .. m - 1 + 1 : SubSeq(log, 1, m)[p] = log[1 + p - 1]
        BY <1>2 DEF Taken
      <3>3. QED
        BY <3>1, <3>2
    <2>2. \A p \in 1 .. n - a + 1 : SubSeq(log, a, n)[p] = log[a + p - 1]
      BY <1>2 DEF Taken
    <2>3. /\ \A p \in 1 .. m : saved[p] = SubSeq(log, 1, m)[p]
          /\ \A p \in 1 .. n - a + 1 : saved[m + p] = SubSeq(log, a, n)[p]
      BY DEF Glued
    <2>4. QED
      BY <2>1, <2>2, <2>3
  <1> HIDE DEF n
  <1>4. ASSUME NEW p \in 1 .. w
        PROVE  src[p] \in 1 .. n /\ saved[p] = log[src[p]]
    <2>1. CASE p <= m
      BY <1>1, <1>3, <2>1
    <2>2. CASE ~(p <= m)
      <3>1. p - m \in 1 .. n - a + 1 /\ m + (p - m) = p /\ a + (p - m) - 1 = p - m + a - 1
            /\ p - m + a - 1 \in 1 .. n
        BY <1>1, <2>2
      <3>2. saved[m + (p - m)] = log[a + (p - m) - 1]
        BY <1>3, <3>1
      <3>3. src[p] = p - m + a - 1
        BY <2>2
      <3> HIDE DEF src, w
      <3>4. QED
        BY <3>1, <3>2, <3>3
    <2>3. QED
      BY <2>1, <2>2
  <1>5. src \in [1 .. w -> 1 .. n] /\ \A p \in 1 .. w : saved[p] = log[src[p]]
    <2>1. src = [p \in 1 .. w |-> src[p]]
      OBVIOUS
    <2> HIDE DEF src, w
    <2>2. QED
      BY <1>4, <2>1
  <1>6. ASSUME NEW b \in 1 .. w, NEW x \in 1 .. n, src[b] <= x
        PROVE  \E p \in 1 .. w :
                 b <= p /\ src[p] = x /\ \A q \in b .. p : src[b] <= src[q] /\ src[q] <= x
    <2> DEFINE p == IF b <= m /\ x <= m THEN x ELSE x + m - a + 1
    <2>1. p \in 1 .. w /\ b <= p /\ src[p] = x
      <3>1. CASE b <= m /\ x <= m
        BY <1>1, <1>6, <3>1
      <3>2. CASE ~(b <= m /\ x <= m)
        BY <1>1, <1>6, <3>2
      <3>3. QED
        BY <3>1, <3>2
    <2>2. ASSUME NEW q \in b .. p PROVE src[b] <= src[q] /\ src[q] <= x
      <3>1. q \in 1 .. w
        <4> HIDE DEF p, src
        <4> QED BY <1>1, <2>1
      <3>2. CASE b <= m /\ x <= m
        BY <1>1, <1>6, <3>1, <3>2
      <3>3. CASE ~(b <= m /\ x <= m)
        BY <1>1, <1>6, <3>1, <3>3
      <3>4. QED
        BY <3>2, <3>3
    <2> HIDE DEF p
    <2>3. QED
      BY <2>1, <2>2
  <1> HIDE DEF src
  <1>7. Unbroken(log, saved, src)
    <2> HIDE DEF w
    <2> QED BY <1>1, <1>5, <1>6 DEF Unbroken, n
  <1>8. QED
    BY <1>7

(* A log without lines i and k.                                            *)
LEMMA LostIs ==
  ASSUME NEW L, printed \in Seq(L), NEW i \in Lines, NEW k \in Lines, i <= k, Losses # "burst"
  PROVE  \E src : Broken(printed, Without(i, k), src, i, k)
  <1> DEFINE n == Len(printed)
             m == IF i < k THEN k - 1 - i ELSE 0
             A == SubSeq(printed, 1, i - 1)
             B == SubSeq(printed, i + 1, k - 1)
             C == SubSeq(printed, k + 1, n)
             AB == A \o B
             ABC == AB \o C
             v == (i - 1) + m
             w == v + (n - k)
             saved == Without(i, k)
             src == [p \in 1 .. w |-> IF p <= i - 1 THEN p
                                      ELSE IF p <= v THEN p + 1 ELSE p - v + k]
  <1>1. n \in Nat /\ i \in 1 .. n /\ k \in 1 .. n /\ i <= k /\ m \in Nat /\ v \in Nat /\ w \in Nat
    <2>1. n \in Nat /\ i \in 1 .. n /\ k \in 1 .. n
      BY LenProperties DEF Lines
    <2>2. QED
      BY <2>1
  <1>2. Sized(printed, L, n)
    BY DEF Sized
  <1>3. saved = ABC
    BY DEF Without
  <1> HIDE DEF n
  <1>4. Sized(A, L, i - 1) /\ \A p \in 1 .. i - 1 : A[p] = printed[p]
    <2>1. 1 \in 1 .. n + 1 /\ i - 1 \in 1 - 1 .. n /\ (i - 1) - 1 + 1 = i - 1
      BY <1>1
    <2>2. Sized(A, L, (i - 1) - 1 + 1) /\ Taken(A, printed, 1, i - 1)
      BY <1>1, <1>2, <2>1, Part, Zenon
    <2>3. Sized(A, L, i - 1)
      BY <2>1, <2>2
    <2> HIDE DEF A
    <2>4. \A p \in 1 .. i - 1 : p \in 1 .. (i - 1) - 1 + 1 /\ 1 + p - 1 = p
      BY <1>1
    <2>5. \A p \in 1 .. (i - 1) - 1 + 1 : A[p] = printed[1 + p - 1]
      BY <2>2 DEF Taken
    <2>6. \A p \in 1 .. i - 1 : A[p] = printed[p]
      BY <2>4, <2>5
    <2>7. QED
      BY <2>3, <2>6
  <1>5. Sized(B, L, m) /\ \A p \in 1 .. m : B[p] = printed[i + p]
    <2>1. CASE i < k
      <3>1. /\ i + 1 \in 1 .. n + 1 /\ k - 1 \in (i + 1) - 1 .. n
            /\ (k - 1) - (i + 1) + 1 = m /\ \A p \in 1 .. m : (i + 1) + p - 1 = i + p
        BY <1>1, <2>1
      <3>2. Sized(B, L, (k - 1) - (i + 1) + 1) /\ Taken(B, printed, i + 1, k - 1)
        BY <1>1, <1>2, <3>1, Part, Zenon
      <3> HIDE DEF B, m
      <3>3. \A p \in 1 .. m : B[p] = printed[(i + 1) + p - 1]
        BY <3>1, <3>2 DEF Taken
      <3>4. \A p \in 1 .. m : B[p] = printed[i + p]
        BY <3>1, <3>3
      <3>5. QED
        BY <3>1, <3>2, <3>4
    <2>2. CASE ~(i < k)
      <3>1. m = 0 /\ i + 1 \in Int /\ k - 1 \in Int /\ i + 1 > k - 1
        BY <1>1, <2>2
      <3>2. B = <<>>
        BY <3>1, SubSeqEmpty
      <3>3. Sized(<<>>, L, 0)
        BY EmptySeq DEF Sized
      <3> HIDE DEF B, m
      <3>4. QED
        BY <3>1, <3>2, <3>3
    <2>3. QED
      BY <2>1, <2>2
  <1>6. Sized(C, L, n - k) /\ \A p \in 1 .. n - k : C[p] = printed[k + p]
    <2>1. /\ k + 1 \in 1 .. n + 1 /\ n \in (k + 1) - 1 .. n /\ n - (k + 1) + 1 = n - k
          /\ \A p \in 1 .. n - k : (k + 1) + p - 1 = k + p
      BY <1>1
    <2>2. Sized(C, L, n - (k + 1) + 1) /\ Taken(C, printed, k + 1, n)
      BY <1>1, <1>2, <2>1, Part, Zenon
    <2> HIDE DEF C
    <2>3. \A p \in 1 .. n - k : C[p] = printed[(k + 1) + p - 1]
      BY <2>1, <2>2 DEF Taken
    <2>4. \A p \in 1 .. n - k : C[p] = printed[k + p]
      BY <2>1, <2>3
    <2>5. QED
      BY <2>1, <2>2, <2>4
  <1>7. i - 1 \in Nat /\ n - k \in Nat
    BY <1>1
  <1> HIDE DEF A, B, C
  <1>8. Sized(AB, L, v) /\ Glued(AB, A, B, i - 1, m)
    <2> HIDE DEF m
    <2> QED BY <1>1, <1>4, <1>5, <1>7, Joined, Zenon
  <1> HIDE DEF AB
  <1>9. Sized(ABC, L, w) /\ Glued(ABC, AB, C, v, n - k)
    <2> HIDE DEF v
    <2> QED BY <1>1, <1>6, <1>7, <1>8, Joined, Zenon
  <1>10. Len(saved) = w /\ Glued(saved, AB, C, v, n - k)
    BY <1>3, <1>9 DEF Sized
  <1> HIDE DEF ABC, saved
  <1>11. ASSUME NEW p \in 1 .. w
         PROVE  src[p] \in 1 .. n /\ saved[p] = printed[src[p]]
    <2>1. CASE p <= i - 1
      <3>1. p \in 1 .. v /\ p \in 1 .. i - 1 /\ src[p] = p /\ p \in 1 .. n
        BY <1>1, <2>1
      <3> HIDE DEF src, v
      <3>2. saved[p] = AB[p] /\ AB[p] = A[p] /\ A[p] = printed[p]
        BY <1>4, <1>8, <1>10, <3>1 DEF Glued
      <3>3. QED
        BY <3>1, <3>2
    <2>2. CASE ~(p <= i - 1) /\ p <= v
      <3>1. /\ p \in 1 .. v /\ p - (i - 1) \in 1 .. m /\ (i - 1) + (p - (i - 1)) = p
            /\ src[p] = p + 1 /\ p + 1 \in 1 .. n /\ i + (p - (i - 1)) = p + 1
        BY <1>1, <2>2
      <3> HIDE DEF src, v, m
      <3>2. /\ saved[p] = AB[p] /\ AB[(i - 1) + (p - (i - 1))] = B[p - (i - 1)]
            /\ B[p - (i - 1)] = printed[i + (p - (i - 1))]
        BY <1>5, <1>8, <1>10, <3>1 DEF Glued
      <3>3. QED
        BY <3>1, <3>2
    <2>3. CASE ~(p <= i - 1) /\ ~(p <= v)
      <3>1. /\ p - v \in 1 .. n - k /\ v + (p - v) = p /\ src[p] = p - v + k
            /\ p - v + k \in 1 .. n /\ k + (p - v) = p - v + k
        BY <1>1, <2>3
      <3> HIDE DEF src, v
      <3>2. saved[v + (p - v)] = C[p - v] /\ C[p - v] = printed[k + (p - v)]
        BY <1>6, <1>10, <3>1 DEF Glued
      <3>3. QED
        BY <3>1, <3>2
    <2>4. QED
      BY <2>1, <2>2, <2>3
  <1>12. src \in [1 .. w -> 1 .. n] /\ \A p \in 1 .. w : saved[p] = printed[src[p]]
    <2>1. src = [p \in 1 .. w |-> src[p]]
      OBVIOUS
    <2> HIDE DEF src, w
    <2>2. QED
      BY <1>11, <2>1
  <1>13. \A p, q \in 1 .. w : p < q => src[p] < src[q]
    BY <1>1
  <1>14. ASSUME NEW x \in 1 .. n, x # i, x # k PROVE \E p \in 1 .. w : src[p] = x
    <2>1. CASE x < i
      <3>1. x \in 1 .. w /\ src[x] = x
        BY <1>1, <1>14, <2>1
      <3>2. QED
        BY <3>1
    <2>2. CASE ~(x < i) /\ x < k
      <3>1. x - 1 \in 1 .. w /\ src[x - 1] = x
        BY <1>1, <1>14, <2>2
      <3>2. QED
        BY <3>1
    <2>3. CASE ~(x < i) /\ ~(x < k)
      <3>1. x - k + v \in 1 .. w /\ src[x - k + v] = x
        BY <1>1, <1>14, <2>3
      <3>2. QED
        BY <3>1
    <2>4. QED
      BY <2>1, <2>2, <2>3
  <1> HIDE DEF src
  <1>15. Broken(printed, saved, src, i, k)
    <2> HIDE DEF w
    <2> QED BY <1>10, <1>12, <1>13, <1>14 DEF Broken, n
  <1>16. QED
    BY <1>15 DEF saved

(* A log that was saved is one of the two.                                 *)
LEMMA TextIs ==
  ASSUME NEW L, printed \in Seq(L), SavedAs, Losses # "burst"
  PROVE  \/ \E src : Unbroken(printed, text, src)
         \/ \E src, i, k : Broken(printed, text, src, i, k)
  <1> DEFINE n == Len(printed)
  <1>1. n \in Nat /\ Lines = 1 .. n
    BY LenProperties DEF Lines
  <1>2. CASE text = printed
    BY <1>2, SameIs
  <1>3. CASE \E i, k \in Lines : i <= k /\ text = Without(i, k)
    <2>1. PICK i \in Lines, k \in Lines : i <= k /\ text = Without(i, k)
      BY <1>3
    <2>2. \E src : Broken(printed, Without(i, k), src, i, k)
      BY <2>1, LostIs
    <2>3. QED
      BY <2>1, <2>2
  <1>4. CASE \E i \in Lines : text = [printed EXCEPT ![i].cut = TRUE]
    <2>1. PICK i \in Lines : text = [printed EXCEPT ![i].cut = TRUE]
      BY <1>4
    <2>2. text = [printed EXCEPT ![i] = Cut(printed[i])]
      BY <1>1, <2>1 DEF Cut
    <2>3. Len(text) = Len(printed) /\ DOMAIN printed = 1 .. n
      BY <1>1, <2>1, LenProperties
    <2>4. \A p \in 1 .. n : text[p] \in {printed[p], Cut(printed[p])}
      BY <1>1, <2>2, <2>3
    <2>5. QED
      BY <2>3, <2>4, SameIs
  <1>5. ASSUME NEW m \in 1 .. n, NEW a \in 1 .. m + 1, a = m \/ (m = n /\ a = 1),
               text = SubSeq(printed, 1, m) \o SubSeq(printed, a, n)
        PROVE  \E src : Unbroken(printed, text, src)
    <2> DEFINE A == SubSeq(printed, 1, m)
               B == SubSeq(printed, a, n)
               l == n - a + 1
    <2>1. Sized(A, L, m - 1 + 1) /\ Sized(B, L, l)
      <3>1. Sized(printed, L, n) /\ 1 \in 1 .. n + 1 /\ m \in 1 - 1 .. n
            /\ a \in 1 .. n + 1 /\ n \in a - 1 .. n
        BY <1>1, <1>5 DEF Sized
      <3> HIDE DEF n
      <3>2. QED
        BY <1>1, <3>1, Part, Zenon
    <2>2. m \in Nat /\ l \in Nat /\ m - 1 + 1 = m
      BY <1>1, <1>5
    <2>3. Sized(A, L, m)
      BY <2>1, <2>2
    <2> HIDE DEF A, B, n, l
    <2>4. Sized(A \o B, L, m + l) /\ Glued(A \o B, A, B, m, l)
      BY <2>1, <2>2, <2>3, Joined, Zenon
    <2>5. Len(text) = m + l /\ Glued(text, A, B, m, l)
      BY <1>5, <2>4 DEF Sized, A, B
    <2>6. Len(text) = m + (Len(printed) - a + 1)
          /\ Glued(text, SubSeq(printed, 1, m), SubSeq(printed, a, Len(printed)), m,
                   Len(printed) - a + 1)
      BY <2>5 DEF A, B, n, l
    <2>7. m \in 1 .. Len(printed) /\ a \in 1 .. m + 1 /\ (a = m \/ (m = Len(printed) /\ a = 1))
      BY <1>5 DEF n
    <2>8. QED
      BY <2>6, <2>7, AgainIs
  <1>6. CASE \E i \in Lines : text = SubSeq(printed, 1, i) \o SubSeq(printed, i, n)
    <2>1. PICK i \in Lines : text = SubSeq(printed, 1, i) \o SubSeq(printed, i, n)
      BY <1>6
    <2>2. i \in 1 .. n /\ i \in 1 .. i + 1
      BY <1>1
    <2> HIDE DEF n
    <2>3. \A a \in 1 .. i + 1 :
            (a = i \/ (i = n /\ a = 1)) /\ text = SubSeq(printed, 1, i) \o SubSeq(printed, a, n)
            => \E src : Unbroken(printed, text, src)
      BY <1>5, <2>2
    <2>4. QED
      BY <2>1, <2>2, <2>3, Zenon
  <1>7. CASE text = printed \o printed
    <2>1. CASE n = 0
      <3>1. printed = <<>>
        BY <2>1, EmptySeq
      <3>2. text = printed
        BY <1>7, <3>1, ConcatEmptySeq
      <3>3. QED
        BY <1>2, <3>2
    <2>2. CASE n # 0
      <3>1. SubSeq(printed, 1, n) = printed
        BY LenProperties, SubSeqProperties
      <3>2. text = SubSeq(printed, 1, n) \o SubSeq(printed, 1, n)
        BY <1>7, <3>1
      <3>3. n \in 1 .. n /\ 1 \in 1 .. n + 1
        BY <1>1, <2>2
      <3>4. QED
        BY <1>5, <3>2, <3>3
    <2>3. QED
      BY <2>1, <2>2
  <1>8. QED
    BY <1>2, <1>3, <1>4, <1>6, <1>7 DEF SavedAs

(* Whose a saved line is.                                                  *)
Traced(log, saved, src, own, of) ==
  \A p \in 1 .. Len(saved) : /\ saved[p] \in SavedOf(of[own[src[p]]]) /\ Ours(saved[p])
                             /\ saved[p].m = log[src[p]].m

LEMMA LinesTraced ==
  ASSUME NEW log, NEW saved, NEW src \in [1 .. Len(saved) -> 1 .. Len(log)],
         NEW of, NEW own, NEW N, Owned(log, own, of, N),
         \A p \in 1 .. Len(saved) : saved[p] \in {log[src[p]], Cut(log[src[p]])}
  PROVE  Traced(log, saved, src, own, of)
  <1> SUFFICES ASSUME NEW p \in 1 .. Len(saved)
               PROVE  /\ saved[p] \in SavedOf(of[own[src[p]]]) /\ Ours(saved[p])
                      /\ saved[p].m = log[src[p]].m
    BY DEF Traced
  <1> DEFINE ln == log[src[p]]
             life == of[own[src[p]]]
  <1>1. src[p] \in 1 .. Len(log)
    OBVIOUS
  <1>2. ln \in StageLines(life)
    BY <1>1 DEF Owned
  <1>3. saved[p] = ln \/ saved[p] = Cut(ln)
    OBVIOUS
  <1> HIDE DEF ln, life
  <1>4. saved[p] \in SavedOf(life) /\ Ours(saved[p]) /\ saved[p].m = ln.m
    BY <1>2, <1>3, LineIs DEF SavedOf
  <1>5. QED
    BY <1>4 DEF ln, life

(* Lists of numbers that do not fall: where the lines come from, and whose  *)
(* they are.                                                               *)
LEMMA NumbersIn ==
  ASSUME NEW n \in Nat, NEW m \in Nat, NEW f \in [1 .. n -> 1 .. m]
  PROVE  \A x \in 1 .. n : f[x] \in 1 .. m /\ f[x] \in Int
  OBVIOUS

LEMMA NotFalling ==
  ASSUME NEW n \in Nat, NEW f, \A x \in 1 .. n : f[x] \in Int,
         \A x, y \in 1 .. n : x < y => f[x] <= f[y]
  PROVE  /\ \A x, y \in 1 .. n : x <= y => f[x] <= f[y]
         /\ \A x, y \in 1 .. n : f[x] < f[y] => x < y
  <1>1. ASSUME NEW x \in 1 .. n, NEW y \in 1 .. n, x <= y PROVE f[x] <= f[y]
    <2>1. CASE x = y
      BY <2>1
    <2>2. CASE x # y
      <3>1. x < y
        BY <1>1, <2>2
      <3>2. QED
        BY <3>1
    <2>3. QED
      BY <2>1, <2>2
  <1>2. ASSUME NEW x \in 1 .. n, NEW y \in 1 .. n, f[x] < f[y] PROVE x < y
    <2>1. f[x] \in Int /\ f[y] \in Int
      OBVIOUS
    <2>2. ~(f[y] <= f[x])
      BY <1>2, <2>1
    <2>3. ~(y <= x)
      BY <1>1, <2>2
    <2>4. QED
      BY <2>3
  <1>3. QED
    BY <1>1, <1>2

(* A BEGIN and the END after it, with neither in between, are of one life  *)
(* with all that is between them,                                          *)
LEMMA UnbrokenLife ==
  ASSUME NEW log, Len(log) \in Nat, NEW saved, Len(saved) \in Nat,
         NEW of, NEW own, NEW N \in Nat, Owned(log, own, of, N),
         NEW src, Unbroken(log, saved, src),
         NEW b \in 1 .. Len(saved), NEW e \in 1 .. Len(saved), b < e,
         Stretch(saved, b, e - 1), saved[e].m = "END"
  PROVE  \E j \in 1 .. N : AllOf(saved, b, e, of[j])
  <1> DEFINE n == Len(log)
             w == Len(saved)
             j == own[src[b]]
  <1>1. src \in [1 .. w -> 1 .. n] /\ own \in [1 .. n -> 1 .. N] /\ n \in Nat /\ w \in Nat
    BY DEF Unbroken, Owned
  <1>2. \A p \in 1 .. w : /\ saved[p] \in SavedOf(of[own[src[p]]]) /\ Ours(saved[p])
                          /\ saved[p].m = log[src[p]].m
    <2>1. src \in [1 .. Len(saved) -> 1 .. Len(log)]
          /\ \A p \in 1 .. Len(saved) : saved[p] \in {log[src[p]], Cut(log[src[p]])}
      BY DEF Unbroken
    <2>2. Traced(log, saved, src, own, of)
      BY <2>1, LinesTraced
    <2>3. QED
      BY <2>2 DEF Traced
  <1>3. src[b] \in 1 .. n /\ j \in 1 .. N
    BY <1>1
  <1>4. \A p, q \in 1 .. n : p < q =>
          /\ own[p] <= own[q]
          /\ own[p] = own[q] => /\ log[q].m = "BEGIN" => log[p].m = "ARMED"
                                /\ log[p].m # "END"
    BY DEF Owned, Ordered
  <1>5. PICK x \in 1 .. n : own[x] = j /\ log[x].m = "END"
    BY <1>3 DEF Owned, Dumped
  <1>6. log[src[b]].m = "BEGIN"
    BY <1>2 DEF Stretch
  <1> HIDE DEF n, w
  <1>7. src[b] <= x
    <2>1. ~(x < src[b])
      BY <1>3, <1>4, <1>5, <1>6
    <2>2. QED
      BY <1>1, <1>3, <2>1
  <1>8. PICK p \in 1 .. w :
          b <= p /\ src[p] = x /\ \A q \in b .. p : src[b] <= src[q] /\ src[q] <= x
    <2>1. b \in 1 .. w
      BY DEF w
    <2>2. QED
      BY <1>7, <2>1 DEF Unbroken, n, w
  <1>9. e <= p
    <2>1. p # b
      BY <1>5, <1>6, <1>8
    <2>2. saved[p].m = "END" /\ Ours(saved[p])
      BY <1>2, <1>5, <1>8
    <2>3. \A q \in b + 1 .. e - 1 : Ours(saved[q]) => saved[q].m # "END"
      BY DEF Stretch
    <2>4. p \notin b + 1 .. e - 1
      BY <2>2, <2>3
    <2>5. QED
      BY <1>1, <1>8, <2>1, <2>4
  <1>10. ASSUME NEW q \in b .. e PROVE saved[q] \in SavedOf(of[j])
    <2>1. q \in 1 .. w /\ q \in b .. p
      BY <1>1, <1>9 DEF w
    <2>2. src[b] <= src[q] /\ src[q] <= x /\ src[q] \in 1 .. n
      BY <1>1, <1>8, <2>1
    <2>3. own[src[b]] <= own[src[q]] /\ own[src[q]] <= own[x]
      <3>1. \A y, z \in 1 .. n : y <= z => own[y] <= own[z]
        <4>1. \A y \in 1 .. n : own[y] \in Int
          BY <1>1, NumbersIn
        <4>2. QED
          BY <1>1, <1>4, <4>1, NotFalling
      <3>2. QED
        BY <1>3, <2>2, <3>1
    <2>4. own[src[q]] = j
      <3>1. own[src[q]] \in Int /\ j \in Int
        <4>1. \A y \in 1 .. n : own[y] \in 1 .. N /\ own[y] \in Int
          BY <1>1, NumbersIn
        <4> HIDE DEF j
        <4>2. QED
          BY <1>3, <2>2, <4>1
      <3>2. j <= own[src[q]] /\ own[src[q]] <= j
        BY <1>5, <2>3
      <3> HIDE DEF j
      <3>3. QED
        BY <3>1, <3>2
    <2>5. QED
      BY <1>2, <2>1, <2>4
  <1> HIDE DEF j
  <1>11. AllOf(saved, b, e, of[j])
    BY <1>10 DEF AllOf
  <1>12. QED
    BY <1>3, <1>11 DEF j

(* or a counter is there twice, that of the life whose END is lost and     *)
(* that of the next one, whose BEGIN is lost.                              *)
Doubled(log, b, e) ==
  \E p, q \in Within(log, b, e - 1, "MISSED") :
    p # q /\ log[p].symbol = log[q].symbol /\ log[p].symbol \in MissedSymbols

LEMMA BrokenLife ==
  ASSUME OrderAssumption,
         NEW log, Len(log) \in Nat, NEW saved, Len(saved) \in Nat,
         NEW of, NEW own, NEW N \in Nat, Owned(log, own, of, N),
         NEW src, NEW i, NEW k, Broken(log, saved, src, i, k),
         NEW b \in 1 .. Len(saved), NEW e \in 1 .. Len(saved), b < e,
         Stretch(saved, b, e - 1), saved[e].m = "END"
  PROVE  (\E j \in 1 .. N : AllOf(saved, b, e, of[j])) \/ Doubled(saved, b, e)
  <1> DEFINE n == Len(log)
             w == Len(saved)
             j == own[src[b]]
             h == own[src[e]]
  <1>1. src \in [1 .. w -> 1 .. n] /\ own \in [1 .. n -> 1 .. N] /\ n \in Nat /\ w \in Nat
        /\ b \in 1 .. w /\ e \in 1 .. w
    BY DEF Broken, Owned
  <1>2. \A p \in 1 .. w : /\ saved[p] \in SavedOf(of[own[src[p]]]) /\ Ours(saved[p])
                          /\ saved[p] = log[src[p]]
    <2>1. src \in [1 .. Len(saved) -> 1 .. Len(log)]
          /\ \A p \in 1 .. Len(saved) : saved[p] = log[src[p]]
      BY DEF Broken
    <2>2. Traced(log, saved, src, own, of)
      BY <2>1, LinesTraced
    <2>3. QED
      BY <2>1, <2>2 DEF Traced
  <1>3. \A p, q \in 1 .. n : p < q =>
          /\ own[p] <= own[q]
          /\ own[p] = own[q] => /\ log[q].m = "BEGIN" => log[p].m = "ARMED"
                                /\ log[p].m # "END"
    BY DEF Owned, Ordered
  <1>4. /\ \A p, q \in 1 .. w : p < q => src[p] < src[q]
        /\ \A x \in 1 .. n : x = i \/ x = k \/ \E p \in 1 .. w : src[p] = x
    BY DEF Broken
  <1>5. \A z \in 1 .. N : Dumped(log, own, of, z)
    BY DEF Owned
  <1>6. log[src[b]].m = "BEGIN" /\ log[src[e]].m = "END"
    BY <1>1, <1>2 DEF Stretch
  <1>7. \A q \in b + 1 .. e - 1 : Ours(saved[q]) => saved[q].m \notin {"BEGIN", "END"}
    BY DEF Stretch
  <1> HIDE DEF n, w
  <1>8. src[b] \in 1 .. n /\ src[e] \in 1 .. n /\ j \in 1 .. N /\ h \in 1 .. N
    BY <1>1
  <1>15. /\ \A y \in 1 .. n : own[y] \in Int
         /\ \A p \in 1 .. w : src[p] \in 1 .. n /\ src[p] \in Int
    BY <1>1, NumbersIn
  <1>9. /\ \A y, z \in 1 .. n : y <= z => own[y] <= own[z]
        /\ \A y, z \in 1 .. n : own[y] < own[z] => y < z
    <2>1. \A y, z \in 1 .. n : y < z => own[y] <= own[z]
      BY <1>3
    <2>2. QED
      BY <1>1, <1>15, <2>1, NotFalling
  <1>10. \A p \in b .. e : p \in 1 .. w
    BY <1>1
  <1>11. /\ \A p, q \in 1 .. w : p <= q => src[p] <= src[q]
         /\ \A p, q \in 1 .. w : src[p] < src[q] => p < q
    <2>1. \A p, q \in 1 .. w : p < q => src[p] <= src[q]
      <3> TAKE p, q \in 1 .. w
      <3>1. src[p] \in Int /\ src[q] \in Int /\ (p < q => src[p] < src[q])
        BY <1>4, <1>15
      <3>2. QED
        BY <3>1
    <2>2. QED
      BY <1>1, <1>15, <2>1, NotFalling
  <1>12. CASE j = h
    <2>1. ASSUME NEW q \in b .. e PROVE saved[q] \in SavedOf(of[j])
      <3>1. q \in 1 .. w /\ b <= q /\ q <= e
        BY <1>1, <1>10
      <3>2. src[b] <= src[q] /\ src[q] <= src[e] /\ src[q] \in 1 .. n
        BY <1>1, <1>11, <3>1
      <3>3. j <= own[src[q]] /\ own[src[q]] <= h /\ own[src[q]] \in Int
        <4>1. own[src[q]] \in Int
          BY <1>15, <3>2
        <4>2. own[src[b]] <= own[src[q]] /\ own[src[q]] <= own[src[e]]
          BY <1>8, <1>9, <3>2
        <4>3. QED
          BY <4>1, <4>2
      <3>4. own[src[q]] = j
        <4> HIDE DEF j, h
        <4> QED BY <1>8, <1>12, <3>3
      <3>5. QED
        BY <1>2, <3>1, <3>4
    <2> HIDE DEF j, h
    <2>2. AllOf(saved, b, e, of[j])
      BY <2>1 DEF AllOf
    <2>3. QED
      BY <1>8, <2>2
  <1>13. CASE j # h
    <2>1. j < h
      <3>1. src[b] <= src[e]
        BY <1>1, <1>11
      <3>2. j <= h
        BY <1>8, <1>9, <3>1
      <3> HIDE DEF j, h
      <3>3. QED
        BY <1>8, <1>13, <3>2
    <2>2. PICK x \in 1 .. n : own[x] = j /\ log[x].m = "END"
      <3>1. Dumped(log, own, of, j)
        BY <1>5, <1>8
      <3> HIDE DEF j
      <3>2. QED
        BY <3>1 DEF Dumped, n
    <2>3. PICK y \in 1 .. n : own[y] = h /\ log[y].m = "BEGIN"
      <3>1. Dumped(log, own, of, h)
        BY <1>5, <1>8
      <3> HIDE DEF h
      <3>2. QED
        BY <3>1 DEF Dumped, n
    <2> DEFINE one == SymbolOrder[1]
    <2>4. 1 \in DOMAIN SymbolOrder /\ one \in MissedSymbols
      <3>1. SymbolOrder # <<>>
        BY DEF OrderAssumption, ToSet
      <3>2. QED
        BY <3>1, LenProperties, ElementOfSeq, EmptySeq DEF OrderAssumption
    <2>26. ASSUME NEW z \in 1 .. N
           PROVE  \E u \in 1 .. n : own[u] = z /\ log[u] = Missed(of[z], 1)
      <3>1. Dumped(log, own, of, z)
        BY <1>5
      <3>2. QED
        BY <2>4, <3>1 DEF Dumped, n
    <2>5. PICK u \in 1 .. n : own[u] = j /\ log[u] = Missed(of[j], 1)
      BY <1>8, <2>26
    <2>6. PICK v \in 1 .. n : own[v] = h /\ log[v] = Missed(of[h], 1)
      BY <1>8, <2>26
    <2>7. /\ log[u].m = "MISSED" /\ ~log[u].cut /\ log[u].symbol = one
          /\ log[v].m = "MISSED" /\ ~log[v].cut /\ log[v].symbol = one
      BY <2>5, <2>6 DEF Missed
    <2> HIDE DEF one
    <2>8. \A p, q \in 1 .. n : own[p] = own[q] /\ p < q =>
            (log[q].m = "BEGIN" => log[p].m = "ARMED") /\ log[p].m # "END"
      BY <1>3
    <2>9. src[b] < x
      <3>1. ~(x < src[b]) /\ x # src[b]
        BY <1>6, <1>8, <2>2, <2>8
      <3>2. QED
        BY <1>8, <3>1
    <2>10. y < src[e]
      <3>1. ~(src[e] < y) /\ y # src[e]
        BY <1>6, <1>8, <2>3, <2>8
      <3>2. QED
        BY <1>8, <3>1
    <2>11. src[b] < u
      <3>1. ~(u < src[b]) /\ u # src[b]
        <4>1. own[u] = own[src[b]] /\ log[u].m # "ARMED" /\ log[u].m # log[src[b]].m
          BY <1>6, <2>5, <2>7
        <4>2. QED
          BY <1>6, <1>8, <2>8, <4>1
      <3>2. QED
        BY <1>8, <3>1
    <2>12. v < src[e]
      <3>1. ~(src[e] < v) /\ v # src[e]
        <4>1. own[v] = own[src[e]] /\ log[v].m # log[src[e]].m
          BY <1>6, <2>6, <2>7
        <4>2. QED
          BY <1>6, <1>8, <2>8, <4>1
      <3>2. QED
        BY <1>8, <3>1
    <2>13. \A y1, z1 \in 1 .. n : own[y1] < own[z1] => y1 < z1
      BY <1>9
    <2>14. x < src[e] /\ u < src[e] /\ src[b] < y /\ src[b] < v
      BY <1>8, <2>1, <2>2, <2>3, <2>5, <2>6, <2>13
    <2>15. \A p \in 1 .. w : src[b] < src[p] /\ src[p] < src[e] => p \in b + 1 .. e - 1
      <3> TAKE p \in 1 .. w
      <3> HAVE src[b] < src[p] /\ src[p] < src[e]
      <3>1. b < p /\ p < e
        BY <1>1, <1>11
      <3>2. p \in Int /\ b \in Int /\ e \in Int
        BY <1>1
      <3>3. QED
        BY <3>1, <3>2
    <2>16. \A z \in 1 .. n : src[b] < z /\ z < src[e] /\ log[z].m \in {"BEGIN", "END"} =>
             z = i \/ z = k
      <3> TAKE z \in 1 .. n
      <3> HAVE src[b] < z /\ z < src[e] /\ log[z].m \in {"BEGIN", "END"}
      <3> SUFFICES ASSUME NEW p \in 1 .. w, src[p] = z PROVE FALSE
        BY <1>4
      <3>1. p \in b + 1 .. e - 1
        BY <2>15
      <3>2. Ours(saved[p]) /\ saved[p].m = log[z].m
        BY <1>2
      <3>3. QED
        BY <1>7, <3>1, <3>2
    <2>17. (x = i \/ x = k) /\ (y = i \/ y = k) /\ x # y
      BY <2>2, <2>3, <2>9, <2>10, <2>14, <2>16
    <2>18. u # x /\ u # y /\ v # x /\ v # y
      BY <2>2, <2>3, <2>7
    <2>19. PICK p \in 1 .. w : src[p] = u
      BY <1>4, <2>17, <2>18
    <2>20. PICK q \in 1 .. w : src[q] = v
      BY <1>4, <2>17, <2>18
    <2>21. p \in b + 1 .. e - 1 /\ q \in b + 1 .. e - 1
      BY <2>11, <2>12, <2>14, <2>15, <2>19, <2>20
    <2>22. p # q
      BY <1>13, <2>5, <2>6, <2>19, <2>20
    <2>23. saved[p] = log[u] /\ saved[q] = log[v] /\ Ours(saved[p]) /\ Ours(saved[q])
      BY <1>2, <2>19, <2>20
    <2>24. p \in Within(saved, b, e - 1, "MISSED") /\ q \in Within(saved, b, e - 1, "MISSED")
      BY <2>7, <2>21, <2>23 DEF Within
    <2>25. saved[p].symbol = one /\ saved[q].symbol = one
      BY <2>7, <2>23
    <2> HIDE DEF j, h
    <2>27. QED
      <3>1. /\ p \in Within(saved, b, e - 1, "MISSED") /\ q \in Within(saved, b, e - 1, "MISSED")
            /\ p # q /\ saved[p].symbol = saved[q].symbol /\ saved[p].symbol \in MissedSymbols
        BY <2>4, <2>22, <2>24, <2>25
      <3>2. QED
        BY ONLY <3>1 DEF Doubled
  <1>14. QED
    BY <1>12, <1>13

(* The log of the stage collector, whatever became of it.                  *)
Fields == Bdfs \cup Int \cup {"none"}

LEMMA LogIs ==
  ASSUME OrderAssumption, ScenarioAssumption, scenario \in Scenarios, scenario.kind = "lives",
         NEW log \in Seq(SavedLines(scenario))
  PROVE  StageLog(log, Fields)
  <1>1. scenario.of \in Seq(Life)
    BY DEF ScenarioAssumption
  <1>2. Len(log) \in Nat /\ \A p \in 1 .. Len(log) : log[p] \in SavedLines(scenario)
    BY LenProperties, ElementOfSeq
  <1>3. {"none", -1, 0} \subseteq Fields
    BY DEF Fields
  <1>4. ASSUME NEW p \in 1 .. Len(log)
        PROVE  /\ log[p].m \in {"ARMED", "BEGIN", "STAGE", "VALUE", "MISSED", "END"}
               /\ ~log[p].cut =>
                    /\ log[p].m = "ARMED" => log[p].bdf \in Bdfs /\ log[p].type \in Fields
                    /\ log[p].m = "BEGIN" => /\ log[p].bdf \in Bdfs /\ log[p].bdf \in Fields
                                              /\ log[p].records \in Fields
                                              /\ log[p].dropped \in Fields
                                              /\ log[p].pmu \in Fields
                    /\ log[p].m = "END" => log[p].bdf \in Fields
    <2> DEFINE ln == log[p]
    <2>1. PICK whole \in PrintedLines(scenario) : ln = whole \/ ln = Cut(whole)
      BY <1>2 DEF SavedLines
    <2>2. PICK k \in DOMAIN scenario.of : whole \in LinesOf(scenario, scenario.of[k])
      BY <2>1 DEF PrintedLines
    <2> DEFINE life == scenario.of[k]
    <2>3. whole \in StageLines(life) /\ life \in Life
      BY <1>1, <2>2, LenProperties, ElementOfSeq DEF LinesOf
    <2> HIDE DEF ln, life
    <2>4. /\ ln.m \in {"ARMED", "BEGIN", "STAGE", "VALUE", "MISSED", "END"}
          /\ ~ln.cut => ln = whole
      BY <2>1, <2>3, LineIs
    <2>5. life.bdf \in Bdfs /\ life.post \in Int
      BY <2>3 DEF Life
    <2>6. Len(Stored(life)) \in Int
      BY <2>3, StoredIs
    <2>7. CASE ~ln.cut /\ ln.m = "ARMED"
      <3>1. ln = Armed(life)
        BY <2>3, <2>4, <2>7, LineIs
      <3>2. ln.bdf \in Bdfs /\ ln.type \in Fields
        BY <2>5, <3>1 DEF Armed, LiveGrType, Fields
      <3>3. QED
        BY <2>4, <2>7, <3>2 DEF ln
    <2>8. CASE ~ln.cut /\ ln.m = "BEGIN"
      <3>1. ln = Begin(life)
        BY <2>3, <2>4, <2>8, LineIs
      <3>2. /\ ln.bdf = life.bdf /\ ln.records = Len(Stored(life)) /\ ln.pmu = life.post
            /\ ln.dropped \in {0, 1}
        BY <3>1 DEF Begin
      <3>3. /\ ln.bdf \in Bdfs /\ ln.bdf \in Fields /\ ln.records \in Fields
            /\ ln.dropped \in Fields /\ ln.pmu \in Fields
        BY <2>5, <2>6, <3>2 DEF Fields
      <3>4. QED
        BY <2>4, <2>8, <3>3 DEF ln
    <2>9. CASE ~ln.cut /\ ln.m = "END"
      <3>1. ln = Ended(life)
        BY <2>3, <2>4, <2>9, LineIs
      <3>2. ln.bdf \in Fields
        BY <2>5, <3>1 DEF Ended, Fields
      <3>3. QED
        BY <2>4, <2>9, <3>2 DEF ln
    <2>10. QED
      BY <2>4, <2>7, <2>8, <2>9 DEF ln
  <1>5. QED
    BY <1>2, <1>3, <1>4 DEF StageLog

LEMMA SavedLog ==
  ASSUME OrderAssumption, ScenarioAssumption, IInv, phase # "printing", scenario.kind = "lives"
  PROVE  StageLog(text, Fields)
  <1>1. text \in Seq(SavedLines(scenario)) /\ scenario \in Scenarios
    BY SavedType DEF IInv, SavedLines
  <1>2. QED
    BY <1>1, LogIs

(* A run that is there from BEGIN to END is of one life, or has errors.    *)
LEMMA OneLife ==
  ASSUME OrderAssumption, ScenarioAssumption, Losses # "burst", IInv, phase # "printing",
         scenario.kind = "lives", NEW V, NEW run, NEW b \in 1 .. Len(text), NEW e \in 1 .. Len(text),
         WholeRun(text, V, run, b, e), Errors(run) = {}
  PROVE  \E life \in ToSet(scenario.of) : life \in Life /\ AllOf(text, b, e, life)
  <1> DEFINE of == scenario.of
             N == Len(of)
  <1>1. of \in Seq(Life) /\ N \in Nat /\ Len(printed) \in Nat /\ Len(text) \in Nat
        /\ \A j \in 1 .. N : of[j] \in ToSet(of) /\ of[j] \in Life
    <2>1. of \in Seq(Life)
      BY DEF IInv, ScenarioAssumption
    <2>2. Len(printed) \in Nat
      BY LenProperties DEF IInv
    <2>3. Len(text) \in Nat
      BY SavedType, LenProperties DEF IInv
    <2>4. N \in Nat /\ \A j \in 1 .. N : of[j] \in ToSet(of) /\ of[j] \in Life
      <3> HIDE DEF of
      <3> QED BY <2>1, LenProperties, ElementOfSeq DEF ToSet
    <2>5. QED
      BY <2>1, <2>2, <2>3, <2>4
  <1>2. PICK own : Owned(printed, own, of, N)
    BY OwnedAll DEF IInv
  <1>3. b < e /\ Stretch(text, b, e - 1) /\ text[e].m = "END" /\ Counted(run.missed, text, b, e - 1)
    BY DEF WholeRun, RunsIn
  <1>4. ~Doubled(text, b, e)
    <2> SUFFICES ASSUME Doubled(text, b, e) PROVE FALSE
      OBVIOUS
    <2> DEFINE W == Within(text, b, e - 1, "MISSED")
    <2>1. PICK p \in W, q \in W :
            p # q /\ text[p].symbol = text[q].symbol /\ text[p].symbol \in MissedSymbols
      BY DEF Doubled
    <2>2. PICK at \in [W -> DOMAIN run.missed] :
            \A x, y \in W : run.missed[at[x]].symbol = text[x].symbol /\ (at[x] = at[y] => x = y)
      BY <1>3 DEF Counted
    <2> HIDE DEF W
    <2> DEFINE s == text[p].symbol
               S == {i \in DOMAIN run.missed : run.missed[i].symbol = s}
    <2>3. at[p] \in S /\ at[q] \in S /\ at[p] # at[q]
      BY <2>1, <2>2
    <2>4. Cardinality(S) = 1
      <3>1. \A x \in MissedSymbols :
              Cardinality({i \in DOMAIN run.missed : run.missed[i].symbol = x}) = 1
        BY Validated
      <3> HIDE DEF S
      <3>2. s \in MissedSymbols
        BY <2>1
      <3> HIDE DEF s
      <3>3. Cardinality({i \in DOMAIN run.missed : run.missed[i].symbol = s}) = 1
        BY <3>1, <3>2, Zenon
      <3>4. QED
        BY <3>3 DEF S
    <2>5. IsFiniteSet(S)
      <3>1. run \in RunsIn(text, V, b, e - 1)
        BY DEF WholeRun
      <3>2. run.missed \in Seq(MissedIn(text, b, e - 1))
        BY <3>1 DEF RunsIn, Record
      <3>3. DOMAIN run.missed = 1 .. Len(run.missed) /\ Len(run.missed) \in Nat
        BY <3>2, LenProperties
      <3>4. S \subseteq 1 .. Len(run.missed) /\ 1 \in Int /\ Len(run.missed) \in Int
        BY <3>3
      <3> HIDE DEF S
      <3>5. QED
        BY <3>4, FiniteInterval
    <2> HIDE DEF S
    <2>6. PICK x : S = {x}
      BY <2>4, <2>5, OneElement
    <2>7. QED
      BY <2>3, <2>6
  <1>5. (\E src : Unbroken(printed, text, src)) \/ \E src, i, k : Broken(printed, text, src, i, k)
    BY TextIs DEF IInv
  <1> HIDE DEF N
  <1>6. \E j \in 1 .. N : AllOf(text, b, e, of[j])
    <2>1. CASE \E src : Unbroken(printed, text, src)
      BY <1>1, <1>2, <1>3, <2>1, UnbrokenLife
    <2>2. CASE \E src, i, k : Broken(printed, text, src, i, k)
      <3>1. PICK src, i, k : Broken(printed, text, src, i, k)
        BY <2>2
      <3>2. (\E j \in 1 .. N : AllOf(text, b, e, of[j])) \/ Doubled(text, b, e)
        BY <1>1, <1>2, <1>3, <3>1, BrokenLife
      <3>3. QED
        BY <1>4, <3>2
    <2>3. QED
      BY <1>5, <2>1, <2>2
  <1>7. QED
    BY <1>1, <1>6

LEMMA AcceptedLife ==
  ASSUME OrderAssumption, ScenarioAssumption, Losses # "burst", IInv, Accepted
  PROVE  \E life \in ToSet(scenario.of) : \E run :
           /\ life \in Life /\ stageReport.run[1] = run /\ stageReport.changed = Transitions(run)
           /\ Legal(life) /\ SameStages(run, life) /\ Numbered(run)
  <1>1. /\ phase = "decoded" /\ phase # "printing" /\ scenario.kind = "lives"
        /\ stageReport.code = 0 /\ stageReport = DecodeStages(text)
    BY DEF Accepted, IInv
  <1>2. StageLog(text, Fields)
    BY <1>1, SavedLog
  <1>3. PICK run : /\ DecodeStages(text).run[1] = run /\ Errors(run) = {}
                   /\ DecodeStages(text).changed = Transitions(run)
                   /\ \E b, e \in 1 .. Len(text) : WholeRun(text, Fields, run, b, e)
    BY <1>1, <1>2, AcceptedRun
  <1>4. PICK b \in 1 .. Len(text), e \in 1 .. Len(text) : WholeRun(text, Fields, run, b, e)
    BY <1>3
  <1>5. PICK life \in ToSet(scenario.of) : life \in Life /\ AllOf(text, b, e, life)
    BY <1>1, <1>3, <1>4, OneLife
  <1>6. b \in Nat /\ e \in Nat
    BY <1>2 DEF StageLog
  <1>7. Legal(life) /\ SameStages(run, life) /\ Numbered(run)
    <2>1. Errors(run) = {}
      BY <1>3
    <2>2. QED
      BY <1>4, <1>5, <1>6, <2>1, RunIsLife, Zenon
  <1>8. QED
    BY <1>1, <1>3, <1>5, <1>7

(* A run that is accepted is, stage by stage and register by register,     *)
(* what one collector recorded of one complete life: for lives of any      *)
(* length and any number of them in a log that was cut, repeated, doubled  *)
(* or has lost up to two lines anywhere.                                   *)
THEOREM AcceptedWitness ==
  ASSUME OrderAssumption, ScenarioAssumption, Losses # "burst"
  PROVE  Spec => []AcceptedIsWitnessed
  <1>1. IInv => AcceptedIsWitnessed
    <2> SUFFICES ASSUME IInv, Accepted
                 PROVE  \E life \in ToSet(scenario.of) :
                          Legal(life) /\ SameStages(stageReport.run[1], life)
      BY DEF AcceptedIsWitnessed
    <2>1. QED
      BY AcceptedLife
  <1>2. QED
    BY <1>1, Invariance, PTL

(* The mask comparison of such a run: stage i has rank i - 1, and the      *)
(* masks are other at flip than before it.                                 *)
LEMMA RankIs ==
  ASSUME NEW run, Numbered(run), NEW i \in DOMAIN run.stages
  PROVE  Rank(run, DOMAIN run.stages, i) = i - 1
  <1> DEFINE n == Len(run.stages)
             E == Earlier(run, DOMAIN run.stages, i)
  <1>1. n \in Nat /\ DOMAIN run.stages = 1 .. n /\ \A k \in 1 .. n : Seqno(run, k) = k - 1
    BY DEF Numbered, Seqno
  <1> HIDE DEF n
  <1>2. E = 1 .. i - 1
    <2>1. ASSUME NEW k \in 1 .. n PROVE k \in E <=> k \in 1 .. i - 1
      <3>1. Seqno(run, k) = k - 1 /\ Seqno(run, i) = i - 1 /\ i \in 1 .. n
        BY <1>1
      <3>2. k \in E <=> (Seqno(run, k) < Seqno(run, i)
                         \/ (Seqno(run, k) = Seqno(run, i) /\ k < i))
        BY <1>1 DEF Earlier
      <3>3. k - 1 < i - 1 \/ (k - 1 = i - 1 /\ k < i) <=> k \in 1 .. i - 1
        BY <1>1, <3>1
      <3> HIDE DEF E
      <3>4. QED
        BY <3>1, <3>2, <3>3
    <2>2. E \subseteq 1 .. n
      BY <1>1 DEF Earlier
    <2>3. 1 .. i - 1 \subseteq 1 .. n
      BY <1>1
    <2> HIDE DEF E
    <2>4. QED
      BY <2>1, <2>2, <2>3
  <1>3. Cardinality(1 .. i - 1) = i - 1
    <2>1. 1 \in Int /\ i - 1 \in Int /\ i \in Int /\ i >= 1
      BY <1>1
    <2>2. Cardinality(1 .. i - 1) = IF 1 > i - 1 THEN 0 ELSE (i - 1) - 1 + 1
      BY <2>1, FS_Interval
    <2>3. QED
      BY <2>1, <2>2
  <1>4. QED
    BY <1>2, <1>3 DEF Rank

LEMMA ChangedAt ==
  ASSUME OrderAssumption, NEW life \in Life, NEW run, Legal(life), SameStages(run, life),
         Numbered(run)
  PROVE  Transitions(run) = IF life.flip > 1 THEN {life.flip - 1} ELSE {}
  <1> DEFINE n == Len(run.stages)
             all == DOMAIN run.stages
             f == life.flip
             Vals(i) == ValueMap(run.stages[i])
             Differs(i, k) == \E r \in MaskRegs : /\ r \in DOMAIN Vals(i) \cap DOMAIN Vals(k)
                                                  /\ Vals(i)[r] # Vals(k)[r]
  <1>1. n \in Nat /\ all = 1 .. n /\ f \in Nat
    BY DEF Numbered, Life
  <1>2. /\ Len(Course(life)) = n /\ \A i \in 1 .. n : Stored(life)[i] = Observed(life, i)
        /\ Events(life) = Course(life) /\ life.fault = "none"
    <2>1. life.fault = "none" /\ Len(Stored(life)) = n
      BY DEF Legal, SameStages
    <2>2. Events(life) = Course(life)
      BY <2>1 DEF Events
    <2>3. PICK m \in Nat :
            /\ Len(Stored(life)) = m /\ Sized(Events(life), Names, m)
            /\ \A i \in 1 .. m : Stored(life)[i] = Observed(life, i)
      BY <2>1, StoredIs
    <2>4. m = n /\ Len(Events(life)) = m
      BY <2>1, <2>3 DEF Sized
    <2>5. QED
      BY <2>1, <2>2, <2>3, <2>4
  <1>3. f <= n
    BY <1>2 DEF Life
  <1>4. ASSUME NEW i \in 1 .. n
        PROVE  \A r \in MaskRegs : /\ r \in DOMAIN Vals(i)
                                   /\ Vals(i)[r] = IF f > 0 /\ i >= f THEN 1 ELSE 0
    <2> TAKE r \in MaskRegs
    <2> DEFINE R == Regs(Events(life)[i])
    <2>1. Vals(i) = Observed(life, i).vals
      <3>1. i \in DOMAIN run.stages
        BY <1>1
      <3>2. Vals(i) = Stored(life)[i].vals
        BY <3>1 DEF SameStages
      <3>3. QED
        BY <1>2, <3>2
    <2>2. Observed(life, i).vals = [x \in R |-> Truth(life, i, x)]
      BY <1>2, ObservedValues
    <2>3. r \in R
      BY DEF Regs, PhysicalRegs
    <2>4. r # Pmc
      BY DEF OrderAssumption, MaskRegs, Pmc
    <2>5. Truth(life, i, r) = IF f > 0 /\ i >= f THEN 1 ELSE 0
      BY <2>4 DEF Truth
    <2> HIDE DEF Vals, R
    <2>6. r \in DOMAIN Vals(i) /\ Vals(i)[r] = Truth(life, i, r)
      BY <2>1, <2>2, <2>3
    <2>7. QED
      BY <2>5, <2>6
  <1>5. MaskRegs # {}
    <2>1. PICK x : x \in Families
      BY DEF OrderAssumption
    <2>2. 1 \in 1 .. MaxGpcs
      BY DEF OrderAssumption
    <2>3. <<x, 1>> \in MaskRegs
      BY <2>1, <2>2 DEF MaskRegs
    <2>4. QED
      BY <2>3
  <1>6. ASSUME NEW i \in 1 .. n, i + 1 \in 1 .. n
        PROVE  Differs(i, i + 1) <=> f = i + 1
    <2>1. /\ \A r \in MaskRegs : /\ r \in DOMAIN Vals(i)
                                 /\ Vals(i)[r] = IF f > 0 /\ i >= f THEN 1 ELSE 0
          /\ \A r \in MaskRegs : /\ r \in DOMAIN Vals(i + 1)
                                 /\ Vals(i + 1)[r] = IF f > 0 /\ i + 1 >= f THEN 1 ELSE 0
      BY <1>4, <1>6
    <2>2. (IF f > 0 /\ i >= f THEN 1 ELSE 0) # (IF f > 0 /\ i + 1 >= f THEN 1 ELSE 0)
            <=> f = i + 1
      BY <1>1
    <2> HIDE DEF Vals, f
    <2>3. QED
      BY <1>5, <2>1, <2>2
  <1>7. \A i \in 1 .. n : Rank(run, all, i) = i - 1
    BY <1>1, RankIs
  <1> DEFINE S == {i \in all : \E k \in all, r \in MaskRegs :
                      /\ Rank(run, all, k) = Rank(run, all, i) + 1
                      /\ r \in DOMAIN Vals(i) \cap DOMAIN Vals(k)
                      /\ Vals(i)[r] # Vals(k)[r]}
  <1>8. Transitions(run) = {Rank(run, all, i) + 1 : i \in S}
    BY DEF Transitions
  <1>9. S = {i \in 1 .. n : f = i + 1}
    <2>1. ASSUME NEW i \in 1 .. n
          PROVE  i \in S <=> \E k \in 1 .. n : k = i + 1 /\ Differs(i, k)
      <3>1. i \in S <=> \E k \in 1 .. n : Rank(run, all, k) = Rank(run, all, i) + 1 /\ Differs(i, k)
        <4> HIDE DEF Vals
        <4> QED BY <1>1
      <3>2. \A k \in 1 .. n : Rank(run, all, k) = Rank(run, all, i) + 1 <=> k = i + 1
        <4> TAKE k \in 1 .. n
        <4>1. Rank(run, all, k) = k - 1 /\ Rank(run, all, i) = i - 1
          BY <1>7
        <4> HIDE DEF all
        <4>2. QED
          BY <1>1, <4>1
      <3> HIDE DEF Differs, S, all
      <3>3. QED
        BY <3>1, <3>2
    <2> HIDE DEF Differs
    <2>2. ASSUME NEW i \in 1 .. n PROVE i \in S <=> f = i + 1
      <3>1. f = i + 1 => i + 1 \in 1 .. n
        BY <1>1, <1>3
      <3> HIDE DEF S, f
      <3>2. QED
        BY <1>6, <2>1, <3>1
    <2>3. S \subseteq 1 .. n
      BY <1>1
    <2> HIDE DEF S, f
    <2>4. QED
      BY <2>2, <2>3
  <1>10. S \subseteq 1 .. n
    BY <1>9
  <1> HIDE DEF S, n, f, all
  <1>11. {Rank(run, all, i) + 1 : i \in S} = S
    <2>1. \A i \in S : Rank(run, all, i) + 1 = i
      <3> TAKE i \in S
      <3>1. Rank(run, all, i) = i - 1 /\ i \in 1 .. n
        BY <1>7, <1>10
      <3>2. QED
        BY <1>1, <3>1
    <2>2. QED
      BY <2>1
  <1>12. S = IF f > 1 THEN {f - 1} ELSE {}
    <2>1. CASE f > 1
      <3>1. f - 1 \in 1 .. n /\ f = (f - 1) + 1 /\ \A i \in 1 .. n : f = i + 1 => i = f - 1
        BY <1>1, <1>3, <2>1
      <3>2. QED
        BY <1>9, <2>1, <3>1
    <2>2. CASE ~(f > 1)
      <3>1. \A i \in 1 .. n : f # i + 1
        BY <1>1, <2>2
      <3>2. QED
        BY <1>9, <2>2, <3>1
    <2>3. QED
      BY <2>1, <2>2
  <1>13. QED
    BY <1>8, <1>11, <1>12 DEF f

(* The mask comparison of an accepted run names the one pair of stages     *)
(* between which the masks changed, and no other, at whatever event of a   *)
(* life of whatever length they did.                                       *)
THEOREM ComparisonIsExact ==
  ASSUME OrderAssumption, ScenarioAssumption, Losses # "burst"
  PROVE  Spec => []ComparisonExact
  <1>1. IInv => ComparisonExact
    <2> SUFFICES ASSUME IInv, Accepted
                 PROVE  \E life \in ToSet(scenario.of) :
                          /\ SameStages(stageReport.run[1], life)
                          /\ stageReport.changed = IF life.flip > 1 THEN {life.flip - 1} ELSE {}
      BY DEF ComparisonExact
    <2>1. PICK life \in ToSet(scenario.of) : \E run :
            /\ life \in Life /\ stageReport.run[1] = run /\ stageReport.changed = Transitions(run)
            /\ Legal(life) /\ SameStages(run, life) /\ Numbered(run)
      BY AcceptedLife
    <2>2. PICK run :
            /\ life \in Life /\ stageReport.run[1] = run /\ stageReport.changed = Transitions(run)
            /\ Legal(life) /\ SameStages(run, life) /\ Numbered(run)
      BY <2>1
    <2>3. Transitions(run) = IF life.flip > 1 THEN {life.flip - 1} ELSE {}
      BY <2>2, ChangedAt
    <2>4. QED
      BY <2>2, <2>3
  <1>2. QED
    BY <1>1, Invariance, PTL

------------------------------------------------------------------------------
(* A clean log is accepted.  What has been read of a dump: a run with the  *)
(* first stages, the last of them with its first values, and then with the *)
(* first counters.                                                         *)
RegOrder(life, i) == Order(Stored(life)[i].name)
ValuesTo(life, i, k) ==
  [q \in 1 .. k |-> [reg |-> RegOrder(life, i)[q],
                     value |-> Stored(life)[i].vals[RegOrder(life, i)[q]]]]
StageTo(life, i, k)  == StageWith(Stage(life, i), ValuesTo(life, i, k))
AllRegs(life, i)     == Len(RegOrder(life, i))
StagesTo(life, n)    == [j \in 1 .. n |-> StageTo(life, j, AllRegs(life, j))]
PartTo(life, i, k)   == [j \in 1 .. i |-> IF j = i THEN StageTo(life, i, k)
                                          ELSE StageTo(life, j, AllRegs(life, j))]
MissedTo(life, n)    == [q \in 1 .. n |-> [symbol |-> SymbolOrder[q], n |-> Missed(life, q).n]]

RunTo(life, stages, missed) ==
  [begin |-> life.bdf, end |-> "none", records |-> Len(Stored(life)),
   dropped |-> Begin(life).dropped, pmu |-> life.post, armed |-> LiveGrType,
   stages |-> stages, missed |-> missed, orphans |-> 0, unparsed |-> 0, complete |-> FALSE]
Reading(runs, armed, run) == [runs |-> runs, open |-> <<run>>, armed |-> armed]

(* A list with one element more, as a function.                            *)
LEMMA Appended ==
  ASSUME NEW n \in Nat, NEW f, f = [j \in 1 .. n |-> f[j]], NEW x
  PROVE  Append(f, x) = [j \in 1 .. n + 1 |-> IF j = n + 1 THEN x ELSE f[j]]
  <1> DEFINE Y == {f[j] : j \in 1 .. n} \cup {x}
             g == [j \in 1 .. n + 1 |-> IF j = n + 1 THEN x ELSE f[j]]
  <1>1. f \in [1 .. n -> Y] /\ x \in Y
    <2>1. \A j \in 1 .. n : f[j] \in Y
      OBVIOUS
    <2> HIDE DEF Y
    <2>2. f \in [1 .. n -> Y]
      BY <2>1
    <2>3. x \in Y
      BY DEF Y
    <2>4. QED
      BY <2>2, <2>3
  <1> HIDE DEF Y
  <1>2. Sized(f, Y, n)
    BY <1>1, Listed
  <1>3. f \in Seq(Y) /\ Len(f) = n
    BY <1>2 DEF Sized
  <1>4. /\ Append(f, x) \in Seq(Y) /\ Len(Append(f, x)) = n + 1
        /\ \A j \in 1 .. n : Append(f, x)[j] = f[j]
        /\ Append(f, x)[n + 1] = x
    BY <1>1, <1>3, AppendProperties
  <1>5. n + 1 \in Nat /\ Sized(Append(f, x), Y, n + 1)
    BY <1>4 DEF Sized
  <1>6. Append(f, x) \in [1 .. n + 1 -> Y]
    BY <1>5, Listed
  <1> DEFINE a == Append(f, x)
  <1>7. a \in [1 .. n + 1 -> Y] /\ (\A j \in 1 .. n : a[j] = f[j]) /\ a[n + 1] = x
    BY <1>4, <1>6
  <1> HIDE DEF a
  <1>8. a = g
    <2>1. \A j \in 1 .. n + 1 : a[j] = g[j]
      BY <1>7
    <2>2. a = [j \in 1 .. n + 1 |-> a[j]]
      BY <1>7
    <2>3. QED
      BY <2>1, <2>2
  <1>9. QED
    BY <1>8 DEF a

LEMMA BeginFed ==
  ASSUME NEW life \in Life, NEW R, NEW V,
         NEW acc \in [runs : Seq(R), open : Seq(R), armed : [Bdfs -> V]]
  PROVE  ReadOn(acc, <<Armed(life), Begin(life)>>,
                Reading(acc.runs \o acc.open, [acc.armed EXCEPT ![life.bdf] = LiveGrType],
                        RunTo(life, <<>>, <<>>)))
  <1> DEFINE armed == [acc.armed EXCEPT ![life.bdf] = LiveGrType]
             mid   == [acc EXCEPT !.armed = armed]
             last  == Reading(acc.runs \o acc.open, armed, RunTo(life, <<>>, <<>>))
  <1>1. life.bdf \in Bdfs
    BY DEF Life
  <1>2. Feed(acc, Armed(life)) = mid
    <2>1. /\ Armed(life).from = "cmp100_stage_ro" /\ Armed(life).m = "ARMED"
          /\ ~Armed(life).cut /\ Armed(life).bdf = life.bdf /\ Armed(life).type = LiveGrType
      BY DEF Armed
    <2>2. QED
      BY <2>1 DEF Feed, FeedStage
  <1>3. Feed(mid, Begin(life)) = last
    <2> DEFINE ln == Begin(life)
    <2>1. /\ ln.from = "cmp100_stage_ro" /\ ln.m = "BEGIN" /\ ~ln.cut /\ ln.bdf = life.bdf
          /\ ln.records = Len(Stored(life)) /\ ln.pmu = life.post
          /\ ln.dropped = Begin(life).dropped
      BY DEF Begin
    <2>2. armed[life.bdf] = LiveGrType
      BY <1>1
    <2> HIDE DEF ln, armed
    <2>3. NewRun(ln, armed) = RunTo(life, <<>>, <<>>)
      BY <2>1, <2>2 DEF NewRun, RunTo
    <2> DEFINE run == NewRun(ln, armed)
    <2>4. mid.armed = armed /\ mid.runs = acc.runs /\ mid.open = acc.open
      OBVIOUS
    <2>5. Feed(mid, ln) = [mid EXCEPT !.runs = mid.runs \o mid.open, !.open = <<run>>]
      BY <2>1, <2>4 DEF Feed, FeedStage
    <2> HIDE DEF run
    <2>6. Feed(mid, ln) = [runs |-> acc.runs \o acc.open, open |-> <<run>>, armed |-> armed]
      BY <2>4, <2>5
    <2>7. QED
      BY <2>3, <2>6 DEF Reading, ln, run
  <1> HIDE DEF mid, last, armed
  <1>4. ReadOn(acc, <<Armed(life)>>, mid) /\ ReadOn(mid, <<Begin(life)>>, last)
    BY <1>2, <1>3, ReadOne
  <1> DEFINE X == {Armed(life), Begin(life)}
  <1>5. Sized(<<Armed(life)>>, X, 1) /\ Sized(<<Begin(life)>>, X, 1) /\ 1 \in Nat
    BY DEF Sized
  <1> HIDE DEF X
  <1>6. ReadOn(acc, <<Armed(life)>> \o <<Begin(life)>>, last)
    BY <1>4, <1>5, ReadJoin, Zenon
  <1>7. <<Armed(life)>> \o <<Begin(life)>> = <<Armed(life), Begin(life)>>
    <2> DEFINE a == Armed(life)
               b == Begin(life)
               s == <<a>> \o <<b>>
    <2> HIDE DEF a, b
    <2>1. Sized(s, X, 2) /\ Glued(s, <<a>>, <<b>>, 1, 1)
      <3>1. 1 + 1 = 2
        OBVIOUS
      <3>2. Sized(s, X, 1 + 1) /\ Glued(s, <<a>>, <<b>>, 1, 1)
        <4> HIDE DEF s
        <4> QED BY <1>5, Joined, Zenon DEF a, b, s
      <3>3. QED
        BY <3>1, <3>2
    <2>2. s \in [1 .. 2 -> X] /\ s[1] = a /\ s[2] = b
      <3> HIDE DEF s
      <3>1. 2 \in Nat
        OBVIOUS
      <3>2. s \in [1 .. 2 -> X]
        BY <2>1, <3>1, Listed
      <3>3. QED
        BY <2>1, <3>2 DEF Glued
    <2> HIDE DEF s
    <2>3. s = <<a, b>>
      BY <2>2
    <2>4. QED
      BY <2>3 DEF s, a, b
  <1>8. QED
    BY <1>6, <1>7 DEF last, armed

LEMMA LineFed ==
  ASSUME NEW runs, NEW armed, NEW run, NEW ln, Ours(ln)
  PROVE  /\ ln.m = "STAGE"  => Feed(Reading(runs, armed, run), ln) = Reading(runs, armed, OnStage(run, ln))
         /\ ln.m = "VALUE"  => Feed(Reading(runs, armed, run), ln) = Reading(runs, armed, OnValue(run, ln))
         /\ ln.m = "MISSED" => Feed(Reading(runs, armed, run), ln) = Reading(runs, armed, OnMissed(run, ln))
         /\ ln.m = "END" => Feed(Reading(runs, armed, run), ln)
                              = [runs |-> Append(runs, OnEnd(run, ln)), open |-> <<>>, armed |-> armed]
  <1> DEFINE acc == Reading(runs, armed, run)
  <1>1. acc.runs = runs /\ acc.open = <<run>> /\ acc.armed = armed /\ acc.open[1] = run
        /\ acc.open # <<>> /\ acc = [runs |-> acc.runs, open |-> acc.open, armed |-> acc.armed]
    BY DEF Reading
  <1>2. \A new : [acc.open EXCEPT ![1] = new] = <<new>>
    BY <1>1
  <1>3. ASSUME NEW new
        PROVE  [acc EXCEPT !.open = [acc.open EXCEPT ![1] = new]] = Reading(runs, armed, new)
    <2>1. [acc EXCEPT !.open = [acc.open EXCEPT ![1] = new]] = [acc EXCEPT !.open = <<new>>]
      BY <1>2
    <2> HIDE DEF acc
    <2>2. [acc EXCEPT !.open = <<new>>] = [runs |-> acc.runs, open |-> <<new>>, armed |-> acc.armed]
      BY <1>1
    <2>3. QED
      BY <1>1, <2>1, <2>2 DEF Reading
  <1> HIDE DEF acc
  <1>4. CASE ln.m = "STAGE"
    <2> DEFINE new == OnStage(run, ln)
    <2>1. Feed(acc, ln) = [acc EXCEPT !.open = [acc.open EXCEPT ![1] = new]]
      BY <1>1, <1>4 DEF Feed, FeedStage, Ours
    <2> HIDE DEF new
    <2>2. QED
      BY <1>3, <1>4, <2>1 DEF acc, new
  <1>5. CASE ln.m = "VALUE"
    <2> DEFINE new == OnValue(run, ln)
    <2>1. Feed(acc, ln) = [acc EXCEPT !.open = [acc.open EXCEPT ![1] = new]]
      BY <1>1, <1>5 DEF Feed, FeedStage, Ours
    <2> HIDE DEF new
    <2>2. QED
      BY <1>3, <1>5, <2>1 DEF acc, new
  <1>6. CASE ln.m = "MISSED"
    <2> DEFINE new == OnMissed(run, ln)
    <2>1. Feed(acc, ln) = [acc EXCEPT !.open = [acc.open EXCEPT ![1] = new]]
      BY <1>1, <1>6 DEF Feed, FeedStage, Ours
    <2> HIDE DEF new
    <2>2. QED
      BY <1>3, <1>6, <2>1 DEF acc, new
  <1>7. CASE ln.m = "END"
    <2>1. Feed(acc, ln) = [acc EXCEPT !.runs = Append(acc.runs, OnEnd(run, ln)), !.open = <<>>]
      BY <1>1, <1>7 DEF Feed, FeedStage, Ours
    <2>2. QED
      BY <1>1, <1>7, <2>1 DEF acc
  <1>8. QED
    BY <1>4, <1>5, <1>6, <1>7 DEF acc

LEMMA NoValues ==
  ASSUME NEW life, NEW i
  PROVE  ValuesTo(life, i, 0) = <<>>
  <1>1. ValuesTo(life, i, 0) \in [1 .. 0 -> {}]
    BY DEF ValuesTo
  <1>2. Sized(ValuesTo(life, i, 0), {}, 0)
    <2>1. 0 \in Nat
      OBVIOUS
    <2>2. QED
      BY <1>1, <2>1, Listed
  <1>3. QED
    BY <1>2, EmptySeq DEF Sized

LEMMA StageFed ==
  ASSUME NEW life, NEW i \in Nat \ {0}, NEW runs, NEW armed
  PROVE  Feed(Reading(runs, armed, RunTo(life, StagesTo(life, i - 1), <<>>)), Stage(life, i))
           = Reading(runs, armed, RunTo(life, PartTo(life, i, 0), <<>>))
  <1> DEFINE ln  == Stage(life, i)
             old == StagesTo(life, i - 1)
             new == PartTo(life, i, 0)
             s   == StageWith(ln, <<>>)
             run == RunTo(life, old, <<>>)
  <1>1. Ours(ln) /\ ln.m = "STAGE" /\ ~ln.cut
    BY DEF Stage, Ours
  <1>2. OnStage(run, ln) = [run EXCEPT !.stages = Append(@, s)]
    BY <1>1 DEF OnStage, StageWith
  <1>3. s = StageTo(life, i, 0)
    BY NoValues DEF StageTo
  <1>4. old = [j \in 1 .. i - 1 |-> old[j]] /\ i - 1 \in Nat /\ (i - 1) + 1 = i
    BY DEF StagesTo
  <1>5. \A j \in 1 .. i - 1 : old[j] = StageTo(life, j, AllRegs(life, j))
    BY DEF StagesTo
  <1> HIDE DEF old, s, ln
  <1>6. Append(old, s) = [j \in 1 .. (i - 1) + 1 |-> IF j = (i - 1) + 1 THEN s ELSE old[j]]
    BY <1>4, Appended
  <1>7. Append(old, s) = new
    <2>1. \A j \in 1 .. i : (IF j = (i - 1) + 1 THEN s ELSE old[j])
                               = IF j = i THEN StageTo(life, i, 0)
                                 ELSE StageTo(life, j, AllRegs(life, j))
      BY <1>3, <1>4, <1>5
    <2>2. QED
      BY <1>4, <1>6, <2>1 DEF PartTo
  <1>8. OnStage(run, ln) = RunTo(life, new, <<>>)
    <2>1. run.stages = old
      BY DEF RunTo
    <2>2. OnStage(run, ln) = [run EXCEPT !.stages = new]
      BY <1>2, <1>7, <2>1
    <2> HIDE DEF new
    <2>3. QED
      BY <2>2 DEF RunTo
  <1> HIDE DEF new, run
  <1>9. QED
    BY <1>1, <1>8, LineFed DEF ln, new, run, old

LEMMA ValueFed ==
  ASSUME NEW life, NEW i \in Nat \ {0}, NEW k \in Nat, NEW runs, NEW armed
  PROVE  Feed(Reading(runs, armed, RunTo(life, PartTo(life, i, k), <<>>)),
              Value(life, i, RegOrder(life, i)[k + 1]))
           = Reading(runs, armed, RunTo(life, PartTo(life, i, k + 1), <<>>))
  <1> DEFINE r   == RegOrder(life, i)[k + 1]
             ln  == Value(life, i, r)
             v   == [reg |-> r, value |-> Stored(life)[i].vals[r]]
             old == PartTo(life, i, k)
             new == PartTo(life, i, k + 1)
             run == RunTo(life, old, <<>>)
             S   == {j \in DOMAIN run.stages : run.stages[j].seq = ln.seq}
  <1>1. Ours(ln) /\ ln.m = "VALUE" /\ ~ln.cut /\ ln.seq = i - 1
        /\ [reg |-> ln.reg, value |-> ln.value] = v
    BY DEF Value, Ours
  <1>2. run.stages = old
    BY DEF RunTo
  <1>3. DOMAIN old = 1 .. i /\ \A j \in 1 .. i : old[j].seq = j - 1
    <2>1. \A j, q : StageTo(life, j, q).seq = j - 1
      BY DEF StageTo, StageWith, Stage
    <2>2. QED
      BY <2>1 DEF PartTo
  <1>4. old[i] = StageTo(life, i, k)
    BY DEF PartTo
  <1>5. S = {i}
    <2> HIDE DEF ln, old, run
    <2>1. QED
      BY <1>1, <1>2, <1>3
  <1>6. Cardinality(S) = 1 /\ (CHOOSE j \in S : TRUE) = i
    BY <1>5, FS_Singleton
  <1>7. OnValue(run, ln) = [run EXCEPT !.stages[i].values = Append(@, v)]
    <2> HIDE DEF ln, old, run, v
    <2>1. OnValue(run, ln) = [run EXCEPT !.stages[CHOOSE j \in S : TRUE].values = Append(@, v)]
      BY <1>1, <1>6 DEF OnValue
    <2> HIDE DEF S
    <2>2. QED
      BY <1>6, <2>1
  <1>8. Append(ValuesTo(life, i, k), v) = ValuesTo(life, i, k + 1)
    <2> DEFINE f == ValuesTo(life, i, k)
    <2>1. f = [j \in 1 .. k |-> f[j]]
      BY DEF ValuesTo
    <2>2. \A j \in 1 .. k : f[j] = [reg |-> RegOrder(life, i)[j],
                                    value |-> Stored(life)[i].vals[RegOrder(life, i)[j]]]
      BY DEF ValuesTo
    <2> HIDE DEF f
    <2>3. Append(f, v) = [j \in 1 .. k + 1 |-> IF j = k + 1 THEN v ELSE f[j]]
      BY <2>1, Appended
    <2>4. QED
      BY <2>2, <2>3 DEF ValuesTo, f
  <1>9. [old[i] EXCEPT !.values = Append(old[i].values, v)] = StageTo(life, i, k + 1)
    <2> DEFINE s == StageTo(life, i, k)
               more == Append(ValuesTo(life, i, k), v)
    <2>1. s = StageWith(Stage(life, i), ValuesTo(life, i, k))
      BY DEF StageTo
    <2> HIDE DEF s, more
    <2>2. s.values = ValuesTo(life, i, k)
          /\ [s EXCEPT !.values = more] = StageWith(Stage(life, i), more)
      BY <2>1, ValueAdded
    <2>3. old[i] = s
      BY <1>4 DEF s
    <2>4. [old[i] EXCEPT !.values = Append(old[i].values, v)] = StageWith(Stage(life, i), more)
      BY <2>2, <2>3 DEF more
    <2>5. QED
      BY <1>8, <2>4 DEF StageTo, more
  <1>10. [old EXCEPT ![i] = StageTo(life, i, k + 1)] = new
    BY DEF PartTo
  <1>11. OnValue(run, ln) = RunTo(life, new, <<>>)
    <2> DEFINE s == [old[i] EXCEPT !.values = Append(old[i].values, v)]
    <2>1. OnValue(run, ln) = [run EXCEPT !.stages = [old EXCEPT ![i] = s]]
      <3> HIDE DEF ln, old, v
      <3>1. QED
        BY <1>2, <1>7
    <2>2. OnValue(run, ln) = [run EXCEPT !.stages = new]
      BY <1>9, <1>10, <2>1
    <2> HIDE DEF new, old
    <2>3. QED
      BY <2>2 DEF RunTo
  <1> HIDE DEF new, run, ln
  <1>12. Feed(Reading(runs, armed, run), ln) = Reading(runs, armed, OnValue(run, ln))
    BY <1>1, LineFed
  <1>13. QED
    BY <1>11, <1>12 DEF ln, new, run, old, r

LEMMA MissedFed ==
  ASSUME NEW life, NEW k \in Nat, NEW stages, NEW runs, NEW armed
  PROVE  Feed(Reading(runs, armed, RunTo(life, stages, MissedTo(life, k))), Missed(life, k + 1))
           = Reading(runs, armed, RunTo(life, stages, MissedTo(life, k + 1)))
  <1> DEFINE ln  == Missed(life, k + 1)
             c   == [symbol |-> SymbolOrder[k + 1], n |-> ln.n]
             old == MissedTo(life, k)
             new == MissedTo(life, k + 1)
             run == RunTo(life, stages, old)
  <1>1. Ours(ln) /\ ln.m = "MISSED" /\ ~ln.cut /\ [symbol |-> ln.symbol, n |-> ln.n] = c
    BY DEF Missed, Ours
  <1>2. run.missed = old
    BY DEF RunTo
  <1>3. Append(old, c) = new
    <2>1. old = [j \in 1 .. k |-> old[j]]
      BY DEF MissedTo
    <2>2. \A j \in 1 .. k : old[j] = [symbol |-> SymbolOrder[j], n |-> Missed(life, j).n]
      BY DEF MissedTo
    <2> HIDE DEF old
    <2>3. Append(old, c) = [j \in 1 .. k + 1 |-> IF j = k + 1 THEN c ELSE old[j]]
      BY <2>1, Appended
    <2>4. QED
      BY <2>2, <2>3 DEF MissedTo
  <1>4. OnMissed(run, ln) = RunTo(life, stages, new)
    <2> HIDE DEF ln, c
    <2>1. OnMissed(run, ln) = [run EXCEPT !.missed = new]
      BY <1>1, <1>2, <1>3 DEF OnMissed
    <2> HIDE DEF new, old
    <2>2. QED
      BY <2>1 DEF RunTo
  <1> HIDE DEF new, run, ln
  <1>5. QED
    BY <1>1, <1>4, LineFed DEF ln, new, run

(* A stage with its values, the counters, and a dump.                      *)
LEMMA BlockFed ==
  ASSUME OrderAssumption, NEW life \in Life, NEW i \in DOMAIN Stored(life), NEW runs, NEW armed
  PROVE  ReadOn(Reading(runs, armed, RunTo(life, StagesTo(life, i - 1), <<>>)), Block(life, i),
                Reading(runs, armed, RunTo(life, StagesTo(life, i), <<>>)))
  <1> DEFINE first == Reading(runs, armed, RunTo(life, StagesTo(life, i - 1), <<>>))
             at(k) == Reading(runs, armed, RunTo(life, PartTo(life, i, k), <<>>))
  <1>1. PICK m \in Nat :
          /\ Sized(Order(Stored(life)[i].name), Regs(Stored(life)[i].name), m)
          /\ Sized(Block(life, i), InnerLines(life), 1 + m)
          /\ Block(life, i)[1] = Stage(life, i)
          /\ \A k \in 1 .. m :
               Block(life, i)[1 + k] = Value(life, i, Order(Stored(life)[i].name)[k])
    BY BlockIs
  <1>2. i \in Nat \ {0}
    BY StoredIs
  <1>3. m = AllRegs(life, i) /\ Len(Block(life, i)) = 1 + m
    BY <1>1 DEF Sized, AllRegs, RegOrder
  <1> DEFINE st == [q \in 0 .. 1 + m |-> IF q = 0 THEN first ELSE at(q - 1)]
  <1>4. PartTo(life, i, m) = StagesTo(life, i)
    BY <1>3 DEF PartTo, StagesTo
  <1>5. Feed(first, Block(life, i)[1]) = at(0)
    BY <1>1, <1>2, StageFed
  <1>6. \A k \in 1 .. m : Feed(at(k - 1), Block(life, i)[1 + k]) = at(k)
    <2> TAKE k \in 1 .. m
    <2>1. k - 1 \in Nat /\ (k - 1) + 1 = k
      OBVIOUS
    <2>2. Block(life, i)[1 + k] = Value(life, i, RegOrder(life, i)[(k - 1) + 1])
      BY <1>1, <2>1 DEF RegOrder
    <2>3. Feed(at(k - 1), Block(life, i)[1 + k]) = at((k - 1) + 1)
      BY <1>2, <2>1, <2>2, ValueFed
    <2>4. QED
      BY <2>1, <2>3
  <1>7. at(m) = Reading(runs, armed, RunTo(life, StagesTo(life, i), <<>>))
    BY <1>4
  <1> HIDE DEF first, at
  <1>8. st[0] = first /\ st[1 + m] = at(m)
    OBVIOUS
  <1>9. ASSUME NEW q \in 1 .. 1 + m PROVE st[q] = Feed(st[q - 1], Block(life, i)[q])
    <2>1. CASE q = 1
      BY <1>5, <2>1
    <2>2. CASE q # 1
      <3>1. q - 1 \in 1 .. m /\ 1 + (q - 1) = q
        BY <2>2
      <3>2. Feed(at((q - 1) - 1), Block(life, i)[1 + (q - 1)]) = at(q - 1)
        BY <1>6, <3>1
      <3>3. st[q] = at(q - 1) /\ st[q - 1] = at((q - 1) - 1)
        BY <2>2
      <3> HIDE DEF st
      <3>4. QED
        BY <3>1, <3>2, <3>3
    <2>3. QED
      BY <2>1, <2>2
  <1> HIDE DEF st
  <1>10. ReadOn(first, Block(life, i), at(m))
    BY <1>3, <1>8, <1>9 DEF ReadOn
  <1>11. QED
    BY <1>7, <1>10 DEF first

LEMMA CountersFed ==
  ASSUME OrderAssumption, NEW life, NEW stages, NEW runs, NEW armed
  PROVE  ReadOn(Reading(runs, armed, RunTo(life, stages, <<>>)),
                [i \in DOMAIN SymbolOrder |-> Missed(life, i)],
                Reading(runs, armed, RunTo(life, stages, MissedTo(life, Len(SymbolOrder)))))
  <1> DEFINE n == Len(SymbolOrder)
             M == [i \in DOMAIN SymbolOrder |-> Missed(life, i)]
             at(k) == Reading(runs, armed, RunTo(life, stages, MissedTo(life, k)))
             st == [k \in 0 .. n |-> at(k)]
  <1>1. n \in Nat /\ DOMAIN SymbolOrder = 1 .. n
    BY LenProperties DEF OrderAssumption
  <1>2. MissedTo(life, 0) = <<>>
    <2>1. MissedTo(life, 0) \in [1 .. 0 -> {}] /\ 0 \in Nat
      BY DEF MissedTo
    <2>2. Sized(MissedTo(life, 0), {}, 0)
      BY <2>1, Listed
    <2>3. QED
      BY <2>2, EmptySeq DEF Sized
  <1>3. Len(M) = n
    BY <1>1
  <1>4. \A k \in 1 .. n : Feed(at(k - 1), M[k]) = at(k)
    <2> TAKE k \in 1 .. n
    <2>1. k - 1 \in Nat /\ (k - 1) + 1 = k /\ M[k] = Missed(life, (k - 1) + 1)
      BY <1>1
    <2>2. Feed(at(k - 1), Missed(life, (k - 1) + 1)) = at((k - 1) + 1)
      BY <2>1, MissedFed
    <2>3. QED
      BY <2>1, <2>2
  <1>5. at(0) = Reading(runs, armed, RunTo(life, stages, <<>>))
    BY <1>2
  <1> HIDE DEF at, n, M
  <1>6. st[0] = at(0) /\ st[n] = at(n) /\ \A k \in 1 .. n : st[k] = Feed(st[k - 1], M[k])
    BY <1>1, <1>4
  <1> HIDE DEF st
  <1>7. ReadOn(at(0), M, at(n))
    BY <1>3, <1>6 DEF ReadOn
  <1>8. QED
    BY <1>5, <1>7 DEF at, n, M

Whole(life) ==
  OnEnd(RunTo(life, StagesTo(life, Len(Stored(life))), MissedTo(life, Len(SymbolOrder))),
        Ended(life))

LEMMA DumpFed ==
  ASSUME OrderAssumption, NEW life \in Life, NEW R, NEW V,
         NEW acc \in [runs : Seq(R), open : Seq(R), armed : [Bdfs -> V]]
  PROVE  ReadOn(acc, StageDump(life),
                [runs  |-> Append(acc.runs \o acc.open, Whole(life)), open |-> <<>>,
                 armed |-> [acc.armed EXCEPT ![life.bdf] = LiveGrType]])
  <1> DEFINE Inner == InnerLines(life)
             All == StageLines(life)
             H == <<Armed(life), Begin(life)>>
             B == [i \in DOMAIN Stored(life) |-> Block(life, i)]
             F == FlattenSeq(B)
             M == [i \in DOMAIN SymbolOrder |-> Missed(life, i)]
             E == <<Ended(life)>>
             n == Len(Stored(life))
             m == Len(SymbolOrder)
             f == Len(F)
             runs  == acc.runs \o acc.open
             armed == [acc.armed EXCEPT ![life.bdf] = LiveGrType]
             at(i) == Reading(runs, armed, RunTo(life, StagesTo(life, i), <<>>))
             full  == Reading(runs, armed, RunTo(life, StagesTo(life, n), MissedTo(life, m)))
             last  == [runs |-> Append(runs, Whole(life)), open |-> <<>>, armed |-> armed]
  <1>1. n \in Nat /\ DOMAIN Stored(life) = 1 .. n
    BY StoredIs
  <1>2. Inner \subseteq All /\ Armed(life) \in All /\ Begin(life) \in All /\ Ended(life) \in All
    BY DEF StageLines
  <1>3. ReadOn(acc, H, at(0)) /\ Sized(H, All, 2)
    <2>1. StagesTo(life, 0) = <<>>
      <3>1. StagesTo(life, 0) \in [1 .. 0 -> {}] /\ 0 \in Nat
        BY DEF StagesTo
      <3>2. Sized(StagesTo(life, 0), {}, 0)
        BY <3>1, Listed
      <3>3. QED
        BY <3>2, EmptySeq DEF Sized
    <2>2. ReadOn(acc, H, Reading(runs, armed, RunTo(life, <<>>, <<>>)))
      BY BeginFed
    <2>3. Sized(H, All, 2)
      BY <1>2 DEF Sized
    <2>4. QED
      BY <2>1, <2>2, <2>3
  <1>4. Sized(B, Seq(All), n)
    <2>1. \A i \in DOMAIN Stored(life) : Block(life, i) \in Seq(Inner)
      BY BlockIs DEF Sized
    <2>2. \A i \in DOMAIN Stored(life) : Block(life, i) \in Seq(All)
      <3> HIDE DEF Inner, All
      <3> QED BY <1>2, <2>1, SeqMonotonic
    <2>3. B \in [1 .. n -> Seq(All)]
      BY <1>1, <2>2
    <2> HIDE DEF B, n, All
    <2>4. QED
      BY <1>1, <2>3, Listed
  <1>5. ReadOn(at(0), F, at(n))
    <2> DEFINE st == [i \in 0 .. n |-> at(i)]
    <2>1. ASSUME NEW i \in 1 .. n PROVE ReadOn(at(i - 1), B[i], at(i))
      <3>1. i \in DOMAIN Stored(life) /\ B[i] = Block(life, i)
        BY <1>1, <2>1
      <3> HIDE DEF B, runs, armed
      <3>2. QED
        BY <3>1, BlockFed
    <2> HIDE DEF at, B, n, All
    <2>2. \A i \in 1 .. n : ReadOn(st[i - 1], B[i], st[i])
      <3> TAKE i \in 1 .. n
      <3>1. st[i - 1] = at(i - 1) /\ st[i] = at(i)
        BY <1>1
      <3>2. QED
        BY <2>1, <3>1
    <2>3. st[0] = at(0) /\ st[n] = at(n)
      BY <1>1
    <2> HIDE DEF st
    <2>4. ReadOn(st[0], F, st[n])
      BY <1>1, <1>4, <2>2, ReadFlat
    <2>5. QED
      BY <2>3, <2>4
  <1>6. f \in Nat /\ Sized(F, All, f)
    <2> HIDE DEF B, n, All
    <2>1. PICK flat : Flats(flat, B, Seq(All), n)
      BY <1>1, <1>4, Flattened, Zenon
    <2>2. F \in Seq(All)
      BY <1>1, <2>1 DEF Flats
    <2> HIDE DEF F
    <2>3. QED
      BY <2>2, LenProperties DEF Sized
  <1>7. m \in Nat /\ Sized(M, All, m)
    <2>1. m \in Nat /\ DOMAIN SymbolOrder = 1 .. m
      BY LenProperties DEF OrderAssumption
    <2>2. \A i \in DOMAIN SymbolOrder : Missed(life, i) \in All
      BY DEF StageLines, InnerLines
    <2>3. M \in [1 .. m -> All]
      BY <2>1, <2>2
    <2> HIDE DEF M, m, All
    <2>4. QED
      BY <2>1, <2>3, Listed
  <1>8. ReadOn(at(n), M, full)
    <2> HIDE DEF runs, armed
    <2>1. QED
      BY CountersFed
  <1>9. ReadOn(full, E, last) /\ Sized(E, All, 1)
    <2>1. Ours(Ended(life)) /\ Ended(life).m = "END"
      BY DEF Ended, Ours
    <2>2. Feed(full, Ended(life)) = last
      <3> HIDE DEF runs, armed
      <3>1. QED
        BY <2>1, LineFed DEF Whole
    <2>3. Sized(E, All, 1)
      BY <1>2 DEF Sized
    <2> HIDE DEF full, last
    <2>4. QED
      BY <2>2, <2>3, ReadOne
  <1>10. StageDump(life) = ((H \o F) \o M) \o E
    BY DEF StageDump
  <1> HIDE DEF H, F, M, E, All, at, full, last, n, m, f, B, Inner
  <1>11. Sized(H \o F, All, 2 + f) /\ ReadOn(acc, H \o F, at(n))
    <2>1. 2 \in Nat
      OBVIOUS
    <2>2. QED
      BY <1>3, <1>5, <1>6, <2>1, Joined, ReadJoin, Zenon
  <1>12. Sized((H \o F) \o M, All, (2 + f) + m) /\ ReadOn(acc, (H \o F) \o M, full)
    <2>1. 2 + f \in Nat
      BY <1>6
    <2>2. QED
      BY <1>7, <1>8, <1>11, <2>1, Joined, ReadJoin, Zenon
  <1>13. ReadOn(acc, ((H \o F) \o M) \o E, last)
    <2>1. (2 + f) + m \in Nat /\ 1 \in Nat
      BY <1>6, <1>7
    <2>2. QED
      BY <1>9, <1>12, <2>1, ReadJoin, Zenon
  <1>14. QED
    BY <1>10, <1>13 DEF last, runs, armed

(* A clean log ends with the dump of the last life, and that is what is    *)
(* reported.                                                               *)
LEMMA CleanLog ==
  ASSUME OrderAssumption, ScenarioAssumption, IInv, phase # "printing", scenario.kind = "lives",
         noise \in {"none", "twice"}
  PROVE  \E before \in Seq(PrintedLines(scenario)) :
           text = before \o StageDump(scenario.of[Len(scenario.of)])
  <1> DEFINE L  == PrintedLines(scenario)
             ss == Chunks(1)
             of == scenario.of
             D  == StageDump(of[Len(of)])
  <1>1. /\ scenario \in Scenarios /\ printed \in Seq(L) /\ PrintedAs /\ Printed /\ SavedAs
        /\ of \in Seq(Life) /\ of # <<>>
    BY DEF IInv, ScenarioAssumption
  <1>2. Len(of) \in Nat \ {0} /\ DOMAIN of = 1 .. Len(of)
    <2> HIDE DEF of
    <2> QED BY <1>1, LenProperties, EmptySeq
  <1>3. ss = [i \in DOMAIN of |-> StageDump(of[i])]
    BY DEF Chunks
  <1> DEFINE n == Len(of)
  <1>4. Len(ss) = n /\ ss[n] = D
    <2> HIDE DEF of, ss
    <2> QED BY <1>2, <1>3
  <1>5. Sized(ss, Seq(L), n)
    <2>1. PICK k \in Nat : Sized(ss, Seq(L), k)
      BY <1>1, ChunksAre DEF Collectors
    <2>2. k = n
      BY <1>4, <2>1 DEF Sized
    <2>3. QED
      BY <2>1, <2>2
  <1>6. printed = FlattenSeq(SubSeq(ss, 1, n))
    <2>1. pos[1] = Len(ss)
      BY <1>1 DEF Printed, Collectors
    <2>2. QED
      BY <1>1, <1>4, <2>1 DEF PrintedAs
  <1> HIDE DEF ss, L, D, n
  <1>7. n \in Nat /\ n - 1 \in Nat /\ n - 1 \in 0 .. n - 1 /\ (n - 1) + 1 = n
    BY <1>2 DEF n
  <1> DEFINE A == FlatTo(ss, n - 1)
  <1>8. printed = A \o D
    <2>1. FlatNext(ss, n - 1)
      BY <1>5, <1>7, FlattenNext, Zenon
    <2>2. FlatTo(ss, (n - 1) + 1) = A \o ss[(n - 1) + 1]
      BY <2>1 DEF FlatNext
    <2> HIDE DEF A
    <2>3. FlatTo(ss, n) = A \o ss[n]
      BY <1>7, <2>2
    <2>4. QED
      BY <1>4, <1>6, <2>3 DEF FlatTo
  <1>9. A \in Seq(L)
    <2>1. 1 \in 1 .. n + 1 /\ n - 1 \in 1 - 1 .. n /\ (n - 1) - 1 + 1 = n - 1
      BY <1>7
    <2>2. Sized(SubSeq(ss, 1, n - 1), Seq(L), (n - 1) - 1 + 1)
      BY <1>5, <1>7, <2>1, Part, Zenon
    <2>3. Sized(SubSeq(ss, 1, n - 1), Seq(L), n - 1)
      BY <2>1, <2>2
    <2>4. PICK flat : Flats(flat, SubSeq(ss, 1, n - 1), Seq(L), n - 1)
      BY <1>7, <2>3, Flattened, Zenon
    <2>5. n - 1 \in 0 .. n - 1
      BY <1>7
    <2>6. QED
      BY <2>4, <2>5 DEF Flats, FlatTo
  <1>10. D \in Seq(L)
    <2>1. \A i \in 1 .. n : ss[i] \in Seq(L)
      BY <1>5, ElementOfSeq DEF Sized
    <2>2. n \in 1 .. n
      BY <1>7
    <2>3. QED
      BY <1>4, <2>1, <2>2
  <1>11. CASE text = printed
    BY <1>8, <1>9, <1>11 DEF D, L
  <1>12. CASE text = printed \o printed
    <2> HIDE DEF A
    <2>1. text = (printed \o A) \o D
      <3>1. (printed \o A) \o D = printed \o (A \o D)
        <4>1. printed \in Seq(L) /\ A \in Seq(L) /\ D \in Seq(L)
          BY <1>1, <1>9, <1>10
        <4> HIDE DEF L, D
        <4>2. QED
          BY ONLY <4>1, ConcatAssociative
      <3>2. printed \o printed = printed \o (A \o D)
        BY <1>8, Zenon
      <3>3. QED
        BY <1>12, <3>1, <3>2, Zenon
    <2>2. printed \o A \in Seq(L)
      BY <1>1, <1>9, ConcatProperties
    <2>3. QED
      BY <2>1, <2>2 DEF D, L
  <1>13. QED
    BY <1>1, <1>11, <1>12 DEF SavedAs

LEMMA CleanDecoded ==
  ASSUME OrderAssumption, ScenarioAssumption, IInv, phase = "decoded", scenario.kind = "lives",
         noise \in {"none", "twice"}, NEW life, life = scenario.of[Len(scenario.of)]
  PROVE  /\ life \in Life /\ life \in ToSet(scenario.of)
         /\ stageReport.run[1] = Whole(life)
         /\ Errors(Whole(life)) = {} => stageReport.code = 0
  <1> DEFINE L == PrintedLines(scenario)
             W == Whole(life)
  <1>1. /\ scenario \in Scenarios /\ stageReport = DecodeStages(text) /\ phase # "printing"
        /\ scenario.of \in Seq(Life) /\ scenario.of # <<>>
    BY DEF IInv, ScenarioAssumption
  <1>2. life \in Life /\ life \in ToSet(scenario.of)
    <2> DEFINE of == scenario.of
    <2> HIDE DEF of
    <2>1. of \in Seq(Life) /\ of # <<>> /\ life = of[Len(of)]
      BY <1>1 DEF of
    <2>2. Len(of) \in DOMAIN of
      BY <2>1, LenProperties, EmptySeq
    <2>3. life \in Life /\ life \in ToSet(of)
      BY <2>1, <2>2, LenProperties, ElementOfSeq DEF ToSet
    <2>4. QED
      BY <2>3 DEF of
  <1>3. PICK before \in Seq(L) : text = before \o StageDump(life)
    BY <1>1, CleanLog
  <1>4. before \in Seq(SavedLines(scenario)) /\ Len(before) \in Nat
    <2>1. L \subseteq SavedLines(scenario)
      BY DEF SavedLines
    <2> HIDE DEF L
    <2>2. QED
      BY <1>3, <2>1, SeqMonotonic, LenProperties
  <1>5. PICK R : /\ ReadStages(before).runs \in Seq(R) /\ ReadStages(before).open \in Seq(R)
                 /\ ReadStages(before) \in [runs : Seq(R), open : Seq(R), armed : [Bdfs -> Fields]]
    <2>1. StageLog(before, Fields)
      BY <1>1, <1>4, LogIs
    <2>2. ReadAt(before, Fields, ReadStages(before), Len(before))
      BY <2>1, AllRead
    <2>3. QED
      BY <2>2 DEF ReadAt
  <1> DEFINE acc  == ReadStages(before)
             runs == acc.runs \o acc.open
             armed == [acc.armed EXCEPT ![life.bdf] = LiveGrType]
             last == [runs |-> Append(runs, W), open |-> <<>>, armed |-> armed]
             all  == Append(runs, W)
  <1>6. ReadStages(text) = last
    <2>1. ReadOn(Begun, before, acc)
      BY <1>4, ReadAll
    <2>2. acc \in [runs : Seq(R), open : Seq(R), armed : [Bdfs -> Fields]]
      BY <1>5
    <2> HIDE DEF acc
    <2>3. ReadOn(acc, StageDump(life), last)
      BY <1>2, <2>2, DumpFed
    <2> DEFINE Y == L \cup StageLines(life)
    <2>4. PICK d \in Nat : Sized(StageDump(life), StageLines(life), d)
      BY <1>2, DumpIs
    <2>5. Sized(before, Y, Len(before)) /\ Sized(StageDump(life), Y, d)
      <3>1. L \subseteq Y /\ StageLines(life) \subseteq Y
        OBVIOUS
      <3> HIDE DEF Y, L
      <3>2. QED
        BY <1>3, <2>4, <3>1, SeqMonotonic DEF Sized
    <2> HIDE DEF Y, L, last
    <2>6. ReadOn(Begun, text, last)
      <3>1. ReadOn(Begun, before \o StageDump(life), last)
        BY <1>4, <2>1, <2>3, <2>4, <2>5, ReadJoin, Zenon
      <3>2. QED
        BY <1>3, <3>1
    <2>7. Len(text) \in Nat
      BY <1>3, <1>4, <2>4, <2>5, ConcatProperties, LenProperties DEF Sized
    <2>8. QED
      BY <2>6, <2>7, ReadIs
  <1>7. runs \in Seq(R)
    <2> HIDE DEF acc
    <2>1. acc.runs \in Seq(R) /\ acc.open \in Seq(R)
      BY <1>5 DEF acc
    <2>2. QED
      BY <2>1, ConcatProperties
  <1> DEFINE n == Len(runs)
  <1>8. /\ n \in Nat /\ all \in Seq(R \cup {W}) /\ DOMAIN all = 1 .. n + 1 /\ all[n + 1] = W
    <2> HIDE DEF runs, W
    <2>1. runs \in Seq(R \cup {W}) /\ W \in R \cup {W}
      BY <1>7, SeqMonotonic
    <2>2. QED
      BY <1>7, <2>1, AppendProperties, LenProperties
  <1>9. ParseRuns(text) = all
    <2>1. ReadStages(text).runs = all /\ ReadStages(text).open = <<>>
      <3> HIDE DEF all, armed
      <3>1. ReadStages(text) = [runs |-> all, open |-> <<>>, armed |-> armed]
        BY <1>6 DEF all
      <3>2. QED
        BY <3>1
    <2> HIDE DEF all
    <2>2. all \o <<>> = all
      BY <1>8, ConcatEmptySeq
    <2>3. QED
      BY <2>1, <2>2 DEF ParseRuns
  <1>10. W.complete
    BY DEF Whole, OnEnd, RunTo
  <1> HIDE DEF all, runs, n, W, acc
  <1> DEFINE complete == {i \in DOMAIN all : all[i].complete}
  <1>11. complete # {} /\ complete \subseteq 0 .. n + 1 /\ n + 1 \in complete /\ n + 1 \in Nat
    BY <1>8, <1>10
  <1>12. Max(complete) = n + 1
    <2>1. complete \subseteq 1 .. n + 1
      BY <1>8
    <2> HIDE DEF complete
    <2>2. Max(complete) \in complete /\ \A x \in complete : x <= Max(complete)
      BY <1>11, MaxOf
    <2>3. QED
      BY <1>8, <1>11, <2>1, <2>2
  <1>13. stageReport = [run |-> <<W>>, errors |-> Errors(W), changed |-> Transitions(W),
                        code |-> IF Errors(W) = {} THEN 0 ELSE 2]
    <2> DEFINE runs2 == ParseRuns(text)
               complete2 == {i \in DOMAIN runs2 : runs2[i].complete}
               report(run) == [run |-> <<run>>, errors |-> Errors(run), changed |-> Transitions(run),
                               code |-> IF Errors(run) = {} THEN 0 ELSE 2]
    <2>1. DecodeStages(text) = IF complete2 = {}
                               THEN [run |-> <<>>, errors |-> {}, changed |-> {}, code |-> 2]
                               ELSE report(runs2[Max(complete2)])
      BY DEF DecodeStages
    <2>2. runs2 = all /\ complete2 = complete
      BY <1>9
    <2> HIDE DEF report, runs2, complete2, complete
    <2>3. DecodeStages(text) = report(all[n + 1])
      BY <1>11, <1>12, <2>1, <2>2
    <2>4. QED
      BY <1>1, <1>8, <2>3 DEF report
  <1>14. QED
    BY <1>2, <1>13 DEF W

(* The order in which the registers are read has each of them once.        *)
LEMMA OrderAll ==
  ASSUME OrderAssumption, NEW name
  PROVE  \E m \in Nat :
           /\ Len(Order(name)) = m /\ DOMAIN Order(name) = 1 .. m
           /\ Regs(name) = {Order(name)[k] : k \in 1 .. m}
           /\ \A j, k \in 1 .. m : Order(name)[j] = Order(name)[k] => j = k
  <1> DEFINE O == Order(name)
             b == PpcsPerGpc
             R == Regs(name)
             logical == name \in LogicalStages
  <1>1. PICK a \in Nat, m \in Nat :
           /\ Sized(MaskOrder, MaskRegs, a) /\ Sized(O, R, m)
           /\ m = IF logical THEN a + 4 + b ELSE a + 1
           /\ O[1] = Pmc /\ \A i \in 1 .. a : O[1 + i] = MaskOrder[i]
           /\ logical => /\ O[a + 2] = Gpcs /\ O[a + 3] = Pipe
                         /\ O[a + 4] = <<"tpc", 1>>
                         /\ \A p \in 1 .. b : O[a + 4 + p] = <<"ppc", 10 + p>>
    BY OrderIs
  <1> HIDE DEF O
  <1>2. /\ Len(O) = m /\ DOMAIN O = 1 .. m /\ \A k \in 1 .. m : O[k] \in R
        /\ DOMAIN MaskOrder = 1 .. a /\ \A i \in 1 .. a : MaskOrder[i] \in MaskRegs
    <2>1. Sized(MaskOrder, MaskRegs, a) /\ Sized(O, R, m)
      BY <1>1
    <2> HIDE DEF R
    <2>2. Len(O) = m /\ DOMAIN O = 1 .. m /\ \A k \in 1 .. m : O[k] \in R
      BY <2>1, LenProperties, ElementOfSeq DEF Sized
    <2>3. DOMAIN MaskOrder = 1 .. a /\ \A i \in 1 .. a : MaskOrder[i] \in MaskRegs
      BY <2>1, LenProperties, ElementOfSeq DEF Sized
    <2>4. QED
      BY <2>2, <2>3
  <1>3. b \in Nat
    BY DEF OrderAssumption
  <1> DEFINE at(i) == /\ i = 1 => O[i] = Pmc
                      /\ i > 1 /\ i <= a + 1 => O[i] = MaskOrder[i - 1]
                      /\ i = a + 2 => O[i] = Gpcs
                      /\ i = a + 3 => O[i] = Pipe
                      /\ i = a + 4 => O[i] = <<"tpc", 1>>
                      /\ i > a + 4 => i - (a + 4) \in 1 .. b /\ O[i] = <<"ppc", 10 + (i - (a + 4))>>
                      /\ i > a + 1 => logical
  <1>4. ASSUME NEW i \in 1 .. m PROVE at(i)
    <2>1. i > 1 /\ i <= a + 1 => O[i] = MaskOrder[i - 1]
      <3>1. i > 1 /\ i <= a + 1 => i - 1 \in 1 .. a /\ 1 + (i - 1) = i
        OBVIOUS
      <3>2. QED
        BY <1>1, <3>1
    <2>2. i > a + 1 => logical
      BY <1>1
    <2> HIDE DEF logical
    <2>3. i > a + 4 => i - (a + 4) \in 1 .. b /\ O[i] = <<"ppc", 10 + (i - (a + 4))>>
      <3>1. i > a + 4 => i - (a + 4) \in 1 .. b /\ a + 4 + (i - (a + 4)) = i
        BY <1>1, <1>3, <2>2
      <3>2. logical => \A p \in 1 .. b : O[a + 4 + p] = <<"ppc", 10 + p>>
        BY <1>1
      <3> SUFFICES ASSUME i > a + 4
                   PROVE  i - (a + 4) \in 1 .. b /\ O[i] = <<"ppc", 10 + (i - (a + 4))>>
        OBVIOUS
      <3>3. logical /\ i - (a + 4) \in 1 .. b
        BY <2>2, <3>1
      <3>4. O[a + 4 + (i - (a + 4))] = <<"ppc", 10 + (i - (a + 4))>>
        BY <3>2, <3>3
      <3>5. QED
        BY <3>1, <3>3, <3>4
    <2>4. QED
      BY <1>1, <2>1, <2>2, <2>3
  <1>5. R \subseteq {O[k] : k \in 1 .. m}
    <2>1. \E k \in 1 .. m : O[k] = Pmc
      BY <1>1, <1>3
    <2>2. ASSUME NEW r \in MaskRegs PROVE \E k \in 1 .. m : O[k] = r
      <3>1. PICK i \in 1 .. a : MaskOrder[i] = r
        BY <1>2 DEF OrderAssumption, ToSet
      <3>2. 1 + i \in 1 .. m
        BY <1>1, <1>3
      <3>3. QED
        BY <1>1, <3>1, <3>2
    <2>3. ASSUME logical, NEW r \in {Gpcs, Pipe} \cup Counts(1) \cup Masks(1)
          PROVE  \E k \in 1 .. m : O[k] = r
      <3>1. /\ a + 2 \in 1 .. m /\ a + 3 \in 1 .. m /\ a + 4 \in 1 .. m
            /\ \A p \in 1 .. b : a + 4 + p \in 1 .. m
        BY <1>1, <1>3, <2>3
      <3>2. CASE r \in {Gpcs, Pipe}
        BY <1>1, <2>3, <3>1, <3>2
      <3>3. CASE r \in Counts(1)
        <4>1. r = <<"tpc", 1>>
          BY <3>3 DEF Counts
        <4>2. QED
          BY <1>1, <2>3, <3>1, <4>1
      <3>4. CASE r \in Masks(1)
        <4>1. PICK p \in 1 .. b : r = <<"ppc", 10 + p>>
          BY <1>3, <3>4 DEF Masks
        <4>2. QED
          BY <1>1, <2>3, <3>1, <4>1
      <3>5. QED
        BY <2>3, <3>2, <3>3, <3>4
    <2>4. QED
      BY <2>1, <2>2, <2>3 DEF Regs, PhysicalRegs
  <1>6. R = {O[k] : k \in 1 .. m}
    BY <1>2, <1>5
  <1>7. ASSUME NEW j \in 1 .. m, NEW k \in 1 .. m, j < k PROVE O[j] # O[k]
    <2>1. at(j) /\ at(k)
      BY <1>4
    <2>2. \A i \in 1 .. a : /\ MaskOrder[i] # Pmc /\ MaskOrder[i] # Gpcs /\ MaskOrder[i] # Pipe
                            /\ MaskOrder[i] # <<"tpc", 1>>
                            /\ \A p \in 1 .. b : MaskOrder[i] # <<"ppc", 10 + p>>
      BY <1>2 DEF OrderAssumption, MaskRegs, Pmc, Gpcs, Pipe
    <2>3. CASE k <= a + 1
      <3>1. k - 1 \in 1 .. a /\ O[k] = MaskOrder[k - 1]
        BY <1>7, <2>1, <2>3
      <3>2. CASE j = 1
        BY <2>1, <2>2, <3>1, <3>2
      <3>3. CASE j > 1
        <4>1. j - 1 \in 1 .. a /\ O[j] = MaskOrder[j - 1] /\ j - 1 # k - 1
          BY <1>7, <2>1, <2>3, <3>3
        <4>2. QED
          BY <1>2, <3>1, <4>1 DEF OrderAssumption
      <3>4. QED
        BY <3>2, <3>3
    <2>4. CASE k > a + 1
      <3>1. \/ O[k] = Gpcs /\ k = a + 2
            \/ O[k] = Pipe /\ k = a + 3
            \/ O[k] = <<"tpc", 1>> /\ k = a + 4
            \/ k - (a + 4) \in 1 .. b /\ O[k] = <<"ppc", 10 + (k - (a + 4))>>
        <4>1. k = a + 2 \/ k = a + 3 \/ k = a + 4 \/ k > a + 4
          BY <2>4
        <4>2. QED
          BY <2>1, <4>1
      <3>2. CASE j <= a + 1
        <4>1. O[j] = Pmc \/ \E i \in 1 .. a : O[j] = MaskOrder[i]
          <5>1. j = 1 \/ (j - 1 \in 1 .. a /\ j > 1)
            BY <3>2
          <5>2. QED
            BY <2>1, <3>2, <5>1
        <4>2. CASE O[j] = Pmc
          <5>1. Pmc # O[k]
            BY <3>1 DEF Pmc, Gpcs, Pipe
          <5>2. QED
            BY <4>2, <5>1
        <4>3. CASE \E i \in 1 .. a : O[j] = MaskOrder[i]
          <5>1. PICK i \in 1 .. a : O[j] = MaskOrder[i]
            BY <4>3
          <5>2. QED
            BY <2>2, <3>1, <5>1
        <4>4. QED
          BY <4>1, <4>2, <4>3
      <3>3. CASE j > a + 1
        <4>1. \/ O[j] = Gpcs /\ j = a + 2
              \/ O[j] = Pipe /\ j = a + 3
              \/ O[j] = <<"tpc", 1>> /\ j = a + 4
              \/ j - (a + 4) \in 1 .. b /\ O[j] = <<"ppc", 10 + (j - (a + 4))>>
          <5>1. j = a + 2 \/ j = a + 3 \/ j = a + 4 \/ j > a + 4
            BY <3>3
          <5>2. QED
            BY <2>1, <5>1
        <4>2. QED
          BY <1>7, <3>1, <4>1 DEF Gpcs, Pipe
      <3>4. QED
        BY <3>2, <3>3
    <2>5. QED
      BY <2>3, <2>4
  <1>8. \A j, k \in 1 .. m : O[j] = O[k] => j = k
    BY <1>7
  <1>9. QED
    BY <1>2, <1>6, <1>8 DEF O

(* What the collector has stored of a legal life: all that happened, the   *)
(* core stages in their order and then the reset pairs.                    *)
Span(life) == 9 + 2 * life.trailing

LEMMA LegalCourse ==
  ASSUME NEW life \in Life, Legal(life)
  PROVE  /\ Span(life) \in Nat /\ life.trailing \in Nat /\ Span(life) = 9 + 2 * life.trailing
         /\ Len(Stored(life)) = Span(life) /\ DOMAIN Stored(life) = 1 .. Span(life)
         /\ Events(life) = Course(life)
         /\ \A i \in 1 .. Span(life) : /\ Stored(life)[i] = Observed(life, i)
                                       /\ Course(life)[i] \in Names
         /\ \A i \in 1 .. 9 : Course(life)[i] = CoreSequence[i]
         /\ \A i \in 10 .. Span(life) :
              Course(life)[i] = IF i % 2 = 0 THEN "gr_reset_mask_return" ELSE "gr_reset_return"
  <1> DEFINE c == Course(life)
             n == 9 + 2 * life.trailing
             t == 2 * life.trailing
  <1>1. life.resets = 1 /\ life.fault = "none" /\ life.trailing \in Nat /\ n \in Nat
    BY DEF Legal, Life
  <1>2. Events(life) = c
    BY <1>1 DEF Events
  <1>3. Sized(c, Names, n)
    <2>1. Sized(c, Names, 7 + 2 * life.resets + 2 * life.trailing)
      BY CourseIs
    <2>2. 7 + 2 * life.resets + 2 * life.trailing = n
      BY <1>1
    <2>3. QED
      BY <2>1, <2>2
  <1>4. PICK m \in Nat :
          /\ DOMAIN Stored(life) = 1 .. m /\ Len(Stored(life)) = m
          /\ Sized(Events(life), Names, m)
          /\ \A i \in 1 .. m : Stored(life)[i] = Observed(life, i)
    BY <1>1, StoredIs
  <1>5. m = n
    BY <1>2, <1>3, <1>4 DEF Sized
  <1>6. \A i \in 1 .. n : c[i] \in Names
    <2> HIDE DEF c, n
    <2> QED BY <1>1, <1>3, ElementOfSeq DEF Sized
  <1>7. \A i \in 1 .. 9 : c[i] = CoreSequence[i]
    <2>1. \A i \in 1 .. 3 : c[i] = CoreSequence[i]
      BY CourseIs
    <2>2. /\ \A i \in 1 .. 2 * life.resets : c[3 + i] = ResetPairs(life.resets)[i]
          /\ \A i \in 6 .. 9 : c[2 * life.resets - 2 + i] = CoreSequence[i]
      BY CourseIs
    <2> HIDE DEF c
    <2>3. c[4] = "gr_reset_mask_return" /\ c[5] = "gr_reset_return"
      <3>1. c[3 + 1] = ResetPairs(1)[1] /\ c[3 + 2] = ResetPairs(1)[2]
        BY <1>1, <2>2
      <3>2. ResetPairs(1)[1] = "gr_reset_mask_return" /\ ResetPairs(1)[2] = "gr_reset_return"
        BY DEF ResetPairs
      <3>3. QED
        BY <3>1, <3>2
    <2>4. \A i \in 6 .. 9 : c[i] = CoreSequence[i]
      <3> TAKE i \in 6 .. 9
      <3>1. c[2 * 1 - 2 + i] = CoreSequence[i] /\ 2 * 1 - 2 + i = i
        BY <1>1, <2>2
      <3>2. QED
        BY <3>1
    <2>5. c[4] = CoreSequence[4] /\ c[5] = CoreSequence[5]
      BY <2>3 DEF CoreSequence
    <2>6. ASSUME NEW i \in 1 .. 9 PROVE c[i] = CoreSequence[i]
      <3>1. i \in 1 .. 3 \/ i = 4 \/ i = 5 \/ i \in 6 .. 9
        OBVIOUS
      <3>2. QED
        BY <2>1, <2>4, <2>5, <3>1
    <2>7. QED
      BY <2>6
  <1>8. \A i \in 10 .. n : c[i] = IF i % 2 = 0 THEN "gr_reset_mask_return" ELSE "gr_reset_return"
    <2>1. \A i \in 1 .. t : c[7 + 2 * life.resets + i] = ResetPairs(life.trailing)[i]
      BY CourseIs
    <2> TAKE i \in 10 .. n
    <2> HIDE DEF c
    <2>2. i - 9 \in 1 .. t /\ 7 + 2 * life.resets + (i - 9) = i
          /\ ((i - 9) % 2 = 1 <=> i % 2 = 0)
      BY <1>1
    <2>3. c[i] = ResetPairs(life.trailing)[i - 9]
      BY <2>1, <2>2
    <2>4. ResetPairs(life.trailing)[i - 9] =
            IF (i - 9) % 2 = 1 THEN "gr_reset_mask_return" ELSE "gr_reset_return"
      BY <2>2 DEF ResetPairs
    <2>5. QED
      BY <2>2, <2>3, <2>4
  <1>9. QED
    BY <1>1, <1>2, <1>4, <1>5, <1>6, <1>7, <1>8 DEF Span

(* A stage with all its registers has the values that were stored,         *)
LEMMA StageValues ==
  ASSUME OrderAssumption, NEW life \in Life, Legal(life), NEW i \in 1 .. Span(life)
  PROVE  LET s == StageTo(life, i, AllRegs(life, i))
             R == Regs(Course(life)[i])
         IN  /\ s.seq = i - 1 /\ s.name = Course(life)[i] /\ s.rc = ExpectedRc(Course(life)[i])
             /\ s.post = Observed(life, i).post /\ s.invalid = 0
             /\ ValueMap(s) = [r \in R |-> Truth(life, i, r)] /\ Len(s.values) = Cardinality(R)
             /\ ValueMap(s) = Stored(life)[i].vals /\ Stored(life)[i].name = Course(life)[i]
  <1> DEFINE s == StageTo(life, i, AllRegs(life, i))
             name == Course(life)[i]
             R == Regs(name)
             O == RegOrder(life, i)
             G == Stored(life)[i].vals
             D == DOMAIN ValueMap(s)
             T == [reg : R, value : {G[r] : r \in R}]
  <1>1. /\ Stored(life)[i] = Observed(life, i) /\ Events(life) = Course(life)
        /\ life.fault = "none"
    BY LegalCourse DEF Legal
  <1>2. /\ Observed(life, i).name = name /\ Observed(life, i).invalid = 0
        /\ Observed(life, i).rc = ExpectedRc(name)
    BY <1>1 DEF Observed
  <1>3. G = [r \in R |-> Truth(life, i, r)]
    BY <1>1, ObservedValues
  <1>4. /\ s.seq = i - 1 /\ s.name = name /\ s.rc = ExpectedRc(name)
        /\ s.post = Observed(life, i).post /\ s.invalid = 0
        /\ s.values = ValuesTo(life, i, AllRegs(life, i))
    BY <1>1, <1>2 DEF StageTo, StageWith, Stage
  <1>5. O = Order(name)
    BY <1>1, <1>2 DEF RegOrder
  <1> HIDE DEF s, G, O
  <1>6. PICK m \in Nat : /\ Len(O) = m
                         /\ R = {O[k] : k \in 1 .. m}
                         /\ \A j, k \in 1 .. m : O[j] = O[k] => j = k
    <2> HIDE DEF name
    <2> QED BY <1>5, OrderAll
  <1> HIDE DEF R
  <1>7. \A k \in 1 .. m : O[k] \in R
    BY <1>6
  <1>8. s.values = [q \in 1 .. m |-> [reg |-> O[q], value |-> G[O[q]]]]
    BY <1>4, <1>6 DEF ValuesTo, AllRegs, O, G
  <1>9. s.values \in [1 .. m -> T]
    BY <1>7, <1>8
  <1>10. Sized(s.values, T, m)
    <2> HIDE DEF T
    <2> QED BY <1>6, <1>9, Listed
  <1>11. TakenFrom(s, R, G)
    <2>1. \A v \in DOMAIN s.values : s.values[v].value = G[s.values[v].reg]
      BY <1>8
    <2>2. s.values \in Seq(T)
      BY <1>10 DEF Sized
    <2>3. QED
      BY <2>1, <2>2 DEF TakenFrom
  <1>12. D \subseteq R /\ ValueMap(s) = [r \in D |-> G[r]]
    BY <1>11, ValuesAre
  <1>13. R \subseteq D
    <2>1. D = {v.reg : v \in ToSet(s.values)}
      BY DEF ValueMap
    <2>2. ASSUME NEW r \in R PROVE r \in D
      <3>1. PICK k \in 1 .. m : O[k] = r
        BY <1>6
      <3>2. s.values[k] \in ToSet(s.values) /\ s.values[k].reg = r
        <4> DEFINE vs == s.values
        <4>1. vs = [q \in 1 .. m |-> [reg |-> O[q], value |-> G[O[q]]]]
          BY <1>8
        <4> HIDE DEF vs
        <4>2. DOMAIN vs = 1 .. m /\ vs[k].reg = O[k]
          BY <4>1
        <4>3. vs[k] \in ToSet(vs)
          BY <4>2 DEF ToSet
        <4>4. QED
          BY <3>1, <4>2, <4>3 DEF vs
      <3> HIDE DEF D
      <3>3. QED
        BY <2>1, <3>2
    <2>3. QED
      BY <2>2
  <1>14. ValueMap(s) = [r \in R |-> Truth(life, i, r)] /\ ValueMap(s) = G
    <2>1. D = R
      BY <1>12, <1>13
    <2>2. ValueMap(s) = [r \in R |-> G[r]]
      BY <1>12, <2>1
    <2>3. QED
      BY <1>3, <2>2
  <1>15. Len(s.values) = Cardinality(R)
    <2>1. Len(s.values) = m
      BY <1>10 DEF Sized
    <2>2. m \in Nat /\ \A j, k \in 1 .. m : O[j] = O[k] => j = k
      BY <1>6
    <2>3. Cardinality({O[k] : k \in 1 .. m}) = m
      <3> HIDE DEF R, O, s, G, D, T
      <3> QED BY ONLY <2>2, Counting
    <2>4. QED
      BY <1>6, <2>1, <2>3
  <1>16. Stored(life)[i].name = name
    BY <1>1, <1>2
  <1>17. QED
    BY <1>4, <1>14, <1>15, <1>16 DEF s, R, G

(* and nothing is wrong with it.                                           *)
LEMMA StageIsClean ==
  ASSUME OrderAssumption, NEW life \in Life, Legal(life), NEW i \in 1 .. Span(life)
  PROVE  StageErrors(StageTo(life, i, AllRegs(life, i))) = {}
  <1> DEFINE s == StageTo(life, i, AllRegs(life, i))
             name == Course(life)[i]
             R == Regs(name)
             vals == ValueMap(s)
  <1>1. /\ s.name = name /\ s.rc = ExpectedRc(name) /\ s.invalid = 0
        /\ vals = [r \in R |-> Truth(life, i, r)] /\ Len(s.values) = Cardinality(R)
    BY StageValues
  <1> HIDE DEF s
  <1>2. DOMAIN vals = R /\ \A r \in R : vals[r] = Truth(life, i, r)
    BY <1>1
  <1>3. \A r \in R : Truth(life, i, r) \in {0, 1, GrBit}
    BY DEF Truth
  <1>4. \A r \in DOMAIN vals : vals[r] # AllOnes
    <2> HIDE DEF vals, R
    <2> QED BY <1>2, <1>3 DEF GrBit, AllOnes
  <1>5. PhysicalRegs \subseteq R
    BY DEF Regs
  <1>6. ~(s.rc < 0)
    BY <1>1 DEF ExpectedRc, GrBit
  <1>7. Pmc \in R /\ vals[Pmc] = GrBit /\ (vals[Pmc] \div GrBit) % 2 # 0
    <2>1. Pmc \in R
      BY DEF Regs, PhysicalRegs
    <2>2. vals[Pmc] = GrBit
      BY <1>2, <2>1 DEF Truth
    <2>3. (GrBit \div GrBit) % 2 # 0
      BY DEF GrBit
    <2>4. QED
      BY <2>1, <2>2, <2>3
  <1>8. ASSUME name \in LogicalStages PROVE TopologyErrors(vals) = {}
    <2>1. Gpcs \in R /\ Pipe \in R /\ Counts(1) \subseteq R /\ Masks(1) \subseteq R
      BY <1>8 DEF Regs
    <2>2. vals[Gpcs] = 1
      BY <1>2, <2>1, GpcsIs
    <2>3. 1 \in 1 .. MaxGpcs
      BY DEF OrderAssumption
    <2> HIDE DEF vals, R
    <2>4. QED
      BY <1>2, <2>1, <2>2, <2>3 DEF TopologyErrors, Flag
  <1>9. ASSUME name \notin LogicalStages PROVE DOMAIN vals \cap LogicalRegs = {}
    <2>1. R = PhysicalRegs
      BY <1>9 DEF Regs
    <2>2. \A r \in PhysicalRegs : r \notin LogicalRegs
      <3> TAKE r \in PhysicalRegs
      <3>1. r = Pmc \/ r \in MaskRegs
        BY DEF PhysicalRegs
      <3>2. r[1] = "pmc" \/ r[1] \in Families
        BY <3>1 DEF Pmc, MaskRegs
      <3>3. ASSUME NEW q \in LogicalRegs PROVE q[1] \in {"gpcs", "pipe", "tpc", "ppc"}
        <4>1. CASE q \in {Gpcs, Pipe}
          BY <4>1 DEF Gpcs, Pipe
        <4>2. CASE q \in Counts(MaxGpcs)
          BY <4>2 DEF Counts
        <4>3. CASE q \in Masks(MaxGpcs)
          BY <4>3 DEF Masks
        <4>4. QED
          BY <4>1, <4>2, <4>3 DEF LogicalRegs
      <3>4. QED
        BY <3>2, <3>3 DEF OrderAssumption
    <2> HIDE DEF vals, R
    <2>3. QED
      BY <1>2, <2>1, <2>2
  <1> HIDE DEF vals, R
  <1>10. QED
    <2>1. StageErrors(s) =
            Flag("collector_invalid", s.invalid # 0)
            \cup Flag("negative_return", s.rc < 0)
            \cup Flag("duplicate_register", Len(s.values) # Cardinality(DOMAIN vals))
            \cup Flag("all_ones_value", \E r \in DOMAIN vals : vals[r] = AllOnes)
            \cup Flag("missing_physical_registers", ~(PhysicalRegs \subseteq DOMAIN vals))
            \cup IF s.name \in LogicalStages
                 THEN Flag("pmc_gr_bit_clear",
                           Pmc \in DOMAIN vals /\ (vals[Pmc] \div GrBit) % 2 = 0)
                      \cup TopologyErrors(vals)
                 ELSE Flag("logical_values_at_unsafe_stage", DOMAIN vals \cap LogicalRegs # {})
      BY DEF StageErrors, vals
    <2>2. \A code : Flag(code, FALSE) = {}
      BY DEF Flag
    <2>3. /\ Flag("collector_invalid", s.invalid # 0) = {}
          /\ Flag("negative_return", s.rc < 0) = {}
          /\ Flag("duplicate_register", Len(s.values) # Cardinality(DOMAIN vals)) = {}
          /\ Flag("all_ones_value", \E r \in DOMAIN vals : vals[r] = AllOnes) = {}
          /\ Flag("missing_physical_registers", ~(PhysicalRegs \subseteq DOMAIN vals)) = {}
      BY <1>1, <1>2, <1>4, <1>5, <1>6 DEF Flag
    <2>4. name \in LogicalStages =>
            Flag("pmc_gr_bit_clear", Pmc \in DOMAIN vals /\ (vals[Pmc] \div GrBit) % 2 = 0) = {}
      BY <1>7 DEF Flag
    <2>5. name \notin LogicalStages =>
            Flag("logical_values_at_unsafe_stage", DOMAIN vals \cap LogicalRegs # {}) = {}
      BY <1>9 DEF Flag
    <2>6. QED
      BY <1>1, <1>8, <2>1, <2>3, <2>4, <2>5 DEF s

(* A run with the stages of a legal life, in their order.                  *)
Regular(run, life) ==
  /\ Len(run.stages) = Span(life) /\ DOMAIN run.stages = 1 .. Span(life)
  /\ \A i \in 1 .. Span(life) :
       /\ run.stages[i].seq = i - 1 /\ run.stages[i].name = Course(life)[i]
       /\ run.stages[i].rc = ExpectedRc(Course(life)[i])
       /\ run.stages[i].post = Observed(life, i).post

LEMMA CoreNames ==
  /\ CoreSequence[1] = "nvidia_baseline" /\ CoreSequence[2] = "post_entry"
  /\ CoreSequence[3] = "post_return" /\ CoreSequence[4] = "gr_reset_mask_return"
  /\ CoreSequence[5] = "gr_reset_return" /\ CoreSequence[6] = "oneinit_entry"
  /\ CoreSequence[7] = "oneinit_return" /\ CoreSequence[8] = "ctxctl_entry"
  /\ CoreSequence[9] = "ctxctl_return"
  BY DEF CoreSequence

Singles == {1, 2, 3, 6, 7, 8, 9}

LEMMA NamesAt ==
  ASSUME NEW life \in Life, Legal(life), NEW run, Regular(run, life)
  PROVE  /\ \A i \in 1 .. 9 : run.stages[i].name = CoreSequence[i]
         /\ \A i \in 10 .. Span(life) : run.stages[i].name \in ResetStages
         /\ \A k \in Singles : CoreSequence[k] \notin ResetStages
         /\ \A k \in Singles, i \in 1 .. 9 : CoreSequence[i] = CoreSequence[k] => i = k
         /\ OnceStages = {CoreSequence[k] : k \in Singles}
         /\ Singles \subseteq 1 .. 9 /\ 1 .. 9 \subseteq 1 .. Span(life)
  <1>1. Span(life) \in Nat /\ Span(life) >= 9
    <2>1. Span(life) = 9 + 2 * life.trailing /\ life.trailing \in Nat
      BY LegalCourse
    <2>2. QED
      BY <2>1
  <1>2. Singles \subseteq 1 .. 9 /\ 1 .. 9 \subseteq 1 .. Span(life)
    BY <1>1 DEF Singles
  <1>3. \A i \in 1 .. 9 : run.stages[i].name = CoreSequence[i]
    <2>1. \A i \in 1 .. 9 : Course(life)[i] = CoreSequence[i]
      BY LegalCourse
    <2>2. QED
      BY <1>2, <2>1 DEF Regular
  <1>4. \A i \in 10 .. Span(life) : run.stages[i].name \in ResetStages
    <2> TAKE i \in 10 .. Span(life)
    <2>1. Course(life)[i] = IF i % 2 = 0 THEN "gr_reset_mask_return" ELSE "gr_reset_return"
      BY LegalCourse
    <2>2. i \in 1 .. Span(life)
      BY <1>1
    <2>3. QED
      BY <2>1, <2>2 DEF Regular, ResetStages
  <1>5. \A k \in Singles : CoreSequence[k] \notin ResetStages
    BY CoreNames DEF Singles, ResetStages
  <1>6. \A k \in Singles, i \in 1 .. 9 : CoreSequence[i] = CoreSequence[k] => i = k
    <2> TAKE k \in Singles, i \in 1 .. 9
    <2>1. i \in {1, 2, 3, 4, 5, 6, 7, 8, 9}
      OBVIOUS
    <2>2. QED
      BY <2>1, CoreNames DEF Singles
  <1>7. OnceStages = {CoreSequence[k] : k \in Singles}
    <2> DEFINE S == {CoreSequence[k] : k \in Singles}
    <2>1. ToSet(CoreSequence) =
            {"nvidia_baseline", "post_entry", "post_return",
             "gr_reset_mask_return", "gr_reset_return",
             "oneinit_entry", "oneinit_return", "ctxctl_entry", "ctxctl_return"}
      BY Core DEF Names
    <2>2. S = {"nvidia_baseline", "post_entry", "post_return",
               "oneinit_entry", "oneinit_return", "ctxctl_entry", "ctxctl_return"}
      <3>1. S = {CoreSequence[1], CoreSequence[2], CoreSequence[3], CoreSequence[6],
                 CoreSequence[7], CoreSequence[8], CoreSequence[9]}
        BY DEF Singles
      <3>2. QED
        BY <3>1, CoreNames
    <2> HIDE DEF S
    <2>3. QED
      BY <2>1, <2>2 DEF OnceStages, ResetStages, S
  <1>8. QED
    BY <1>2, <1>3, <1>4, <1>5, <1>6, <1>7

(* Each of the other core stages is there once, at its place,              *)
LEMMA OnceAt ==
  ASSUME NEW life \in Life, Legal(life), NEW run, Regular(run, life), NEW k \in Singles
  PROVE  /\ Named(run, {CoreSequence[k]}) = {k} /\ Once(run, CoreSequence[k])
         /\ Only(run, CoreSequence[k]) = k - 1
         /\ (CHOOSE i \in Named(run, {CoreSequence[k]}) : TRUE) = k
  <1> DEFINE N == Named(run, {CoreSequence[k]})
             n == Span(life)
  <1>1. n \in Nat /\ DOMAIN run.stages = 1 .. n /\ k \in 1 .. 9 /\ k \in 1 .. n
    <2>1. k \in 1 .. 9 /\ k \in 1 .. n
      BY NamesAt
    <2>2. QED
      BY <2>1, LegalCourse DEF Regular
  <1>2. k \in N
    <2>1. run.stages[k].name = CoreSequence[k]
      BY <1>1, NamesAt
    <2>2. QED
      BY <1>1, <2>1 DEF Named
  <1>3. ASSUME NEW i \in N PROVE i = k
    <2>1. i \in 1 .. n /\ run.stages[i].name = CoreSequence[k]
      BY <1>1 DEF Named
    <2>2. CASE i \in 1 .. 9
      <3>1. CoreSequence[i] = CoreSequence[k]
        BY <2>1, <2>2, NamesAt
      <3>2. QED
        BY <2>2, <3>1, NamesAt
    <2>3. CASE i \notin 1 .. 9
      <3>1. i \in 10 .. n
        BY <1>1, <2>1, <2>3
      <3>2. run.stages[i].name \in ResetStages /\ CoreSequence[k] \notin ResetStages
        BY <3>1, NamesAt
      <3>3. QED
        BY <2>1, <3>2
    <2>4. QED
      BY <2>2, <2>3
  <1>4. N = {k}
    <2> HIDE DEF N
    <2> QED BY <1>2, <1>3
  <1> HIDE DEF N
  <1>5. Cardinality(N) = 1 /\ (CHOOSE i \in N : TRUE) = k
    BY <1>4, FS_Singleton
  <1>6. Seqno(run, k) = k - 1
    BY <1>1 DEF Regular, Seqno
  <1>7. QED
    BY <1>4, <1>5, <1>6 DEF N, Once, Only

(* and the resets are the fourth and the fifth stage and those at the end. *)
LEMMA ResetsAt ==
  ASSUME NEW life \in Life, Legal(life), NEW run, Regular(run, life)
  PROVE  /\ Named(run, ResetStages) = {4, 5} \cup (10 .. Span(life))
         /\ Named(run, OnceStages) = Singles
         /\ \A i \in 1 .. Span(life) : Seqno(run, i) = i - 1
         /\ run.stages[4].name = "gr_reset_mask_return" /\ run.stages[5].name = "gr_reset_return"
         /\ \A i \in 10 .. Span(life) :
              run.stages[i].name = IF i % 2 = 0 THEN "gr_reset_mask_return" ELSE "gr_reset_return"
  <1> DEFINE n == Span(life)
             N == Named(run, ResetStages)
             O == Named(run, OnceStages)
  <1>1. n \in Nat /\ DOMAIN run.stages = 1 .. n /\ 1 .. 9 \subseteq 1 .. n /\ Singles \subseteq 1 .. 9
        /\ 4 \in 1 .. 9 /\ 5 \in 1 .. 9 /\ 10 .. n \subseteq 1 .. n
    <2>1. n \in Nat /\ DOMAIN run.stages = 1 .. n
      BY LegalCourse DEF Regular
    <2>2. 10 .. n \subseteq 1 .. n
      BY <2>1
    <2>3. QED
      BY <2>1, <2>2, NamesAt
  <1>2. run.stages[4].name = "gr_reset_mask_return" /\ run.stages[5].name = "gr_reset_return"
    <2>1. run.stages[4].name = CoreSequence[4] /\ run.stages[5].name = CoreSequence[5]
      BY <1>1, NamesAt
    <2>2. QED
      BY <2>1, CoreNames
  <1>3. ASSUME NEW i \in 1 .. n
        PROVE  /\ i \in Singles => run.stages[i].name \in OnceStages
               /\ i \in {4, 5} \cup (10 .. n) => run.stages[i].name \in ResetStages
               /\ i \in Singles \/ i \in {4, 5} \cup (10 .. n)
    <2>1. i \in Singles => run.stages[i].name \in OnceStages
      <3>1. ASSUME i \in Singles PROVE run.stages[i].name \in OnceStages
        <4>1. i \in 1 .. 9 /\ run.stages[i].name = CoreSequence[i]
          BY <1>1, <3>1, NamesAt
        <4>2. OnceStages = {CoreSequence[k] : k \in Singles}
          BY NamesAt
        <4>3. QED
          BY <3>1, <4>1, <4>2
      <3>2. QED
        BY <3>1
    <2>2. i \in {4, 5} \cup (10 .. n) => run.stages[i].name \in ResetStages
      <3>1. "gr_reset_mask_return" \in ResetStages /\ "gr_reset_return" \in ResetStages
        BY DEF ResetStages
      <3>2. QED
        BY <1>2, <3>1, NamesAt
    <2>3. i \in Singles \/ i \in {4, 5} \cup (10 .. n)
      BY <1>1 DEF Singles
    <2>4. QED
      BY <2>1, <2>2, <2>3
  <1>4. OnceStages \cap ResetStages = {}
    BY DEF OnceStages
  <1>5. {4, 5} \cup (10 .. n) \subseteq 1 .. n /\ Singles \subseteq 1 .. n
    BY <1>1
  <1>6. N = {4, 5} \cup (10 .. n) /\ O = Singles
    <2>1. /\ \A i : i \in N <=> i \in 1 .. n /\ run.stages[i].name \in ResetStages
          /\ \A i : i \in O <=> i \in 1 .. n /\ run.stages[i].name \in OnceStages
      BY <1>1 DEF Named
    <2>2. Singles \cap ({4, 5} \cup (10 .. n)) = {}
      BY DEF Singles
    <2> DEFINE E == {4, 5} \cup (10 .. n)
    <2> HIDE DEF N, O, E
    <2>3. \A i \in 1 .. n : /\ i \in Singles => run.stages[i].name \in OnceStages
                            /\ i \in E => run.stages[i].name \in ResetStages
                            /\ i \in Singles \/ i \in E
      BY <1>3 DEF E
    <2>4. E \subseteq 1 .. n /\ Singles \cap E = {}
      BY <1>5, <2>2 DEF E
    <2>5. N = E
      BY <1>4, <2>1, <2>3, <2>4
    <2>6. O = Singles
      BY <1>4, <1>5, <2>1, <2>3, <2>4
    <2>7. QED
      BY <2>5, <2>6 DEF E
  <1>7. \A i \in 1 .. n : Seqno(run, i) = i - 1
    BY DEF Regular, Seqno
  <1>8. \A i \in 10 .. n :
          run.stages[i].name = IF i % 2 = 0 THEN "gr_reset_mask_return" ELSE "gr_reset_return"
    BY <1>1, LegalCourse DEF Regular
  <1>9. QED
    BY <1>2, <1>6, <1>7, <1>8

(* The rank of a stage in a stretch of them.                               *)
LEMMA RankIn ==
  ASSUME NEW run, NEW a \in Nat, NEW b \in Nat, NEW i \in a .. b,
         \A k \in a .. b : Seqno(run, k) = k - 1
  PROVE  Rank(run, a .. b, i) = i - a
  <1> DEFINE E == Earlier(run, a .. b, i)
  <1>1. E = a .. i - 1
    <2>1. \A k \in a .. b : k \in E <=> k < i
      <3> TAKE k \in a .. b
      <3>1. Seqno(run, k) = k - 1 /\ Seqno(run, i) = i - 1
        OBVIOUS
      <3>2. k \in E <=> (k - 1 < i - 1 \/ (k - 1 = i - 1 /\ k < i))
        BY <3>1 DEF Earlier
      <3> HIDE DEF E
      <3>3. QED
        BY <3>2
    <2>2. E \subseteq a .. b
      BY DEF Earlier
    <2>3. a .. i - 1 \subseteq a .. b /\ \A k \in a .. b : k < i <=> k \in a .. i - 1
      OBVIOUS
    <2> HIDE DEF E
    <2>4. QED
      <3>1. \A k \in a .. b : k \in E <=> k \in a .. i - 1
        BY <2>1, <2>3
      <3>2. QED
        BY <2>2, <2>3, <3>1, Zenon
  <1>2. Cardinality(a .. i - 1) = i - a
    <2>1. a \in Int /\ i - 1 \in Int /\ i >= a /\ i \in Int
      OBVIOUS
    <2>2. Cardinality(a .. i - 1) = IF a > i - 1 THEN 0 ELSE (i - 1) - a + 1
      BY <2>1, FS_Interval
    <2>3. (IF a > i - 1 THEN 0 ELSE (i - 1) - a + 1) = i - a
      BY <2>1
    <2>4. QED
      BY <2>2, <2>3, Zenon
  <1>3. QED
    BY <1>1, <1>2 DEF Rank

(* Nothing is wrong with the resets,                                       *)
LEMMA InitialIs ==
  ASSUME NEW life \in Life, Legal(life), NEW run, Regular(run, life)
  PROVE  InitialPair(run) = {4, 5}
  <1> DEFINE n == Span(life)
             I == InitialResets(run)
  <1>1. /\ Named(run, ResetStages) = {4, 5} \cup (10 .. n) /\ n \in Nat
        /\ \A i \in 1 .. n : Seqno(run, i) = i - 1
        /\ 4 \in 1 .. n /\ 5 \in 1 .. n /\ 10 .. n \subseteq 1 .. n
    <2>1. n \in Nat /\ 1 .. 9 \subseteq 1 .. n /\ 4 \in 1 .. 9 /\ 5 \in 1 .. 9
      BY LegalCourse, NamesAt
    <2>2. 4 \in 1 .. n /\ 5 \in 1 .. n /\ 10 .. n \subseteq 1 .. n
      BY <2>1
    <2>3. QED
      BY <2>1, <2>2, ResetsAt
  <1>2. /\ Once(run, "post_return") /\ Once(run, "oneinit_entry")
        /\ Only(run, "post_return") = 2 /\ Only(run, "oneinit_entry") = 5
    <2>1. 3 \in Singles /\ 6 \in Singles
      BY DEF Singles
    <2>2. /\ Once(run, CoreSequence[3]) /\ Only(run, CoreSequence[3]) = 3 - 1
          /\ Once(run, CoreSequence[6]) /\ Only(run, CoreSequence[6]) = 6 - 1
      BY <2>1, OnceAt
    <2>3. QED
      BY <2>2, CoreNames
  <1>3. I = {i \in {4, 5} \cup (10 .. n) : Seqno(run, i) > 2 /\ Seqno(run, i) < 5}
    BY <1>1, <1>2 DEF InitialResets
  <1> HIDE DEF I, n
  <1>4. I = {4, 5}
    <2>1. \A i \in I : i \in {4, 5}
      <3> TAKE i \in I
      <3>1. i \in {4, 5} \cup (10 .. n) /\ Seqno(run, i) < 5
        BY <1>3
      <3>2. CASE i \in 10 .. n
        <4>1. Seqno(run, i) = i - 1 /\ i \in Int /\ i >= 10
          BY <1>1, <3>2
        <4>2. QED
          BY <3>1, <4>1
      <3>3. QED
        BY <3>1, <3>2
    <2>2. Seqno(run, 4) = 3 /\ Seqno(run, 5) = 4
      BY <1>1
    <2>3. 4 \in I /\ 5 \in I
      BY <1>3, <2>2
    <2>4. QED
      BY <2>1, <2>3
  <1>5. Cardinality(I) = 2
    <2>1. {4, 5} = 4 .. 5 /\ 4 \in Int /\ 5 \in Int
      OBVIOUS
    <2>2. Cardinality(4 .. 5) = IF 4 > 5 THEN 0 ELSE 5 - 4 + 1
      BY <2>1, FS_Interval
    <2>3. QED
      BY <1>4, <2>1, <2>2
  <1>6. Paired(run, 4, 5)
    <2>1. Seqno(run, 4) = 3 /\ Seqno(run, 5) = 4
      BY <1>1
    <2>2. QED
      BY <2>1, ResetsAt DEF Paired
  <1>7. QED
    BY <1>4, <1>5, <1>6 DEF InitialPair, I

LEMMA TrailingIs ==
  ASSUME NEW life \in Life, Legal(life), NEW run, Regular(run, life)
  PROVE  TrailingResets(run) = 10 .. Span(life) /\ TrailingPairs(run) = 10 .. Span(life)
  <1> DEFINE n == Span(life)
             T == TrailingResets(run)
             P == TrailingPairs(run)
  <1>1. /\ Named(run, ResetStages) = {4, 5} \cup (10 .. n)
        /\ n \in Nat /\ life.trailing \in Nat /\ n = 9 + 2 * life.trailing
    BY LegalCourse, ResetsAt
  <1>2. \A i \in 1 .. n : Seqno(run, i) = i - 1
    BY ResetsAt
  <1>3. 4 \in 1 .. n /\ 5 \in 1 .. n /\ 10 .. n \subseteq 1 .. n /\ n % 2 = 1
    BY <1>1
  <1>4. Once(run, "ctxctl_return") /\ Only(run, "ctxctl_return") = 8
    <2>1. 9 \in Singles
      BY DEF Singles
    <2>2. Once(run, CoreSequence[9]) /\ Only(run, CoreSequence[9]) = 9 - 1
      BY <2>1, OnceAt
    <2>3. QED
      BY <2>2, CoreNames
  <1>5. T = {i \in {4, 5} \cup (10 .. n) : Seqno(run, i) > 8}
    BY <1>1, <1>4 DEF TrailingResets
  <1> HIDE DEF T, n
  <1>6. T = 10 .. n
    <2>1. Seqno(run, 4) = 3 /\ Seqno(run, 5) = 4
      BY <1>2, <1>3
    <2>2. \A i \in 10 .. n : Seqno(run, i) > 8
      <3> TAKE i \in 10 .. n
      <3>1. i \in 1 .. n /\ i >= 10
        BY <1>1, <1>3
      <3>2. Seqno(run, i) = i - 1
        BY <1>2, <3>1
      <3>3. QED
        BY <3>1, <3>2
    <2>3. QED
      BY <1>5, <2>1, <2>2
  <1>7. \A i \in T : Rank(run, T, i) = i - 10
    <2> TAKE i \in T
    <2>1. \A k \in 10 .. n : Seqno(run, k) = k - 1
      BY <1>2, <1>3
    <2>2. 10 \in Nat /\ i \in 10 .. n
      BY <1>6
    <2>3. Rank(run, 10 .. n, i) = i - 10
      BY <1>1, <2>1, <2>2, RankIn
    <2>4. QED
      BY <1>6, <2>3
  <1> DEFINE pair(i, k) == /\ Rank(run, T, i) % 2 = 0 /\ Rank(run, T, k) = Rank(run, T, i) + 1
                           /\ Paired(run, i, k)
  <1>8. P = {i \in T : \E k \in T : pair(i, k) \/ pair(k, i)}
    BY DEF TrailingPairs, T
  <1>9. ASSUME NEW i \in T, i + 1 \in T, i % 2 = 0 PROVE pair(i, i + 1)
    <2>1. i \in 10 .. n /\ i + 1 \in 10 .. n /\ i \in 1 .. n /\ i + 1 \in 1 .. n
      BY <1>3, <1>6, <1>9
    <2>2. Rank(run, T, i) = i - 10 /\ Rank(run, T, i + 1) = (i + 1) - 10
      <3>1. Rank(run, T, i) = i - 10
        BY <1>7, <1>9, Zenon
      <3>2. Rank(run, T, i + 1) = (i + 1) - 10
        BY <1>7, <1>9, Zenon
      <3>3. QED
        BY <3>1, <3>2
    <2>3. (i + 1) % 2 # 0 /\ (i - 10) % 2 = 0 /\ (i + 1) - 10 = (i - 10) + 1
      BY <1>9, <2>1
    <2>4. Seqno(run, i) = i - 1 /\ Seqno(run, i + 1) = (i + 1) - 1
      BY <1>2, <2>1
    <2>5. run.stages[i].name = "gr_reset_mask_return"
          /\ run.stages[i + 1].name = "gr_reset_return"
      <3>1. \A k \in 10 .. n :
              run.stages[k].name = IF k % 2 = 0 THEN "gr_reset_mask_return" ELSE "gr_reset_return"
        BY ResetsAt DEF n
      <3>2. QED
        BY <1>9, <2>1, <2>3, <3>1
    <2>6. Paired(run, i, i + 1)
      BY <2>1, <2>4, <2>5 DEF Paired
    <2>7. QED
      BY <2>2, <2>3, <2>6
  <1> HIDE DEF pair, P
  <1>10. ASSUME NEW i \in T PROVE i \in P
    <2>1. i \in 10 .. n
      BY <1>6
    <2>2. CASE i % 2 = 0
      <3>1. i + 1 \in 10 .. n
        BY <1>1, <1>3, <2>1, <2>2
      <3>2. i + 1 \in T
        BY <1>6, <3>1
      <3>3. pair(i, i + 1)
        BY <1>9, <2>2, <3>2
      <3>4. QED
        BY <1>8, <3>2, <3>3
    <2>3. CASE i % 2 # 0
      <3>1. i - 1 \in 10 .. n /\ (i - 1) % 2 = 0 /\ (i - 1) + 1 = i
        BY <1>1, <2>1, <2>3
      <3>2. i - 1 \in T
        BY <1>6, <3>1
      <3>3. pair(i - 1, (i - 1) + 1)
        <4> DEFINE k == i - 1
        <4>1. k \in T /\ k + 1 \in T /\ k % 2 = 0
          BY <3>1, <3>2
        <4> HIDE DEF k
        <4>2. pair(k, k + 1)
          BY <1>9, <4>1
        <4>3. QED
          BY <4>2 DEF k
      <3>4. QED
        BY <1>8, <3>1, <3>2, <3>3
    <2>4. QED
      BY <2>2, <2>3
  <1>11. P = T
    <2>1. P \subseteq T
      BY <1>8
    <2>2. QED
      BY <1>10, <2>1
  <1>12. QED
    BY <1>6, <1>11 DEF T, P, n

LEMMA NoResetErrors ==
  ASSUME NEW life \in Life, Legal(life), NEW run, Regular(run, life)
  PROVE  ResetErrors(run) = {}
  <1> DEFINE n == Span(life)
             paired == InitialPair(run) \cup TrailingPairs(run)
             N == Named(run, ResetStages)
  <1>1. /\ InitialPair(run) = {4, 5} /\ N = {4, 5} \cup (10 .. n)
        /\ TrailingResets(run) = 10 .. n /\ TrailingPairs(run) = 10 .. n
    BY InitialIs, TrailingIs, ResetsAt
  <1>2. N = paired
    BY <1>1
  <1>3. InitialPair(run) # {} /\ TrailingResets(run) \ TrailingPairs(run) = {}
    BY <1>1
  <1> HIDE DEF paired, N
  <1>4. \A i \in N : Seqno(run, i) \in {Seqno(run, p) : p \in paired}
    BY <1>2
  <1>5. QED
    BY <1>3, <1>4 DEF ResetErrors, Flag, paired, N

(* with the order of the stages,                                           *)
LEMMA NoOrderErrors ==
  ASSUME NEW life \in Life, Legal(life), NEW run, Regular(run, life)
  PROVE  OrderErrors(run) = {}
  <1> DEFINE core == Named(run, OnceStages) \cup InitialPair(run)
             n == Span(life)
  <1>1. core = 1 .. 9
    <2>1. core = Singles \cup {4, 5}
      BY ResetsAt, InitialIs
    <2>2. Singles \cup {4, 5} = 1 .. 9
      BY DEF Singles
    <2>3. QED
      BY <2>1, <2>2
  <1>2. \A name \in OnceStages : Once(run, name)
    <2> TAKE name \in OnceStages
    <2>1. PICK k \in Singles : name = CoreSequence[k]
      BY NamesAt
    <2>2. QED
      BY <2>1, OnceAt
  <1> HIDE DEF core
  <1>3. \A i \in core : run.stages[i].name = CoreSequence[Rank(run, core, i) + 1]
    <2> TAKE i \in core
    <2>1. i \in 1 .. 9 /\ 1 .. 9 \subseteq 1 .. n
      BY <1>1, NamesAt
    <2>2. \A k \in 1 .. 9 : Seqno(run, k) = k - 1
      BY <2>1, ResetsAt
    <2>3. 1 \in Nat /\ 9 \in Nat
      OBVIOUS
    <2>4. Rank(run, 1 .. 9, i) = i - 1
      BY <2>1, <2>2, <2>3, RankIn
    <2>5. Rank(run, core, i) + 1 = i
      BY <1>1, <2>1, <2>4
    <2>6. run.stages[i].name = CoreSequence[i]
      BY <2>1, NamesAt
    <2>7. QED
      BY <2>5, <2>6
  <1>4. QED
    BY <1>2, <1>3 DEF OrderErrors, Flag, core

(* with what the stages returned,                                          *)
LEMMA NoReturnErrors ==
  ASSUME NEW life \in Life, Legal(life), NEW run, Regular(run, life), run.pmu = life.post
  PROVE  ReturnErrors(run) = {}
  <1> DEFINE post(name) == run.stages[CHOOSE i \in Named(run, {name}) : TRUE].post
             wrong == \E i \in DOMAIN run.stages :
                        /\ run.stages[i].name \in ToSet(CoreSequence)
                        /\ run.stages[i].name \in ResetStages \/ Once(run, run.stages[i].name)
                        /\ run.stages[i].rc # ExpectedRc(run.stages[i].name)
  <1>1. ~wrong
    BY DEF Regular
  <1>2. life.post \in {0, 1}
    BY DEF Life
  <1>3. post("post_entry") = life.post /\ post("post_return") = life.post
    <2>1. 2 \in Singles /\ 3 \in Singles /\ 2 \in 1 .. 9 /\ 3 \in 1 .. 9
      BY DEF Singles
    <2>2. 2 \in 1 .. Span(life) /\ 3 \in 1 .. Span(life)
      BY <2>1, NamesAt
    <2>3. Events(life)[2] = "post_entry" /\ Events(life)[3] = "post_return"
      <3>1. Course(life)[2] = CoreSequence[2] /\ Course(life)[3] = CoreSequence[3]
            /\ Events(life) = Course(life)
        BY <2>1, LegalCourse
      <3>2. QED
        BY <3>1, CoreNames
    <2>4. Observed(life, 2).post = life.post /\ Observed(life, 3).post = life.post
      BY <2>3 DEF Observed
    <2>5. run.stages[2].post = life.post /\ run.stages[3].post = life.post
      BY <2>2, <2>4 DEF Regular
    <2>6. /\ (CHOOSE i \in Named(run, {CoreSequence[2]}) : TRUE) = 2
          /\ (CHOOSE i \in Named(run, {CoreSequence[3]}) : TRUE) = 3
      BY <2>1, OnceAt
    <2>7. QED
      BY <2>5, <2>6, CoreNames
  <1> HIDE DEF post, wrong
  <1>4. ReturnErrors(run) =
          Flag("unexpected_return", wrong)
          \cup (IF Once(run, "post_entry") /\ Once(run, "post_return")
                THEN Flag("post_value_not_boolean",
                          ~({post("post_entry"), post("post_return")} \subseteq {0, 1}))
                     \cup Flag("post_value_mismatch", post("post_entry") # post("post_return"))
                     \cup Flag("forced_post_requires_pmu",
                               1 \in {post("post_entry"), post("post_return")} /\ run.pmu # 1)
                ELSE {})
    BY DEF ReturnErrors, post, wrong
  <1>5. QED
    BY <1>1, <1>2, <1>3, <1>4 DEF Flag

(* or with the probes, nor with the run as a whole.                        *)
LEMMA WholeIs ==
  ASSUME NEW life \in Life, Legal(life)
  PROVE  LET W == Whole(life)
         IN  /\ W.complete /\ W.begin = life.bdf /\ W.end = life.bdf
             /\ W.records = Len(Stored(life)) /\ W.dropped = 0 /\ W.unparsed = 0 /\ W.orphans = 0
             /\ W.armed = LiveGrType /\ W.pmu = life.post
             /\ W.stages = [i \in 1 .. Span(life) |-> StageTo(life, i, AllRegs(life, i))]
             /\ W.missed = [q \in 1 .. Len(SymbolOrder) |-> [symbol |-> SymbolOrder[q], n |-> 0]]
  <1> DEFINE n == Len(Stored(life))
             stages == StagesTo(life, n)
             missed == MissedTo(life, Len(SymbolOrder))
             run == RunTo(life, stages, missed)
             ln == Ended(life)
  <1>1. ~ln.cut /\ ln.bdf = life.bdf
    BY DEF Ended
  <1>2. Whole(life) = [run EXCEPT !.end = life.bdf, !.complete = TRUE]
    BY <1>1 DEF Whole, OnEnd
  <1>3. life.fault = "none"
    BY DEF Legal
  <1>4. Begin(life).dropped = 0
    BY <1>3 DEF Begin
  <1>5. stages = [i \in 1 .. Span(life) |-> StageTo(life, i, AllRegs(life, i))]
    <2>1. n = Span(life)
      BY LegalCourse
    <2>2. QED
      BY <2>1 DEF StagesTo
  <1>6. missed = [q \in 1 .. Len(SymbolOrder) |-> [symbol |-> SymbolOrder[q], n |-> 0]]
    <2>1. \A q : Missed(life, q).n = 0
      BY <1>3 DEF Missed
    <2>2. QED
      BY <2>1 DEF MissedTo
  <1> HIDE DEF stages, missed
  <1>7. run = [begin |-> life.bdf, end |-> "none", records |-> n,
               dropped |-> 0, pmu |-> life.post, armed |-> LiveGrType,
               stages |-> stages, missed |-> missed, orphans |-> 0, unparsed |-> 0,
               complete |-> FALSE]
    BY <1>4 DEF RunTo
  <1> HIDE DEF run
  <1>8. QED
    BY <1>2, <1>5, <1>6, <1>7

LEMMA WholeIsRegular ==
  ASSUME OrderAssumption, NEW life \in Life, Legal(life)
  PROVE  Regular(Whole(life), life) /\ SameStages(Whole(life), life)
  <1> DEFINE W == Whole(life)
             n == Span(life)
             stages == W.stages
  <1>1. n \in Nat /\ Len(Stored(life)) = n
    BY LegalCourse
  <1>2. stages = [i \in 1 .. n |-> StageTo(life, i, AllRegs(life, i))]
    BY WholeIs
  <1>3. Len(stages) = n /\ DOMAIN stages = 1 .. n
    <2> HIDE DEF stages, n
    <2> QED BY <1>1, <1>2, LenProperties
  <1>4. ASSUME NEW i \in 1 .. n
        PROVE  /\ stages[i].seq = i - 1 /\ stages[i].name = Course(life)[i]
               /\ stages[i].rc = ExpectedRc(Course(life)[i])
               /\ stages[i].post = Observed(life, i).post
               /\ ValueMap(stages[i]) = Stored(life)[i].vals
               /\ stages[i].name = Stored(life)[i].name
    <2>1. stages[i] = StageTo(life, i, AllRegs(life, i))
      BY <1>2
    <2> HIDE DEF stages
    <2>2. QED
      BY <2>1, StageValues
  <1>5. Regular(W, life)
    BY <1>3, <1>4 DEF Regular
  <1>6. SameStages(W, life)
    BY <1>1, <1>3, <1>4 DEF SameStages
  <1>7. QED
    BY <1>5, <1>6

LEMMA NoProbeErrors ==
  ASSUME OrderAssumption, NEW life \in Life, Legal(life)
  PROVE  ProbeErrors(Whole(life)) = {}
  <1> DEFINE missed == Whole(life).missed
             m == Len(SymbolOrder)
             At(s) == {i \in DOMAIN missed : missed[i].symbol = s}
  <1>1. m \in Nat /\ DOMAIN SymbolOrder = 1 .. m
        /\ MissedSymbols = {SymbolOrder[i] : i \in 1 .. m}
        /\ \A i, k \in 1 .. m : SymbolOrder[i] = SymbolOrder[k] => i = k
    <2>1. SymbolOrder \in Seq(MissedSymbols) /\ ToSet(SymbolOrder) = MissedSymbols
          /\ \A i, k \in DOMAIN SymbolOrder : SymbolOrder[i] = SymbolOrder[k] => i = k
      BY DEF OrderAssumption
    <2>2. m \in Nat /\ DOMAIN SymbolOrder = 1 .. m
      BY <2>1, LenProperties
    <2>3. QED
      BY <2>1, <2>2 DEF ToSet
  <1>2. missed = [q \in 1 .. m |-> [symbol |-> SymbolOrder[q], n |-> 0]]
    BY WholeIs
  <1> HIDE DEF missed, m
  <1>3. DOMAIN missed = 1 .. m
        /\ \A q \in 1 .. m : missed[q].symbol = SymbolOrder[q] /\ missed[q].n = 0
    BY <1>2
  <1>4. \A c \in ToSet(missed) : c.n = 0
    BY <1>3 DEF ToSet
  <1>5. ASSUME NEW s \in MissedSymbols PROVE Cardinality(At(s)) = 1
    <2>1. PICK k \in 1 .. m : SymbolOrder[k] = s
      BY <1>1
    <2>2. At(s) = {k}
      <3>1. \A i \in DOMAIN missed : missed[i].symbol = s => i = k
        BY <1>1, <1>3, <2>1
      <3>2. k \in DOMAIN missed /\ missed[k].symbol = s
        BY <1>3, <2>1
      <3>3. QED
        BY <3>1, <3>2
    <2> HIDE DEF At
    <2>3. QED
      BY <2>2, FS_Singleton
  <1>6. QED
    BY <1>4, <1>5 DEF ProbeErrors, Flag, missed

LEMMA NoStreamErrors ==
  ASSUME OrderAssumption, NEW life \in Life, Legal(life)
  PROVE  StreamErrors(Whole(life)) = {}
  <1> DEFINE W == Whole(life)
  <1>1. life.bdf # "none"
    BY DEF Life, OrderAssumption
  <1>2. /\ W.complete /\ W.begin = life.bdf /\ W.end = life.bdf
        /\ W.records = Len(Stored(life)) /\ W.dropped = 0 /\ W.unparsed = 0 /\ W.orphans = 0
        /\ W.armed = LiveGrType
    BY WholeIs
  <1>3. Regular(W, life) /\ Len(Stored(life)) = Span(life)
    BY WholeIsRegular, LegalCourse
  <1> HIDE DEF W
  <1>4. W.records = Len(W.stages) /\ \A i \in DOMAIN W.stages : W.stages[i].seq = i - 1
    BY <1>2, <1>3 DEF Regular
  <1>5. ~(W.unparsed > 0) /\ ~(W.orphans > 0)
    BY <1>2
  <1>6. QED
    BY <1>1, <1>2, <1>4, <1>5 DEF StreamErrors, Flag, W

LEMMA WholeIsClean ==
  ASSUME OrderAssumption, NEW life \in Life, Legal(life)
  PROVE  Errors(Whole(life)) = {}
  <1> DEFINE W == Whole(life)
             E == {StageErrors(s) : s \in ToSet(W.stages)}
  <1>1. Regular(W, life) /\ W.pmu = life.post
    BY WholeIs, WholeIsRegular
  <1>2. ASSUME NEW s \in ToSet(W.stages) PROVE StageErrors(s) = {}
    <2>1. PICK i \in DOMAIN W.stages : s = W.stages[i]
      BY DEF ToSet
    <2>2. W.stages = [k \in 1 .. Span(life) |-> StageTo(life, k, AllRegs(life, k))]
      BY WholeIs
    <2>3. i \in 1 .. Span(life) /\ s = StageTo(life, i, AllRegs(life, i))
      BY <2>1, <2>2
    <2>4. QED
      BY <2>3, StageIsClean
  <1> HIDE DEF W
  <1>3. UNION E = {}
    BY <1>2
  <1>4. /\ StreamErrors(W) = {} /\ ProbeErrors(W) = {}
        /\ ResetErrors(W) = {} /\ OrderErrors(W) = {} /\ ReturnErrors(W) = {}
    <2>1. StreamErrors(W) = {} /\ ProbeErrors(W) = {}
      BY NoStreamErrors, NoProbeErrors DEF W
    <2>2. ResetErrors(W) = {} /\ OrderErrors(W) = {} /\ ReturnErrors(W) = {}
      BY <1>1, NoResetErrors, NoOrderErrors, NoReturnErrors
    <2>3. QED
      BY <2>1, <2>2
  <1>5. Errors(W) = StreamErrors(W) \cup (UNION E) \cup ResetErrors(W)
                    \cup OrderErrors(W) \cup ReturnErrors(W) \cup ProbeErrors(W)
    BY DEF Errors
  <1> HIDE DEF E
  <1>6. QED
    BY <1>3, <1>4, <1>5 DEF W

(* A log of legal lives in which nothing was lost is accepted, once or     *)
(* appended to itself, and the stages and values that are reported are     *)
(* those of the last life: none of the checks of _validate_run turns away  *)
(* a good capture, however many reset pairs follow ctxctl_return.          *)
THEOREM CleanIsAccepted ==
  ASSUME OrderAssumption, ScenarioAssumption
  PROVE  Spec => []CleanAccepted
  <1>1. IInv => CleanAccepted
    <2> SUFFICES ASSUME IInv, phase = "decoded", scenario.kind = "lives",
                        noise \in {"none", "twice"},
                        \A life \in ToSet(scenario.of) : Legal(life)
                 PROVE  Accepted /\ SameStages(stageReport.run[1], scenario.of[Len(scenario.of)])
      BY DEF CleanAccepted
    <2> DEFINE life == scenario.of[Len(scenario.of)]
    <2>1. /\ life \in Life /\ life \in ToSet(scenario.of)
          /\ stageReport.run[1] = Whole(life)
          /\ Errors(Whole(life)) = {} => stageReport.code = 0
      BY CleanDecoded
    <2>2. Legal(life)
      BY <2>1
    <2> HIDE DEF life
    <2>3. stageReport.code = 0
      BY <2>1, <2>2, WholeIsClean
    <2>4. SameStages(stageReport.run[1], life)
      BY <2>1, <2>2, WholeIsRegular
    <2>5. QED
      BY <2>3, <2>4 DEF Accepted, life
  <1>2. QED
    BY <1>1, Invariance, PTL
==============================================================================
