--------------------------- MODULE Decoders_proofs ---------------------------
(***************************************************************************)
(* What the two decoders of kernel logs compute, for logs and tables of    *)
(* any length.  The first part has the induction principle and what it     *)
(* gives for numbers, sets and sequences.                                  *)
(***************************************************************************)
EXTENDS StageDecoder, TopDecoder, FiniteSetTheorems, SequenceTheorems,
        WellFoundedInduction, TLAPS

------------------------------------------------------------------------------
(* Induction, as a fact about sets of numbers: a set that has 0 and the    *)
(* successor of each of its numbers has them all.                          *)
LEMMA Induction ==
  ASSUME NEW S, 0 \in S, \A n \in Nat : n \in S => n + 1 \in S
  PROVE  Nat \subseteq S
  <1> DEFINE T == Nat \ S
             R == OpToRel(<, Nat)
  <1> SUFFICES ASSUME T # {} PROVE FALSE
    OBVIOUS
  <1>1. \A m, n \in Nat : m < n => <<m, n>> \in R
    BY DEF OpToRel
  <1>2. IsWellFoundedOn(R, Nat)
    BY NatLessThanWellFounded
  <1>3. T \subseteq Nat /\ T # {}
    OBVIOUS
  <1> HIDE DEF R
  <1>4. PICK n \in T : \A m \in T : ~(<<m, n>> \in R)
    <2> HIDE DEF T
    <2> QED BY <1>2, <1>3, WFMin
  <1>5. n \in Nat /\ n # 0 /\ n - 1 \in Nat /\ n - 1 < n /\ n = (n - 1) + 1
    OBVIOUS
  <1>6. <<n - 1, n>> \in R
    BY <1>1, <1>5
  <1>7. n - 1 \in S
    BY <1>4, <1>5, <1>6
  <1>8. QED
    BY <1>5, <1>7

(* The same up to a bound.                                                 *)
LEMMA InductionTo ==
  ASSUME NEW n \in Nat, NEW S, 0 \in S, \A i \in 0 .. n - 1 : i \in S => i + 1 \in S
  PROVE  0 .. n \subseteq S
  <1> DEFINE T == {i \in Nat : i <= n => i \in S}
  <1>1. 0 \in T
    OBVIOUS
  <1>2. ASSUME NEW i \in Nat, i \in T PROVE i + 1 \in T
    <2>1. CASE i + 1 <= n
      <3>1. i \in 0 .. n - 1 /\ i \in S
        BY <1>2, <2>1
      <3>2. QED
        BY <3>1
    <2>2. CASE ~(i + 1 <= n)
      BY <2>2
    <2>3. QED
      BY <2>1, <2>2
  <1>3. Nat \subseteq T
    <2> HIDE DEF T
    <2> QED BY <1>1, <1>2, Induction
  <1>4. QED
    BY <1>3

(* Max and Min are what they should be.                                    *)
LEMMA MaxOf ==
  ASSUME NEW n \in Nat, NEW S, S \subseteq 0 .. n, S # {}
  PROVE  Max(S) \in S /\ \A x \in S : x <= Max(S)
  <1> DEFINE T == {i \in 0 .. n : (\A x \in S : x > i) \/
                       \E m \in S : m <= i /\ \A x \in S : x <= i => x <= m}
  <1>1. 0 \in T
    OBVIOUS
  <1>2. ASSUME NEW i \in 0 .. n - 1, i \in T PROVE i + 1 \in T
    <2>1. i + 1 \in 0 .. n
      OBVIOUS
    <2>2. CASE i + 1 \in S
      BY <2>1, <2>2
    <2>3. CASE i + 1 \notin S
      BY <2>1, <2>3, <1>2
    <2>4. QED
      BY <2>2, <2>3
  <1>3. n \in T
    <2>1. 0 .. n \subseteq T
      <3> HIDE DEF T
      <3> QED BY <1>1, <1>2, InductionTo
    <2>2. QED
      BY <2>1
  <1>4. PICK m \in S : \A x \in S : x <= m
    <2>1. \A x \in S : x \in Int /\ x <= n
      OBVIOUS
    <2>2. ~\A x \in S : x > n
      <3>1. PICK x \in S : TRUE
        OBVIOUS
      <3>2. x \in Int /\ x <= n
        BY <2>1
      <3>3. ~(x > n)
        BY <3>2
      <3>4. QED
        BY <3>3
    <2>3. \E m \in S : m <= n /\ \A x \in S : x <= n => x <= m
      BY <1>3, <2>2
    <2>4. QED
      BY <2>1, <2>3
  <1>5. \E m_1 \in S : \A y \in S : m_1 >= y
    BY <1>4
  <1>6. QED
    BY <1>5 DEF Max

LEMMA MinOf ==
  ASSUME NEW n \in Nat, NEW S, S \subseteq 0 .. n, S # {}
  PROVE  Min(S) \in S /\ \A x \in S : Min(S) <= x
  <1> DEFINE T == {n - x : x \in S}
  <1>1. T \subseteq 0 .. n /\ T # {}
    <2>1. \A x \in S : n - x \in 0 .. n
      OBVIOUS
    <2>2. QED
      BY <2>1
  <1>2. Max(T) \in T /\ \A x \in T : x <= Max(T)
    <2> HIDE DEF T
    <2> QED BY <1>1, MaxOf
  <1>3. PICK m \in S : n - m = Max(T)
    BY <1>2
  <1>4. \A x \in S : n - x <= n - m
    BY <1>2, <1>3
  <1>5. \E m_1 \in S : \A y \in S : m_1 <= y
    BY <1>4
  <1>6. QED
    BY <1>5 DEF Min

(* A finite set with one element, or with two.                             *)
LEMMA OneElement ==
  ASSUME NEW S, Cardinality(S) = 1, IsFiniteSet(S)
  PROVE  \E x : S = {x}
  BY FS_Singleton

LEMMA NotEmpty ==
  ASSUME NEW S, Cardinality(S) # 0
  PROVE  S # {}
  BY FS_EmptySet

(* A part of an interval is finite.                                        *)
LEMMA FiniteInterval ==
  ASSUME NEW n \in Int, NEW m \in Int, NEW S, S \subseteq m .. n
  PROVE  IsFiniteSet(S)
  BY FS_Interval, FS_Subset

(* Sequences of a given length, one after another.                         *)
Sized(s, S, n) == s \in Seq(S) /\ Len(s) = n
Glued(t, s, u, m, n) == /\ \A i \in 1 .. m : t[i] = s[i]
                        /\ \A i \in 1 .. n : t[m + i] = u[i]
Taken(t, s, a, b) == \A i \in 1 .. b - a + 1 : t[i] = s[a + i - 1]

LEMMA Listed ==
  ASSUME NEW S, NEW n \in Nat, NEW s
  PROVE  Sized(s, S, n) <=> s \in [1 .. n -> S]
  <1>1. Sized(s, S, n) => s \in [1 .. n -> S]
    BY LenProperties DEF Sized
  <1>2. s \in [1 .. n -> S] => Sized(s, S, n)
    BY LenProperties, SeqDef DEF Sized
  <1>3. QED
    BY <1>1, <1>2

LEMMA Joined ==
  ASSUME NEW S, NEW s, NEW u, NEW m \in Nat, NEW n \in Nat, Sized(s, S, m), Sized(u, S, n)
  PROVE  Sized(s \o u, S, m + n) /\ Glued(s \o u, s, u, m, n)
  <1>1. s \in Seq(S) /\ u \in Seq(S)
    BY DEF Sized
  <1>2. Len(s) <= m /\ m <= Len(s) /\ Len(u) <= n /\ n <= Len(u)
    BY DEF Sized
  <1>3. /\ s \o u \in Seq(S) /\ Len(s \o u) = m + n
        /\ \A i \in 1 .. m : (s \o u)[i] = s[i]
        /\ \A i \in 1 .. n : (s \o u)[m + i] = u[i]
    BY <1>1, <1>2
  <1>4. QED
    BY <1>3 DEF Sized, Glued

LEMMA Part ==
  ASSUME NEW S, NEW n \in Nat, NEW s, Sized(s, S, n), NEW a \in 1 .. n + 1, NEW b \in a - 1 .. n
  PROVE  Sized(SubSeq(s, a, b), S, b - a + 1) /\ Taken(SubSeq(s, a, b), s, a, b)
  <1>1. s \in Seq(S) /\ Len(s) = n
    BY DEF Sized
  <1>2. \A i \in a .. b : s[i] \in S
    BY <1>1, ElementOfSeq
  <1>3. /\ SubSeq(s, a, b) \in Seq(S)
        /\ Len(SubSeq(s, a, b)) = IF a <= b THEN b - a + 1 ELSE 0
        /\ \A i \in 1 .. b - a + 1 : SubSeq(s, a, b)[i] = s[a + i - 1]
    BY <1>2, SubSeqProperties
  <1>4. Len(SubSeq(s, a, b)) = b - a + 1
    <2>1. (IF a <= b THEN b - a + 1 ELSE 0) = b - a + 1
      OBVIOUS
    <2>2. QED
      BY <1>3, <2>1
  <1>5. QED
    BY <1>3, <1>4 DEF Sized, Taken

(* Sequences joined one after the other.                                   *)
Flats(flat, ss, X, n) == /\ FlattenSeq(ss) = flat[n]
                         /\ flat[0] = <<>>
                         /\ \A i \in 1 .. n : flat[i] = flat[i - 1] \o ss[i]
                         /\ \A i \in 0 .. n : flat[i] \in X

LEMMA Flattened ==
  ASSUME NEW X, NEW n \in Nat, NEW ss, Sized(ss, Seq(X), n)
  PROVE  \E flat : Flats(flat, ss, Seq(X), n)
  <1>1. ss \in Seq(Seq(X)) /\ Len(ss) = n /\ \A i \in 1 .. n : ss[i] \in Seq(X)
    BY ElementOfSeq DEF Sized
  <1>2. CASE n = 0
    <2>1. ss = <<>>
      BY <1>1, <1>2, EmptySeq
    <2>2. FlattenSeq(ss) = <<>>
      BY <1>1, <1>2, <2>1 DEF FlattenSeq
    <2>3. <<>> \in Seq(X)
      BY EmptySeq
    <2> DEFINE flat == [i \in 0 .. 0 |-> <<>>]
    <2>4. flat[0] = <<>> /\ FlattenSeq(ss) = flat[n] /\ \A i \in 0 .. n : flat[i] \in Seq(X)
      BY <1>2, <2>2, <2>3
    <2>5. \A i \in 1 .. n : flat[i] = flat[i - 1] \o ss[i]
      BY <1>2
    <2> HIDE DEF flat
    <2>6. Flats(flat, ss, Seq(X), n)
      BY <2>4, <2>5 DEF Flats
    <2>7. QED
      BY <2>6
  <1>3. CASE n # 0
    <2> DEFINE Joins(f, k) ==
                 f = [i \in 1 .. k |-> IF i = 1 THEN ss[i] ELSE f[i - 1] \o ss[i]]
               S == {k \in Nat : \E f : Joins(f, k)}
    <2>1. 0 \in S
      <3>1. Joins([i \in 1 .. 0 |-> ss], 0)
        OBVIOUS
      <3>2. QED
        BY <3>1
    <2>2. ASSUME NEW k \in Nat, k \in S PROVE k + 1 \in S
      <3>1. PICK f : Joins(f, k)
        BY <2>2
      <3> DEFINE last == IF k = 0 THEN ss[1] ELSE f[k] \o ss[k + 1]
                 g == [i \in 1 .. k + 1 |-> IF i = k + 1 THEN last ELSE f[i]]
      <3>2. ASSUME NEW i \in 1 .. k + 1
            PROVE  g[i] = IF i = 1 THEN ss[i] ELSE g[i - 1] \o ss[i]
        <4>1. CASE i = k + 1
          <5>1. g[i] = last /\ (k # 0 => g[i - 1] = f[k]) /\ (i = 1 <=> k = 0)
            <6> HIDE DEF last
            <6> QED BY <4>1
          <5> HIDE DEF g
          <5>2. QED
            BY <4>1, <5>1
        <4>2. CASE i \in 1 .. k
          <5>1. f[i] = IF i = 1 THEN ss[i] ELSE f[i - 1] \o ss[i]
            BY <3>1, <4>2
          <5>2. g[i] = f[i] /\ (i # 1 => g[i - 1] = f[i - 1])
            BY <4>2
          <5> HIDE DEF g
          <5>3. QED
            BY <5>1, <5>2
        <4>3. QED
          BY <4>1, <4>2
      <3> HIDE DEF last
      <3>3. Joins(g, k + 1)
        BY <3>2
      <3> HIDE DEF g
      <3>4. \E h : Joins(h, k + 1)
        <4> HIDE DEF Joins
        <4> QED BY <3>3
      <3>5. k + 1 \in Nat
        OBVIOUS
      <3>6. QED
        <4> HIDE DEF Joins
        <4> QED BY <3>4, <3>5
    <2>3. PICK f : Joins(f, n)
      <3> HIDE DEF S
      <3>1. n \in S
        BY <2>1, <2>2, Induction
      <3> USE DEF S
      <3>2. QED
        BY <3>1, Zenon
    <2> DEFINE join == CHOOSE g : Joins(g, n)
    <2>4. Joins(join, n)
      BY <2>3, Zenon
    <2>5. FlattenSeq(ss) = join[n]
      BY <1>1, <1>3 DEF FlattenSeq
    <2> HIDE DEF join
    <2>6. \A i \in 1 .. n : join[i] = IF i = 1 THEN ss[i] ELSE join[i - 1] \o ss[i]
      BY <2>4
    <2> DEFINE flat == [i \in 0 .. n |-> IF i = 0 THEN <<>> ELSE join[i]]
    <2>7. FlattenSeq(ss) = flat[n] /\ flat[0] = <<>>
      BY <1>3, <2>5
    <2>8. \A i \in 1 .. n : flat[i] = flat[i - 1] \o ss[i]
      <3> TAKE i \in 1 .. n
      <3>1. flat[i] = join[i] /\ flat[i - 1] = (IF i = 1 THEN <<>> ELSE join[i - 1])
        OBVIOUS
      <3>2. <<>> \o ss[1] = ss[1]
        BY <1>1, <1>3, ConcatEmptySeq
      <3> HIDE DEF flat
      <3>3. CASE i = 1
        BY <2>6, <3>1, <3>2, <3>3
      <3>4. CASE i # 1
        BY <2>6, <3>1, <3>4
      <3>5. QED
        BY <3>3, <3>4
    <2> HIDE DEF flat
    <2>9. \A i \in 0 .. n : flat[i] \in Seq(X)
      <3> DEFINE T == {i \in 0 .. n : flat[i] \in Seq(X)}
      <3>1. 0 \in T
        <4>1. flat[0] \in Seq(X)
          BY <2>7, EmptySeq
        <4>2. QED
          BY <4>1
      <3>2. ASSUME NEW i \in 0 .. n - 1, i \in T PROVE i + 1 \in T
        <4>1. i + 1 \in 1 .. n /\ (i + 1) - 1 = i /\ i + 1 \in 0 .. n
          OBVIOUS
        <4>2. flat[i + 1] = flat[i] \o ss[i + 1] /\ ss[i + 1] \in Seq(X) /\ flat[i] \in Seq(X)
          BY <1>1, <2>8, <3>2, <4>1
        <4>3. flat[i + 1] \in Seq(X)
          BY <4>2, ConcatProperties
        <4>4. QED
          BY <4>1, <4>3
      <3>3. 0 .. n \subseteq T
        <4> HIDE DEF T
        <4> QED BY <3>1, <3>2, InductionTo
      <3>4. QED
        BY <3>3
    <2>10. Flats(flat, ss, Seq(X), n)
      BY <2>7, <2>8, <2>9 DEF Flats
    <2>11. QED
      BY <2>10
  <1>4. QED
    BY <1>2, <1>3

FlatTo(ss, k)   == FlattenSeq(SubSeq(ss, 1, k))
FlatNext(ss, k) == FlatTo(ss, k + 1) = FlatTo(ss, k) \o ss[k + 1]

LEMMA FlattenNext ==
  ASSUME NEW X, NEW n \in Nat, NEW ss, Sized(ss, Seq(X), n), NEW k \in 0 .. n - 1
  PROVE  FlatNext(ss, k)
  <1> DEFINE s == SubSeq(ss, 1, k)
             t == SubSeq(ss, 1, k + 1)
  <1>1. /\ 1 \in 1 .. n + 1 /\ k \in 1 - 1 .. n /\ k + 1 \in 1 - 1 .. n
        /\ k - 1 + 1 = k /\ (k + 1) - 1 + 1 = k + 1 /\ k \in Nat /\ k + 1 \in Nat
    OBVIOUS
  <1>2. Sized(s, Seq(X), k - 1 + 1) /\ Taken(s, ss, 1, k)
    BY <1>1, Part, Zenon
  <1>3. Sized(t, Seq(X), (k + 1) - 1 + 1) /\ Taken(t, ss, 1, k + 1)
    BY <1>1, Part, Zenon
  <1> HIDE DEF s, t
  <1>4. PICK f : Flats(f, s, Seq(X), k)
    <2>1. Sized(s, Seq(X), k)
      BY <1>1, <1>2
    <2>2. QED
      BY <1>1, <2>1, Flattened, Zenon
  <1>5. PICK g : Flats(g, t, Seq(X), k + 1)
    <2>1. Sized(t, Seq(X), k + 1)
      BY <1>1, <1>3
    <2>2. QED
      BY <1>1, <2>1, Flattened, Zenon
  <1>6. \A i \in 1 .. k : s[i] = ss[i]
    <2> TAKE i \in 1 .. k
    <2>1. i \in 1 .. k - 1 + 1 /\ 1 + i - 1 = i
      OBVIOUS
    <2>2. QED
      BY <1>2, <2>1 DEF Taken
  <1>7. \A i \in 1 .. k + 1 : t[i] = ss[i]
    <2> TAKE i \in 1 .. k + 1
    <2>1. i \in 1 .. (k + 1) - 1 + 1 /\ 1 + i - 1 = i
      OBVIOUS
    <2>2. QED
      BY <1>3, <2>1 DEF Taken
  <1> DEFINE S == {i \in 0 .. k : f[i] = g[i]}
  <1>8. 0 \in S
    BY <1>4, <1>5 DEF Flats
  <1>9. ASSUME NEW i \in 0 .. k - 1, i \in S PROVE i + 1 \in S
    <2>1. i + 1 \in 1 .. k /\ i + 1 \in 1 .. k + 1 /\ (i + 1) - 1 = i /\ i + 1 \in 0 .. k
      OBVIOUS
    <2>2. f[i + 1] = f[i] \o s[i + 1]
      BY <1>4, <2>1 DEF Flats
    <2>3. g[i + 1] = g[i] \o t[i + 1]
      BY <1>5, <2>1 DEF Flats
    <2>4. s[i + 1] = t[i + 1] /\ f[i] = g[i]
      BY <1>6, <1>7, <1>9, <2>1
    <2>5. QED
      BY <2>1, <2>2, <2>3, <2>4
  <1>10. f[k] = g[k]
    <2> HIDE DEF S
    <2>1. 0 .. k \subseteq S /\ k \in 0 .. k
      BY <1>1, <1>8, <1>9, InductionTo
    <2> USE DEF S
    <2>2. QED
      BY <2>1
  <1>11. g[k + 1] = g[k] \o ss[k + 1]
    <2>1. k + 1 \in 1 .. k + 1 /\ (k + 1) - 1 = k
      OBVIOUS
    <2>2. QED
      BY <1>5, <1>7, <2>1 DEF Flats
  <1>12. FlattenSeq(s) = f[k] /\ FlattenSeq(t) = g[k + 1]
    BY <1>4, <1>5 DEF Flats
  <1>13. QED
    BY <1>10, <1>11, <1>12 DEF s, t, FlatNext, FlatTo

------------------------------------------------------------------------------
(* The TOP decoder: recursion over the words of a table and over the lines *)
(* of a log computes what one step after the other does.                   *)
LEMMA WordsRead ==
  ASSUME NEW t, Len(t) \in Nat
  PROVE  \E read : /\ DecodeWords(t) = read[Len(t)]
                   /\ read[0] = [devices |-> <<>>, open |-> <<>>]
                   /\ \A i \in 1 .. Len(t) : read[i] = Word(read[i - 1], t[i])
  <1> DEFINE Start == [devices |-> <<>>, open |-> <<>>]
             Reads(f, n) ==
               f = [i \in 0 .. n |-> IF i = 0 THEN Start ELSE Word(f[i - 1], t[i])]
             S == {n \in Nat : \E f : Reads(f, n)}
  <1> HIDE DEF Start
  <1>1. 0 \in S
    <2>1. Reads([i \in 0 .. 0 |-> Start], 0)
      OBVIOUS
    <2>2. QED
      BY <2>1
  <1>2. ASSUME NEW n \in Nat, n \in S PROVE n + 1 \in S
    <2>1. PICK f : Reads(f, n)
      BY <1>2
    <2> DEFINE g == [i \in 0 .. n + 1 |-> IF i = n + 1 THEN Word(f[n], t[n + 1]) ELSE f[i]]
    <2>2. ASSUME NEW i \in 0 .. n + 1
          PROVE  g[i] = IF i = 0 THEN Start ELSE Word(g[i - 1], t[i])
      <3>1. CASE i = n + 1
        BY <3>1
      <3>2. CASE i \in 0 .. n
        <4>1. f[i] = IF i = 0 THEN Start ELSE Word(f[i - 1], t[i])
          BY <2>1, <3>2
        <4>2. g[i] = f[i] /\ (i # 0 => g[i - 1] = f[i - 1])
          BY <3>2
        <4>3. QED
          BY <4>1, <4>2
      <3>3. QED
        BY <3>1, <3>2
    <2>3. Reads(g, n + 1)
      BY <2>2
    <2> HIDE DEF g
    <2>4. QED
      BY <2>3
  <1>3. PICK f : Reads(f, Len(t))
    <2> HIDE DEF S
    <2>1. Len(t) \in S
      BY <1>1, <1>2, Induction
    <2> USE DEF S
    <2>2. QED
      BY <2>1
  <1> DEFINE read == CHOOSE g : Reads(g, Len(t))
  <1>4. Reads(read, Len(t))
    BY <1>3
  <1>5. DecodeWords(t) = read[Len(t)]
    BY DEF DecodeWords, Start
  <1> HIDE DEF read
  <1>6. read[0] = Start /\ \A i \in 1 .. Len(t) : read[i] = Word(read[i - 1], t[i])
    BY <1>4
  <1>7. QED
    BY <1>5, <1>6 DEF Start

(* A log is read line by line: TopChain is how the n lines after the m-th  *)
(* turn acc into what is returned, TopUpto how the first m turn the start  *)
(* into acc.  That the log is cut into pieces makes no difference.         *)
TopChain(st, acc, t, m, n) ==
  /\ st[0] = acc /\ st[n] = ReadTopLines(acc, t, m, n)
  /\ \A i \in 1 .. n : st[i] = FeedTop(st[i - 1], t[m + i])

LEMMA TopLinesRead ==
  ASSUME NEW acc, NEW t, NEW m \in Nat, NEW n \in Nat
  PROVE  \E st : TopChain(st, acc, t, m, n)
  <1> DEFINE Reads(f, k) ==
               f = [i \in 0 .. k |-> IF i = 0 THEN acc ELSE FeedTop(f[i - 1], t[m + i])]
             S == {k \in Nat : \E f : Reads(f, k)}
  <1>1. 0 \in S
    <2>1. Reads([i \in 0 .. 0 |-> acc], 0)
      OBVIOUS
    <2>2. QED
      BY <2>1
  <1>2. ASSUME NEW k \in Nat, k \in S PROVE k + 1 \in S
    <2>1. PICK f : Reads(f, k)
      BY <1>2
    <2> DEFINE g == [i \in 0 .. k + 1 |-> IF i = k + 1 THEN FeedTop(f[k], t[m + (k + 1)]) ELSE f[i]]
    <2>2. ASSUME NEW i \in 0 .. k + 1
          PROVE  g[i] = IF i = 0 THEN acc ELSE FeedTop(g[i - 1], t[m + i])
      <3>1. CASE i = k + 1
        BY <3>1
      <3>2. CASE i \in 0 .. k
        <4>1. f[i] = IF i = 0 THEN acc ELSE FeedTop(f[i - 1], t[m + i])
          BY <2>1, <3>2
        <4>2. g[i] = f[i] /\ (i # 0 => g[i - 1] = f[i - 1])
          BY <3>2
        <4>3. QED
          BY <4>1, <4>2
      <3>3. QED
        BY <3>1, <3>2
    <2>3. Reads(g, k + 1)
      BY <2>2
    <2> HIDE DEF g
    <2>4. QED
      BY <2>3
  <1>3. PICK f : Reads(f, n)
    <2> HIDE DEF S
    <2>1. n \in S
      BY <1>1, <1>2, Induction
    <2> USE DEF S
    <2>2. QED
      BY <2>1, Zenon
  <1> DEFINE read == CHOOSE g : Reads(g, n)
  <1>4. Reads(read, n)
    BY <1>3, Zenon
  <1>5. ReadTopLines(acc, t, m, n) = read[n]
    BY DEF ReadTopLines
  <1> HIDE DEF read
  <1>6. read[0] = acc /\ \A i \in 1 .. n : read[i] = FeedTop(read[i - 1], t[m + i])
    BY <1>4
  <1>7. TopChain(read, acc, t, m, n)
    BY <1>5, <1>6 DEF TopChain
  <1>8. QED
    BY <1>7

TopUpto(t, m, acc) ==
  \E st : /\ st[0] = NoSnapshots /\ st[m] = acc
          /\ \A i \in 1 .. m : st[i] = FeedTop(st[i - 1], t[i])

LEMMA TopMore ==
  ASSUME NEW t, NEW m \in Nat, NEW n \in Nat, NEW acc, TopUpto(t, m, acc)
  PROVE  TopUpto(t, m + n, ReadTopLines(acc, t, m, n))
  <1> DEFINE next == ReadTopLines(acc, t, m, n)
  <1>1. PICK f : /\ f[0] = NoSnapshots /\ f[m] = acc
                 /\ \A i \in 1 .. m : f[i] = FeedTop(f[i - 1], t[i])
    BY DEF TopUpto
  <1>2. PICK g : /\ g[0] = acc /\ g[n] = next
                 /\ \A i \in 1 .. n : g[i] = FeedTop(g[i - 1], t[m + i])
    <2>1. PICK g : TopChain(g, acc, t, m, n)
      BY TopLinesRead, Zenon
    <2>2. QED
      BY <2>1 DEF TopChain
  <1> HIDE DEF next
  <1> DEFINE st == [i \in 0 .. m + n |-> IF i <= m THEN f[i] ELSE g[i - m]]
  <1>3. \A i \in 0 .. m : st[i] = f[i]
    OBVIOUS
  <1>4. \A i \in 0 .. n : st[m + i] = g[i]
    <2> TAKE i \in 0 .. n
    <2>1. CASE i = 0
      BY <1>1, <1>2, <1>3, <2>1
    <2>2. CASE i # 0
      BY <2>2
    <2>3. QED
      BY <2>1, <2>2
  <1> HIDE DEF st
  <1>5. st[0] = NoSnapshots /\ st[m + n] = next
    BY <1>1, <1>2, <1>3, <1>4
  <1>6. ASSUME NEW i \in 1 .. m + n PROVE st[i] = FeedTop(st[i - 1], t[i])
    <2>1. CASE i <= m
      <3>1. i \in 1 .. m /\ i \in 0 .. m /\ i - 1 \in 0 .. m
        BY <2>1
      <3>2. QED
        BY <1>1, <1>3, <3>1
    <2>2. CASE ~(i <= m)
      <3> DEFINE k == i - m
      <3>1. k \in 1 .. n /\ k \in 0 .. n /\ k - 1 \in 0 .. n /\ m + k = i /\ m + (k - 1) = i - 1
        BY <2>2
      <3> HIDE DEF k
      <3>2. st[m + k] = g[k] /\ st[m + (k - 1)] = g[k - 1] /\ g[k] = FeedTop(g[k - 1], t[m + k])
        BY <1>2, <1>4, <3>1
      <3>3. QED
        BY <3>1, <3>2
    <2>3. QED
      BY <2>1, <2>2
  <1>7. TopUpto(t, m + n, next)
    BY <1>5, <1>6 DEF TopUpto
  <1>8. QED
    BY <1>7 DEF next

LEMMA TopPieces ==
  ASSUME NEW t, NEW n \in Nat
  PROVE  LET read[k \in 0 .. n] ==
               IF k = 0 THEN <<NoSnapshots>>
               ELSE [read[k - 1] EXCEPT ![1] = ReadTopLines(@, t, TopPiece * (k - 1), TopPiece)]
         IN  TopUpto(t, TopPiece * n, read[n][1])
  <1> DEFINE Step(r, k) == [r EXCEPT ![1] = ReadTopLines(@, t, TopPiece * (k - 1), TopPiece)]
             Reads(f, j) == f = [k \in 0 .. j |-> IF k = 0 THEN <<NoSnapshots>> ELSE Step(f[k - 1], k)]
             S == {j \in Nat : \E f : Reads(f, j)}
  <1>1. ASSUME NEW a, NEW k \in Nat, TopUpto(t, TopPiece * k, a)
        PROVE  \E b : Step(<<a>>, k + 1) = <<b>> /\ TopUpto(t, TopPiece * (k + 1), b)
    <2> DEFINE b == ReadTopLines(a, t, TopPiece * k, TopPiece)
    <2>1. TopUpto(t, TopPiece * k + TopPiece, b)
      BY <1>1, TopMore DEF TopPiece
    <2>2. TopPiece * k + TopPiece = TopPiece * (k + 1) /\ (k + 1) - 1 = k
      BY DEF TopPiece
    <2>3. Step(<<a>>, k + 1) = <<b>>
      <3>1. Step(<<a>>, k + 1) = [<<a>> EXCEPT ![1] = b]
        BY <2>2
      <3> HIDE DEF b, Step
      <3>2. QED
        BY <3>1
    <2> HIDE DEF b, Step
    <2>4. QED
      BY <2>1, <2>2, <2>3
  <1> HIDE DEF Step
  <1>2. 0 \in S
    <2>1. Reads([k \in 0 .. 0 |-> <<NoSnapshots>>], 0)
      OBVIOUS
    <2>2. QED
      BY <2>1
  <1>3. ASSUME NEW j \in Nat, j \in S PROVE j + 1 \in S
    <2>1. PICK f : Reads(f, j)
      BY <1>3
    <2> DEFINE g == [k \in 0 .. j + 1 |-> IF k = j + 1 THEN Step(f[j], j + 1) ELSE f[k]]
    <2>2. ASSUME NEW k \in 0 .. j + 1
          PROVE  g[k] = IF k = 0 THEN <<NoSnapshots>> ELSE Step(g[k - 1], k)
      <3>1. CASE k = j + 1
        BY <3>1
      <3>2. CASE k \in 0 .. j
        <4>1. f[k] = IF k = 0 THEN <<NoSnapshots>> ELSE Step(f[k - 1], k)
          BY <2>1, <3>2
        <4>2. g[k] = f[k] /\ (k # 0 => g[k - 1] = f[k - 1])
          BY <3>2
        <4>3. QED
          BY <4>1, <4>2
      <3>3. QED
        BY <3>1, <3>2
    <2>3. Reads(g, j + 1)
      BY <2>2
    <2> HIDE DEF g
    <2>4. QED
      BY <2>3
  <1>4. PICK f : Reads(f, n)
    <2> HIDE DEF S
    <2>1. n \in S
      BY <1>2, <1>3, Induction
    <2> USE DEF S
    <2>2. QED
      BY <2>1, Zenon
  <1> DEFINE read == CHOOSE g : Reads(g, n)
  <1>5. Reads(read, n)
    BY <1>4, Zenon
  <1> HIDE DEF read
  <1>6. read[0] = <<NoSnapshots>> /\ \A k \in 1 .. n : read[k] = Step(read[k - 1], k)
    BY <1>5
  <1> DEFINE Good(k) == \E a : read[k] = <<a>> /\ TopUpto(t, TopPiece * k, a)
             G == {k \in 0 .. n : Good(k)}
  <1>7. 0 \in G
    <2>1. TopUpto(t, 0, NoSnapshots)
      <3> DEFINE st == [i \in 0 .. 0 |-> NoSnapshots]
      <3>1. st[0] = NoSnapshots /\ \A i \in 1 .. 0 : st[i] = FeedTop(st[i - 1], t[i])
        OBVIOUS
      <3> HIDE DEF st
      <3>2. QED
        BY <3>1 DEF TopUpto
    <2>2. TopPiece * 0 = 0
      BY DEF TopPiece
    <2>3. QED
      BY <1>6, <2>1, <2>2
  <1>8. ASSUME NEW k \in 0 .. n - 1, k \in G PROVE k + 1 \in G
    <2>1. k \in Nat /\ k + 1 \in 1 .. n /\ k + 1 \in 0 .. n /\ (k + 1) - 1 = k
      OBVIOUS
    <2>2. PICK a : read[k] = <<a>> /\ TopUpto(t, TopPiece * k, a)
      BY <1>8
    <2>3. read[k + 1] = Step(<<a>>, k + 1)
      BY <1>6, <2>1, <2>2
    <2>4. QED
      BY <1>1, <2>1, <2>2, <2>3
  <1>9. n \in G
    <2> HIDE DEF G
    <2>1. 0 .. n \subseteq G
      BY <1>7, <1>8, InductionTo
    <2>2. QED
      BY <2>1
  <1>10. TopUpto(t, TopPiece * n, read[n][1])
    BY <1>9
  <1>11. QED
    BY <1>10 DEF read, Step

LEMMA TopRead ==
  ASSUME NEW t, Len(t) \in Nat
  PROVE  \E read : /\ ReadTop(t) = read[Len(t)]
                   /\ read[0] = NoSnapshots
                   /\ \A i \in 1 .. Len(t) : read[i] = FeedTop(read[i - 1], t[i])
  <1> DEFINE n == Len(t) \div TopPiece
             rest == Len(t) - TopPiece * n
  <1>1. n \in Nat /\ rest \in Nat /\ TopPiece * n \in Nat /\ TopPiece * n + rest = Len(t)
    BY DEF TopPiece
  <1> DEFINE pieces[k \in 0 .. n] ==
               IF k = 0 THEN <<NoSnapshots>>
               ELSE [pieces[k - 1] EXCEPT ![1] = ReadTopLines(@, t, TopPiece * (k - 1), TopPiece)]
  <1>2. TopUpto(t, TopPiece * n, pieces[n][1])
    <2> HIDE DEF n
    <2> QED BY <1>1, TopPieces
  <1>3. ReadTop(t) = ReadTopLines(pieces[n][1], t, TopPiece * n, rest)
    BY DEF ReadTop
  <1> HIDE DEF pieces, n, rest
  <1>4. TopUpto(t, Len(t), ReadTop(t))
    BY <1>1, <1>2, <1>3, TopMore
  <1>5. QED
    BY <1>4 DEF TopUpto

(* The registers that the lines of a log give, the addresses at its        *)
(* delimiters, and the snapshots that can be put together from them.       *)
RegsOf(text) == {[bdf |-> text[p].bdf, reg |-> text[p].reg, value |-> text[p].value] :
                   p \in {p \in 1 .. Len(text) : /\ text[p].from = "cmp100_boot_ro"
                                                 /\ text[p].m = "REG" /\ ~text[p].cut}}
MarksOf(text) == {Field(text[p]) : p \in 1 .. Len(text)} \cup {"none"}
SnapsOf(text) == [begin : MarksOf(text), end : MarksOf(text), closed : BOOLEAN,
                  regs : Seq(RegsOf(text))]
TopLog(text)  == /\ Len(text) \in Nat
                 /\ \A p \in 1 .. Len(text) :
                      text[p].from = "cmp100_boot_ro" => text[p].m \in {"BEGIN", "END", "REG"}

(* Nothing is invented: a register of a snapshot is in a line of the log.  *)
LEMMA TopReadType ==
  ASSUME NEW text, TopLog(text)
  PROVE  /\ ReadTop(text).snapshots \in Seq(SnapsOf(text))
         /\ ReadTop(text).open \in Seq(SnapsOf(text))
  <1> DEFINE Sn == SnapsOf(text)
             Good(acc) == acc \in [snapshots : Seq(Sn), open : Seq(Sn), notes : Int]
             L == Len(text)
  <1>1. L \in Nat
    BY DEF TopLog
  <1>2. PICK read : /\ ReadTop(text) = read[L]
                    /\ read[0] = NoSnapshots
                    /\ \A i \in 1 .. L : read[i] = FeedTop(read[i - 1], text[i])
    BY <1>1, TopRead
  <1> DEFINE S == {i \in 0 .. L : Good(read[i])}
  <1>3. 0 \in S
    <2>1. <<>> \in Seq(Sn)
      BY EmptySeq
    <2>2. Good(NoSnapshots)
      <3> HIDE DEF Sn
      <3> QED BY <2>1 DEF NoSnapshots
    <2>3. 0 \in 0 .. L
      BY <1>1
    <2>4. QED
      BY <1>2, <2>2, <2>3
  <1>4. ASSUME NEW i \in 0 .. L - 1, i \in S PROVE i + 1 \in S
    <2> DEFINE acc == read[i]  ln == text[i + 1]
    <2>1. i + 1 \in 1 .. L /\ (i + 1) - 1 = i /\ i + 1 \in 0 .. L
      BY <1>1
    <2>2. read[i + 1] = FeedTop(acc, ln)
      BY <1>2, <2>1
    <2>3. Good(acc)
      BY <1>4
    <2>4. ln.from = "cmp100_boot_ro" => ln.m \in {"BEGIN", "END", "REG"}
      BY <2>1 DEF TopLog
    <2>5. Field(ln) \in MarksOf(text) /\ "none" \in MarksOf(text)
      BY <2>1 DEF MarksOf
    <2>6. acc.open # <<>> => acc.open[1] \in Sn /\ 1 \in 1 .. Len(acc.open)
      BY <2>3, EmptySeq, LenProperties, ElementOfSeq
    <2> HIDE DEF acc, ln, Sn
    <2>7. Good(FeedTop(acc, ln))
      <3>1. CASE ln.from # "cmp100_boot_ro"
        BY <3>1, <2>3 DEF FeedTop
      <3>2. CASE ln.from = "cmp100_boot_ro" /\ ln.m = "BEGIN"
        <4>1. Opened(ln) \in Sn
          <5>1. <<>> \in Seq(RegsOf(text))
            BY EmptySeq
          <5>2. QED
            BY <2>5, <5>1 DEF Opened, Sn, SnapsOf
        <4>2. <<Opened(ln)>> \in Seq(Sn) /\ acc.snapshots \o acc.open \in Seq(Sn)
          BY <2>3, <4>1, ConcatProperties
        <4>3. Len(acc.open) \in Nat
          BY <2>3, LenProperties
        <4>4. acc.notes + Len(acc.open) \in Int
          BY <2>3, <4>3
        <4>5. FeedTop(acc, ln) = [snapshots |-> acc.snapshots \o acc.open,
                                  open |-> <<Opened(ln)>>, notes |-> acc.notes + Len(acc.open)]
          BY <3>2 DEF FeedTop
        <4>6. QED
          BY <4>2, <4>4, <4>5
      <3>3. CASE ln.from = "cmp100_boot_ro" /\ ln.m = "END"
        <4>1. CASE acc.open = <<>>
          BY <3>3, <4>1, <2>3 DEF FeedTop
        <4>2. CASE acc.open # <<>>
          <5> DEFINE s == [acc.open[1] EXCEPT !.end = Field(ln), !.closed = TRUE]
          <5>1. s \in Sn
            BY <4>2, <2>5, <2>6 DEF Sn, SnapsOf
          <5>2. Append(acc.snapshots, s) \in Seq(Sn) /\ <<>> \in Seq(Sn)
            BY <2>3, <5>1, AppendProperties, EmptySeq
          <5>3. FeedTop(acc, ln) = [acc EXCEPT !.open = <<>>, !.snapshots = Append(@, s)]
            BY <3>3, <4>2 DEF FeedTop
          <5> HIDE DEF s
          <5>4. QED
            BY <2>3, <5>2, <5>3
        <4>3. QED
          BY <4>1, <4>2
      <3>4. CASE ln.from = "cmp100_boot_ro" /\ ln.m = "REG"
        <4>1. CASE ln.cut \/ acc.open = <<>>
          BY <3>4, <4>1, <2>3 DEF FeedTop
        <4>2. CASE ~ln.cut /\ acc.open # <<>>
          <5> DEFINE r == [bdf |-> ln.bdf, reg |-> ln.reg, value |-> ln.value]
                     s == [acc.open[1] EXCEPT !.regs = Append(@, r)]
          <5>1. r \in RegsOf(text)
            BY <3>4, <4>2, <2>1 DEF RegsOf, ln
          <5>2. Append(acc.open[1].regs, r) \in Seq(RegsOf(text))
            BY <4>2, <2>6, <5>1, AppendProperties DEF Sn, SnapsOf
          <5>3. s \in Sn
            BY <4>2, <2>6, <5>2 DEF Sn, SnapsOf
          <5>4. [acc.open EXCEPT ![1] = s] \in Seq(Sn)
            BY <2>3, <2>6, <4>2, <5>3, ExceptSeq
          <5>5. FeedTop(acc, ln) = [acc EXCEPT !.open[1].regs = Append(@, r)]
            BY <3>4, <4>2 DEF FeedTop
          <5>6. FeedTop(acc, ln) = [acc EXCEPT !.open = [acc.open EXCEPT ![1] = s]]
            BY <5>5, <2>3, <2>6, <4>2 DEF Sn, SnapsOf
          <5> HIDE DEF s
          <5>7. QED
            BY <2>3, <5>4, <5>6
        <4>3. QED
          BY <4>1, <4>2
      <3>5. QED
        BY <3>1, <3>2, <3>3, <3>4, <2>4
    <2>8. QED
      BY <2>1, <2>2, <2>7 DEF acc, ln
  <1>5. L \in S
    <2> HIDE DEF S
    <2>1. 0 .. L \subseteq S
      BY <1>1, <1>3, <1>4, InductionTo
    <2>2. QED
      BY <1>1, <2>1
  <1>6. QED
    BY <1>2, <1>5

(* A selector is derived from lines of one address: one line for each word *)
(* of the table, and for what is said of PMC one more.                     *)
LEMMA SelectorLines ==
  ASSUME TopWords \in Nat, NEW text, NEW s \in SnapsOf(text), Finalize(s).selector # -1
  PROVE  /\ DecodeWords(Table(s)).open = <<>>
         /\ Finalize(s).selector = GrReset(DecodeWords(Table(s)).devices)
         /\ DOMAIN Table(s) = 1 .. TopWords
         /\ \E b :
              /\ Finalize(s).bdfs = {b}
              /\ \E r \in RegsOf(text) : r.bdf = b
              /\ \A i \in 1 .. TopWords :
                   /\ ~Table(s)[i].ones
                   /\ \E r \in RegsOf(text) :
                        r.bdf = b /\ r.reg = TopReg(i - 1) /\ r.value = Table(s)[i]
              /\ \/ Finalize(s).enabled = "unknown"
                 \/ \E r \in RegsOf(text) :
                      /\ r.bdf = b /\ r.reg = PmcReg
                      /\ Finalize(s).enabled = IF Finalize(s).selector \in r.value.bits
                                               THEN "set" ELSE "clear"
  <1>1. s.regs \in Seq(RegsOf(text))
    BY DEF SnapsOf
  <1>2. Len(s.regs) \in Nat /\ DOMAIN s.regs = 1 .. Len(s.regs)
        /\ \A i \in DOMAIN s.regs : s.regs[i] \in RegsOf(text)
    BY <1>1, LenProperties, ElementOfSeq
  <1>3. /\ InputValid(s) /\ DecodeWords(Table(s)).open = <<>>
        /\ Finalize(s).selector = GrReset(DecodeWords(Table(s)).devices)
        /\ Finalize(s).bdfs = BdfsSeen(s)
    BY DEF Finalize
  <1>4. IsFiniteSet(BdfsSeen(s))
    <2>1. IsFiniteSet(DOMAIN s.regs)
      BY <1>2, FS_Interval
    <2> DEFINE f == [i \in DOMAIN s.regs |-> s.regs[i].bdf]
    <2>2. f \in Surjection(DOMAIN s.regs, BdfsSeen(s))
      BY DEF BdfsSeen, ToSet, Surjection
    <2>3. QED
      BY <2>1, <2>2, FS_Surjection
  <1>5. PICK b : BdfsSeen(s) = {b}
    BY <1>3, <1>4, OneElement DEF InputValid
  <1>6. \A i \in DOMAIN s.regs : s.regs[i].bdf = b
    BY <1>5 DEF BdfsSeen, ToSet
  <1>7. \E r \in RegsOf(text) : r.bdf = b
    <2>1. PICK i \in DOMAIN s.regs : s.regs[i].bdf = b
      BY <1>5 DEF BdfsSeen, ToSet
    <2>2. QED
      BY <1>2, <2>1
  <1>8. ASSUME NEW reg, Cardinality(Occurrences(s, reg)) = 1
        PROVE  \E o \in DOMAIN s.regs : Occurrences(s, reg) = {o} /\ s.regs[o].reg = reg
    <2>1. Occurrences(s, reg) \subseteq 1 .. Len(s.regs)
      BY <1>2 DEF Occurrences
    <2>2. PICK o : Occurrences(s, reg) = {o}
      <3>1. IsFiniteSet(Occurrences(s, reg))
        <4>1. IsFiniteSet(1 .. Len(s.regs))
          BY <1>2, FS_Interval
        <4>2. QED
          BY <2>1, <4>1, FS_Subset
      <3>2. QED
        BY <1>8, <3>1, OneElement
    <2>3. QED
      BY <2>2 DEF Occurrences
  <1>9. ASSUME NEW i \in 1 .. TopWords
        PROVE  /\ ~Table(s)[i].ones
               /\ \E r \in RegsOf(text) :
                    r.bdf = b /\ r.reg = TopReg(i - 1) /\ r.value = Table(s)[i]
    <2>1. i - 1 \in 0 .. TopWords - 1
      OBVIOUS
    <2>2. PICK o \in DOMAIN s.regs : /\ Occurrences(s, TopReg(i - 1)) = {o}
                                     /\ s.regs[o].reg = TopReg(i - 1)
      BY <1>3, <1>8, <2>1 DEF InputValid
    <2>3. Table(s)[i] = s.regs[o].value
      BY <2>2 DEF Table
    <2>4. ~s.regs[o].value.ones
      BY <1>3, <2>1, <2>2 DEF InputValid
    <2>5. QED
      BY <1>2, <1>6, <2>2, <2>3, <2>4
  <1>10. \/ Finalize(s).enabled = "unknown"
         \/ \E r \in RegsOf(text) :
              /\ r.bdf = b /\ r.reg = PmcReg
              /\ Finalize(s).enabled = IF Finalize(s).selector \in r.value.bits
                                       THEN "set" ELSE "clear"
    <2> DEFINE sel == Finalize(s).selector
    <2>1. Finalize(s).enabled =
            IF Trusted(s, PmcReg) = {} THEN "unknown"
            ELSE IF \E v \in Trusted(s, PmcReg) : sel \in v.bits THEN "set" ELSE "clear"
      BY <1>3 DEF Finalize
    <2>2. CASE Trusted(s, PmcReg) = {}
      BY <2>1, <2>2
    <2>3. CASE Trusted(s, PmcReg) # {}
      <3>1. Cardinality(Occurrences(s, PmcReg)) = 1
        BY <2>3 DEF Trusted
      <3>2. PICK o \in DOMAIN s.regs : /\ Occurrences(s, PmcReg) = {o}
                                       /\ s.regs[o].reg = PmcReg
        BY <1>8, <3>1
      <3>3. Trusted(s, PmcReg) \subseteq {s.regs[o].value}
        BY <3>2 DEF Trusted
      <3>4. Trusted(s, PmcReg) = {s.regs[o].value}
        BY <2>3, <3>3
      <3> HIDE DEF sel
      <3>5. Finalize(s).enabled = IF sel \in s.regs[o].value.bits THEN "set" ELSE "clear"
        BY <2>1, <3>4
      <3>6. s.regs[o] \in RegsOf(text) /\ s.regs[o].bdf = b
        BY <1>2, <1>6
      <3>7. QED
        BY <3>2, <3>5, <3>6 DEF sel
    <2>4. QED
      BY <2>2, <2>3
  <1>11. DOMAIN Table(s) = 1 .. TopWords
    BY DEF Table
  <1>12. QED
    BY <1>3, <1>5, <1>7, <1>9, <1>10, <1>11

------------------------------------------------------------------------------
(* The stage decoder reads line by line in the same way.                   *)
StageChain(st, acc, t, m, n) ==
  /\ st[0] = acc /\ st[n] = ReadLines(acc, t, m, n)
  /\ \A i \in 1 .. n : st[i] = Feed(st[i - 1], t[m + i])

LEMMA StageLinesRead ==
  ASSUME NEW acc, NEW t, NEW m \in Nat, NEW n \in Nat
  PROVE  \E st : StageChain(st, acc, t, m, n)
  <1> DEFINE Reads(f, k) ==
               f = [i \in 0 .. k |-> IF i = 0 THEN acc ELSE Feed(f[i - 1], t[m + i])]
             S == {k \in Nat : \E f : Reads(f, k)}
  <1>1. 0 \in S
    <2>1. Reads([i \in 0 .. 0 |-> acc], 0)
      OBVIOUS
    <2>2. QED
      BY <2>1
  <1>2. ASSUME NEW k \in Nat, k \in S PROVE k + 1 \in S
    <2>1. PICK f : Reads(f, k)
      BY <1>2
    <2> DEFINE g == [i \in 0 .. k + 1 |-> IF i = k + 1 THEN Feed(f[k], t[m + (k + 1)]) ELSE f[i]]
    <2>2. ASSUME NEW i \in 0 .. k + 1
          PROVE  g[i] = IF i = 0 THEN acc ELSE Feed(g[i - 1], t[m + i])
      <3>1. CASE i = k + 1
        BY <3>1
      <3>2. CASE i \in 0 .. k
        <4>1. f[i] = IF i = 0 THEN acc ELSE Feed(f[i - 1], t[m + i])
          BY <2>1, <3>2
        <4>2. g[i] = f[i] /\ (i # 0 => g[i - 1] = f[i - 1])
          BY <3>2
        <4>3. QED
          BY <4>1, <4>2
      <3>3. QED
        BY <3>1, <3>2
    <2>3. Reads(g, k + 1)
      BY <2>2
    <2> HIDE DEF g
    <2>4. QED
      BY <2>3
  <1>3. PICK f : Reads(f, n)
    <2> HIDE DEF S
    <2>1. n \in S
      BY <1>1, <1>2, Induction
    <2> USE DEF S
    <2>2. QED
      BY <2>1, Zenon
  <1> DEFINE read == CHOOSE g : Reads(g, n)
  <1>4. Reads(read, n)
    BY <1>3, Zenon
  <1>5. ReadLines(acc, t, m, n) = read[n]
    BY DEF ReadLines
  <1> HIDE DEF read
  <1>6. read[0] = acc /\ \A i \in 1 .. n : read[i] = Feed(read[i - 1], t[m + i])
    BY <1>4
  <1>7. StageChain(read, acc, t, m, n)
    BY <1>5, <1>6 DEF StageChain
  <1>8. QED
    BY <1>7

StageUpto(t, m, acc) ==
  \E st : /\ st[0] = Begun /\ st[m] = acc
          /\ \A i \in 1 .. m : st[i] = Feed(st[i - 1], t[i])

LEMMA StageMore ==
  ASSUME NEW t, NEW m \in Nat, NEW n \in Nat, NEW acc, StageUpto(t, m, acc)
  PROVE  StageUpto(t, m + n, ReadLines(acc, t, m, n))
  <1> DEFINE next == ReadLines(acc, t, m, n)
  <1>1. PICK f : /\ f[0] = Begun /\ f[m] = acc
                 /\ \A i \in 1 .. m : f[i] = Feed(f[i - 1], t[i])
    BY DEF StageUpto
  <1>2. PICK g : /\ g[0] = acc /\ g[n] = next
                 /\ \A i \in 1 .. n : g[i] = Feed(g[i - 1], t[m + i])
    <2>1. PICK g : StageChain(g, acc, t, m, n)
      BY StageLinesRead, Zenon
    <2>2. QED
      BY <2>1 DEF StageChain
  <1> HIDE DEF next
  <1> DEFINE st == [i \in 0 .. m + n |-> IF i <= m THEN f[i] ELSE g[i - m]]
  <1>3. \A i \in 0 .. m : st[i] = f[i]
    OBVIOUS
  <1>4. \A i \in 0 .. n : st[m + i] = g[i]
    <2> TAKE i \in 0 .. n
    <2>1. CASE i = 0
      BY <1>1, <1>2, <1>3, <2>1
    <2>2. CASE i # 0
      BY <2>2
    <2>3. QED
      BY <2>1, <2>2
  <1> HIDE DEF st
  <1>5. st[0] = Begun /\ st[m + n] = next
    BY <1>1, <1>2, <1>3, <1>4
  <1>6. ASSUME NEW i \in 1 .. m + n PROVE st[i] = Feed(st[i - 1], t[i])
    <2>1. CASE i <= m
      <3>1. i \in 1 .. m /\ i \in 0 .. m /\ i - 1 \in 0 .. m
        BY <2>1
      <3>2. QED
        BY <1>1, <1>3, <3>1
    <2>2. CASE ~(i <= m)
      <3> DEFINE k == i - m
      <3>1. k \in 1 .. n /\ k \in 0 .. n /\ k - 1 \in 0 .. n /\ m + k = i /\ m + (k - 1) = i - 1
        BY <2>2
      <3> HIDE DEF k
      <3>2. st[m + k] = g[k] /\ st[m + (k - 1)] = g[k - 1] /\ g[k] = Feed(g[k - 1], t[m + k])
        BY <1>2, <1>4, <3>1
      <3>3. QED
        BY <3>1, <3>2
    <2>3. QED
      BY <2>1, <2>2
  <1>7. StageUpto(t, m + n, next)
    BY <1>5, <1>6 DEF StageUpto
  <1>8. QED
    BY <1>7 DEF next

LEMMA StagePieces ==
  ASSUME NEW t, NEW n \in Nat
  PROVE  LET read[k \in 0 .. n] ==
               IF k = 0 THEN <<Begun>>
               ELSE [read[k - 1] EXCEPT ![1] = ReadLines(@, t, StagePiece * (k - 1), StagePiece)]
         IN  StageUpto(t, StagePiece * n, read[n][1])
  <1> DEFINE Step(r, k) == [r EXCEPT ![1] = ReadLines(@, t, StagePiece * (k - 1), StagePiece)]
             Reads(f, j) == f = [k \in 0 .. j |-> IF k = 0 THEN <<Begun>> ELSE Step(f[k - 1], k)]
             S == {j \in Nat : \E f : Reads(f, j)}
  <1>1. ASSUME NEW a, NEW k \in Nat, StageUpto(t, StagePiece * k, a)
        PROVE  \E b : Step(<<a>>, k + 1) = <<b>> /\ StageUpto(t, StagePiece * (k + 1), b)
    <2> DEFINE b == ReadLines(a, t, StagePiece * k, StagePiece)
    <2>1. StageUpto(t, StagePiece * k + StagePiece, b)
      BY <1>1, StageMore DEF StagePiece
    <2>2. StagePiece * k + StagePiece = StagePiece * (k + 1) /\ (k + 1) - 1 = k
      BY DEF StagePiece
    <2>3. Step(<<a>>, k + 1) = <<b>>
      <3>1. Step(<<a>>, k + 1) = [<<a>> EXCEPT ![1] = b]
        BY <2>2
      <3> HIDE DEF b, Step
      <3>2. QED
        BY <3>1
    <2> HIDE DEF b, Step
    <2>4. QED
      BY <2>1, <2>2, <2>3
  <1> HIDE DEF Step
  <1>2. 0 \in S
    <2>1. Reads([k \in 0 .. 0 |-> <<Begun>>], 0)
      OBVIOUS
    <2>2. QED
      BY <2>1
  <1>3. ASSUME NEW j \in Nat, j \in S PROVE j + 1 \in S
    <2>1. PICK f : Reads(f, j)
      BY <1>3
    <2> DEFINE g == [k \in 0 .. j + 1 |-> IF k = j + 1 THEN Step(f[j], j + 1) ELSE f[k]]
    <2>2. ASSUME NEW k \in 0 .. j + 1
          PROVE  g[k] = IF k = 0 THEN <<Begun>> ELSE Step(g[k - 1], k)
      <3>1. CASE k = j + 1
        BY <3>1
      <3>2. CASE k \in 0 .. j
        <4>1. f[k] = IF k = 0 THEN <<Begun>> ELSE Step(f[k - 1], k)
          BY <2>1, <3>2
        <4>2. g[k] = f[k] /\ (k # 0 => g[k - 1] = f[k - 1])
          BY <3>2
        <4>3. QED
          BY <4>1, <4>2
      <3>3. QED
        BY <3>1, <3>2
    <2>3. Reads(g, j + 1)
      BY <2>2
    <2> HIDE DEF g
    <2>4. QED
      BY <2>3
  <1>4. PICK f : Reads(f, n)
    <2> HIDE DEF S
    <2>1. n \in S
      BY <1>2, <1>3, Induction
    <2> USE DEF S
    <2>2. QED
      BY <2>1, Zenon
  <1> DEFINE read == CHOOSE g : Reads(g, n)
  <1>5. Reads(read, n)
    BY <1>4, Zenon
  <1> HIDE DEF read
  <1>6. read[0] = <<Begun>> /\ \A k \in 1 .. n : read[k] = Step(read[k - 1], k)
    BY <1>5
  <1> DEFINE Good(k) == \E a : read[k] = <<a>> /\ StageUpto(t, StagePiece * k, a)
             G == {k \in 0 .. n : Good(k)}
  <1>7. 0 \in G
    <2>1. StageUpto(t, 0, Begun)
      <3> DEFINE st == [i \in 0 .. 0 |-> Begun]
      <3>1. st[0] = Begun /\ \A i \in 1 .. 0 : st[i] = Feed(st[i - 1], t[i])
        OBVIOUS
      <3> HIDE DEF st
      <3>2. QED
        BY <3>1 DEF StageUpto
    <2>2. StagePiece * 0 = 0
      BY DEF StagePiece
    <2>3. QED
      BY <1>6, <2>1, <2>2
  <1>8. ASSUME NEW k \in 0 .. n - 1, k \in G PROVE k + 1 \in G
    <2>1. k \in Nat /\ k + 1 \in 1 .. n /\ k + 1 \in 0 .. n /\ (k + 1) - 1 = k
      OBVIOUS
    <2>2. PICK a : read[k] = <<a>> /\ StageUpto(t, StagePiece * k, a)
      BY <1>8
    <2>3. read[k + 1] = Step(<<a>>, k + 1)
      BY <1>6, <2>1, <2>2
    <2>4. QED
      BY <1>1, <2>1, <2>2, <2>3
  <1>9. n \in G
    <2> HIDE DEF G
    <2>1. 0 .. n \subseteq G
      BY <1>7, <1>8, InductionTo
    <2>2. QED
      BY <2>1
  <1>10. StageUpto(t, StagePiece * n, read[n][1])
    BY <1>9
  <1>11. QED
    BY <1>10 DEF read, Step

LEMMA StagesRead ==
  ASSUME NEW t, Len(t) \in Nat
  PROVE  \E read : /\ ReadStages(t) = read[Len(t)]
                   /\ read[0] = Begun
                   /\ \A i \in 1 .. Len(t) : read[i] = Feed(read[i - 1], t[i])
  <1> DEFINE n == Len(t) \div StagePiece
             rest == Len(t) - StagePiece * n
  <1>1. n \in Nat /\ rest \in Nat /\ StagePiece * n \in Nat /\ StagePiece * n + rest = Len(t)
    BY DEF StagePiece
  <1> DEFINE pieces[k \in 0 .. n] ==
               IF k = 0 THEN <<Begun>>
               ELSE [pieces[k - 1] EXCEPT ![1] = ReadLines(@, t, StagePiece * (k - 1), StagePiece)]
  <1>2. StageUpto(t, StagePiece * n, pieces[n][1])
    <2> HIDE DEF n
    <2> QED BY <1>1, StagePieces
  <1>3. ReadStages(t) = ReadLines(pieces[n][1], t, StagePiece * n, rest)
    BY DEF ReadStages
  <1> HIDE DEF pieces, n, rest
  <1>4. StageUpto(t, Len(t), ReadStages(t))
    BY <1>1, <1>2, <1>3, StageMore
  <1>5. QED
    BY <1>4 DEF StageUpto

(* The runs that can be put together from the lines after b up to i, b     *)
(* being where the run begins: every stage, every value and every missed   *)
(* counter is of one of the lines, a value is with the stage whose         *)
(* sequence number it has, and every counter that is there is counted.     *)
Ours(ln) == ln.from = "cmp100_stage_ro"
Within(text, b, i, m) == {p \in b + 1 .. i : Ours(text[p]) /\ text[p].m = m /\ ~text[p].cut}
ValuesIn(text, b, i, seq) ==
  {[reg |-> text[p].reg, value |-> text[p].value] :
     p \in {p \in Within(text, b, i, "VALUE") : text[p].seq = seq}}
StageWith(ln, values) == [seq |-> ln.seq, name |-> ln.name, rc |-> ln.rc, post |-> ln.post,
                          invalid |-> ln.invalid, values |-> values]
StageAt(text, b, i, p) ==
  {StageWith(text[p], values) : values \in Seq(ValuesIn(text, b, i, text[p].seq))}
StagesIn(text, b, i) == UNION {StageAt(text, b, i, p) : p \in Within(text, b, i, "STAGE")}
MissedIn(text, b, i) ==
  {[symbol |-> text[p].symbol, n |-> text[p].n] : p \in Within(text, b, i, "MISSED")}
Counted(missed, text, b, i) ==
  \E at \in [Within(text, b, i, "MISSED") -> DOMAIN missed] :
    \A p, q \in Within(text, b, i, "MISSED") :
      missed[at[p]].symbol = text[p].symbol /\ (at[p] = at[q] => p = q)

Record(V, stages, missed) ==
  [begin : V, end : V, records : V, dropped : V, pmu : V, armed : V,
   stages : Seq(stages), missed : Seq(missed), orphans : Int, unparsed : Int,
   complete : BOOLEAN]
RunsIn(text, V, b, i) ==
  {run \in Record(V, StagesIn(text, b, i), MissedIn(text, b, i)) :
     /\ run.begin = Field(text[b])
     /\ ~text[b].cut => /\ run.records = text[b].records
                        /\ run.dropped = text[b].dropped
     /\ Counted(run.missed, text, b, i)}

(* From one BEGIN to the next delimiter.                                   *)
Stretch(text, b, i) ==
  /\ b \in 1 .. i /\ Ours(text[b]) /\ text[b].m = "BEGIN"
  /\ \A p \in b + 1 .. i : Ours(text[p]) => text[p].m \notin {"BEGIN", "END"}

(* A run with its END.                                                     *)
WholeRun(text, V, run, b, e) ==
  /\ b < e /\ Stretch(text, b, e - 1) /\ Ours(text[e]) /\ text[e].m = "END"
  /\ run \in RunsIn(text, V, b, e - 1) /\ run.end = Field(text[e])

(* Lines as the collector writes them, with values in V.                   *)
StageLog(text, V) ==
  /\ Len(text) \in Nat /\ {"none", -1, 0} \subseteq V
  /\ \A p \in 1 .. Len(text) : Ours(text[p]) =>
       /\ text[p].m \in {"ARMED", "BEGIN", "STAGE", "VALUE", "MISSED", "END"}
       /\ ~text[p].cut =>
            /\ text[p].m = "ARMED" => text[p].bdf \in Bdfs /\ text[p].type \in V
            /\ text[p].m = "BEGIN" => /\ text[p].bdf \in Bdfs /\ text[p].bdf \in V
                                      /\ text[p].records \in V /\ text[p].dropped \in V
                                      /\ text[p].pmu \in V
            /\ text[p].m = "END" => text[p].bdf \in V

(* One line more.                                                          *)
LEMMA Grows ==
  ASSUME NEW text, NEW b \in Nat, NEW i \in Nat
  PROVE  /\ \A m : Within(text, b, i, m) \subseteq Within(text, b, i + 1, m)
         /\ \A seq : ValuesIn(text, b, i, seq) \subseteq ValuesIn(text, b, i + 1, seq)
         /\ StagesIn(text, b, i) \subseteq StagesIn(text, b, i + 1)
         /\ MissedIn(text, b, i) \subseteq MissedIn(text, b, i + 1)
  <1>1. \A m : Within(text, b, i, m) \subseteq Within(text, b, i + 1, m)
    BY DEF Within
  <1>2. \A seq : ValuesIn(text, b, i, seq) \subseteq ValuesIn(text, b, i + 1, seq)
    BY <1>1 DEF ValuesIn
  <1>3. MissedIn(text, b, i) \subseteq MissedIn(text, b, i + 1)
    BY <1>1 DEF MissedIn
  <1>4. \A p : StageAt(text, b, i, p) \subseteq StageAt(text, b, i + 1, p)
    <2> TAKE p
    <2>1. Seq(ValuesIn(text, b, i, text[p].seq)) \subseteq Seq(ValuesIn(text, b, i + 1, text[p].seq))
      BY <1>2, SeqMonotonic
    <2>2. QED
      BY <2>1 DEF StageAt
  <1>5. StagesIn(text, b, i) \subseteq StagesIn(text, b, i + 1)
    BY <1>1, <1>4 DEF StagesIn
  <1>6. QED
    BY <1>1, <1>2, <1>3, <1>5

(* A line that adds no counter.                                            *)
LEMMA StillCounted ==
  ASSUME NEW text, NEW b \in Nat, NEW i \in Nat, NEW missed, Counted(missed, text, b, i),
         ~Ours(text[i + 1]) \/ text[i + 1].m # "MISSED" \/ text[i + 1].cut
  PROVE  Counted(missed, text, b, i + 1)
  <1>1. Within(text, b, i + 1, "MISSED") = Within(text, b, i, "MISSED")
    BY DEF Within
  <1>2. QED
    BY <1>1 DEF Counted

LEMMA StillIn ==
  ASSUME NEW text, NEW V, NEW b \in Nat, NEW i \in Nat, NEW run \in RunsIn(text, V, b, i),
         ~Ours(text[i + 1]) \/ text[i + 1].m # "MISSED" \/ text[i + 1].cut
  PROVE  run \in RunsIn(text, V, b, i + 1)
  <1>1. Seq(StagesIn(text, b, i)) \subseteq Seq(StagesIn(text, b, i + 1))
        /\ Seq(MissedIn(text, b, i)) \subseteq Seq(MissedIn(text, b, i + 1))
    BY Grows, SeqMonotonic
  <1>2. run \in Record(V, StagesIn(text, b, i + 1), MissedIn(text, b, i + 1))
    BY <1>1 DEF RunsIn, Record
  <1>3. Counted(run.missed, text, b, i + 1)
    BY StillCounted DEF RunsIn
  <1>4. QED
    BY <1>2, <1>3 DEF RunsIn

LEMMA CutKept ==
  ASSUME NEW text, NEW V, NEW b \in Nat, NEW i \in Nat, NEW run \in RunsIn(text, V, b, i),
         text[i + 1].cut
  PROVE  /\ Unparsed(run) \in RunsIn(text, V, b, i + 1)
         /\ Unparsed(run).complete = run.complete
  <1>1. run \in RunsIn(text, V, b, i + 1)
    BY StillIn
  <1> DEFINE X == StagesIn(text, b, i + 1)
             Y == MissedIn(text, b, i + 1)
  <1>2. run \in Record(V, X, Y)
    BY <1>1 DEF RunsIn
  <1> HIDE DEF X, Y
  <1>3. /\ Unparsed(run) \in Record(V, X, Y)
        /\ Unparsed(run).begin = run.begin /\ Unparsed(run).records = run.records
        /\ Unparsed(run).dropped = run.dropped /\ Unparsed(run).missed = run.missed
        /\ Unparsed(run).complete = run.complete
    <2> DEFINE new == Unparsed(run)
    <2>1. new = [run EXCEPT !.unparsed = run.unparsed + 1]
      BY DEF Unparsed
    <2>2. run.unparsed + 1 \in Int
      BY <1>2 DEF Record
    <2> DEFINE more == run.unparsed + 1
    <2> HIDE DEF new, more
    <2>3. new = [run EXCEPT !.unparsed = more] /\ more \in Int
      BY <2>1, <2>2 DEF more
    <2>4. new \in Record(V, X, Y)
      BY <1>2, <2>3 DEF Record
    <2>5. /\ new.begin = run.begin /\ new.records = run.records
          /\ new.dropped = run.dropped /\ new.missed = run.missed
          /\ new.complete = run.complete
      BY <1>2, <2>3 DEF Record
    <2>6. QED
      BY <2>4, <2>5 DEF new
  <1>4. QED
    BY <1>1, <1>3 DEF RunsIn, X, Y

LEMMA StageKept ==
  ASSUME NEW text, NEW V, NEW b \in Nat, NEW i \in Nat, b <= i,
         NEW run \in RunsIn(text, V, b, i), Ours(text[i + 1]), text[i + 1].m = "STAGE"
  PROVE  /\ OnStage(run, text[i + 1]) \in RunsIn(text, V, b, i + 1)
         /\ OnStage(run, text[i + 1]).complete = run.complete
  <1> DEFINE ln == text[i + 1]
             X == StagesIn(text, b, i + 1)
             Y == MissedIn(text, b, i + 1)
             s == StageWith(ln, <<>>)
             new == [run EXCEPT !.stages = Append(@, s)]
  <1>1. CASE ln.cut
    BY <1>1, CutKept DEF OnStage
  <1>2. CASE ~ln.cut
    <2>1. run \in RunsIn(text, V, b, i + 1)
      BY StillIn
    <2>2. s \in X
      <3>1. i + 1 \in Within(text, b, i + 1, "STAGE")
        BY <1>2 DEF Within
      <3>2. <<>> \in Seq(ValuesIn(text, b, i + 1, ln.seq))
        BY EmptySeq
      <3>3. s \in StageAt(text, b, i + 1, i + 1)
        BY <3>2 DEF StageAt
      <3>4. QED
        BY <3>1, <3>3 DEF StagesIn
    <2>3. run \in Record(V, X, Y)
      BY <2>1 DEF RunsIn
    <2>4. OnStage(run, ln) = new
      BY <1>2 DEF OnStage, StageWith
    <2> HIDE DEF X, Y, s
    <2>5. Append(run.stages, s) \in Seq(X)
      BY <2>2, <2>3, AppendProperties DEF Record
    <2>6. /\ new \in Record(V, X, Y)
          /\ new.begin = run.begin /\ new.records = run.records
          /\ new.dropped = run.dropped /\ new.missed = run.missed
          /\ new.complete = run.complete
      BY <2>3, <2>5 DEF Record
    <2> HIDE DEF new
    <2>7. QED
      BY <2>1, <2>4, <2>6 DEF RunsIn, X, Y
  <1>3. QED
    BY <1>1, <1>2

LEMMA ValueAdded ==
  ASSUME NEW ln, NEW values, NEW new, NEW s, s = StageWith(ln, values)
  PROVE  s.values = values /\ [s EXCEPT !.values = new] = StageWith(ln, new)
  BY DEF StageWith

LEMMA ValueKept ==
  ASSUME NEW text, NEW V, NEW b \in Nat, NEW i \in Nat, b <= i,
         NEW run \in RunsIn(text, V, b, i), Ours(text[i + 1]), text[i + 1].m = "VALUE"
  PROVE  /\ OnValue(run, text[i + 1]) \in RunsIn(text, V, b, i + 1)
         /\ OnValue(run, text[i + 1]).complete = run.complete
  <1> DEFINE ln == text[i + 1]
             X == StagesIn(text, b, i + 1)
             Y == MissedIn(text, b, i + 1)
             S == {k \in DOMAIN run.stages : run.stages[k].seq = ln.seq}
             k == CHOOSE k \in S : TRUE
             v == [reg |-> ln.reg, value |-> ln.value]
             s == [run.stages[k] EXCEPT !.values = Append(@, v)]
             new == [run EXCEPT !.stages = [run.stages EXCEPT ![k] = s]]
  <1>1. run \in RunsIn(text, V, b, i + 1)
    BY StillIn
  <1>2. run \in Record(V, X, Y)
    BY <1>1 DEF RunsIn
  <1>3. CASE ln.cut
    BY <1>3, CutKept DEF OnValue
  <1>4. CASE ~ln.cut /\ Cardinality(S) # 1
    <2>1. OnValue(run, ln) = [run EXCEPT !.orphans = @ + 1]
      BY <1>4 DEF OnValue
    <2> HIDE DEF X, Y, S, k, v, s, new
    <2>2. /\ OnValue(run, ln) \in Record(V, X, Y)
          /\ OnValue(run, ln).begin = run.begin /\ OnValue(run, ln).records = run.records
          /\ OnValue(run, ln).dropped = run.dropped /\ OnValue(run, ln).missed = run.missed
          /\ OnValue(run, ln).complete = run.complete
      BY <1>2, <2>1 DEF Record
    <2>3. QED
      BY <1>1, <2>2 DEF RunsIn, X, Y
  <1>5. CASE ~ln.cut /\ Cardinality(S) = 1
    <2>1. k \in S
      <3> HIDE DEF S
      <3>1. S # {}
        BY <1>5, NotEmpty
      <3>2. QED
        BY <3>1
    <2>2. /\ run.stages \in Seq(X) /\ DOMAIN run.stages = 1 .. Len(run.stages)
          /\ k \in 1 .. Len(run.stages) /\ run.stages[k].seq = ln.seq /\ run.stages[k] \in X
      <3>1. run.stages \in Seq(X)
        BY <1>2 DEF Record
      <3>2. k \in DOMAIN run.stages /\ run.stages[k].seq = ln.seq
        BY <2>1
      <3> HIDE DEF X, S, k
      <3>3. QED
        BY <3>1, <3>2, LenProperties, ElementOfSeq
    <2>3. OnValue(run, ln) = new
      <3>1. OnValue(run, ln) = [run EXCEPT !.stages[k].values = Append(@, v)]
        BY <1>5 DEF OnValue
      <3> HIDE DEF v, k, S, X, Y
      <3>2. QED
        BY <1>2, <2>2, <3>1 DEF Record
    <2>4. s \in X
      <3>1. PICK p \in Within(text, b, i + 1, "STAGE") : run.stages[k] \in StageAt(text, b, i + 1, p)
        BY <2>2 DEF StagesIn
      <3>2. PICK values \in Seq(ValuesIn(text, b, i + 1, text[p].seq)) :
              run.stages[k] = StageWith(text[p], values)
        BY <3>1 DEF StageAt
      <3>3. text[p].seq = ln.seq
        BY <2>2, <3>2 DEF StageWith
      <3>4. i + 1 \in Within(text, b, i + 1, "VALUE")
        BY <1>5 DEF Within
      <3>5. v \in ValuesIn(text, b, i + 1, text[p].seq)
        BY <3>3, <3>4 DEF ValuesIn
      <3>6. s = StageWith(text[p], Append(values, v))
        <4> DEFINE old == run.stages[k]
        <4> HIDE DEF v, old
        <4>1. old = StageWith(text[p], values)
          BY <3>2 DEF old
        <4> DEFINE more == Append(values, v)
        <4>2. old.values = values /\ [old EXCEPT !.values = more] = StageWith(text[p], more)
          <5> HIDE DEF more
          <5> QED BY <4>1, ValueAdded
        <4>3. s = [old EXCEPT !.values = Append(old.values, v)]
          BY DEF old
        <4>4. QED
          BY <4>2, <4>3
      <3>7. Append(values, v) \in Seq(ValuesIn(text, b, i + 1, text[p].seq))
        <4> HIDE DEF v
        <4> QED BY <3>2, <3>5, AppendProperties
      <3>8. s \in StageAt(text, b, i + 1, p)
        <4> HIDE DEF s, v
        <4> QED BY <3>6, <3>7 DEF StageAt
      <3>9. QED
        <4> HIDE DEF s
        <4> QED BY <3>1, <3>8 DEF StagesIn
    <2> HIDE DEF X, Y, S, k, v, s
    <2>5. [run.stages EXCEPT ![k] = s] \in Seq(X)
      BY <2>2, <2>4, ExceptSeq
    <2>6. /\ new \in Record(V, X, Y)
          /\ new.begin = run.begin /\ new.records = run.records
          /\ new.dropped = run.dropped /\ new.missed = run.missed
          /\ new.complete = run.complete
      BY <1>2, <2>5 DEF Record
    <2> HIDE DEF new
    <2>7. QED
      BY <1>1, <2>3, <2>6 DEF RunsIn, X, Y
  <1>6. QED
    BY <1>3, <1>4, <1>5

LEMMA MissedKept ==
  ASSUME NEW text, NEW V, NEW b \in Nat, NEW i \in Nat, b <= i,
         NEW run \in RunsIn(text, V, b, i), Ours(text[i + 1]), text[i + 1].m = "MISSED"
  PROVE  /\ OnMissed(run, text[i + 1]) \in RunsIn(text, V, b, i + 1)
         /\ OnMissed(run, text[i + 1]).complete = run.complete
  <1> DEFINE ln == text[i + 1]
             X == StagesIn(text, b, i + 1)
             Y == MissedIn(text, b, i + 1)
             c == [symbol |-> ln.symbol, n |-> ln.n]
             new == [run EXCEPT !.missed = Append(@, c)]
             old == run.missed
             W == Within(text, b, i, "MISSED")
  <1>1. CASE ln.cut
    BY <1>1, CutKept DEF OnMissed
  <1>2. CASE ~ln.cut
    <2>1. OnMissed(run, ln) = new
      BY <1>2 DEF OnMissed
    <2>2. run \in Record(V, X, Y)
      <3>1. Seq(StagesIn(text, b, i)) \subseteq Seq(X) /\ Seq(MissedIn(text, b, i)) \subseteq Seq(Y)
        BY Grows, SeqMonotonic
      <3>2. QED
        BY <3>1 DEF RunsIn, Record
    <2>3. Within(text, b, i + 1, "MISSED") = W \cup {i + 1} /\ i + 1 \notin W
      BY <1>2 DEF Within
    <2>4. c \in Y
      BY <2>3 DEF MissedIn
    <2>5. PICK at \in [W -> DOMAIN old] :
            \A p, q \in W : old[at[p]].symbol = text[p].symbol /\ (at[p] = at[q] => p = q)
      BY DEF RunsIn, Counted
    <2> DEFINE m == Append(old, c)
               n == Len(old)
               more == [p \in W \cup {i + 1} |-> IF p = i + 1 THEN n + 1 ELSE at[p]]
    <2> HIDE DEF X, Y, c
    <2>6. /\ old \in Seq(Y) /\ DOMAIN old = 1 .. n /\ n \in Nat
          /\ m \in Seq(Y) /\ DOMAIN m = 1 .. n + 1 /\ m[n + 1] = c
          /\ \A k \in 1 .. n : m[k] = old[k]
      <3>1. old \in Seq(Y)
        BY <2>2 DEF Record
      <3> HIDE DEF old
      <3>2. QED
        BY <2>4, <3>1, AppendProperties, LenProperties
    <2>7. Counted(m, text, b, i + 1)
      <3> HIDE DEF W, m, n
      <3>1. \A p \in W : at[p] \in 1 .. n
        BY <2>5, <2>6
      <3>2. more \in [W \cup {i + 1} -> DOMAIN m]
        BY <2>6, <3>1
      <3>3. \A p \in W : more[p] = at[p]
        BY <2>3
      <3>4. more[i + 1] = n + 1
        OBVIOUS
      <3>5. ASSUME NEW p \in W \cup {i + 1} PROVE m[more[p]].symbol = text[p].symbol
        <4>1. CASE p = i + 1
          BY <2>6, <3>4, <4>1 DEF c
        <4>2. CASE p \in W
          BY <2>5, <2>6, <3>1, <3>3, <4>2
        <4>3. QED
          BY <4>1, <4>2
      <3>6. ASSUME NEW p \in W \cup {i + 1}, NEW q \in W \cup {i + 1}, more[p] = more[q]
            PROVE  p = q
        <4> HIDE DEF more
        <4>1. CASE p \in W /\ q \in W
          BY <2>5, <3>3, <3>6, <4>1
        <4>2. CASE p \in W /\ q = i + 1
          BY <2>6, <3>1, <3>3, <3>4, <3>6, <4>2
        <4>3. CASE p = i + 1 /\ q \in W
          BY <2>6, <3>1, <3>3, <3>4, <3>6, <4>3
        <4>4. QED
          BY <4>1, <4>2, <4>3
      <3> HIDE DEF more
      <3>7. QED
        BY <2>3, <3>2, <3>5, <3>6 DEF Counted
    <2> HIDE DEF m, n, W
    <2>8. /\ new \in Record(V, X, Y)
          /\ new.begin = run.begin /\ new.records = run.records
          /\ new.dropped = run.dropped /\ new.missed = m
          /\ new.complete = run.complete
      BY <2>2, <2>6 DEF Record, m
    <2> HIDE DEF new
    <2>9. QED
      BY <2>1, <2>7, <2>8 DEF RunsIn, X, Y
  <1>3. QED
    BY <1>1, <1>2

(* What the decoder has read after i lines.                                *)
RunsOf(text, V) ==
  {run \in UNION {RunsIn(text, V, b, i) : b \in 1 .. Len(text), i \in 1 .. Len(text)} :
     run.complete => \E b, e \in 1 .. Len(text) : WholeRun(text, V, run, b, e)}
OpenAt(text, V, run, i) ==
  /\ ~run.complete
  /\ \E b \in 1 .. i : Stretch(text, b, i) /\ run \in RunsIn(text, V, b, i)
ReadAt(text, V, acc, i) ==
  /\ acc \in [runs : Seq(RunsOf(text, V)), open : Seq(RunsOf(text, V)), armed : [Bdfs -> V]]
  /\ acc.open = <<>> \/ \E run : acc.open = <<run>> /\ OpenAt(text, V, run, i)

LEMMA OpenIsOf ==
  ASSUME NEW text, NEW V, NEW i \in 1 .. Len(text), NEW run, OpenAt(text, V, run, i)
  PROVE  run \in RunsOf(text, V)
  BY DEF OpenAt, RunsOf

LEMMA BeginRead ==
  ASSUME NEW text, NEW V, StageLog(text, V), NEW i \in 0 .. Len(text) - 1,
         NEW armed \in [Bdfs -> V], Ours(text[i + 1]), text[i + 1].m = "BEGIN"
  PROVE  OpenAt(text, V, NewRun(text[i + 1], armed), i + 1)
  <1> DEFINE ln == text[i + 1]
             b == i + 1
             run == NewRun(ln, armed)
             X == StagesIn(text, b, b)
             Y == MissedIn(text, b, b)
  <1>1. Len(text) \in Nat /\ b \in 1 .. Len(text) /\ {"none", -1, 0} \subseteq V
        /\ b \in 1 .. b /\ b + 1 .. b = {}
    BY DEF StageLog
  <1>2. ~ln.cut => /\ ln.bdf \in Bdfs /\ ln.bdf \in V /\ ln.records \in V
                   /\ ln.dropped \in V /\ ln.pmu \in V
    BY <1>1 DEF StageLog
  <1>3. <<>> \in Seq(X) /\ <<>> \in Seq(Y)
    BY EmptySeq
  <1>4. Counted(<<>>, text, b, b)
    <2>1. Within(text, b, b, "MISSED") = {}
      BY <1>1 DEF Within
    <2>2. [p \in {} |-> p] \in [{} -> DOMAIN <<>>]
      OBVIOUS
    <2>3. QED
      BY <2>1, <2>2 DEF Counted
  <1> HIDE DEF X, Y
  <1>5. /\ run \in Record(V, X, Y) /\ run.begin = Field(ln) /\ ~run.complete
        /\ ~ln.cut => run.records = ln.records /\ run.dropped = ln.dropped
        /\ run.missed = <<>>
    <2>1. CASE ln.cut
      BY <1>1, <1>3, <2>1 DEF NewRun, Record, Field
    <2>2. CASE ~ln.cut
      <3>1. armed[ln.bdf] \in V
        BY <1>2, <2>2
      <3>2. QED
        BY <1>1, <1>2, <1>3, <2>2, <3>1 DEF NewRun, Record, Field
    <2>3. QED
      BY <2>1, <2>2
  <1> HIDE DEF run
  <1>6. run \in RunsIn(text, V, b, b)
    BY <1>4, <1>5 DEF RunsIn, X, Y
  <1>7. Stretch(text, b, b)
    BY <1>1 DEF Stretch
  <1>8. QED
    BY <1>1, <1>5, <1>6, <1>7 DEF OpenAt, run

(* The open run goes on over a line that is not a delimiter.               *)
LEMMA OpenKept ==
  ASSUME NEW text, NEW V, NEW i \in 0 .. Len(text) - 1, NEW run, OpenAt(text, V, run, i), NEW new,
         new.complete = run.complete,
         \A b \in 1 .. i : run \in RunsIn(text, V, b, i) => new \in RunsIn(text, V, b, i + 1),
         Ours(text[i + 1]) => text[i + 1].m \notin {"BEGIN", "END"}
  PROVE  OpenAt(text, V, new, i + 1)
  <1>1. PICK b \in 1 .. i : Stretch(text, b, i) /\ run \in RunsIn(text, V, b, i)
    BY DEF OpenAt
  <1>2. b \in 1 .. i + 1 /\ \A p \in b + 1 .. i + 1 : p \in b + 1 .. i \/ p = i + 1
    OBVIOUS
  <1>3. Stretch(text, b, i + 1)
    BY <1>1, <1>2 DEF Stretch
  <1>4. QED
    BY <1>1, <1>2, <1>3 DEF OpenAt

LEMMA EndRead ==
  ASSUME NEW text, NEW V, StageLog(text, V), NEW i \in 0 .. Len(text) - 1, NEW run,
         OpenAt(text, V, run, i), Ours(text[i + 1]), text[i + 1].m = "END"
  PROVE  OnEnd(run, text[i + 1]) \in RunsOf(text, V)
  <1> DEFINE ln == text[i + 1]
             new == OnEnd(run, ln)
  <1>1. PICK b \in 1 .. i : Stretch(text, b, i) /\ run \in RunsIn(text, V, b, i)
    BY DEF OpenAt
  <1> DEFINE X == StagesIn(text, b, i)
             Y == MissedIn(text, b, i)
  <1>2. Field(ln) \in V
    BY DEF StageLog, Field
  <1>3. run \in Record(V, X, Y)
    BY <1>1 DEF RunsIn
  <1> HIDE DEF X, Y
  <1>4. /\ new \in Record(V, X, Y) /\ new.end = Field(ln)
        /\ new.begin = run.begin /\ new.records = run.records
        /\ new.dropped = run.dropped /\ new.missed = run.missed
    BY <1>2, <1>3 DEF Record, OnEnd, Field
  <1> HIDE DEF new
  <1>5. new \in RunsIn(text, V, b, i)
    BY <1>1, <1>4 DEF RunsIn, X, Y
  <1>6. (i + 1) - 1 = i /\ b < i + 1 /\ b \in 1 .. Len(text) /\ i + 1 \in 1 .. Len(text)
        /\ i \in 1 .. Len(text)
    BY DEF StageLog
  <1>7. WholeRun(text, V, new, b, i + 1)
    BY <1>1, <1>4, <1>5, <1>6 DEF WholeRun
  <1>8. QED
    BY <1>5, <1>6, <1>7 DEF RunsOf, new

LEMMA LineRead ==
  ASSUME NEW text, NEW V, StageLog(text, V), NEW i \in 0 .. Len(text) - 1, NEW acc,
         ReadAt(text, V, acc, i)
  PROVE  ReadAt(text, V, Feed(acc, text[i + 1]), i + 1)
  <1> DEFINE ln == text[i + 1]
             R == RunsOf(text, V)
             All == [runs : Seq(R), open : Seq(R), armed : [Bdfs -> V]]
  <1>1. /\ Len(text) \in Nat /\ i \in Nat /\ i + 1 \in 1 .. Len(text) /\ 0 \in V
        /\ \A b \in 1 .. i : b \in Nat /\ b <= i
    BY DEF StageLog
  <1>2. Ours(ln) =>
          /\ ln.m \in {"ARMED", "BEGIN", "STAGE", "VALUE", "MISSED", "END"}
          /\ ln.m = "ARMED" /\ ~ln.cut => ln.bdf \in Bdfs /\ ln.type \in V
    BY <1>1 DEF StageLog
  <1>3. acc \in All
    BY DEF ReadAt
  <1>4. \A run, new : acc.open = <<run>> /\ OpenAt(text, V, new, i + 1) =>
          /\ <<new>> \in Seq(R)
          /\ [acc.open EXCEPT ![1] = new] = <<new>>
    BY <1>1, OpenIsOf
  <1>5. acc.open # <<>> => \E run : /\ acc.open = <<run>> /\ acc.open[1] = run
                                    /\ OpenAt(text, V, run, i)
    BY DEF ReadAt
  <1>6. CASE ~Ours(ln) \/ (ln.m = "ARMED" /\ ln.cut) \/ (ln.m \notin {"BEGIN", "ARMED"} /\ acc.open = <<>>)
    <2>1. Feed(acc, ln) = acc
      BY <1>2, <1>6 DEF Feed, FeedStage, Ours
    <2>2. ASSUME acc.open # <<>> PROVE \E run : acc.open = <<run>> /\ OpenAt(text, V, run, i + 1)
      <3>1. PICK run : acc.open = <<run>> /\ OpenAt(text, V, run, i)
        BY <1>5, <2>2
      <3>2. Ours(ln) => ln.m \notin {"BEGIN", "END"}
        BY <1>6, <2>2
      <3>3. \A b \in 1 .. i : run \in RunsIn(text, V, b, i) => run \in RunsIn(text, V, b, i + 1)
        BY <1>1, <1>6, <2>2, StillIn
      <3>4. QED
        BY <3>1, <3>2, <3>3, OpenKept
    <2>3. QED
      BY <1>3, <2>1, <2>2 DEF ReadAt
  <1>7. CASE Ours(ln) /\ ln.m = "ARMED" /\ ~ln.cut
    <2> DEFINE armed == [acc.armed EXCEPT ![ln.bdf] = ln.type]
    <2>1. Feed(acc, ln) = [acc EXCEPT !.armed = armed]
      BY <1>7 DEF Feed, FeedStage, Ours
    <2>2. armed \in [Bdfs -> V]
      BY <1>2, <1>3, <1>7
    <2> HIDE DEF armed, R
    <2>3. Feed(acc, ln) \in All /\ Feed(acc, ln).open = acc.open
      BY <1>3, <2>1, <2>2
    <2>4. ASSUME acc.open # <<>> PROVE \E run : acc.open = <<run>> /\ OpenAt(text, V, run, i + 1)
      <3>1. PICK run : acc.open = <<run>> /\ OpenAt(text, V, run, i)
        BY <1>5, <2>4
      <3>2. \A b \in 1 .. i : run \in RunsIn(text, V, b, i) => run \in RunsIn(text, V, b, i + 1)
        BY <1>1, <1>7, StillIn
      <3>3. QED
        BY <1>7, <3>1, <3>2, OpenKept
    <2>5. QED
      BY <2>3, <2>4 DEF ReadAt, R
  <1>8. CASE Ours(ln) /\ ln.m = "BEGIN"
    <2> DEFINE new == NewRun(ln, acc.armed)
    <2>1. Feed(acc, ln) = [acc EXCEPT !.runs = acc.runs \o acc.open, !.open = <<new>>]
      BY <1>8 DEF Feed, FeedStage, Ours
    <2>2. OpenAt(text, V, new, i + 1)
      BY <1>3, <1>8, BeginRead
    <2> HIDE DEF new
    <2>3. <<new>> \in Seq(R)
      BY <1>1, <2>2, OpenIsOf
    <2> HIDE DEF R
    <2>4. acc.runs \o acc.open \in Seq(R)
      BY <1>3, ConcatProperties
    <2>5. Feed(acc, ln) \in All /\ Feed(acc, ln).open = <<new>>
      BY <1>3, <2>1, <2>3, <2>4
    <2>6. QED
      BY <2>2, <2>5 DEF ReadAt, R
  <1>9. CASE Ours(ln) /\ ln.m = "END" /\ acc.open # <<>>
    <2>1. PICK run : acc.open = <<run>> /\ acc.open[1] = run /\ OpenAt(text, V, run, i)
      BY <1>5, <1>9
    <2> DEFINE new == OnEnd(run, ln)
    <2>2. Feed(acc, ln) = [acc EXCEPT !.runs = Append(acc.runs, new), !.open = <<>>]
      BY <1>9, <2>1 DEF Feed, FeedStage, Ours
    <2>3. new \in R
      BY <1>9, <2>1, EndRead
    <2> HIDE DEF new, R
    <2>4. Append(acc.runs, new) \in Seq(R) /\ <<>> \in Seq(R)
      BY <1>3, <2>3, AppendProperties, EmptySeq
    <2>5. Feed(acc, ln) \in All /\ Feed(acc, ln).open = <<>>
      BY <1>3, <2>2, <2>4
    <2>6. QED
      BY <2>5 DEF ReadAt, R
  <1>10. ASSUME NEW run, acc.open = <<run>>, acc.open[1] = run, NEW new,
                OpenAt(text, V, new, i + 1),
                Feed(acc, ln) = [acc EXCEPT !.open = [acc.open EXCEPT ![1] = new]]
         PROVE  ReadAt(text, V, Feed(acc, ln), i + 1)
    <2>1. <<new>> \in Seq(R) /\ [acc.open EXCEPT ![1] = new] = <<new>>
      BY <1>4, <1>10
    <2> HIDE DEF R
    <2>2. Feed(acc, ln) = [acc EXCEPT !.open = <<new>>]
      BY <1>10, <2>1
    <2>3. Feed(acc, ln) \in All /\ Feed(acc, ln).open = <<new>>
      BY <1>3, <2>1, <2>2
    <2>4. QED
      BY <1>10, <2>3 DEF ReadAt, R
  <1>11. CASE Ours(ln) /\ ln.m \in {"STAGE", "VALUE", "MISSED"} /\ acc.open # <<>>
    <2>1. PICK run : acc.open = <<run>> /\ acc.open[1] = run /\ OpenAt(text, V, run, i)
      BY <1>5, <1>11
    <2> DEFINE new == IF ln.m = "STAGE" THEN OnStage(run, ln)
                      ELSE IF ln.m = "VALUE" THEN OnValue(run, ln) ELSE OnMissed(run, ln)
    <2>2. Feed(acc, ln) = [acc EXCEPT !.open = [acc.open EXCEPT ![1] = new]]
      BY <1>11, <2>1 DEF Feed, FeedStage, Ours
    <2>3. /\ \A b \in 1 .. i : run \in RunsIn(text, V, b, i) =>
                                 new \in RunsIn(text, V, b, i + 1)
          /\ new.complete = run.complete
      <3>1. PICK c \in 1 .. i : run \in RunsIn(text, V, c, i)
        BY <2>1 DEF OpenAt
      <3>2. ASSUME NEW b \in 1 .. i, run \in RunsIn(text, V, b, i)
            PROVE  new \in RunsIn(text, V, b, i + 1) /\ new.complete = run.complete
        <4>1. CASE ln.m = "STAGE"
          BY <1>1, <1>11, <3>2, <4>1, StageKept
        <4>2. CASE ln.m = "VALUE"
          BY <1>1, <1>11, <3>2, <4>2, ValueKept
        <4>3. CASE ln.m = "MISSED"
          BY <1>1, <1>11, <3>2, <4>3, MissedKept
        <4>4. QED
          BY <1>11, <4>1, <4>2, <4>3
      <3> HIDE DEF new
      <3>3. QED
        BY <3>1, <3>2
    <2> HIDE DEF new
    <2>4. OpenAt(text, V, new, i + 1)
      BY <1>11, <2>1, <2>3, OpenKept
    <2>5. QED
      BY <1>10, <2>1, <2>2, <2>4
  <1>12. QED
    BY <1>2, <1>6, <1>7, <1>8, <1>9, <1>11

LEMMA AllRead ==
  ASSUME NEW text, NEW V, StageLog(text, V)
  PROVE  ReadAt(text, V, ReadStages(text), Len(text))
  <1> DEFINE L == Len(text)
             R == RunsOf(text, V)
  <1>1. L \in Nat /\ 0 \in V
    BY DEF StageLog
  <1>2. PICK read : /\ ReadStages(text) = read[L]
                    /\ read[0] = Begun
                    /\ \A i \in 1 .. L : read[i] = Feed(read[i - 1], text[i])
    BY <1>1, StagesRead
  <1> DEFINE S == {i \in 0 .. L : ReadAt(text, V, read[i], i)}
  <1>3. 0 \in S
    <2>1. <<>> \in Seq(R)
      BY EmptySeq
    <2>2. ReadAt(text, V, Begun, 0)
      BY <1>1, <2>1 DEF ReadAt, Begun
    <2>3. QED
      BY <1>1, <1>2, <2>2
  <1>4. ASSUME NEW i \in 0 .. L - 1, i \in S PROVE i + 1 \in S
    <2>1. i + 1 \in 1 .. L /\ (i + 1) - 1 = i /\ i + 1 \in 0 .. L
      BY <1>1
    <2>2. read[i + 1] = Feed(read[i], text[i + 1])
      BY <1>2, <2>1
    <2>3. ReadAt(text, V, read[i + 1], i + 1)
      BY <1>4, <2>2, LineRead
    <2>4. QED
      BY <2>1, <2>3
  <1>5. L \in S
    <2> HIDE DEF S
    <2>1. 0 .. L \subseteq S
      BY <1>1, <1>3, <1>4, InductionTo
    <2>2. QED
      BY <1>1, <2>1
  <1>6. QED
    BY <1>2, <1>5

(* Every complete run is of one BEGIN, the END that follows it, and the    *)
(* lines in between.                                                       *)
LEMMA RunsAreRead ==
  ASSUME NEW text, NEW V, StageLog(text, V)
  PROVE  ParseRuns(text) \in Seq(RunsOf(text, V))
  <1> DEFINE R == RunsOf(text, V)
  <1>1. ReadStages(text).runs \in Seq(R) /\ ReadStages(text).open \in Seq(R)
    BY AllRead DEF ReadAt
  <1> HIDE DEF R
  <1>2. ReadStages(text).runs \o ReadStages(text).open \in Seq(R)
    BY <1>1, ConcatProperties
  <1>3. QED
    BY <1>2 DEF ParseRuns, R

(* What is accepted is such a run, and without an error.                   *)
LEMMA AcceptedRun ==
  ASSUME NEW text, NEW V, StageLog(text, V), DecodeStages(text).code = 0
  PROVE  \E run : /\ DecodeStages(text).run[1] = run /\ Errors(run) = {}
                  /\ DecodeStages(text).changed = Transitions(run)
                  /\ \E b, e \in 1 .. Len(text) : WholeRun(text, V, run, b, e)
  <1> DEFINE runs == ParseRuns(text)
             complete == {i \in DOMAIN runs : runs[i].complete}
             R == RunsOf(text, V)
  <1>1. complete # {}
    BY DEF DecodeStages
  <1>2. runs \in Seq(R)
    BY RunsAreRead
  <1> HIDE DEF runs, R
  <1>3. /\ DOMAIN runs = 1 .. Len(runs) /\ Len(runs) \in Nat
        /\ \A i \in DOMAIN runs : runs[i] \in R
    BY <1>2, LenProperties, ElementOfSeq
  <1>4. complete \subseteq 0 .. Len(runs)
    BY <1>3
  <1>5. Max(complete) \in complete
    <2> HIDE DEF complete
    <2> QED BY <1>1, <1>3, <1>4, MaxOf
  <1> DEFINE run == runs[Max(complete)]
  <1>6. DecodeStages(text) = [run |-> <<run>>, errors |-> Errors(run), changed |-> Transitions(run),
                              code |-> IF Errors(run) = {} THEN 0 ELSE 2]
    BY <1>1 DEF DecodeStages, runs
  <1>7. run.complete /\ run \in R
    BY <1>3, <1>5
  <1> HIDE DEF run
  <1>8. DecodeStages(text).run[1] = run /\ Errors(run) = {}
        /\ DecodeStages(text).changed = Transitions(run)
    BY <1>6
  <1>9. \E b, e \in 1 .. Len(text) : WholeRun(text, V, run, b, e)
    BY <1>7 DEF R, RunsOf
  <1>10. QED
    BY <1>8, <1>9

------------------------------------------------------------------------------
(* How the reading of a log is put together: reading the lines of log      *)
(* turns acc into next, all at once or piece by piece.                     *)
ReadOn(acc, log, next) ==
  \E st : /\ st[0] = acc /\ st[Len(log)] = next
          /\ \A q \in 1 .. Len(log) : st[q] = Feed(st[q - 1], log[q])

LEMMA ReadNone ==
  ASSUME NEW acc
  PROVE  ReadOn(acc, <<>>, acc)
  <1> DEFINE st == [q \in 0 .. 0 |-> acc]
  <1>1. st[0] = acc /\ Len(<<>>) = 0
    OBVIOUS
  <1>2. \A q \in 1 .. Len(<<>>) : st[q] = Feed(st[q - 1], <<>>[q])
    BY <1>1
  <1> HIDE DEF st
  <1>3. st[Len(<<>>)] = acc
    BY <1>1
  <1>4. QED
    BY <1>1, <1>2, <1>3 DEF ReadOn

LEMMA ReadOne ==
  ASSUME NEW acc, NEW ln
  PROVE  ReadOn(acc, <<ln>>, Feed(acc, ln))
  <1> DEFINE st == [q \in 0 .. 1 |-> IF q = 0 THEN acc ELSE Feed(acc, ln)]
  <1>1. Len(<<ln>>) = 1 /\ <<ln>>[1] = ln
    OBVIOUS
  <1>2. st[0] = acc /\ st[1] = Feed(acc, ln)
    OBVIOUS
  <1> HIDE DEF st
  <1>3. st[Len(<<ln>>)] = Feed(acc, ln)
    BY <1>1, <1>2
  <1>4. \A q \in 1 .. Len(<<ln>>) : st[q] = Feed(st[q - 1], <<ln>>[q])
    <2> TAKE q \in 1 .. Len(<<ln>>)
    <2>1. q = 1 /\ q - 1 = 0
      BY <1>1
    <2>2. QED
      BY <1>1, <1>2, <2>1
  <1>5. QED
    BY <1>2, <1>3, <1>4 DEF ReadOn

LEMMA ReadJoin ==
  ASSUME NEW X, NEW m \in Nat, NEW n \in Nat, NEW s, NEW u, Sized(s, X, m), Sized(u, X, n),
         NEW a, NEW b, NEW c, ReadOn(a, s, b), ReadOn(b, u, c)
  PROVE  ReadOn(a, s \o u, c)
  <1>1. Sized(s \o u, X, m + n) /\ Glued(s \o u, s, u, m, n)
    BY Joined, Zenon
  <1>2. PICK f : /\ f[0] = a /\ f[m] = b /\ \A q \in 1 .. m : f[q] = Feed(f[q - 1], s[q])
    BY DEF ReadOn, Sized
  <1>3. PICK g : /\ g[0] = b /\ g[n] = c /\ \A q \in 1 .. n : g[q] = Feed(g[q - 1], u[q])
    BY DEF ReadOn, Sized
  <1> DEFINE t == s \o u
             st == [q \in 0 .. m + n |-> IF q <= m THEN f[q] ELSE g[q - m]]
  <1>4. \A q \in 0 .. m : st[q] = f[q]
    OBVIOUS
  <1>5. \A q \in 0 .. n : st[m + q] = g[q]
    <2> TAKE q \in 0 .. n
    <2>1. CASE q = 0
      BY <1>2, <1>3, <1>4, <2>1
    <2>2. CASE q # 0
      BY <2>2
    <2>3. QED
      BY <2>1, <2>2
  <1> HIDE DEF st, t
  <1>6. st[0] = a /\ st[m + n] = c
    BY <1>2, <1>3, <1>4, <1>5
  <1>7. ASSUME NEW q \in 1 .. m + n PROVE st[q] = Feed(st[q - 1], t[q])
    <2>1. CASE q <= m
      <3>1. q \in 1 .. m /\ q \in 0 .. m /\ q - 1 \in 0 .. m
        BY <2>1
      <3>2. t[q] = s[q]
        BY <1>1, <3>1 DEF Glued, t
      <3>3. QED
        BY <1>2, <1>4, <3>1, <3>2
    <2>2. CASE ~(q <= m)
      <3> DEFINE k == q - m
      <3>1. k \in 1 .. n /\ k \in 0 .. n /\ k - 1 \in 0 .. n /\ m + k = q /\ m + (k - 1) = q - 1
        BY <2>2
      <3> HIDE DEF k
      <3>2. t[m + k] = u[k]
        BY <1>1, <3>1 DEF Glued, t
      <3>3. st[m + k] = g[k] /\ st[m + (k - 1)] = g[k - 1] /\ g[k] = Feed(g[k - 1], u[k])
        BY <1>3, <1>5, <3>1
      <3>4. QED
        BY <3>1, <3>2, <3>3
    <2>3. QED
      BY <2>1, <2>2
  <1>8. Len(t) = m + n
    BY <1>1 DEF Sized, t
  <1>9. st[Len(t)] = c /\ \A q \in 1 .. Len(t) : st[q] = Feed(st[q - 1], t[q])
    BY <1>6, <1>7, <1>8
  <1>10. ReadOn(a, t, c)
    BY <1>6, <1>9 DEF ReadOn
  <1>11. QED
    BY <1>10 DEF t

LEMMA ReadFlat ==
  ASSUME NEW X, NEW n \in Nat, NEW ss, Sized(ss, Seq(X), n), NEW st,
         \A i \in 1 .. n : ReadOn(st[i - 1], ss[i], st[i])
  PROVE  ReadOn(st[0], FlattenSeq(ss), st[n])
  <1>1. PICK flat : Flats(flat, ss, Seq(X), n)
    BY Flattened, Zenon
  <1>2. \A i \in 1 .. n : ss[i] \in Seq(X)
    BY ElementOfSeq DEF Sized
  <1> DEFINE S == {i \in 0 .. n : ReadOn(st[0], flat[i], st[i])}
  <1>3. 0 \in S
    <2>1. flat[0] = <<>>
      BY <1>1 DEF Flats
    <2>2. QED
      BY <2>1, ReadNone
  <1>4. ASSUME NEW i \in 0 .. n - 1, i \in S PROVE i + 1 \in S
    <2>1. i + 1 \in 1 .. n /\ (i + 1) - 1 = i /\ i + 1 \in 0 .. n /\ i \in 0 .. n
      OBVIOUS
    <2>2. flat[i + 1] = flat[i] \o ss[i + 1] /\ flat[i] \in Seq(X)
      BY <1>1, <2>1 DEF Flats
    <2>3. ss[i + 1] \in Seq(X) /\ ReadOn(st[i], ss[i + 1], st[i + 1])
      BY <1>2, <2>1
    <2>4. /\ Len(flat[i]) \in Nat /\ Sized(flat[i], X, Len(flat[i]))
          /\ Len(ss[i + 1]) \in Nat /\ Sized(ss[i + 1], X, Len(ss[i + 1]))
      BY <2>2, <2>3, LenProperties DEF Sized
    <2>5. ReadOn(st[0], flat[i], st[i])
      BY <1>4
    <2>6. ReadOn(st[0], flat[i] \o ss[i + 1], st[i + 1])
      BY <2>3, <2>4, <2>5, ReadJoin, Zenon
    <2>7. QED
      BY <2>1, <2>2, <2>6
  <1>5. n \in S
    <2> HIDE DEF S
    <2>1. 0 .. n \subseteq S
      BY <1>3, <1>4, InductionTo
    <2>2. QED
      BY <2>1
  <1>6. FlattenSeq(ss) = flat[n]
    BY <1>1 DEF Flats
  <1>7. QED
    BY <1>5, <1>6

LEMMA ReadAll ==
  ASSUME NEW t, Len(t) \in Nat
  PROVE  ReadOn(Begun, t, ReadStages(t))
  BY StagesRead DEF ReadOn

LEMMA ReadIs ==
  ASSUME NEW t, Len(t) \in Nat, NEW acc, ReadOn(Begun, t, acc)
  PROVE  ReadStages(t) = acc
  <1> DEFINE n == Len(t)
  <1>1. PICK f : /\ ReadStages(t) = f[n] /\ f[0] = Begun
                 /\ \A q \in 1 .. n : f[q] = Feed(f[q - 1], t[q])
    BY StagesRead
  <1>2. PICK g : /\ g[0] = Begun /\ g[n] = acc
                 /\ \A q \in 1 .. n : g[q] = Feed(g[q - 1], t[q])
    BY DEF ReadOn
  <1> HIDE DEF n
  <1> DEFINE S == {i \in 0 .. n : f[i] = g[i]}
  <1>3. n \in Nat
    BY DEF n
  <1>4. 0 \in S
    BY <1>1, <1>2, <1>3
  <1>5. ASSUME NEW i \in 0 .. n - 1, i \in S PROVE i + 1 \in S
    <2>1. i + 1 \in 1 .. n /\ (i + 1) - 1 = i /\ i + 1 \in 0 .. n
      BY <1>3
    <2>2. f[i + 1] = Feed(f[i], t[i + 1]) /\ g[i + 1] = Feed(g[i], t[i + 1])
      BY <1>1, <1>2, <2>1
    <2>3. QED
      BY <1>5, <2>1, <2>2
  <1>6. n \in S
    <2> HIDE DEF S
    <2>1. 0 .. n \subseteq S
      BY <1>3, <1>4, <1>5, InductionTo
    <2>2. QED
      BY <1>3, <2>1
  <1>7. QED
    BY <1>1, <1>2, <1>6

(* A list without repetition has as many elements as it is long.           *)
LEMMA Counting ==
  ASSUME NEW n \in Nat, NEW f, \A j, k \in 1 .. n : f[j] = f[k] => j = k
  PROVE  Cardinality({f[j] : j \in 1 .. n}) = n
  <1> DEFINE T == {f[j] : j \in 1 .. n}
             g == [j \in 1 .. n |-> f[j]]
  <1>1. g \in [1 .. n -> T]
    OBVIOUS
  <1>2. \A j, k \in 1 .. n : g[j] = g[k] => j = k
    OBVIOUS
  <1>3. \A t \in T : \E j \in 1 .. n : g[j] = t
    OBVIOUS
  <1> HIDE DEF T, g
  <1>4. g \in Bijection(1 .. n, T)
    BY <1>1, <1>2, <1>3 DEF Bijection, Injection, Surjection, IsInjective
  <1>5. ExistsBijection(1 .. n, T)
    BY <1>4 DEF ExistsBijection
  <1>6. IsFiniteSet(1 .. n) /\ Cardinality(1 .. n) = n
    <2>1. 1 \in Int /\ n \in Int
      OBVIOUS
    <2>2. IsFiniteSet(1 .. n) /\ Cardinality(1 .. n) = IF 1 > n THEN 0 ELSE n - 1 + 1
      BY <2>1, FS_Interval
    <2>3. QED
      BY <2>2
  <1>7. Cardinality(T) = n
    BY <1>5, <1>6, FS_Bijection
  <1>8. QED
    BY <1>7 DEF T
==============================================================================
