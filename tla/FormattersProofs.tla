-------------------------- MODULE FormattersProofs --------------------------
(***************************************************************************)
(* Proofs about Formatters: the types of both parsers, and that what       *)
(* PatternFormatter writes is the meaning of the pieces of its pattern,    *)
(* for every set of pieces, however many there are, for every set of flags *)
(* that the program registers, and for every event.                        *)
(***************************************************************************)
EXTENDS Formatters, SequenceTheorems, WellFoundedInduction, TLAPS

-----------------------------------------------------------------------------
(***************************************************************************)
(* Why the properties hold: the invariant that the steps keep.             *)
(***************************************************************************)
FlagFormatters == [flag : STRING, zone : {"utc", "local"}, text : Seq(STRING)]

(* The types of the sequences, and which parser has which loops.           *)
Parsing ==
  /\ kind \in DOMAIN Pieces
  /\ pieces \in Seq(Pieces[kind])
  /\ pattern \in Seq(STRING)
  /\ literal \in Seq(STRING)
  /\ flags \in Seq(FlagFormatters)
  /\ custom \subseteq CustomFlags
  /\ at = "start" => it = 1
  /\ kind = "pattern" =>
       /\ at \in {"pattern", "ready", "error", "overrun", "formatted"}
       /\ pattern = FlattenSeq(pieces)
  /\ kind = "logfmt" => at \notin {"pattern", "overrun"}

(* The characters of the first n pieces.                                   *)
Read(n) == FlattenSeq(SubSeq(pieces, 1, n))

(* The parser is between two pieces: the flags and the literal that is     *)
(* still open write what the pieces before it mean, in their zones.        *)
Reached(n) ==
  /\ it = Len(Read(n)) + 1
  /\ zone = ZoneAt(n + 1)
  /\ \A e \in Events : Texts(flags, e) \o literal = FirstMean(n, e)

Rendering ==
  kind = "pattern" /\ GoodPattern =>
    /\ at \notin {"error", "overrun"}
    /\ at = "pattern" => \E n \in 0 .. Len(pieces) : Reached(n)
    /\ at = "ready" => \A e \in Events : Texts(flags, e) = PatternMeans(e)
    /\ at = "formatted" => event \in Events /\ out = PatternMeans(event)

IInv == TypeOK /\ Parsing /\ Rendering

-----------------------------------------------------------------------------
(***************************************************************************)
(* Numbers.                                                                *)
(***************************************************************************)

(* A set of natural numbers has a least one.                               *)
LEMMA Least ==
  ASSUME NEW S, S \subseteq Nat, S # {}
  PROVE  \E m \in S : \A k \in S : m <= k
<1>1. PICK m \in S : \A k \in S : ~ (<<k, m>> \in OpToRel(<, Nat))
  BY NatLessThanWellFounded, WFMin
<1>2. ASSUME NEW k \in S
      PROVE  m <= k
  <2>1. k \in Nat /\ m \in Nat
    OBVIOUS
  <2>2. CASE k < m
    <3>1. <<k, m>> \in OpToRel(<, Nat)
      BY <2>1, <2>2 DEF OpToRel
    <3> QED
      BY <1>1, <3>1
  <2> QED
    BY <2>1, <2>2
<1> QED
  BY <1>2

(* What holds of 0, and of n when it holds of all before, holds of all.    *)
LEMMA Induction ==
  ASSUME NEW n \in Nat, NEW S, \A k \in 0 .. n : (\A j \in 0 .. k - 1 : j \in S) => k \in S
  PROVE  \A k \in 0 .. n : k \in S
<1> DEFINE T == { k \in 0 .. n : k \notin S }
<1>1. SUFFICES ASSUME T # {}
               PROVE  FALSE
  OBVIOUS
<1> HIDE DEF T
<1>2. T \subseteq Nat
  BY DEF T
<1>3. PICK m \in T : \A k \in T : m <= k
  BY <1>1, <1>2, Least
<1>4. m \in 0 .. n /\ m \notin S
  BY DEF T
<1>5. ASSUME NEW j \in 0 .. m - 1
      PROVE  j \in S
  <2>1. j \in 0 .. n /\ ~ (m <= j)
    BY <1>4
  <2> QED
    BY <1>3, <2>1 DEF T
<1> QED
  BY <1>4, <1>5

(***************************************************************************)
(* Sequences of sequences, one after the other.                            *)
(***************************************************************************)

(* The concatenations of the first sequences.                              *)
Flattening(seqs, n, f) ==
  f = [i \in 1 .. n |-> IF i = 1 THEN seqs[i] ELSE f[i - 1] \o seqs[i]]

LEMMA FlatteningExists ==
  ASSUME NEW seqs, NEW n \in Nat
  PROVE  \E f : Flattening(seqs, n, f)
<1> DEFINE S == { k \in 0 .. n : \E f : Flattening(seqs, k, f) }
<1>1. ASSUME NEW m \in 0 .. n, \A j \in 0 .. m - 1 : j \in S
      PROVE  \E f : Flattening(seqs, m, f)
  <2>1. CASE m = 0
    <3> DEFINE f == [i \in 1 .. 0 |-> seqs[i]]
    <3>1. Flattening(seqs, 0, f)
      BY DEF Flattening
    <3> HIDE DEF f
    <3> QED
      BY <2>1, <3>1
  <2>2. CASE m # 0
    <3>1. m - 1 \in 0 .. n /\ m - 1 \in 0 .. m - 1 /\ m \in Nat \ {0}
      BY <2>2
    <3>2. PICK g : Flattening(seqs, m - 1, g)
      BY <1>1, <3>1
    <3> DEFINE last == IF m = 1 THEN seqs[m] ELSE g[m - 1] \o seqs[m]
               f == [i \in 1 .. m |-> IF i = m THEN last ELSE g[i]]
    <3>3. \A i \in 1 .. m - 1 : g[i] = IF i = 1 THEN seqs[i] ELSE g[i - 1] \o seqs[i]
      BY <3>2, Zenon DEF Flattening
    <3>4. f[m] = last /\ \A i \in 1 .. m - 1 : f[i] = g[i]
      <4> HIDE DEF last
      <4> QED
        BY <3>1
    <3>5. f = [i \in 1 .. m |-> f[i]]
      OBVIOUS
    <3> HIDE DEF f
    <3>6. ASSUME NEW i \in 1 .. m
          PROVE  f[i] = IF i = 1 THEN seqs[i] ELSE f[i - 1] \o seqs[i]
      <4>1. CASE i = m
        <5>1. m # 1 => f[m - 1] = g[m - 1]
          BY <3>1, <3>4
        <5> QED
          BY <3>4, <4>1, <5>1
      <4>2. CASE i # m
        <5>1. i \in 1 .. m - 1 /\ (i # 1 => i - 1 \in 1 .. m - 1)
          BY <3>1, <4>2
        <5>2. f[i] = g[i] /\ (i # 1 => f[i - 1] = g[i - 1])
          BY <3>4, <5>1
        <5> QED
          BY <3>3, <5>1, <5>2
      <4> QED
        BY <4>1, <4>2
    <3>7. Flattening(seqs, m, f)
      BY <3>5, <3>6, Zenon DEF Flattening
    <3> QED
      BY <3>7
  <2> QED
    BY <2>1, <2>2
<1>2. \A k \in 0 .. n : k \in S
  <2>1. \A k \in 0 .. n : (\A j \in 0 .. k - 1 : j \in S) => k \in S
    BY <1>1
  <2> HIDE DEF S
  <2> QED
    BY <2>1, Induction
<1> QED
  BY <1>2

LEMMA FlatteningUnique ==
  ASSUME NEW s, NEW t, NEW m, NEW n, NEW f, NEW g,
         m \in Nat, n \in m .. m + 1, Flattening(s, m, f), Flattening(t, n, g),
         \A i \in 1 .. m : s[i] = t[i]
  PROVE  \A i \in 1 .. m : f[i] = g[i]
<1> DEFINE S == { i \in 0 .. m : i # 0 => f[i] = g[i] }
<1>1. ASSUME NEW k \in 0 .. m, \A j \in 0 .. k - 1 : j \in S
      PROVE  k \in S
  <2>1. CASE k = 0
    BY <2>1
  <2>2. CASE k # 0
    <3>1. /\ k \in 1 .. m /\ k \in 1 .. n /\ k - 1 \in 0 .. k - 1
          /\ (k # 1 => k - 1 # 0)
      BY <2>2
    <3>2. f[k] = IF k = 1 THEN s[k] ELSE f[k - 1] \o s[k]
      BY <3>1, Zenon DEF Flattening
    <3>3. g[k] = IF k = 1 THEN t[k] ELSE g[k - 1] \o t[k]
      BY <3>1, Zenon DEF Flattening
    <3>4. k # 1 => f[k - 1] = g[k - 1]
      BY <1>1, <3>1
    <3>5. f[k] = g[k]
      BY <3>1, <3>2, <3>3, <3>4
    <3> QED
      BY <3>5
  <2> QED
    BY <2>1, <2>2
<1> HIDE DEF S
<1>2. \A k \in 0 .. m : k \in S
  BY <1>1, Induction
<1>3. ASSUME NEW i \in 1 .. m
      PROVE  f[i] = g[i]
  <2>1. i \in S /\ i # 0
    BY <1>2
  <2> QED
    BY <2>1 DEF S
<1> QED
  BY <1>3

LEMMA FlattenedBy ==
  ASSUME NEW seqs, Len(seqs) \in Nat \ {0}
  PROVE  \E f : Flattening(seqs, Len(seqs), f) /\ FlattenSeq(seqs) = f[Len(seqs)]
<1> DEFINE f == CHOOSE f : Flattening(seqs, Len(seqs), f)
<1>1. Flattening(seqs, Len(seqs), f)
  <2>1. \E x : Flattening(seqs, Len(seqs), x)
    BY FlatteningExists
  <2> QED
    BY <2>1, Zenon
<1>2. FlattenSeq(seqs) = f[Len(seqs)]
  BY DEF FlattenSeq, Flattening
<1> QED
  BY <1>1, <1>2, Zenon

LEMMA FlattenNone == FlattenSeq(<<>>) = <<>>
BY EmptySeq DEF FlattenSeq

LEMMA FlattenOneMore ==
  ASSUME NEW s, NEW t, NEW m \in Nat \ {0}, Len(s) = m, Len(t) = m + 1,
         \A i \in 1 .. m : s[i] = t[i]
  PROVE  FlattenSeq(t) = FlattenSeq(s) \o t[m + 1]
<1>1. PICK f : Flattening(s, m, f) /\ FlattenSeq(s) = f[m]
  BY FlattenedBy
<1>2. PICK g : Flattening(t, m + 1, g) /\ FlattenSeq(t) = g[m + 1]
  <2>1. Len(t) \in Nat \ {0}
    OBVIOUS
  <2> QED
    BY <2>1, FlattenedBy
<1>3. g[m + 1] = IF m + 1 = 1 THEN t[m + 1] ELSE g[(m + 1) - 1] \o t[m + 1]
  <2>1. m + 1 \in 1 .. m + 1
    OBVIOUS
  <2> QED
    BY <1>2, <2>1, Zenon DEF Flattening
<1>4. \A i \in 1 .. m : f[i] = g[i]
  <2>1. PICK n \in m .. m + 1 : n = m + 1
    OBVIOUS
  <2>2. m \in Nat /\ n \in m .. m + 1 /\ Flattening(t, n, g)
    BY <1>2, <2>1
  <2> QED
    BY <1>1, <2>2, FlatteningUnique
<1>5. f[m] = g[m] /\ (m + 1) - 1 = m /\ m + 1 # 1
  BY <1>4
<1> QED
  BY <1>1, <1>2, <1>3, <1>5

LEMMA FlattenAppend ==
  ASSUME NEW S, NEW s \in Seq(Seq(S)), NEW x \in Seq(S)
  PROVE  FlattenSeq(Append(s, x)) = FlattenSeq(s) \o x
<1> DEFINE longer == Append(s, x)
           m == Len(s)
<1>1. /\ longer \in Seq(Seq(S)) /\ m \in Nat
      /\ Len(longer) = m + 1
      /\ \A i \in 1 .. m : s[i] = longer[i]
      /\ longer[m + 1] = x
  BY AppendProperties
<1> HIDE DEF longer
<1>2. CASE m = 0
  <2>1. s = <<>> /\ FlattenSeq(s) = <<>>
    BY <1>2, FlattenNone, EmptySeq
  <2>2. longer = <<x>>
    BY <2>1 DEF longer
  <2>3. Len(<<x>>) \in Nat \ {0} /\ Len(<<x>>) = 1
    OBVIOUS
  <2>4. PICK f : Flattening(<<x>>, 1, f) /\ FlattenSeq(<<x>>) = f[1]
    BY <2>3, FlattenedBy
  <2>5. f[1] = <<x>>[1]
    <3>1. 1 \in 1 .. 1
      OBVIOUS
    <3> QED
      BY <2>4, <3>1, Zenon DEF Flattening
  <2> QED
    BY <2>1, <2>2, <2>4, <2>5, ConcatEmptySeq DEF longer
<1>3. CASE m # 0
  <2>1. m \in Nat \ {0}
    BY <1>1, <1>3
  <2> HIDE DEF m
  <2>2. FlattenSeq(longer) = FlattenSeq(s) \o longer[m + 1]
    <3>1. Len(s) = m
      BY DEF m
    <3> QED
      BY <1>1, <2>1, <3>1, FlattenOneMore
  <2> QED
    BY <1>1, <2>2 DEF longer
<1> QED
  BY <1>2, <1>3

(* A prefix that is one longer.                                            *)
LEMMA OneLonger ==
  ASSUME NEW S, NEW s \in Seq(S), NEW n \in 1 .. Len(s)
  PROVE  /\ SubSeq(s, 1, n - 1) \in Seq(S)
         /\ s[n] \in S
         /\ SubSeq(s, 1, n) = Append(SubSeq(s, 1, n - 1), s[n])
<1>1. n \in Nat \ {0} /\ Len(s) \in Nat /\ \A i \in 1 .. Len(s) : s[i] \in S
  OBVIOUS
<1>2. /\ SubSeq(s, 1, n - 1) \in Seq(S) /\ Len(SubSeq(s, 1, n - 1)) = n - 1
      /\ \A i \in 1 .. n - 1 : SubSeq(s, 1, n - 1)[i] = s[i]
  <2>1. \A i \in 1 .. n - 1 : s[i] \in S
    BY <1>1
  <2> QED
    BY <1>1, <2>1, SubSeqProperties
<1>3. /\ SubSeq(s, 1, n) \in Seq(S) /\ Len(SubSeq(s, 1, n)) = n
      /\ \A i \in 1 .. n : SubSeq(s, 1, n)[i] = s[i]
  <2>1. \A i \in 1 .. n : s[i] \in S
    BY <1>1
  <2> QED
    BY <1>1, <2>1, SubSeqProperties
<1> DEFINE a == SubSeq(s, 1, n - 1)
           b == SubSeq(s, 1, n)
<1> HIDE DEF a, b
<1>4. Append(a, s[n]) \in Seq(S) /\ Len(Append(a, s[n])) = n
      /\ \A i \in 1 .. n : Append(a, s[n])[i] = s[i]
  BY <1>1, <1>2, AppendProperties DEF a
<1>5. b = Append(a, s[n])
  BY <1>1, <1>3, <1>4, SeqEqual DEF b
<1> QED
  BY <1>1, <1>2, <1>5 DEF a, b

LEMMA FlattenType ==
  ASSUME NEW S, NEW s \in Seq(Seq(S))
  PROVE  FlattenSeq(s) \in Seq(S)
<1> DEFINE T == { n \in 0 .. Len(s) : FlattenSeq(SubSeq(s, 1, n)) \in Seq(S) }
<1>1. ASSUME NEW n \in 0 .. Len(s), \A j \in 0 .. n - 1 : j \in T
      PROVE  n \in T
  <2>1. CASE n = 0
    <3>1. SubSeq(s, 1, 0) = <<>>
      BY SubSeqEmpty
    <3> QED
      BY <2>1, <3>1, FlattenNone, EmptySeq
  <2>2. CASE n # 0
    <3>1. n \in 1 .. Len(s) /\ n - 1 \in 0 .. n - 1
      BY <2>2
    <3>2. /\ SubSeq(s, 1, n - 1) \in Seq(Seq(S)) /\ s[n] \in Seq(S)
          /\ SubSeq(s, 1, n) = Append(SubSeq(s, 1, n - 1), s[n])
      BY <3>1, OneLonger
    <3>3. FlattenSeq(SubSeq(s, 1, n - 1)) \in Seq(S)
      BY <1>1, <3>1
    <3>4. FlattenSeq(SubSeq(s, 1, n)) = FlattenSeq(SubSeq(s, 1, n - 1)) \o s[n]
      BY <3>2, FlattenAppend
    <3>5. FlattenSeq(SubSeq(s, 1, n)) \in Seq(S)
      BY <3>2, <3>3, <3>4, ConcatProperties
    <3> QED
      BY <3>5
  <2> QED
    BY <2>1, <2>2
<1>2. Len(s) \in Nat /\ Len(s) \in 0 .. Len(s)
  OBVIOUS
<1> HIDE DEF T
<1>3. Len(s) \in T
  BY <1>1, <1>2, Induction
<1> QED
  BY <1>3, SubSeqFull DEF T

LEMMA AppendToConcat ==
  ASSUME NEW S, NEW s, NEW t, NEW x, s \in Seq(S), t \in Seq(S), x \in S
  PROVE  s \o Append(t, x) = Append(s \o t, x)
OBVIOUS

LEMMA FlattenConcat ==
  ASSUME NEW S, NEW s \in Seq(Seq(S)), NEW t \in Seq(Seq(S))
  PROVE  FlattenSeq(s \o t) = FlattenSeq(s) \o FlattenSeq(t)
<1> DEFINE P(n) == SubSeq(t, 1, n)
           T == { n \in 0 .. Len(t) : FlattenSeq(s \o P(n)) = FlattenSeq(s) \o FlattenSeq(P(n)) }
<1>0. FlattenSeq(s) \in Seq(S)
  BY FlattenType
<1>1. ASSUME NEW n \in 0 .. Len(t), \A j \in 0 .. n - 1 : j \in T
      PROVE  n \in T
  <2>1. CASE n = 0
    <3>1. P(0) = <<>>
      BY SubSeqEmpty
    <3>2. s \o <<>> = s
      BY ConcatEmptySeq
    <3>3. FlattenSeq(s) \o <<>> = FlattenSeq(s)
      BY <1>0, ConcatEmptySeq
    <3> QED
      BY <2>1, <3>1, <3>2, <3>3, FlattenNone
  <2>2. CASE n # 0
    <3>1. n \in 1 .. Len(t) /\ n - 1 \in 0 .. n - 1
      BY <2>2
    <3>2. /\ P(n - 1) \in Seq(Seq(S)) /\ t[n] \in Seq(S)
          /\ P(n) = Append(P(n - 1), t[n])
      BY <3>1, OneLonger
    <3>3. FlattenSeq(s \o P(n - 1)) = FlattenSeq(s) \o FlattenSeq(P(n - 1))
      BY <1>1, <3>1
    <3> HIDE DEF P
    <3>4. s \o P(n - 1) \in Seq(Seq(S)) /\ FlattenSeq(P(n - 1)) \in Seq(S)
      BY <3>2, ConcatProperties, FlattenType
    <3>5. s \o P(n) = Append(s \o P(n - 1), t[n])
      BY <3>2, AppendToConcat
    <3>6. FlattenSeq(s \o P(n)) = FlattenSeq(s \o P(n - 1)) \o t[n]
      BY <3>2, <3>4, <3>5, FlattenAppend
    <3>7. FlattenSeq(P(n)) = FlattenSeq(P(n - 1)) \o t[n]
      BY <3>2, FlattenAppend
    <3>8. PICK a, b, c \in Seq(S) : a = FlattenSeq(s) /\ b = FlattenSeq(P(n - 1)) /\ c = t[n]
      BY <1>0, <3>2, <3>4
    <3>9. (a \o b) \o c = a \o (b \o c)
      BY ConcatAssociative
    <3> QED
      BY <3>3, <3>6, <3>7, <3>8, <3>9
  <2> QED
    BY <2>1, <2>2
<1>2. Len(t) \in Nat /\ Len(t) \in 0 .. Len(t)
  OBVIOUS
<1> HIDE DEF T
<1>3. Len(t) \in T
  BY <1>1, <1>2, Induction
<1> QED
  BY <1>3, SubSeqFull DEF T

(* The part of the whole that one of the sequences is.                     *)
LEMMA FlattenPart ==
  ASSUME NEW S, NEW s \in Seq(Seq(S)), NEW n \in 1 .. Len(s)
  PROVE  LET before == FlattenSeq(SubSeq(s, 1, n - 1))
             upto   == FlattenSeq(SubSeq(s, 1, n))
             whole  == FlattenSeq(s)
         IN /\ before \in Seq(S) /\ upto \in Seq(S) /\ whole \in Seq(S)
            /\ Len(upto) = Len(before) + Len(s[n])
            /\ Len(upto) <= Len(whole)
            /\ \A j \in 1 .. Len(s[n]) : whole[Len(before) + j] = s[n][j]
<1> DEFINE u == SubSeq(s, 1, n)
           v == SubSeq(s, n + 1, Len(s))
<1>1. /\ SubSeq(s, 1, n - 1) \in Seq(Seq(S)) /\ s[n] \in Seq(S)
      /\ u = Append(SubSeq(s, 1, n - 1), s[n])
  BY OneLonger
<1>2. u \in Seq(Seq(S)) /\ v \in Seq(Seq(S)) /\ s = u \o v
  <2>1. /\ n \in Int /\ Len(s) \in Int /\ n + 1 \in Int /\ Len(s) \in Nat
        /\ \A i \in 1 .. n : s[i] \in Seq(S)
        /\ \A i \in n + 1 .. Len(s) : s[i] \in Seq(S)
    OBVIOUS
  <2>2. u \in Seq(Seq(S)) /\ v \in Seq(Seq(S))
    BY <2>1, SubSeqProperties
  <2>3. 1 \in 1 .. Len(s) + 1 /\ n \in 1 - 1 .. Len(s) /\ Len(s) \in n .. Len(s)
    BY <2>1
  <2>4. SubSeq(s, 1, n) \o SubSeq(s, n + 1, Len(s)) = SubSeq(s, 1, Len(s))
    BY <2>3, ConcatAdjacentSubSeq
  <2>5. SubSeq(s, 1, Len(s)) = s
    BY SubSeqFull
  <2> QED
    BY <2>2, <2>4, <2>5
<1> DEFINE b == FlattenSeq(SubSeq(s, 1, n - 1))
           c == FlattenSeq(u)
           d == FlattenSeq(v)
           w == FlattenSeq(s)
<1> HIDE DEF u, v
<1>3. b \in Seq(S) /\ c \in Seq(S) /\ d \in Seq(S) /\ w \in Seq(S)
  BY <1>1, <1>2, FlattenType
<1>4. c = b \o s[n]
  BY <1>1, FlattenAppend
<1>5. w = c \o d
  BY <1>2, FlattenConcat
<1>6. FlattenSeq(SubSeq(s, 1, n)) = c
  BY DEF u
<1> HIDE DEF b, c, d, w
<1>7. PICK x \in Seq(S) : x = s[n]
  BY <1>1
<1>8. /\ Len(c) = Len(b) + Len(x)
      /\ \A i \in 1 .. Len(b) + Len(x) : c[i] = IF i <= Len(b) THEN b[i] ELSE x[i - Len(b)]
  BY <1>3, <1>4, <1>7, ConcatProperties
<1>9. /\ Len(w) = Len(c) + Len(d)
      /\ \A i \in 1 .. Len(c) + Len(d) : w[i] = IF i <= Len(c) THEN c[i] ELSE d[i - Len(c)]
  BY <1>3, <1>5, ConcatProperties
<1>10. Len(b) \in Nat /\ Len(c) \in Nat /\ Len(d) \in Nat /\ Len(x) \in Nat
  BY <1>3, <1>7, LenProperties
<1>11. ASSUME NEW j \in 1 .. Len(x)
       PROVE  w[Len(b) + j] = x[j]
  <2>1. /\ Len(b) + j \in 1 .. Len(c) /\ Len(b) + j \in 1 .. Len(c) + Len(d)
        /\ ~ (Len(b) + j <= Len(b)) /\ (Len(b) + j) - Len(b) = j
    BY <1>8, <1>10
  <2>2. w[Len(b) + j] = c[Len(b) + j]
    BY <1>9, <1>10, <2>1
  <2>3. c[Len(b) + j] = x[j]
    BY <1>8, <2>1
  <2> QED
    BY <2>2, <2>3
<1>12. Len(c) <= Len(w)
  BY <1>9, <1>10
<1> QED
  BY <1>3, <1>6, <1>7, <1>8, <1>11, <1>12 DEF b, w

(***************************************************************************)
(* Texts of flags.                                                         *)
(***************************************************************************)
EventRecords == [text : Seq(STRING), fields : Seq([key : STRING, value : Seq(STRING)])]

LEMMA Single ==
  ASSUME NEW S, NEW x \in S
  PROVE  <<x>> \in Seq(S) /\ Len(<<x>>) = 1 /\ <<x>>[1] = x
OBVIOUS

LEMMA Double ==
  ASSUME NEW S, NEW x \in S, NEW y \in S
  PROVE  <<x, y>> \in Seq(S)
OBVIOUS

LEMMA Triple ==
  ASSUME NEW S, NEW x \in S, NEW y \in S, NEW z \in S
  PROVE  <<x, y, z>> \in Seq(S)
OBVIOUS

LEMMA ValueType ==
  ASSUME NEW text \in Seq(STRING)
  PROVE  Value(text) \in Seq(STRING)
<1>1. <<"\"">> \in Seq(STRING)
  <2>1. "\"" \in STRING
    BY StringAssumption
  <2> QED
    BY <2>1, Single
<1>2. <<"\"">> \o text \in Seq(STRING)
  BY <1>1, ConcatProperties
<1>3. (<<"\"">> \o text) \o <<"\"">> \in Seq(STRING)
  BY <1>1, <1>2, ConcatProperties
<1> QED
  BY <1>3 DEF Value, Quoted

(* A sequence that is given by its elements.                               *)
LEMMA SequenceOf ==
  ASSUME NEW S, NEW n \in Nat, NEW f, f = [i \in 1 .. n |-> f[i]], \A i \in 1 .. n : f[i] \in S
  PROVE  f \in Seq(S) /\ Len(f) = n
<1>1. f \in [1 .. n -> S]
  OBVIOUS
<1> QED
  BY <1>1

LEMMA FieldsTextType ==
  ASSUME NEW prefix \in Seq(STRING), NEW e \in EventRecords
  PROVE  FieldsText(prefix, e) \in Seq(STRING)
<1> DEFINE field(i) == (IF i = 1 THEN prefix ELSE <<" ">>)
                         \o <<e.fields[i].key, "=">> \o Value(e.fields[i].value)
           parts == [i \in 1 .. Len(e.fields) |-> field(i)]
<1>1. e.fields \in Seq([key : STRING, value : Seq(STRING)])
  BY DEF EventRecords
<1>2. ASSUME NEW i \in 1 .. Len(e.fields)
      PROVE  field(i) \in Seq(STRING)
  <2>1. e.fields[i] \in [key : STRING, value : Seq(STRING)]
    BY <1>1, ElementOfSeq
  <2>2. /\ (IF i = 1 THEN prefix ELSE <<" ">>) \in Seq(STRING)
        /\ <<e.fields[i].key, "=">> \in Seq(STRING)
        /\ Value(e.fields[i].value) \in Seq(STRING)
    <3>1. /\ e.fields[i].key \in STRING /\ e.fields[i].value \in Seq(STRING)
          /\ " " \in STRING /\ "=" \in STRING
      BY <2>1, StringAssumption
    <3>2. <<" ">> \in Seq(STRING)
      BY <3>1, Single
    <3>3. <<e.fields[i].key, "=">> \in Seq(STRING)
      BY <3>1, Double
    <3> QED
      BY <3>1, <3>2, <3>3, ValueType
  <2>3. (IF i = 1 THEN prefix ELSE <<" ">>) \o <<e.fields[i].key, "=">> \in Seq(STRING)
    BY <2>2, ConcatProperties
  <2> QED
    BY <2>2, <2>3, ConcatProperties
<1>3. Len(e.fields) \in Nat /\ \A i \in 1 .. Len(e.fields) : parts[i] \in Seq(STRING)
  BY <1>1, <1>2, LenProperties
<1>4. parts = [i \in 1 .. Len(e.fields) |-> parts[i]]
  OBVIOUS
<1>5. FieldsText(prefix, e) = FlattenSeq(parts)
  BY DEF FieldsText
<1> HIDE DEF parts
<1>6. parts \in Seq(Seq(STRING))
  BY <1>3, <1>4, SequenceOf
<1> QED
  BY <1>5, <1>6, FlattenType

LEMMA FlagTextType ==
  ASSUME NEW f \in FlagFormatters, NEW e \in EventRecords
  PROVE  FlagText(f, e) \in Seq(STRING)
<1>1. /\ f.flag \in STRING /\ f.zone \in STRING /\ f.text \in Seq(STRING)
      /\ e.text \in Seq(STRING)
  <2>1. f.flag \in STRING /\ f.zone \in {"utc", "local"} /\ f.text \in Seq(STRING)
    BY DEF FlagFormatters
  <2>2. e.text \in Seq(STRING)
    BY DEF EventRecords
  <2> QED
    BY <2>1, <2>2, StringAssumption
<1>2. /\ FieldsText(f.text, e) \in Seq(STRING)
      /\ <<f.zone>> \in Seq(STRING) /\ <<"000">> \in Seq(STRING) /\ <<"fraction">> \in Seq(STRING)
      /\ <<f.flag>> \in Seq(STRING)
  <2>1. FieldsText(f.text, e) \in Seq(STRING)
    BY <1>1, FieldsTextType
  <2>2. "000" \in STRING /\ "fraction" \in STRING
    BY StringAssumption
  <2> QED
    BY <1>1, <2>1, <2>2, Single
<1>3. <<f.flag>> \o f.text \in Seq(STRING)
  BY <1>1, <1>2, ConcatProperties
<1> QED
  BY <1>1, <1>2, <1>3 DEF FlagText

Parts(fs, e) == [i \in 1 .. Len(fs) |-> FlagText(fs[i], e)]

LEMMA PartsType ==
  ASSUME NEW fs \in Seq(FlagFormatters), NEW e \in EventRecords
  PROVE  /\ Parts(fs, e) \in Seq(Seq(STRING)) /\ Len(Parts(fs, e)) = Len(fs)
         /\ \A i \in 1 .. Len(fs) : Parts(fs, e)[i] = FlagText(fs[i], e)
         /\ Texts(fs, e) = FlattenSeq(Parts(fs, e))
         /\ Texts(fs, e) \in Seq(STRING)
<1> DEFINE parts == Parts(fs, e)
<1>1. Len(fs) \in Nat /\ \A i \in 1 .. Len(fs) : fs[i] \in FlagFormatters
  BY LenProperties, ElementOfSeq
<1>2. \A i \in 1 .. Len(fs) : parts[i] = FlagText(fs[i], e)
  BY DEF Parts
<1>3. parts = [i \in 1 .. Len(fs) |-> parts[i]]
  BY DEF Parts
<1>4. Texts(fs, e) = FlattenSeq(parts)
  BY DEF Texts, Parts
<1> HIDE DEF parts
<1>5. \A i \in 1 .. Len(fs) : parts[i] \in Seq(STRING)
  BY <1>1, <1>2, FlagTextType
<1>6. parts \in Seq(Seq(STRING)) /\ Len(parts) = Len(fs)
  BY <1>1, <1>3, <1>5, SequenceOf
<1>7. FlattenSeq(parts) \in Seq(STRING)
  BY <1>6, FlattenType
<1> QED
  BY <1>2, <1>4, <1>6, <1>7 DEF parts

LEMMA TextsConcat ==
  ASSUME NEW fs \in Seq(FlagFormatters), NEW gs \in Seq(FlagFormatters), NEW e \in EventRecords
  PROVE  fs \o gs \in Seq(FlagFormatters) /\ Texts(fs \o gs, e) = Texts(fs, e) \o Texts(gs, e)
<1>1. /\ fs \o gs \in Seq(FlagFormatters) /\ Len(fs \o gs) = Len(fs) + Len(gs)
      /\ \A i \in 1 .. Len(fs) + Len(gs) :
           (fs \o gs)[i] = IF i <= Len(fs) THEN fs[i] ELSE gs[i - Len(fs)]
  BY ConcatProperties
<1> DEFINE a == Parts(fs, e)
           b == Parts(gs, e)
           c == Parts(fs \o gs, e)
<1>2. /\ a \in Seq(Seq(STRING)) /\ Len(a) = Len(fs)
      /\ \A i \in 1 .. Len(fs) : a[i] = FlagText(fs[i], e)
      /\ Texts(fs, e) = FlattenSeq(a)
  BY PartsType
<1>3. /\ b \in Seq(Seq(STRING)) /\ Len(b) = Len(gs)
      /\ \A i \in 1 .. Len(gs) : b[i] = FlagText(gs[i], e)
      /\ Texts(gs, e) = FlattenSeq(b)
  BY PartsType
<1>4. /\ c \in Seq(Seq(STRING)) /\ Len(c) = Len(fs \o gs)
      /\ \A i \in 1 .. Len(fs \o gs) : c[i] = FlagText((fs \o gs)[i], e)
      /\ Texts(fs \o gs, e) = FlattenSeq(c)
  BY <1>1, PartsType
<1> HIDE DEF a, b, c
<1>5. Len(fs) \in Nat /\ Len(gs) \in Nat
  BY LenProperties
<1>6. /\ a \o b \in Seq(Seq(STRING)) /\ Len(a \o b) = Len(a) + Len(b)
      /\ \A i \in 1 .. Len(a) + Len(b) : (a \o b)[i] = IF i <= Len(a) THEN a[i] ELSE b[i - Len(a)]
  <2>1. a \in Seq(Seq(STRING)) /\ b \in Seq(Seq(STRING))
    BY <1>2, <1>3
  <2> QED
    BY <2>1, ConcatProperties
<1>7. ASSUME NEW i \in 1 .. Len(fs) + Len(gs)
      PROVE  c[i] = (a \o b)[i]
  <2>1. CASE i <= Len(fs)
    <3>1. i \in 1 .. Len(fs)
      BY <1>5, <2>1
    <3>2. c[i] = FlagText(fs[i], e)
      BY <1>1, <1>4, <2>1
    <3> QED
      BY <1>2, <1>3, <1>6, <2>1, <3>1, <3>2
  <2>2. CASE ~ (i <= Len(fs))
    <3>1. i - Len(fs) \in 1 .. Len(gs)
      BY <1>5, <2>2
    <3>2. c[i] = FlagText(gs[i - Len(fs)], e)
      BY <1>1, <1>4, <2>2
    <3>3. (a \o b)[i] = b[i - Len(fs)]
      BY <1>2, <1>3, <1>6, <2>2
    <3>4. b[i - Len(fs)] = FlagText(gs[i - Len(fs)], e)
      BY <1>3, <3>1
    <3> QED
      BY <3>2, <3>3, <3>4
  <2> QED
    BY <2>1, <2>2
<1>8. c = a \o b
  <2>1. Len(c) = Len(a \o b) /\ \A i \in 1 .. Len(c) : c[i] = (a \o b)[i]
    BY <1>1, <1>2, <1>3, <1>4, <1>6, <1>7
  <2> QED
    BY <1>4, <1>6, <2>1, SeqEqual
<1>9. FlattenSeq(a \o b) = FlattenSeq(a) \o FlattenSeq(b)
  BY <1>2, <1>3, FlattenConcat
<1> QED
  BY <1>1, <1>2, <1>3, <1>4, <1>8, <1>9

LEMMA TextsOne ==
  ASSUME NEW f \in FlagFormatters, NEW e \in EventRecords
  PROVE  <<f>> \in Seq(FlagFormatters) /\ Texts(<<f>>, e) = FlagText(f, e)
<1>1. <<f>> \in Seq(FlagFormatters) /\ Len(<<f>>) = 1 /\ <<f>>[1] = f
  OBVIOUS
<1> DEFINE a == Parts(<<f>>, e)
<1>2. /\ a \in Seq(Seq(STRING)) /\ Len(a) = 1 /\ a[1] = FlagText(f, e)
      /\ Texts(<<f>>, e) = FlattenSeq(a)
  <2>1. PICK fs \in Seq(FlagFormatters) : fs = <<f>> /\ Len(fs) = 1 /\ fs[1] = f
    BY <1>1
  <2>2. /\ Parts(fs, e) \in Seq(Seq(STRING)) /\ Len(Parts(fs, e)) = 1
        /\ Parts(fs, e)[1] = FlagText(f, e)
        /\ Texts(fs, e) = FlattenSeq(Parts(fs, e))
    <3>1. /\ Parts(fs, e) \in Seq(Seq(STRING)) /\ Len(Parts(fs, e)) = Len(fs)
          /\ \A i \in 1 .. Len(fs) : Parts(fs, e)[i] = FlagText(fs[i], e)
          /\ Texts(fs, e) = FlattenSeq(Parts(fs, e))
      BY PartsType
    <3> QED
      BY <2>1, <3>1
  <2> QED
    BY <2>1, <2>2
<1> HIDE DEF a
<1>3. FlagText(f, e) \in Seq(STRING)
  BY FlagTextType
<1>4. a = Append(<<>>, FlagText(f, e))
  <2>1. <<>> \in Seq(Seq(STRING)) /\ Len(<<>>) = 0
    BY EmptySeq
  <2>2. /\ Append(<<>>, FlagText(f, e)) \in Seq(Seq(STRING))
        /\ Len(Append(<<>>, FlagText(f, e))) = 1
        /\ Append(<<>>, FlagText(f, e))[1] = FlagText(f, e)
    BY <1>3, <2>1, AppendProperties
  <2> QED
    BY <1>2, <2>2, SeqEqual
<1>5. FlattenSeq(Append(<<>>, FlagText(f, e))) = FlattenSeq(<<>>) \o FlagText(f, e)
  <2>1. <<>> \in Seq(Seq(STRING))
    BY EmptySeq
  <2> QED
    BY <1>3, <2>1, FlattenAppend
<1>6. <<>> \o FlagText(f, e) = FlagText(f, e)
  BY <1>3, ConcatEmptySeq
<1> QED
  BY <1>1, <1>2, <1>4, <1>5, <1>6, FlattenNone

(***************************************************************************)
(* What the parser adds to the flags.                                      *)
(***************************************************************************)
LEMMA FlagTypes ==
  /\ \A c \in STRING, z \in {"utc", "local"} : Flag(c, z) \in FlagFormatters
  /\ \A text \in Seq(STRING) : Literal(text) \in FlagFormatters
  /\ \A text \in Seq(STRING) : Fields(text) \in FlagFormatters
<1>1. <<>> \in Seq(STRING)
  BY EmptySeq
<1> QED
  BY <1>1, StringAssumption DEF Flag, Literal, Fields, FlagFormatters

(* No formatter is an empty literal.                                       *)
Substantial(fs) == \A i \in DOMAIN fs : fs[i].text # <<>> \/ fs[i].flag # "literal"

LEMMA FullFlagsType ==
  ASSUME NEW z \in {"utc", "local"}
  PROVE  FullIn(z) \in Seq(FlagFormatters) /\ Substantial(FullIn(z))
<1>2. /\ Flag("Y", z) \in FlagFormatters /\ Flag("l", "utc") \in FlagFormatters
      /\ Flag("n", "utc") \in FlagFormatters /\ Flag("v", "utc") \in FlagFormatters
  BY FlagTypes, StringAssumption DEF PlainFlags, DateFlags, EventFlags
<1>3. /\ Literal(<<" ", "[">>) \in FlagFormatters /\ Literal(<<")", " ">>) \in FlagFormatters
      /\ Literal(<<"]", " ", "(">>) \in FlagFormatters
      /\ Fields(<<" ", "-", " ">>) \in FlagFormatters
  <2>1. /\ " " \in STRING /\ "[" \in STRING /\ "]" \in STRING /\ "(" \in STRING
        /\ ")" \in STRING /\ "-" \in STRING
    BY StringAssumption
  <2>2. /\ <<" ", "[">> \in Seq(STRING) /\ <<")", " ">> \in Seq(STRING)
        /\ <<"]", " ", "(">> \in Seq(STRING) /\ <<" ", "-", " ">> \in Seq(STRING)
    BY <2>1, Double, Triple
  <2> QED
    BY <2>2, FlagTypes
<1>4. ASSUME NEW a \in FlagFormatters, NEW b \in FlagFormatters, NEW c \in FlagFormatters,
             NEW d \in FlagFormatters, NEW f \in FlagFormatters, NEW g \in FlagFormatters,
             NEW h \in FlagFormatters, NEW i \in FlagFormatters
      PROVE  <<a, b, c, d, f, g, h, i>> \in Seq(FlagFormatters)
  OBVIOUS
<1>5. FullIn(z) \in Seq(FlagFormatters)
  BY <1>2, <1>3, <1>4 DEF FullIn
<1>6. Substantial(FullIn(z))
  <2>1. /\ Flag("Y", z).flag # "literal" /\ Flag("l", "utc").flag # "literal"
        /\ Flag("n", "utc").flag # "literal" /\ Flag("v", "utc").flag # "literal"
        /\ Fields(<<" ", "-", " ">>).flag # "literal"
    BY DEF Flag, Fields
  <2>2. /\ Literal(<<" ", "[">>).text # <<>> /\ Literal(<<")", " ">>).text # <<>>
        /\ Literal(<<"]", " ", "(">>).text # <<>>
    BY DEF Literal
  <2>3. DOMAIN FullIn(z) = 1 .. 8
    BY DEF FullIn
  <2>4. /\ FullIn(z)[1] = Flag("Y", z) /\ FullIn(z)[2] = Literal(<<" ", "[">>)
        /\ FullIn(z)[3] = Flag("l", "utc") /\ FullIn(z)[4] = Literal(<<"]", " ", "(">>)
        /\ FullIn(z)[5] = Flag("n", "utc") /\ FullIn(z)[6] = Literal(<<")", " ">>)
        /\ FullIn(z)[7] = Flag("v", "utc") /\ FullIn(z)[8] = Fields(<<" ", "-", " ">>)
    BY DEF FullIn
  <2>5. \A i \in 1 .. 8 : \/ i = 1 \/ i = 2 \/ i = 3 \/ i = 4
      \/ i = 5 \/ i = 6 \/ i = 7 \/ i = 8
    OBVIOUS
  <2>6. ASSUME NEW i \in 1 .. 8
        PROVE  FullIn(z)[i].text # <<>> \/ FullIn(z)[i].flag # "literal"
    BY <2>1, <2>2, <2>4, <2>5, Zenon
  <2> QED
    BY <2>3, <2>6 DEF Substantial
<1> QED
  BY <1>5, <1>6

LEMMA FullFlagsFound == FullFlags \in Seq(FlagFormatters) /\ Substantial(FullFlags)
BY FullFlagsType DEF FullFlags

LEMMA SubstantialConcat ==
  ASSUME NEW fs \in Seq(FlagFormatters), NEW gs \in Seq(FlagFormatters),
         Substantial(fs), Substantial(gs)
  PROVE  Substantial(fs \o gs)
<1>1. /\ fs \o gs \in Seq(FlagFormatters) /\ Len(fs \o gs) = Len(fs) + Len(gs)
      /\ \A i \in 1 .. Len(fs) + Len(gs) :
           (fs \o gs)[i] = IF i <= Len(fs) THEN fs[i] ELSE gs[i - Len(fs)]
  BY ConcatProperties
<1>2. /\ Len(fs) \in Nat /\ Len(gs) \in Nat
      /\ DOMAIN fs = 1 .. Len(fs) /\ DOMAIN gs = 1 .. Len(gs)
      /\ DOMAIN (fs \o gs) = 1 .. Len(fs) + Len(gs)
  BY <1>1, LenProperties
<1>3. ASSUME NEW i \in 1 .. Len(fs) + Len(gs)
      PROVE  (fs \o gs)[i].text # <<>> \/ (fs \o gs)[i].flag # "literal"
  <2>1. CASE i <= Len(fs)
    <3>1. i \in DOMAIN fs
      BY <1>2, <2>1
    <3> QED
      BY <1>1, <2>1, <3>1 DEF Substantial
  <2>2. CASE ~ (i <= Len(fs))
    <3>1. i - Len(fs) \in DOMAIN gs
      BY <1>2, <2>2
    <3> QED
      BY <1>1, <2>2, <3>1 DEF Substantial
  <2> QED
    BY <2>1, <2>2
<1> QED
  BY <1>2, <1>3 DEF Substantial

(* The literal becomes the last formatter.                                 *)
LEMMA FlushText ==
  ASSUME flags \in Seq(FlagFormatters), literal \in Seq(STRING), Substantial(flags)
  PROVE  /\ Flush(flags) \in Seq(FlagFormatters) /\ Substantial(Flush(flags))
         /\ \A e \in EventRecords : Texts(Flush(flags), e) = Texts(flags, e) \o literal
<1>1. CASE literal = <<>>
  <2>1. ASSUME NEW e \in EventRecords
        PROVE  Texts(flags, e) \o <<>> = Texts(flags, e)
    BY PartsType, ConcatEmptySeq
  <2> QED
    BY <1>1, <2>1 DEF Flush
<1>2. CASE literal # <<>>
  <2> DEFINE f == Literal(literal)
  <2>1. f \in FlagFormatters /\ f.text = literal /\ f.flag = "literal"
    BY FlagTypes DEF Literal
  <2>2. Flush(flags) = Append(flags, f)
    BY <1>2 DEF Flush
  <2> HIDE DEF f
  <2>3. Flush(flags) = flags \o <<f>>
    BY <2>1, <2>2, AppendIsConcat
  <2>4. <<f>> \in Seq(FlagFormatters) /\ Len(<<f>>) = 1 /\ <<f>>[1] = f /\ DOMAIN <<f>> = 1 .. 1
    BY <2>1, Single
  <2>5. Substantial(<<f>>)
    BY <1>2, <2>1, <2>4 DEF Substantial
  <2>6. flags \o <<f>> \in Seq(FlagFormatters) /\ Substantial(flags \o <<f>>)
    BY <2>4, <2>5, SubstantialConcat, ConcatProperties
  <2>7. ASSUME NEW e \in EventRecords
        PROVE  Texts(flags \o <<f>>, e) = Texts(flags, e) \o literal
    <3>1. Texts(flags \o <<f>>, e) = Texts(flags, e) \o Texts(<<f>>, e)
      BY <2>4, TextsConcat
    <3>2. Texts(<<f>>, e) = FlagText(f, e)
      BY <2>1, TextsOne
    <3>3. FlagText(f, e) = literal
      BY <2>1, FlagsAssumption DEF FlagText, DateFlags, FractionFlags
    <3> QED
      BY <3>1, <3>2, <3>3
  <2> QED
    BY <2>3, <2>6, <2>7
<1> QED
  BY <1>1, <1>2

LEMMA FoundText ==
  ASSUME flags \in Seq(FlagFormatters), literal \in Seq(STRING), Substantial(flags),
         NEW fs \in Seq(FlagFormatters), Substantial(fs), Found(fs)
  PROVE  /\ flags' \in Seq(FlagFormatters) /\ Substantial(flags') /\ literal' = <<>>
         /\ \A e \in EventRecords :
              Texts(flags', e) \o literal' = (Texts(flags, e) \o literal) \o Texts(fs, e)
<1>1. flags' = Flush(flags) \o fs /\ literal' = <<>>
  BY DEF Found
<1>2. /\ Flush(flags) \in Seq(FlagFormatters) /\ Substantial(Flush(flags))
      /\ \A e \in EventRecords : Texts(Flush(flags), e) = Texts(flags, e) \o literal
  BY FlushText
<1>3. PICK gs \in Seq(FlagFormatters) : gs = Flush(flags)
  BY <1>2
<1>4. gs \o fs \in Seq(FlagFormatters) /\ Substantial(gs \o fs)
  BY <1>2, <1>3, SubstantialConcat, ConcatProperties
<1>5. ASSUME NEW e \in EventRecords
      PROVE  Texts(flags', e) \o literal' = (Texts(flags, e) \o literal) \o Texts(fs, e)
  <2>1. Texts(gs \o fs, e) = Texts(gs, e) \o Texts(fs, e)
    BY TextsConcat
  <2>2. Texts(gs \o fs, e) \in Seq(STRING)
    BY <1>4, PartsType
  <2>3. Texts(gs \o fs, e) \o <<>> = Texts(gs \o fs, e)
    BY <2>2, ConcatEmptySeq
  <2> QED
    BY <1>1, <1>2, <1>3, <2>1, <2>3
<1> QED
  BY <1>1, <1>3, <1>4, <1>5

(***************************************************************************)
(* What the pieces mean.                                                   *)
(***************************************************************************)
LEMMA PieceTexts ==
  ASSUME NEW p \in Seq(STRING), p # <<>>, NEW z, NEW e
  PROVE  /\ p = <<"%">> => PieceText(p, z, e) = <<>>
         /\ Len(p) = 1 /\ p # <<"%">> => PieceText(p, z, e) = p
         /\ \A c : p = <<"%", c>> => PieceText(p, z, e) = FlagText(Flag(c, z), e)
         /\ Len(p) > 2 /\ Head(p) = "%" =>
              PieceText(p, z, e) = FlagText(Fields(SubSeq(p, 4, Len(p) - 1)), e)
         /\ Head(p) # "%" => PieceText(p, z, e) = p
<1>1. Len(p) \in Nat \ {0}
  BY EmptySeq
<1>2. Len(<<"%">>) = 1 /\ Head(<<"%">>) = "%"
  OBVIOUS
<1>3. p = <<"%">> => PieceText(p, z, e) = <<>>
  BY <1>2 DEF PieceText
<1>4. Len(p) = 1 /\ p # <<"%">> => PieceText(p, z, e) = p
  BY DEF PieceText
<1>5. ASSUME NEW c, p = <<"%", c>>
      PROVE  PieceText(p, z, e) = FlagText(Flag(c, z), e)
  <2>1. Len(p) = 2 /\ Head(p) = "%" /\ p[2] = c /\ p # <<"%">>
    BY <1>2, <1>5
  <2> QED
    BY <2>1 DEF PieceText
<1>6. ASSUME Len(p) > 2, Head(p) = "%"
      PROVE  PieceText(p, z, e) = FlagText(Fields(SubSeq(p, 4, Len(p) - 1)), e)
  <2>1. Len(p) # 2 /\ Len(p) # 1
    <3>1. PICK k \in Nat : k = Len(p)
      BY <1>1
    <3>2. k > 2
      BY <1>6, <3>1
    <3>3. k \in Nat
      BY <3>1
    <3>4. k # 2 /\ k # 1
      BY <3>2, <3>3
    <3> QED
      BY <3>1, <3>4
  <2>2. p # <<"%">>
    BY <1>2, <2>1, Zenon
  <2> QED
    BY <1>6, <2>1, <2>2 DEF PieceText
<1>7. Head(p) # "%" => PieceText(p, z, e) = p
  BY <1>2 DEF PieceText
<1> QED
  BY <1>3, <1>4, <1>5, <1>6, <1>7

LEMMA PieceTextType ==
  ASSUME NEW p \in Seq(STRING), p # <<>>, NEW z \in {"utc", "local"}, NEW e \in EventRecords
  PROVE  PieceText(p, z, e) \in Seq(STRING)
<1>1. /\ Len(p) \in Nat \ {0} /\ Head(p) = p[1]
      /\ \A i \in 1 .. Len(p) : p[i] \in STRING
  BY EmptySeq, ElementOfSeq
<1>2. CASE Head(p) # "%"
  BY <1>2, PieceTexts
<1>3. CASE Head(p) = "%" /\ Len(p) = 1
  <2>1. p = <<p[1]>>
    BY <1>3
  <2> QED
    BY <1>1, <1>3, <2>1, PieceTexts, EmptySeq
<1>4. CASE Head(p) = "%" /\ Len(p) = 2
  <2>1. p = <<"%", p[2]>> /\ p[2] \in STRING
    BY <1>1, <1>4
  <2>2. PieceText(p, z, e) = FlagText(Flag(p[2], z), e)
    BY <2>1, PieceTexts
  <2>3. Flag(p[2], z) \in FlagFormatters
    BY <2>1, FlagTypes
  <2> QED
    BY <2>2, <2>3, FlagTextType
<1>5. CASE Head(p) = "%" /\ Len(p) > 2
  <2>1. SubSeq(p, 4, Len(p) - 1) \in Seq(STRING)
    <3>1. 4 \in Int /\ Len(p) - 1 \in Int /\ \A i \in 4 .. Len(p) - 1 : p[i] \in STRING
      BY <1>1
    <3> QED
      BY <3>1, SubSeqProperties
  <2>2. Fields(SubSeq(p, 4, Len(p) - 1)) \in FlagFormatters
    BY <2>1, FlagTypes
  <2> QED
    BY <1>5, <2>2, PieceTexts, FlagTextType
<1>6. Len(p) = 1 \/ Len(p) = 2 \/ Len(p) > 2
  <2>1. PICK k \in Nat \ {0} : k = Len(p)
    BY <1>1
  <2>2. k = 1 \/ k = 2 \/ k > 2
    BY <2>1
  <2> QED
    BY <2>1, <2>2
<1> QED
  BY <1>2, <1>3, <1>4, <1>5, <1>6, Zenon

LEMMA MeaningType ==
  ASSUME Parsing, NEW i \in 1 .. Len(pieces), NEW e \in EventRecords
  PROVE  Meaning(i, e) \in Seq(STRING) /\ pieces[i] \in Seq(STRING) /\ pieces[i] # <<>>
<1>1. pieces[i] \in Seq(STRING) /\ pieces[i] # <<>>
  <2>1. pieces \in Seq(Pieces[kind]) /\ kind \in DOMAIN Pieces
    BY DEF Parsing
  <2>2. pieces[i] \in Pieces[kind]
    BY <2>1, ElementOfSeq
  <2> QED
    BY <2>1, <2>2, PiecesAssumption
<1>2. PICK z \in {"utc", "local"} : z = ZoneAt(i)
  BY DEF ZoneAt
<1>3. PieceText(pieces[i], z, e) \in Seq(STRING)
  BY <1>1, PieceTextType
<1>4. Texts(FullIn(z), e) \in Seq(STRING)
  BY FullFlagsType, PartsType
<1>5. <<>> \in Seq(STRING)
  BY EmptySeq
<1> QED
  BY <1>1, <1>2, <1>3, <1>4, <1>5 DEF Meaning

Meanings(n, e) == [i \in 1 .. n |-> Meaning(i, e)]

LEMMA MeaningsType ==
  ASSUME Parsing, NEW n \in 0 .. Len(pieces), NEW e \in EventRecords
  PROVE  /\ Meanings(n, e) \in Seq(Seq(STRING)) /\ Len(Meanings(n, e)) = n
         /\ \A i \in 1 .. n : Meanings(n, e)[i] = Meaning(i, e)
         /\ FirstMean(n, e) = FlattenSeq(Meanings(n, e))
         /\ FirstMean(n, e) \in Seq(STRING)
<1> DEFINE all == Meanings(n, e)
<1>1. Len(pieces) \in Nat /\ n \in Nat
  <2>1. pieces \in Seq(Pieces[kind])
    BY DEF Parsing
  <2>2. Len(pieces) \in Nat
    BY <2>1, LenProperties
  <2> QED
    BY <2>2
<1>2. \A i \in 1 .. n : all[i] = Meaning(i, e)
  BY DEF Meanings
<1>3. all = [i \in 1 .. n |-> all[i]] /\ FirstMean(n, e) = FlattenSeq(all)
  BY DEF Meanings, FirstMean
<1> HIDE DEF all
<1>4. \A i \in 1 .. n : all[i] \in Seq(STRING)
  <2>1. \A i \in 1 .. n : i \in 1 .. Len(pieces)
    BY <1>1
  <2> QED
    BY <1>2, <2>1, MeaningType
<1>5. all \in Seq(Seq(STRING)) /\ Len(all) = n
  BY <1>1, <1>3, <1>4, SequenceOf
<1>6. FlattenSeq(all) \in Seq(STRING)
  BY <1>5, FlattenType
<1> QED
  BY <1>2, <1>3, <1>5, <1>6 DEF all

LEMMA MeaningNext ==
  ASSUME Parsing, NEW n \in 1 .. Len(pieces), NEW e \in EventRecords
  PROVE  FirstMean(n, e) = FirstMean(n - 1, e) \o Meaning(n, e)
<1> DEFINE a == Meanings(n - 1, e)
           b == Meanings(n, e)
<1>1. Len(pieces) \in Nat /\ n \in 0 .. Len(pieces) /\ n - 1 \in 0 .. Len(pieces)
  <2>1. pieces \in Seq(Pieces[kind])
    BY DEF Parsing
  <2>2. Len(pieces) \in Nat
    BY <2>1, LenProperties
  <2> QED
    BY <2>2
<1>2. /\ a \in Seq(Seq(STRING)) /\ Len(a) = n - 1
      /\ \A i \in 1 .. n - 1 : a[i] = Meaning(i, e)
      /\ FirstMean(n - 1, e) = FlattenSeq(a)
  BY <1>1, MeaningsType
<1>3. /\ b \in Seq(Seq(STRING)) /\ Len(b) = n
      /\ \A i \in 1 .. n : b[i] = Meaning(i, e)
      /\ FirstMean(n, e) = FlattenSeq(b)
  BY <1>1, MeaningsType
<1>4. Meaning(n, e) \in Seq(STRING)
  BY MeaningType
<1> HIDE DEF a, b
<1>5. PICK m \in Seq(STRING) : m = Meaning(n, e)
  BY <1>4
<1>6. b = Append(a, m)
  <2>1. /\ Append(a, m) \in Seq(Seq(STRING)) /\ Len(Append(a, m)) = Len(a) + 1
        /\ \A i \in 1 .. Len(a) : Append(a, m)[i] = a[i]
        /\ Append(a, m)[Len(a) + 1] = m
    <3>1. a \in Seq(Seq(STRING))
      BY <1>2
    <3> QED
      BY <3>1, AppendProperties
  <2>2. Len(b) = Len(Append(a, m)) /\ \A i \in 1 .. Len(b) : b[i] = Append(a, m)[i]
    BY <1>1, <1>2, <1>3, <1>5, <2>1
  <2> QED
    BY <1>3, <2>1, <2>2, SeqEqual
<1>7. FlattenSeq(Append(a, m)) = FlattenSeq(a) \o m
  BY <1>2, FlattenAppend
<1> QED
  BY <1>2, <1>3, <1>5, <1>6, <1>7

LEMMA ZoneNext ==
  ASSUME NEW n \in Nat \ {0}
  PROVE  ZoneAt(n + 1) = IF IsFlag(pieces[n], "L") THEN "local" ELSE ZoneAt(n)
<1>1. \A j : j \in 1 .. (n + 1) - 1 <=> j = n \/ j \in 1 .. n - 1
  OBVIOUS
<1> QED
  BY <1>1 DEF ZoneAt

(***************************************************************************)
(* Where the parser is.                                                    *)
(***************************************************************************)
KnownFlags == PlainFlags \cup {"L", "+", "f"} \cup CustomFlags

LEMMA Kinds ==
  ASSUME Parsing, kind = "pattern", NEW i \in 1 .. Len(pieces), NEW p, p = pieces[i]
  PROVE  /\ p \in Seq(STRING) /\ Len(p) \in Nat \ {0}
         /\ Len(p) = 1 => p = <<p[1]>>
         /\ Len(p) # 1 => Len(p) >= 2 /\ p[1] = "%" /\ p[2] \in KnownFlags
         /\ Len(p) = 2 => p = <<"%", p[2]>>
         /\ Len(p) > 2 => /\ Len(p) > 3 /\ p[2] = "f" /\ p[3] = "["
                          /\ \A j \in 4 .. Len(p) : p[j] = "]" <=> j = Len(p)
<1>1. kind \in DOMAIN Pieces /\ pieces \in Seq(Pieces[kind])
  BY DEF Parsing
<1>2. p \in Pieces["pattern"] /\ p \in Seq(STRING) /\ p # <<>>
  <2>1. pieces[i] \in Pieces[kind]
    BY <1>1, ElementOfSeq
  <2> QED
    BY <1>1, <2>1, PiecesAssumption
<1>3. Len(p) \in Nat \ {0}
  BY <1>2, EmptySeq
<1>4. \/ Len(p) = 1
      \/ \E c \in KnownFlags : p = <<"%", c>>
      \/ /\ Len(p) > 3 /\ SubSeq(p, 1, 3) = <<"%", "f", "[">>
         /\ \A j \in 4 .. Len(p) : p[j] = "]" <=> j = Len(p)
  BY <1>1, <1>2, PatternAssumption, Zenon DEF KnownFlags
<1>5. CASE Len(p) = 1
  <2>1. p = <<p[1]>>
    BY <1>2, <1>5
  <2> QED
    BY <1>2, <1>3, <1>5, <2>1
<1>6. CASE \E c \in KnownFlags : p = <<"%", c>>
  <2>1. PICK c \in KnownFlags : p = <<"%", c>>
    BY <1>6
  <2>2. Len(p) = 2 /\ p[1] = "%" /\ p[2] = c
    BY <2>1
  <2>3. Len(p) # 1 /\ ~ (Len(p) > 2) /\ Len(p) >= 2
    BY <2>2
  <2> QED
    BY <1>2, <1>3, <2>1, <2>2, <2>3
<1>7. CASE /\ Len(p) > 3 /\ SubSeq(p, 1, 3) = <<"%", "f", "[">>
           /\ \A j \in 4 .. Len(p) : p[j] = "]" <=> j = Len(p)
  <2>1. PICK k \in Nat : k = Len(p)
    BY <1>3
  <2>2. k > 3
    BY <1>7, <2>1
  <2>3. k \in Nat
    BY <2>1
  <2>4. k # 1 /\ k # 2 /\ k >= 2 /\ k > 2 /\ \A j \in 1 .. 3 : j \in 1 .. k
    BY <2>2, <2>3
  <2>5. p[1] = "%" /\ p[2] = "f" /\ p[3] = "["
    <3>1. \A j \in 1 .. 3 : SubSeq(p, 1, 3)[j] = p[1 + j - 1]
      <4>1. \A j \in 1 .. 3 : p[j] \in STRING
        BY <1>2, <2>1, <2>4, ElementOfSeq
      <4>2. 1 \in Int /\ 3 \in Int /\ 3 - 1 + 1 = 3
        OBVIOUS
      <4> QED
        BY <4>1, <4>2, SubSeqProperties
    <3>2. /\ SubSeq(p, 1, 3)[1] = p[1] /\ SubSeq(p, 1, 3)[2] = p[2]
          /\ SubSeq(p, 1, 3)[3] = p[3]
      BY <3>1
    <3>3. /\ <<"%", "f", "[">>[1] = "%" /\ <<"%", "f", "[">>[2] = "f"
          /\ <<"%", "f", "[">>[3] = "["
      OBVIOUS
    <3> QED
      BY <1>7, <3>2, <3>3, Zenon
  <2>6. "f" \in KnownFlags
    BY DEF KnownFlags
  <2> QED
    BY <1>2, <1>3, <1>7, <2>1, <2>4, <2>5, <2>6
<1> QED
  BY <1>4, <1>5, <1>6, <1>7

LEMMA PieceSequence ==
  ASSUME Parsing
  PROVE  pieces \in Seq(Seq(STRING)) /\ Len(pieces) \in Nat
<1>1. kind \in DOMAIN Pieces /\ pieces \in Seq(Pieces[kind])
  BY DEF Parsing
<1>2. Pieces[kind] \subseteq Seq(STRING)
  BY <1>1, PiecesAssumption
<1>3. pieces \in Seq(Seq(STRING))
  BY <1>1, <1>2, SeqMonotonic
<1> QED
  BY <1>3, LenProperties

LEMMA Position ==
  ASSUME NEW n, NEW p, NEW k, Parsing, kind = "pattern", n \in 1 .. Len(pieces), p = pieces[n],
         k = Len(Read(n - 1)) + 1
  PROVE  /\ k \in Nat \ {0} /\ Len(pattern) \in Nat
         /\ k + Len(p) = Len(Read(n)) + 1
         /\ k + Len(p) <= Len(pattern) + 1
<1>1. pieces \in Seq(Seq(STRING)) /\ pattern = FlattenSeq(pieces)
  BY PieceSequence DEF Parsing
<1>2. /\ Read(n - 1) \in Seq(STRING) /\ Read(n) \in Seq(STRING) /\ pattern \in Seq(STRING)
      /\ Len(Read(n)) = Len(Read(n - 1)) + Len(p)
      /\ Len(Read(n)) <= Len(pattern)
  BY <1>1, FlattenPart DEF Read
<1>3. p \in Seq(STRING)
  BY <1>1, ElementOfSeq
<1>4. PICK b \in Nat, u \in Nat, w \in Nat, l \in Nat :
        b = Len(Read(n - 1)) /\ u = Len(Read(n)) /\ w = Len(pattern) /\ l = Len(p)
  BY <1>2, <1>3, LenProperties
<1>5. b \in Nat /\ u \in Nat /\ w \in Nat /\ l \in Nat /\ u = b + l /\ u <= w /\ k = b + 1
  BY <1>2, <1>4
<1>6. k \in Nat \ {0} /\ k + l = u + 1 /\ k + l <= w + 1
  BY <1>5
<1> QED
  BY <1>2, <1>4, <1>6

LEMMA Symbols ==
  ASSUME NEW n, NEW p, NEW k, Parsing, kind = "pattern", n \in 1 .. Len(pieces), p = pieces[n],
         k = Len(Read(n - 1)) + 1
  PROVE  \A j \in 1 .. Len(p) : pattern[k - 1 + j] = p[j]
<1>1. pieces \in Seq(Seq(STRING)) /\ pattern = FlattenSeq(pieces)
  BY PieceSequence DEF Parsing
<1>2. /\ Read(n - 1) \in Seq(STRING)
      /\ \A j \in 1 .. Len(p) : pattern[Len(Read(n - 1)) + j] = p[j]
  BY <1>1, FlattenPart DEF Read
<1>3. PICK b : b = Len(Read(n - 1)) /\ b \in Nat
  BY <1>2, LenProperties
<1>4. ASSUME NEW j \in 1 .. Len(p)
      PROVE  pattern[k - 1 + j] = p[j]
  <2>1. Len(p) \in Nat
    BY Kinds
  <2>2. k - 1 + j = b + j
    BY <1>3, <2>1
  <2> QED
    BY <1>2, <1>3, <2>2
<1> QED
  BY <1>4

LEMMA AtEnd ==
  ASSUME Parsing, kind = "pattern", it = Len(Read(Len(pieces))) + 1
  PROVE  it = Len(pattern) + 1 /\ Eof
<1>1. pieces \in Seq(Seq(STRING)) /\ pattern = FlattenSeq(pieces) /\ pattern \in Seq(STRING)
  BY PieceSequence DEF Parsing
<1>2. SubSeq(pieces, 1, Len(pieces)) = pieces
  BY <1>1, SubSeqFull
<1>3. it = Len(pattern) + 1
  BY <1>1, <1>2 DEF Read
<1>4. Len(pattern) \in Nat
  BY <1>1, LenProperties
<1>5. Len(pattern) + 1 > Len(pattern)
  BY <1>4
<1> QED
  BY <1>3, <1>5 DEF Eof

LEMMA Ahead ==
  ASSUME NEW n, NEW p, Parsing, kind = "pattern", n \in 1 .. Len(pieces), p = pieces[n],
         it = Len(Read(n - 1)) + 1
  PROVE  /\ ~ Eof /\ Current = p[1]
         /\ Len(p) >= 2 => Next1 = p[2]
         /\ GoodPattern /\ p = <<"%">> => Next1 = "eof"
<1>1. /\ it \in Nat \ {0} /\ Len(pattern) \in Nat
      /\ it + Len(p) = Len(Read(n)) + 1
      /\ it + Len(p) <= Len(pattern) + 1
      /\ \A j \in 1 .. Len(p) : pattern[it - 1 + j] = p[j]
  <2>1. /\ it \in Nat \ {0} /\ Len(pattern) \in Nat
        /\ it + Len(p) = Len(Read(n)) + 1
        /\ it + Len(p) <= Len(pattern) + 1
    BY Position
  <2>2. \A j \in 1 .. Len(p) : pattern[it - 1 + j] = p[j]
    <3>1. PICK k : k = it
      OBVIOUS
    <3>2. k = Len(Read(n - 1)) + 1
      BY <3>1
    <3>3. \A j \in 1 .. Len(p) : pattern[k - 1 + j] = p[j]
      BY <3>2, Symbols
    <3> QED
      BY <3>1, <3>3
  <2> QED
    BY <2>1, <2>2, Zenon
<1>2. PICK l \in Nat \ {0}, w \in Nat, k \in Nat \ {0} : l = Len(p) /\ w = Len(pattern) /\ k = it
  BY <1>1, Kinds
<1>3. l \in Nat \ {0} /\ w \in Nat /\ k \in Nat \ {0} /\ k + l <= w + 1
  BY <1>1, <1>2
<1>4. ~ Eof /\ Current = p[1]
  <2>1. 1 \in 1 .. l /\ k - 1 + 1 = k /\ ~ (k > w)
    BY <1>3
  <2> QED
    BY <1>1, <1>2, <2>1 DEF Eof, Current
<1>5. ASSUME Len(p) >= 2
      PROVE  Next1 = p[2]
  <2>1. l >= 2
    BY <1>2, <1>5
  <2>2. 2 \in 1 .. l /\ k - 1 + 2 = k + 1 /\ k < w
    BY <1>3, <2>1
  <2> QED
    BY <1>1, <1>2, <2>2 DEF Next1
<1>6. ASSUME GoodPattern, p = <<"%">>
      PROVE  Next1 = "eof"
  <2>1. n = Len(pieces)
    <3>1. DOMAIN pieces = 1 .. Len(pieces)
      BY PieceSequence, LenProperties
    <3> QED
      BY <1>6, <3>1 DEF GoodPattern
  <2>2. SubSeq(pieces, 1, Len(pieces)) = pieces /\ pattern = FlattenSeq(pieces)
    BY PieceSequence, SubSeqFull DEF Parsing
  <2>3. Len(p) = 1 /\ Len(Read(n)) = Len(pattern)
    BY <1>6, <2>1, <2>2 DEF Read
  <2>4. it = Len(pattern)
    BY <1>1, <2>3
  <2>5. ~ (it < Len(pattern))
    BY <1>1, <2>4
  <2> QED
    BY <2>5 DEF Next1
<1> QED
  BY <1>4, <1>5, <1>6

(***************************************************************************)
(* The steps of PatternFormatter.                                          *)
(***************************************************************************)
LEMMA SamePieces ==
  ASSUME pieces' = pieces
  PROVE  /\ \A n : Read(n)' = Read(n)
         /\ \A n : ZoneAt(n)' = ZoneAt(n)
         /\ \A n, e : FirstMean(n, e)' = FirstMean(n, e)
         /\ \A e : PatternMeans(e)' = PatternMeans(e)
<1>1. \A n : Read(n)' = Read(n)
  BY DEF Read
<1>2. \A n : ZoneAt(n)' = ZoneAt(n)
  BY DEF ZoneAt, IsFlag
<1>3. \A i, e : Meaning(i, e)' = Meaning(i, e)
  BY <1>2 DEF Meaning, IsFlag
<1>4. ASSUME NEW n, NEW e
      PROVE  FirstMean(n, e)' = FirstMean(n, e)
  BY <1>3 DEF FirstMean
<1>5. \A e : PatternMeans(e)' = PatternMeans(e)
  BY <1>4 DEF PatternMeans
<1> QED
  BY <1>1, <1>2, <1>4, <1>5

LEMMA StepOver ==
  ASSUME NEW n, Parsing, kind = "pattern", GoodPattern, n \in 1 .. Len(pieces),
         Reached(n - 1), pieces' = pieces,
         it' = it + Len(pieces[n]),
         zone' = IF IsFlag(pieces[n], "L") THEN "local"
                 ELSE IF IsFlag(pieces[n], "+") THEN "utc" ELSE zone,
         \A e \in Events :
           Texts(flags', e) \o literal' = (Texts(flags, e) \o literal) \o Meaning(n, e)
  PROVE  (\E m \in 0 .. Len(pieces) : Reached(m))'
<1>1. Len(pieces) \in Nat /\ n \in Nat \ {0} /\ n \in 0 .. Len(pieces)
  BY PieceSequence
<1>2. /\ it = Len(Read(n - 1)) + 1 /\ zone = ZoneAt((n - 1) + 1)
      /\ \A e \in Events : Texts(flags, e) \o literal = FirstMean(n - 1, e)
  BY DEF Reached
<1>3. it' = Len(Read(n)) + 1
  <2>1. it + Len(pieces[n]) = Len(Read(n)) + 1
    BY <1>2, Position
  <2> QED
    BY <2>1
<1>4. zone' = ZoneAt(n + 1)
  <2>1. (n - 1) + 1 = n
    BY <1>1
  <2>2. IsFlag(pieces[n], "+") => ZoneAt(n) = "utc"
    BY PieceSequence, LenProperties DEF GoodPattern
  <2> QED
    BY <1>1, <1>2, <2>1, <2>2, ZoneNext
<1>5. ASSUME NEW e \in Events
      PROVE  Texts(flags', e) \o literal' = FirstMean(n, e)
  <2>1. e \in EventRecords
    BY EventsAssumption DEF EventRecords
  <2>2. FirstMean(n, e) = FirstMean(n - 1, e) \o Meaning(n, e)
    BY <2>1, MeaningNext
  <2> QED
    BY <1>2, <2>2
<1>6. Reached(n)'
  <2>1. Read(n)' = Read(n) /\ ZoneAt(n + 1)' = ZoneAt(n + 1)
    BY SamePieces
  <2>2. ASSUME NEW e \in Events
        PROVE  Texts(flags', e) \o literal' = FirstMean(n, e)'
    <3>1. FirstMean(n, e)' = FirstMean(n, e)
      BY SamePieces
    <3> QED
      BY <1>5, <3>1
  <2> QED
    BY <1>3, <1>4, <2>1, <2>2 DEF Reached
<1> QED
  BY <1>1, <1>6

(***************************************************************************)
(* The types.                                                              *)
(***************************************************************************)
LEMMA InRange ==
  ASSUME TypeOK, Parsing
  PROVE  /\ it \in Nat \ {0} /\ Len(pattern) \in Nat /\ it <= Len(pattern) + 1
         /\ ~ Eof => it <= Len(pattern) /\ Current \in STRING
         /\ ~ Eof /\ Next1 # "eof" => it + 2 <= Len(pattern) + 1 /\ Next1 \in STRING
<1>1. it \in 1 .. Len(pattern) + 1 /\ pattern \in Seq(STRING)
  BY DEF TypeOK, Parsing
<1>2. Len(pattern) \in Nat /\ it \in Nat \ {0} /\ it <= Len(pattern) + 1
  BY <1>1, LenProperties
<1>3. ASSUME ~ Eof
      PROVE  it <= Len(pattern) /\ it \in 1 .. Len(pattern) /\ Current \in STRING
  <2>1. it \in 1 .. Len(pattern)
    BY <1>1, <1>2, <1>3 DEF Eof
  <2>2. pattern[it] \in STRING
    BY <1>1, <2>1, ElementOfSeq
  <2> QED
    BY <1>2, <2>1, <2>2 DEF Current
<1>4. ASSUME ~ Eof, Next1 # "eof"
      PROVE  it + 2 <= Len(pattern) + 1 /\ Next1 \in STRING
  <2>1. it < Len(pattern) /\ Next1 = pattern[it + 1]
    BY <1>4 DEF Next1
  <2>2. it + 1 \in 1 .. Len(pattern)
    BY <1>2, <2>1
  <2>3. pattern[it + 1] \in STRING
    BY <1>1, <2>2, ElementOfSeq
  <2> QED
    BY <1>2, <2>1, <2>3
<1> QED
  BY <1>2, <1>3, <1>4

LEMMA FoundTypes ==
  ASSUME TypeOK, Parsing, NEW fs, fs \in Seq(FlagFormatters), Substantial(fs), Found(fs),
         at \in {"pattern", "value"}, at' = at \/ (at = "pattern" /\ at' = "ready"),
         it' \in 1 .. Len(pattern) + 1, zone' \in {"utc", "local"},
         UNCHANGED <<kind, pieces, custom, pattern, line>>
  PROVE  TypeOK' /\ Parsing'
<1>1. flags \in Seq(FlagFormatters) /\ literal \in Seq(STRING) /\ Substantial(flags)
  BY DEF TypeOK, Parsing, Substantial
<1>2. flags' \in Seq(FlagFormatters) /\ Substantial(flags') /\ literal' = <<>>
  BY <1>1, FoundText
<1>3. literal' \in Seq(STRING)
  BY <1>2, EmptySeq
<1>4. TypeOK'
  <2>1. \A i \in DOMAIN flags' : flags'[i].text # <<>> \/ flags'[i].flag # "literal"
    BY <1>2 DEF Substantial
  <2>2. /\ kind \in {"pattern", "logfmt"} /\ kind = "pattern" => line = <<>>
        /\ custom \subseteq CustomFlags
    BY DEF TypeOK
  <2> QED
    BY <2>1, <2>2 DEF TypeOK
<1>5. Parsing'
  BY <1>2, <1>3 DEF Parsing
<1> QED
  BY <1>4, <1>5

(* Steps of the parsers that find no flag.                                 *)
LEMMA OtherTypes ==
  ASSUME TypeOK, Parsing,
         pattern' = pattern \/ (kind = "logfmt" /\ pattern' \in Seq(STRING)),
         it' \in 1 .. Len(pattern') + 1, at' = "start" => it' = 1,
         literal' \in Seq(STRING), flags' \in {flags, <<>>},
         zone' = zone, kind = "pattern" => line' = <<>>,
         at' \in {"start", "line", "spaces"} => flags' = <<>> /\ literal' = <<>>,
         kind = "pattern" => at' \in {"pattern", "ready", "error", "overrun", "formatted"},
         kind = "logfmt" =>
           at' \in {"start", "line", "value", "spaces", "ready", "error", "formatted"},
         UNCHANGED <<kind, pieces, custom>>
  PROVE  TypeOK' /\ Parsing'
<1>1. /\ kind \in {"pattern", "logfmt"} /\ custom \subseteq CustomFlags
      /\ zone \in {"utc", "local"}
      /\ flags \in Seq(FlagFormatters) /\ Substantial(flags)
  BY DEF TypeOK, Parsing, Substantial
<1>2. <<>> \in Seq(FlagFormatters) /\ Substantial(<<>>)
  BY EmptySeq DEF Substantial
<1>3. flags' \in Seq(FlagFormatters) /\ Substantial(flags')
  <2>1. CASE flags' = flags
    BY <1>1, <2>1
  <2>2. CASE flags' = <<>>
    BY <1>2, <2>2
  <2> QED
    BY <2>1, <2>2
<1>4. pattern' \in Seq(STRING) /\ (kind = "pattern" => pattern' = FlattenSeq(pieces))
  BY DEF Parsing
<1>5. TypeOK'
  <2>1. \A i \in DOMAIN flags' : flags'[i].text # <<>> \/ flags'[i].flag # "literal"
    BY <1>3 DEF Substantial
  <2>2. at' \in {"pattern", "start", "line", "value", "spaces", "ready", "error", "overrun",
                 "formatted"}
    BY <1>1
  <2> QED
    BY <1>1, <2>1, <2>2 DEF TypeOK
<1>6. Parsing'
  BY <1>3, <1>4 DEF Parsing
<1> QED
  BY <1>5, <1>6

LEMMA InitTypes == Init => TypeOK /\ Parsing
<1> SUFFICES ASSUME Init
             PROVE  TypeOK /\ Parsing
  OBVIOUS
<1>1. /\ kind \in DOMAIN Pieces /\ kind \in {"pattern", "logfmt"}
      /\ pieces \in BoundedSeq(Pieces[kind], MaxPieces) /\ pattern = FlattenSeq(pieces)
      /\ it = 1 /\ literal = <<>> /\ zone = "utc" /\ flags = <<>> /\ line = <<>>
      /\ at = IF kind = "pattern" THEN "pattern" ELSE "start"
      /\ custom \in IF kind = "pattern" THEN SUBSET CustomFlags ELSE {{}}
  BY PiecesAssumption DEF Init
<1>2. pieces \in Seq(Pieces[kind])
  <2>1. PICK m \in 0 .. MaxPieces : pieces \in [1 .. m -> Pieces[kind]]
    BY <1>1 DEF BoundedSeq, SeqOf
  <2>2. m \in Nat
    BY <2>1
  <2> QED
    BY <2>1, <2>2
<1>3. pattern \in Seq(STRING)
  <2>1. Pieces[kind] \subseteq Seq(STRING)
    BY <1>1, PiecesAssumption
  <2>2. pieces \in Seq(Seq(STRING))
    BY <1>2, <2>1, SeqMonotonic
  <2> QED
    BY <1>1, <2>2, FlattenType
<1>4. <<>> \in Seq(STRING) /\ <<>> \in Seq(FlagFormatters) /\ DOMAIN <<>> = {}
  BY EmptySeq
<1>5. Len(pattern) \in Nat /\ 1 \in 1 .. Len(pattern) + 1
  BY <1>3, LenProperties
<1>6. TypeOK
  BY <1>1, <1>4, <1>5 DEF TypeOK
<1>7. Parsing
  BY <1>1, <1>2, <1>3, <1>4 DEF Parsing
<1> QED
  BY <1>6, <1>7

LEMMA DefaultType == DefaultPattern \in Seq(STRING) /\ Len(DefaultPattern) = 21
<1>1. /\ "ts" \in STRING /\ "=" \in STRING /\ "%" \in STRING /\ "Y" \in STRING /\ " " \in STRING
      /\ "lvl" \in STRING /\ "l" \in STRING /\ "logger" \in STRING /\ "n" \in STRING
      /\ "msg" \in STRING /\ "v" \in STRING /\ "f" \in STRING
  BY StringAssumption DEF PlainFlags, DateFlags, EventFlags
<1>2. DefaultPattern = [i \in 1 .. 21 |-> DefaultPattern[i]]
  BY DEF DefaultPattern
<1>3.
      /\ DefaultPattern[1] = "ts" /\ DefaultPattern[2] = "="
      /\ DefaultPattern[3] = "%" /\ DefaultPattern[4] = "Y"
      /\ DefaultPattern[5] = " " /\ DefaultPattern[6] = "lvl"
      /\ DefaultPattern[7] = "=" /\ DefaultPattern[8] = "%"
      /\ DefaultPattern[9] = "l" /\ DefaultPattern[10] = " "
      /\ DefaultPattern[11] = "logger" /\ DefaultPattern[12] = "="
      /\ DefaultPattern[13] = "%" /\ DefaultPattern[14] = "n"
      /\ DefaultPattern[15] = " " /\ DefaultPattern[16] = "msg"
      /\ DefaultPattern[17] = "=" /\ DefaultPattern[18] = "%"
      /\ DefaultPattern[19] = "v" /\ DefaultPattern[20] = "%"
      /\ DefaultPattern[21] = "f"
  BY DEF DefaultPattern
<1>4. \A i \in 1 .. 21 :
      \/ i = 1 \/ i = 2 \/ i = 3 \/ i = 4 \/ i = 5 \/ i = 6 \/ i = 7
      \/ i = 8 \/ i = 9 \/ i = 10 \/ i = 11 \/ i = 12 \/ i = 13 \/ i = 14
      \/ i = 15 \/ i = 16 \/ i = 17 \/ i = 18 \/ i = 19 \/ i = 20 \/ i = 21
  OBVIOUS
<1>5. ASSUME NEW i \in 1 .. 21
      PROVE  DefaultPattern[i] \in STRING
  BY <1>1, <1>3, <1>4, Zenon
<1> QED
  BY <1>2, <1>5, SequenceOf

(* Which formatter has which loops.                                        *)
LEMMA Loops ==
  ASSUME TypeOK, Parsing
  PROVE  /\ kind \in {"pattern", "logfmt"}
         /\ at \in {"pattern", "overrun"} => kind = "pattern"
         /\ at \in {"start", "line", "value", "spaces"} => kind = "logfmt"
         /\ kind = "pattern" => at \in {"pattern", "ready", "error", "overrun", "formatted"}
         /\ kind = "logfmt" =>
              at \in {"start", "line", "value", "spaces", "ready", "error", "formatted"}
         /\ at = "start" => it = 1
         /\ kind = "pattern" => line = <<>>
         /\ zone \in {"utc", "local"}
         /\ literal \in Seq(STRING) /\ flags \in Seq(FlagFormatters)
         /\ at \in {"start", "line", "spaces"} => flags = <<>> /\ literal = <<>>
BY DEF TypeOK, Parsing

LEMMA CollectTypes ==
  ASSUME TypeOK, Parsing, Collect, ~ Eof, at \in {"pattern", "value"}
  PROVE  TypeOK' /\ Parsing'
<1>1. /\ literal' = Append(literal, Current) /\ it' = it + 1
      /\ UNCHANGED <<kind, pieces, custom, pattern, at, zone, flags, line>>
  BY Zenon DEF Collect, Advance, given
<1>2. it' \in 1 .. Len(pattern) + 1 /\ Current \in STRING
  BY <1>1, InRange
<1>3. literal' \in Seq(STRING)
  BY <1>1, <1>2, Loops, AppendProperties
<1> QED
  BY <1>1, <1>2, <1>3, Loops, OtherTypes

LEMMA OneFormatter ==
  ASSUME NEW f \in FlagFormatters, f.flag # "literal"
  PROVE  <<f>> \in Seq(FlagFormatters) /\ Substantial(<<f>>)
<1>1. <<f>> \in Seq(FlagFormatters) /\ Len(<<f>>) = 1 /\ <<f>>[1] = f /\ DOMAIN <<f>> = 1 .. 1
  BY Single
<1>2. Substantial(<<f>>)
  BY <1>1 DEF Substantial
<1> QED
  BY <1>1, <1>2

LEMMA OneFlag ==
  ASSUME NEW c \in STRING, c # "literal", NEW z \in {"utc", "local"}, NEW text \in Seq(STRING),
         NEW f, f = [Flag(c, z) EXCEPT !.text = text]
  PROVE  f \in FlagFormatters /\ <<f>> \in Seq(FlagFormatters) /\ Substantial(<<f>>)
<1> DEFINE g == [flag |-> c, zone |-> z, text |-> text]
<1>1. f = g
  BY DEF Flag
<1>2. g \in FlagFormatters /\ g.flag # "literal"
  BY DEF FlagFormatters
<1> HIDE DEF g
<1>3. <<g>> \in Seq(FlagFormatters) /\ Substantial(<<g>>)
  BY <1>2, OneFormatter
<1> QED
  BY <1>1, <1>2, <1>3, Zenon

LEMMA NewFlag ==
  ASSUME NEW c \in STRING, c # "literal", NEW z \in {"utc", "local"}
  PROVE  <<Flag(c, z)>> \in Seq(FlagFormatters) /\ Substantial(<<Flag(c, z)>>)
<1>1. <<>> \in Seq(STRING) /\ Flag(c, z) = [Flag(c, z) EXCEPT !.text = <<>>]
  BY EmptySeq DEF Flag
<1> QED
  BY <1>1, OneFlag

LEMMA NoFlag == <<>> \in Seq(FlagFormatters) /\ Substantial(<<>>)
BY EmptySeq DEF Substantial

LEMMA ReadTypes ==
  ASSUME TypeOK, Parsing,
         \/ ReadLiteral \/ ReadLastPercent \/ ReadFull \/ ReadLocal \/ ReadFlag
         \/ ReadParameterless \/ ReadParameter \/ ReadUnknown \/ EndPattern
  PROVE  TypeOK' /\ Parsing'
<1>1. CASE ReadLiteral
  <2>1. at = "pattern" /\ ~ Eof /\ Collect
    BY <1>1, Zenon DEF ReadLiteral, InPattern
  <2> QED
    BY <2>1, CollectTypes
<1>2. CASE ReadLastPercent
  <2>1. /\ at = "pattern" /\ ~ Eof /\ Found(<<>>) /\ it' = it + 1
        /\ UNCHANGED <<kind, pieces, custom, pattern, at, zone, line>>
    BY <1>2, Zenon DEF ReadLastPercent, InPattern, AtPercent, Advance, given
  <2>2. it' \in 1 .. Len(pattern) + 1
    BY <2>1, InRange
  <2> QED
    BY <2>1, <2>2, NoFlag, Loops, FoundTypes
<1>3. CASE ReadFull
  <2>1. /\ at = "pattern" /\ ~ Eof /\ Next1 = "+" /\ Found(FullFlags)
        /\ it' = it + 2 /\ zone' = "utc"
        /\ UNCHANGED <<kind, pieces, custom, pattern, at, line>>
    BY <1>3, Zenon DEF ReadFull, InPattern, AtPercent, Advance, given
  <2>2. it' \in 1 .. Len(pattern) + 1
    BY <2>1, InRange
  <2> QED
    BY <2>1, <2>2, FullFlagsFound, FoundTypes
<1>4. CASE ReadLocal
  <2>1. /\ at = "pattern" /\ ~ Eof /\ Next1 = "L" /\ Found(<<>>) /\ it' = it + 2 /\ zone' = "local"
        /\ UNCHANGED <<kind, pieces, custom, pattern, at, line>>
    BY <1>4, Zenon DEF ReadLocal, InPattern, AtPercent, Advance, given
  <2>2. it' \in 1 .. Len(pattern) + 1
    BY <2>1, InRange
  <2> QED
    BY <2>1, <2>2, NoFlag, FoundTypes
<1>5. CASE ReadFlag
  <2>1. /\ at = "pattern" /\ ~ Eof /\ Next1 \in PlainFlags /\ Found(<<Flag(Next1, zone)>>)
        /\ it' = it + 2
        /\ UNCHANGED <<kind, pieces, custom, pattern, at, zone, line>>
    BY <1>5, Zenon DEF ReadFlag, InPattern, AtPercent, Advance, given
  <2>2. Next1 # "eof" /\ Next1 # "literal" /\ Next1 \in STRING
    BY <2>1, StringAssumption DEF PlainFlags, DateFlags, FractionFlags, EventFlags
  <2>3. it' \in 1 .. Len(pattern) + 1
    BY <2>1, <2>2, InRange
  <2>4. PICK fs : fs = <<Flag(Next1, zone)>> /\ fs \in Seq(FlagFormatters) /\ Substantial(fs)
    BY <2>2, NewFlag, Loops
  <2> QED
    BY <2>1, <2>3, <2>4, Loops, FoundTypes
<1>6. CASE ReadParameterless
  <2>1. /\ at = "pattern" /\ ~ Eof /\ TakesParameter(Next1) /\ Found(<<Flag(Next1, "utc")>>)
        /\ it' = it + 2
        /\ UNCHANGED <<kind, pieces, custom, pattern, at, zone, line>>
    BY <1>6, Zenon DEF ReadParameterless, InPattern, AtPercent, Advance, given
  <2>2. Next1 # "eof" /\ Next1 # "literal"
    BY <2>1, FlagsAssumption DEF TakesParameter, TypeOK
  <2>3. it' \in 1 .. Len(pattern) + 1 /\ Next1 \in STRING
    BY <2>1, <2>2, InRange
  <2>4. PICK fs : fs = <<Flag(Next1, "utc")>> /\ fs \in Seq(FlagFormatters) /\ Substantial(fs)
    BY <2>2, <2>3, NewFlag
  <2> QED
    BY <2>1, <2>3, <2>4, Loops, FoundTypes
<1>7. CASE ReadParameter
  <2> DEFINE closing == { i \in it + 3 .. Len(pattern) : pattern[i] = "]" }
  <2>1. /\ at = "pattern" /\ ~ Eof /\ TakesParameter(Next1) /\ HasParameter
        /\ \/ at' = "overrun" /\ UNCHANGED <<it, literal, flags>>
           \/ \E end \in closing :
                /\ Found(<<[Flag(Next1, "utc") EXCEPT !.text = SubSeq(pattern, it + 3, end - 1)]>>)
                /\ it' = end + 1
                /\ UNCHANGED at
        /\ UNCHANGED <<kind, pieces, custom, pattern, zone, line>>
    BY <1>7, Zenon DEF ReadParameter, InPattern, AtPercent, given
  <2>2. Next1 # "eof" /\ Next1 # "literal"
    BY <2>1, FlagsAssumption DEF TakesParameter, TypeOK
  <2>3. Next1 \in STRING
    BY <2>1, <2>2, InRange
  <2>4. CASE at' = "overrun" /\ UNCHANGED <<it, literal, flags>>
    <3>1. it' \in 1 .. Len(pattern) + 1
      BY <2>4, InRange
    <3> QED
      BY <2>1, <2>4, <3>1, Loops, OtherTypes
  <2>5. CASE \E end \in closing :
               /\ Found(<<[Flag(Next1, "utc") EXCEPT !.text = SubSeq(pattern, it + 3, end - 1)]>>)
               /\ it' = end + 1
               /\ UNCHANGED at
    <3>1. PICK end \in closing :
               /\ Found(<<[Flag(Next1, "utc") EXCEPT !.text = SubSeq(pattern, it + 3, end - 1)]>>)
               /\ it' = end + 1
               /\ UNCHANGED at
      BY <2>5
    <3>2. it' \in 1 .. Len(pattern) + 1 /\ it + 3 \in Int /\ end - 1 \in Int
      BY <3>1, InRange
    <3>3. PICK text : text = SubSeq(pattern, it + 3, end - 1) /\ text \in Seq(STRING)
      <4>1. \A i \in it + 3 .. end - 1 : pattern[i] \in STRING
        <5>1. pattern \in Seq(STRING)
          BY DEF Parsing
        <5>2. end \in it + 3 .. Len(pattern)
          BY <3>1
        <5>3. \A i \in it + 3 .. end - 1 : i \in 1 .. Len(pattern)
          BY <5>2, InRange
        <5> QED
          BY <5>1, <5>3, ElementOfSeq
      <4> QED
        BY <3>2, <4>1, SubSeqProperties
    <3>4. PICK f : f = [Flag(Next1, "utc") EXCEPT !.text = text] /\ <<f>> \in Seq(FlagFormatters)
                   /\ Substantial(<<f>>)
      BY <2>2, <2>3, <3>3, OneFlag
    <3>5. Found(<<f>>)
      BY <3>1, <3>3, <3>4
    <3> QED
      BY <2>1, <3>1, <3>2, <3>4, <3>5, Loops, FoundTypes
  <2> QED
    BY <2>1, <2>4, <2>5
<1>8. CASE ReadUnknown
  <2>1. /\ at = "pattern" /\ at' = "error"
        /\ UNCHANGED <<kind, pieces, custom, pattern, it, literal, zone, flags, line>>
    BY <1>8, Zenon DEF ReadUnknown, Throw, InPattern, given
  <2>2. it' \in 1 .. Len(pattern) + 1
    BY <2>1, InRange
  <2> QED
    BY <2>1, <2>2, Loops, OtherTypes
<1>9. CASE EndPattern
  <2>1. /\ at = "pattern" /\ at' = "ready" /\ Found(<<>>)
        /\ UNCHANGED <<kind, pieces, custom, pattern, it, zone, line>>
    BY <1>9, Zenon DEF EndPattern, InPattern, given
  <2>2. it' \in 1 .. Len(pattern) + 1
    BY <2>1, InRange
  <2> QED
    BY <2>1, <2>2, NoFlag, Loops, FoundTypes
<1> QED
  BY <1>1, <1>2, <1>3, <1>4, <1>5, <1>6, <1>7, <1>8, <1>9

LEMMA MatchTypes ==
  ASSUME TypeOK, Parsing,
         \/ MatchFull \/ BeginLine \/ MatchFields \/ MatchKey \/ MatchNoValue
         \/ SkipSpace \/ NextElement \/ EndLine
         \/ EndValue \/ MatchLiteral \/ MatchLocal \/ MatchFlag \/ MatchUnknown \/ Format
  PROVE  TypeOK' /\ Parsing'
<1>0. it \in 1 .. Len(pattern) + 1 /\ Len(pattern) \in Nat
  BY InRange
<1>1. CASE MatchFull
  <2>1. /\ at = "start" /\ at' = "line" /\ pattern' = DefaultPattern
        /\ UNCHANGED <<kind, pieces, custom, it, literal, zone, flags, line>>
    BY <1>1, Zenon DEF MatchFull, given
  <2>2. it' \in 1 .. Len(pattern') + 1 /\ pattern' \in Seq(STRING)
    BY <2>1, DefaultType, Loops
  <2> QED
    BY <2>1, <2>2, Loops, OtherTypes
<1>2. CASE BeginLine \/ NextElement \/ EndLine
  <2>1. /\ at \in {"start", "spaces", "line"} /\ at' \in {"line", "ready"}
        /\ UNCHANGED <<kind, pieces, custom, pattern, it, literal, zone, flags, line>>
    <3>1. CASE BeginLine
      BY <3>1 DEF BeginLine, given
    <3>2. CASE NextElement
      BY <3>2 DEF NextElement, given
    <3>3. CASE EndLine
      BY <3>3 DEF EndLine, given
    <3> QED
      BY <1>2, <3>1, <3>2, <3>3
  <2>2. it' \in 1 .. Len(pattern') + 1
    BY <1>0, <2>1
  <2> QED
    BY <2>1, <2>2, Loops, OtherTypes
<1>3. CASE MatchFields
  <2>1. /\ at = "line" /\ AtFields /\ at' = "spaces" /\ it' = it + 2
        /\ UNCHANGED <<kind, pieces, custom, pattern, literal, zone, flags>>
    BY <1>3, Zenon DEF MatchFields, Advance, given
  <2>2. ~ Eof /\ Next1 = "f"
    BY <2>1 DEF AtFields, AtPercent
  <2>3. it' \in 1 .. Len(pattern) + 1
    BY <2>1, <2>2, InRange
  <2> QED
    BY <2>1, <2>3, Loops, OtherTypes
<1>4. CASE MatchKey
  <2> DEFINE ends == { i \in it .. Len(pattern) - 1 : pattern[i] = "=" }
  <2>1. /\ at = "line" /\ at' = "value" /\ \E end \in ends : it' = end + 1
        /\ UNCHANGED <<kind, pieces, custom, pattern, literal, zone, flags, line>>
    BY <1>4, Zenon DEF MatchKey, given
  <2>2. it' \in 1 .. Len(pattern) + 1
    BY <1>0, <2>1
  <2> QED
    BY <2>1, <2>2, Loops, OtherTypes
<1>5. CASE MatchNoValue \/ MatchUnknown
  <2>1. /\ at \in {"line", "value"} /\ at' = "error"
        /\ UNCHANGED <<kind, pieces, custom, pattern, it, literal, zone, flags, line>>
    <3>1. CASE MatchNoValue
      BY <3>1, Zenon DEF MatchNoValue, Throw, given
    <3>2. CASE MatchUnknown
      BY <3>2, Zenon DEF MatchUnknown, Throw, given
    <3> QED
      BY <1>5, <3>1, <3>2
  <2>2. it' \in 1 .. Len(pattern') + 1
    BY <1>0, <2>1
  <2> QED
    BY <2>1, <2>2, Loops, OtherTypes
<1>6. CASE SkipSpace
  <2>1. /\ at = "spaces" /\ ~ Eof /\ it' = it + 1
        /\ UNCHANGED <<kind, pieces, custom, pattern, at, literal, zone, flags, line>>
    BY <1>6, Zenon DEF SkipSpace, Advance, given
  <2>2. it' \in 1 .. Len(pattern') + 1
    BY <2>1, InRange
  <2> QED
    BY <2>1, <2>2, Loops, OtherTypes
<1>7. CASE EndValue
  <2>1. /\ at = "value" /\ at' = "spaces" /\ flags' = <<>> /\ literal' = <<>>
        /\ UNCHANGED <<kind, pieces, custom, pattern, it, zone>>
    BY <1>7, Zenon DEF EndValue, given
  <2>2. it' \in 1 .. Len(pattern') + 1 /\ literal' \in Seq(STRING)
    BY <1>0, <2>1, EmptySeq
  <2> QED
    BY <2>1, <2>2, Loops, OtherTypes
<1>8. CASE MatchLiteral
  <2>1. at = "value" /\ ~ ValueEnds /\ Collect
    BY <1>8, Zenon DEF MatchLiteral
  <2>2. ~ Eof
    BY <2>1 DEF ValueEnds
  <2> QED
    BY <2>1, <2>2, CollectTypes
<1>9. CASE MatchLocal
  <2>1. /\ at = "value" /\ ~ Eof /\ Next1 = "L" /\ Found(<<>>) /\ it' = it + 2 /\ zone' = "local"
        /\ UNCHANGED <<kind, pieces, custom, pattern, at, line>>
    BY <1>9, Zenon DEF MatchLocal, AtPercent, Advance, given
  <2>2. it' \in 1 .. Len(pattern) + 1
    BY <2>1, InRange
  <2> QED
    BY <2>1, <2>2, NoFlag, FoundTypes
<1>10. CASE MatchFlag
  <2>1. /\ at = "value" /\ ~ Eof /\ Next1 \in PlainFlags \cup {"+"}
        /\ Found(<<Flag(Next1, zone)>>) /\ it' = it + 2
        /\ UNCHANGED <<kind, pieces, custom, pattern, at, zone, line>>
    BY <1>10, Zenon DEF MatchFlag, AtPercent, Advance, given
  <2>2. Next1 # "eof" /\ Next1 # "literal" /\ Next1 \in STRING
    BY <2>1, StringAssumption DEF PlainFlags, DateFlags, FractionFlags, EventFlags
  <2>3. it' \in 1 .. Len(pattern) + 1
    BY <2>1, <2>2, InRange
  <2>4. PICK fs : fs = <<Flag(Next1, zone)>> /\ fs \in Seq(FlagFormatters) /\ Substantial(fs)
    BY <2>2, NewFlag, Loops
  <2> QED
    BY <2>1, <2>3, <2>4, Loops, FoundTypes
<1>11. CASE Format
  <2>1. /\ at = "ready" /\ at' = "formatted"
        /\ UNCHANGED <<kind, pieces, custom, pattern, it, literal, zone, flags, line>>
    BY <1>11, Zenon DEF Format, given
  <2>2. it' \in 1 .. Len(pattern') + 1
    BY <1>0, <2>1
  <2> QED
    BY <2>1, <2>2, Loops, OtherTypes
<1> QED
  BY <1>1, <1>2, <1>3, <1>4, <1>5, <1>6, <1>7, <1>8, <1>9, <1>10, <1>11

LEMMA TypesStep == TypeOK /\ Parsing /\ [Next]_vars => TypeOK' /\ Parsing'
<1> SUFFICES ASSUME TypeOK, Parsing, [Next]_vars
             PROVE  TypeOK' /\ Parsing'
  OBVIOUS
<1>1. CASE Next
  BY <1>1, ReadTypes, MatchTypes DEF Next, Parse
<1>2. CASE UNCHANGED vars
  <2>1. UNCHANGED <<kind, pieces, custom, pattern, it, at, literal, zone, flags, line>>
    BY <1>2 DEF vars, given, parser
  <2>2. TypeOK'
    BY <2>1 DEF TypeOK
  <2>3. Parsing'
    BY <2>1 DEF Parsing
  <2> QED
    BY <2>2, <2>3
<1> QED
  BY <1>1, <1>2

(***************************************************************************)
(* What PatternFormatter renders.                                          *)
(***************************************************************************)
LEMMA NoText == \A e \in EventRecords : Texts(<<>>, e) = <<>>
<1> SUFFICES ASSUME NEW e \in EventRecords
             PROVE  Texts(<<>>, e) = <<>>
  OBVIOUS
<1>1. <<>> \in Seq(FlagFormatters) /\ Len(<<>>) = 0
  BY EmptySeq
<1> DEFINE a == Parts(<<>>, e)
<1>2. a \in Seq(Seq(STRING)) /\ Len(a) = 0 /\ Texts(<<>>, e) = FlattenSeq(a)
  BY <1>1, PartsType
<1> HIDE DEF a
<1>3. a = <<>>
  BY <1>2, EmptySeq
<1> QED
  BY <1>2, <1>3, FlattenNone

(* Fields and custom flags have no time.                                   *)
LEMMA ZoneFree ==
  ASSUME NEW c, c = "f" \/ c \in CustomFlags \ (PlainFlags \cup {"L", "+"}), NEW z, NEW e
  PROVE  FlagText(Flag(c, z), e) = FlagText(Flag(c, "utc"), e)
<1> DEFINE f == Flag(c, z)
           g == Flag(c, "utc")
<1>1. f.flag = c /\ g.flag = c /\ f.text = <<>> /\ g.text = <<>>
  BY DEF Flag
<1> HIDE DEF f, g
<1>2. CASE c = "f"
  <2>1. /\ c # "literal" /\ c # "v" /\ c \notin DateFlags /\ c \notin FractionFlags
        /\ c \notin CustomFlags \ (PlainFlags \cup {"f"})
    BY <1>2 DEF DateFlags, FractionFlags
  <2>2. FlagText(f, e) = FieldsText(<<>>, e) /\ FlagText(g, e) = FieldsText(<<>>, e)
    BY <1>1, <1>2, <2>1 DEF FlagText
  <2> QED
    BY <2>2 DEF f, g
<1>3. CASE c # "f"
  <2>1. /\ c # "literal" /\ c # "v" /\ c \notin DateFlags /\ c \notin FractionFlags
        /\ c \in CustomFlags \ (PlainFlags \cup {"f"})
    BY <1>3, FlagsAssumption DEF PlainFlags, EventFlags
  <2>2. FlagText(f, e) = <<c>> \o <<>> /\ FlagText(g, e) = <<c>> \o <<>>
    BY <1>1, <1>3, <2>1 DEF FlagText
  <2> QED
    BY <2>2 DEF f, g
<1> QED
  BY <1>2, <1>3

(* The state in which the next piece is p.                                 *)
At(n, p) ==
  /\ TypeOK /\ Parsing /\ kind = "pattern" /\ GoodPattern
  /\ n \in 1 .. Len(pieces) /\ p = pieces[n] /\ Reached(n - 1)

LEMMA Sees ==
  ASSUME NEW n, NEW p, At(n, p)
  PROVE  /\ ~ Eof /\ Current = p[1]
         /\ Len(p) \in Nat \ {0} /\ p \in Seq(STRING)
         /\ Len(p) = 1 => p = <<p[1]>> /\ (p[1] = "%" => Next1 = "eof")
         /\ Len(p) # 1 => /\ Len(p) >= 2 /\ p[1] = "%" /\ Next1 = p[2] /\ Next1 \in KnownFlags
                          /\ Next1 # "eof"
         /\ Len(p) = 2 => p = <<"%", Next1>>
         /\ Len(p) > 2 => Next1 = "f"
<1>1. /\ Parsing /\ kind = "pattern" /\ GoodPattern /\ n \in 1 .. Len(pieces) /\ p = pieces[n]
      /\ it = Len(Read(n - 1)) + 1
  BY DEF At, Reached
<1>2. /\ ~ Eof /\ Current = p[1]
      /\ Len(p) >= 2 => Next1 = p[2]
      /\ GoodPattern /\ p = <<"%">> => Next1 = "eof"
  BY <1>1, Ahead
<1>3. /\ p \in Seq(STRING) /\ Len(p) \in Nat \ {0}
      /\ Len(p) = 1 => p = <<p[1]>>
      /\ Len(p) # 1 => Len(p) >= 2 /\ p[1] = "%" /\ p[2] \in KnownFlags
      /\ Len(p) = 2 => p = <<"%", p[2]>>
      /\ Len(p) > 2 => p[2] = "f"
  BY <1>1, Kinds
<1>4. "eof" \notin KnownFlags
  BY FlagsAssumption DEF KnownFlags, PlainFlags, DateFlags, FractionFlags, EventFlags
<1>5. ASSUME Len(p) # 1
      PROVE  Next1 = p[2] /\ Next1 # "eof"
  BY <1>2, <1>3, <1>4, <1>5
<1>6. PICK k : k = Len(p) /\ k \in Nat \ {0}
  BY <1>3
<1>7. (k = 2 => k # 1) /\ (k > 2 => k # 1)
  <2>1. k \in Nat
    BY <1>6
  <2> QED
    BY <2>1
<1> QED
  BY <1>1, <1>2, <1>3, <1>5, <1>6, <1>7

(* A step past the piece.                                                  *)
LEMMA Passes ==
  ASSUME NEW n, NEW p, NEW fs, At(n, p), pieces' = pieces, Found(fs), fs \in Seq(FlagFormatters),
         Substantial(fs), it' = it + Len(p),
         zone' = IF IsFlag(p, "L") THEN "local" ELSE IF IsFlag(p, "+") THEN "utc" ELSE zone,
         \A e \in Events : Texts(fs, e) = Meaning(n, e)
  PROVE  (\E m \in 0 .. Len(pieces) : Reached(m))'
<1>1. /\ TypeOK /\ Parsing /\ kind = "pattern" /\ n \in 1 .. Len(pieces) /\ p = pieces[n]
      /\ Reached(n - 1) /\ GoodPattern
  BY DEF At
<1>2. flags \in Seq(FlagFormatters) /\ literal \in Seq(STRING) /\ Substantial(flags)
  BY <1>1 DEF TypeOK, Parsing, Substantial
<1>3. \A e \in EventRecords :
        Texts(flags', e) \o literal' = (Texts(flags, e) \o literal) \o Texts(fs, e)
  BY <1>2, FoundText
<1>4. \A e \in Events :
        Texts(flags', e) \o literal' = (Texts(flags, e) \o literal) \o Meaning(n, e)
  BY <1>3, EventsAssumption DEF EventRecords
<1> QED
  BY <1>1, <1>4, StepOver

LEMMA FlagMeaning ==
  ASSUME NEW n, NEW p, NEW c, At(n, p), p = <<"%", c>>
  PROVE  /\ IsFlag(p, "L") <=> c = "L"
         /\ IsFlag(p, "+") <=> c = "+"
         /\ Len(p) = 2
         /\ c = "L" => \A e : Meaning(n, e) = <<>>
         /\ c = "+" => \A e : Meaning(n, e) = Texts(FullFlags, e)
         /\ c # "L" /\ c # "+" => \A e : Meaning(n, e) = FlagText(Flag(c, zone), e)
<1>1. /\ p = pieces[n] /\ n \in 1 .. Len(pieces) /\ zone = ZoneAt((n - 1) + 1)
  BY DEF At, Reached
<1>2. Len(pieces) \in Nat /\ (n - 1) + 1 = n
  <2>1. Len(pieces) \in Nat
    BY PieceSequence DEF At
  <2> QED
    BY <1>1, <2>1
<1>3. \A d : IsFlag(p, d) <=> c = d
  <2>1. \A d : <<"%", c>> = <<"%", d>> <=> c = d
    OBVIOUS
  <2> QED
    BY <2>1 DEF IsFlag
<1>4. Len(p) = 2
  OBVIOUS
<1>5. \A e : PieceText(p, zone, e) = FlagText(Flag(c, zone), e)
  <2>1. p \in Seq(STRING) /\ p # <<>>
    BY Sees, <1>4, EmptySeq
  <2>2. PICK z : z = zone
    OBVIOUS
  <2>3. ASSUME NEW e
        PROVE  PieceText(p, z, e) = FlagText(Flag(c, z), e)
    <3>1. \A d : p = <<"%", d>> => PieceText(p, z, e) = FlagText(Flag(d, z), e)
      BY <2>1, PieceTexts, Zenon
    <3> QED
      BY <3>1, Zenon
  <2> QED
    BY <2>2, <2>3
<1>6. c = "+" => FullIn(ZoneAt(n)) = FullFlags
  <2>1. c = "+" => ZoneAt(n) = "utc"
    BY <1>1, <1>3, PieceSequence, LenProperties DEF At, GoodPattern
  <2> QED
    BY <2>1 DEF FullFlags
<1> QED
  BY <1>1, <1>2, <1>3, <1>4, <1>5, <1>6 DEF Meaning

(* A character, or the percent sign at the end.                            *)
LEMMA SeesCharacter ==
  ASSUME NEW n, NEW p, At(n, p), Current # "%" \/ Next1 = "eof"
  PROVE  Len(p) = 1 /\ p = <<Current>> /\ p \in Seq(STRING) /\ p # <<>>
<1>1. /\ Current = p[1]
      /\ Len(p) = 1 => p = <<p[1]>>
      /\ Len(p) # 1 => p[1] = "%" /\ Next1 # "eof"
      /\ p \in Seq(STRING)
      /\ Len(p) \in Nat \ {0}
  BY Sees
<1>2. Len(p) = 1
  BY <1>1
<1>3. p # <<>>
  BY <1>2, EmptySeq
<1> QED
  BY <1>1, <1>2, <1>3

(* A flag.                                                                 *)
LEMMA SeesFlag ==
  ASSUME NEW n, NEW p, At(n, p), Current = "%", Next1 # "eof"
  PROVE  /\ Len(p) = 2 \/ Len(p) > 2
         /\ Len(p) = 2 => p = <<"%", Next1>>
         /\ Len(p) > 2 => Next1 = "f"
<1>1. /\ Current = p[1]
      /\ Len(p) = 1 => (p[1] = "%" => Next1 = "eof")
      /\ Len(p) = 2 => p = <<"%", Next1>>
      /\ Len(p) > 2 => Next1 = "f"
      /\ Len(p) \in Nat \ {0}
  BY Sees
<1>2. Len(p) # 1
  BY <1>1
<1>3. PICK k : k = Len(p) /\ k \in Nat \ {0} /\ k # 1
  BY <1>1, <1>2
<1>4. k \in Nat /\ k # 0 /\ k # 1
  BY <1>3
<1>5. k = 2 \/ k > 2
  BY <1>4
<1> QED
  BY <1>1, <1>3, <1>5

(* No flag is meant by one character.                                      *)
LEMMA NotFlag ==
  ASSUME NEW p, Len(p) = 1
  PROVE  ~ IsFlag(p, "L") /\ ~ IsFlag(p, "+")
<1>1. Len(<<"%", "L">>) = 2 /\ Len(<<"%", "+">>) = 2
  OBVIOUS
<1> QED
  BY <1>1 DEF IsFlag

LEMMA ReadLiteralStep ==
  ASSUME NEW n, NEW p, At(n, p), ReadLiteral
  PROVE  (\E m \in 0 .. Len(pieces) : Reached(m))' /\ at' = "pattern"
<1>1. /\ at' = at /\ at = "pattern" /\ Current # "%" /\ literal' = Append(literal, Current)
      /\ it' = it + 1 /\ UNCHANGED <<pieces, zone, flags>>
  BY Zenon DEF ReadLiteral, InPattern, Collect, Advance, given
<1>2. /\ TypeOK /\ Parsing /\ kind = "pattern" /\ n \in 1 .. Len(pieces) /\ p = pieces[n]
      /\ Reached(n - 1) /\ GoodPattern
  BY DEF At
<1>3. /\ Len(p) = 1 /\ p = <<Current>> /\ p # <<"%">> /\ p \in Seq(STRING) /\ Current \in STRING
  <2>1. Len(p) = 1 /\ p \in Seq(STRING)
    BY <1>1, SeesCharacter
  <2>2. p = <<Current>>
    BY <1>1, SeesCharacter
  <2>3. p # <<"%">>
    <3>1. \A x : <<x>> = <<"%">> => x = "%"
      OBVIOUS
    <3> QED
      BY <1>1, <2>2, <3>1
  <2>4. Current \in STRING
    BY <1>2, InRange, Sees
  <2> QED
    BY <2>1, <2>2, <2>3, <2>4
<1>4. ~ IsFlag(p, "L") /\ ~ IsFlag(p, "+")
  BY <1>3, NotFlag
<1>5. \A e : Meaning(n, e) = p
  <2>1. p # <<>>
    BY <1>3, EmptySeq
  <2>2. \A z, e : PieceText(p, z, e) = p
    BY <1>3, <2>1, PieceTexts
  <2> QED
    BY <1>2, <1>4, <2>2 DEF Meaning
<1>6. ASSUME NEW e \in Events
      PROVE  Texts(flags', e) \o literal' = (Texts(flags, e) \o literal) \o Meaning(n, e)
  <2>1. flags \in Seq(FlagFormatters) /\ literal \in Seq(STRING)
    BY <1>2 DEF Parsing
  <2>2. PICK S, s, t, x : /\ S = STRING /\ s \in Seq(S) /\ t \in Seq(S) /\ x \in S
                          /\ s = Texts(flags, e) /\ t = literal /\ x = Current
    <3>1. e \in EventRecords
      BY EventsAssumption DEF EventRecords
    <3>2. Texts(flags, e) \in Seq(STRING)
      BY <2>1, <3>1, PartsType
    <3> QED
      BY <1>3, <2>1, <3>2
  <2>3. s \in Seq(S) /\ t \in Seq(S) /\ x \in S
    BY <2>2
  <2>4. s \o Append(t, x) = Append(s \o t, x)
    BY <2>3, AppendToConcat
  <2>5. s \o t \in Seq(S)
    BY <2>3, ConcatProperties
  <2>6. Append(s \o t, x) = (s \o t) \o <<x>>
    BY <2>3, <2>5, AppendIsConcat
  <2> QED
    BY <1>1, <1>3, <1>5, <2>2, <2>4, <2>6
<1> QED
  BY <1>1, <1>2, <1>3, <1>4, <1>6, StepOver

LEMMA ReadLastPercentStep ==
  ASSUME NEW n, NEW p, At(n, p), ReadLastPercent
  PROVE  (\E m \in 0 .. Len(pieces) : Reached(m))' /\ at' = "pattern"
<1>1. /\ at' = at /\ at = "pattern" /\ Current = "%" /\ Next1 = "eof" /\ Found(<<>>)
      /\ it' = it + 1 /\ UNCHANGED <<pieces, zone>>
  BY Zenon DEF ReadLastPercent, AtPercent, InPattern, Advance, given
<1>2. p = pieces[n]
  BY DEF At
<1>3. Len(p) = 1 /\ p = <<"%">> /\ p \in Seq(STRING)
  BY <1>1, SeesCharacter
<1>4. ~ IsFlag(p, "L") /\ ~ IsFlag(p, "+")
  BY <1>3, NotFlag
<1>5. \A e : Meaning(n, e) = <<>>
  <2>1. p # <<>>
    BY <1>3, EmptySeq
  <2>2. \A z, e : PieceText(p, z, e) = <<>>
    BY <1>3, <2>1, PieceTexts
  <2> QED
    BY <1>2, <1>4, <2>2 DEF Meaning
<1>6. \A e \in Events : Texts(<<>>, e) = Meaning(n, e)
  BY <1>5, NoText, EventsAssumption DEF EventRecords
<1> QED
  BY <1>1, <1>3, <1>4, <1>6, NoFlag, Passes

LEMMA ReadFullStep ==
  ASSUME NEW n, NEW p, At(n, p), ReadFull
  PROVE  (\E m \in 0 .. Len(pieces) : Reached(m))' /\ at' = "pattern"
<1>1. /\ at' = at /\ at = "pattern" /\ Current = "%" /\ Next1 = "+" /\ Found(FullFlags)
      /\ it' = it + 2 /\ zone' = "utc" /\ UNCHANGED pieces
  BY Zenon DEF ReadFull, AtPercent, InPattern, Advance, given
<1>2. p = <<"%", "+">>
  BY <1>1, SeesFlag
<1>3. /\ ~ IsFlag(p, "L") /\ IsFlag(p, "+") /\ Len(p) = 2
      /\ \A e : Meaning(n, e) = Texts(FullFlags, e)
  BY <1>2, FlagMeaning
<1> QED
  BY <1>1, <1>3, FullFlagsFound, Passes

LEMMA ReadLocalStep ==
  ASSUME NEW n, NEW p, At(n, p), ReadLocal
  PROVE  (\E m \in 0 .. Len(pieces) : Reached(m))' /\ at' = "pattern"
<1>1. /\ at' = at /\ at = "pattern" /\ Current = "%" /\ Next1 = "L" /\ Found(<<>>)
      /\ it' = it + 2 /\ zone' = "local" /\ UNCHANGED pieces
  BY Zenon DEF ReadLocal, AtPercent, InPattern, Advance, given
<1>2. p = <<"%", "L">>
  BY <1>1, SeesFlag
<1>3. IsFlag(p, "L") /\ Len(p) = 2 /\ \A e : Meaning(n, e) = <<>>
  BY <1>2, FlagMeaning
<1>4. \A e \in Events : Texts(<<>>, e) = Meaning(n, e)
  BY <1>3, NoText, EventsAssumption DEF EventRecords
<1> QED
  BY <1>1, <1>3, <1>4, NoFlag, Passes

LEMMA ReadFlagStep ==
  ASSUME NEW n, NEW p, At(n, p), ReadFlag
  PROVE  (\E m \in 0 .. Len(pieces) : Reached(m))' /\ at' = "pattern"
<1>1. /\ at' = at /\ at = "pattern" /\ Current = "%" /\ Next1 \in PlainFlags
      /\ Found(<<Flag(Next1, zone)>>) /\ it' = it + 2 /\ UNCHANGED <<pieces, zone>>
  BY Zenon DEF ReadFlag, AtPercent, InPattern, Advance, given
<1>2. PICK c, z : c = Next1 /\ z = zone
  OBVIOUS
<1>3. c \notin {"eof", "f", "L", "+", "literal"} /\ c \in STRING /\ z \in {"utc", "local"}
  <2>1. Next1 \notin {"eof", "f", "L", "+", "literal"} /\ Next1 \in STRING
    BY <1>1, StringAssumption DEF PlainFlags, DateFlags, FractionFlags, EventFlags
  <2>2. zone \in {"utc", "local"}
    BY DEF At, TypeOK
  <2> QED
    BY <1>2, <2>1, <2>2
<1>4. p = <<"%", c>>
  BY <1>1, <1>2, <1>3, SeesFlag
<1>5. /\ ~ IsFlag(p, "L") /\ ~ IsFlag(p, "+") /\ Len(p) = 2
      /\ \A e : Meaning(n, e) = FlagText(Flag(c, zone), e)
  BY <1>3, <1>4, FlagMeaning
<1>6. /\ Flag(c, z) \in FlagFormatters /\ <<Flag(c, z)>> \in Seq(FlagFormatters)
      /\ Substantial(<<Flag(c, z)>>)
  BY <1>3, FlagTypes, NewFlag
<1>7. \A e \in Events : Texts(<<Flag(c, z)>>, e) = Meaning(n, e)
  <2>1. \A e \in EventRecords : Texts(<<Flag(c, z)>>, e) = FlagText(Flag(c, z), e)
    BY <1>6, TextsOne
  <2> QED
    BY <1>2, <1>5, <2>1, EventsAssumption DEF EventRecords
<1>8. Found(<<Flag(c, z)>>)
  BY <1>1, <1>2
<1> QED
  BY <1>1, <1>5, <1>6, <1>7, <1>8, Passes

LEMMA FirstSymbol ==
  ASSUME NEW n, NEW p, NEW k, Parsing, kind = "pattern", n \in 1 .. Len(pieces), p = pieces[n],
         k = Len(Read(n - 1)) + 1
  PROVE  pattern[k] = p[1]
<1>1. k \in Nat \ {0}
  BY Position
<1>2. Len(p) \in Nat \ {0}
  BY Kinds
<1>3. PICK j : j = 1
  OBVIOUS
<1>4. j \in 1 .. Len(p) /\ k - 1 + j = k
  BY <1>1, <1>2, <1>3
<1>5. pattern[k - 1 + j] = p[j]
  BY <1>4, Symbols
<1> QED
  BY <1>3, <1>4, <1>5

(* A bracket after a flag with a parameter belongs to the flag.            *)
LEMMA NoBracket ==
  ASSUME NEW n, NEW p, NEW c, At(n, p), p = <<"%", c>>, TakesParameter(c)
  PROVE  ~ HasParameter
<1> SUFFICES ASSUME HasParameter
             PROVE  FALSE
  OBVIOUS
<1>1. /\ TypeOK /\ Parsing /\ kind = "pattern" /\ GoodPattern
      /\ n \in 1 .. Len(pieces) /\ p = pieces[n] /\ it = Len(Read(n - 1)) + 1
  BY DEF At, Reached
<1>2. Len(p) = 2
  OBVIOUS
<1>3. /\ it + 2 = Len(Read(n)) + 1 /\ it \in Nat \ {0} /\ Len(pattern) \in Nat
      /\ it + 2 <= Len(pattern) /\ pattern[it + 2] = "["
  <2>1. it + Len(p) = Len(Read(n)) + 1 /\ it \in Nat \ {0} /\ Len(pattern) \in Nat
    BY <1>1, Position
  <2> QED
    BY <1>2, <2>1 DEF HasParameter
<1>4. PICK m : m = Len(pieces) /\ m \in Nat
  BY <1>1, PieceSequence
<1>5. m \in Nat /\ n \in 1 .. m
  BY <1>1, <1>4
<1>6. n # m
  <2>1. ASSUME n = m
        PROVE  FALSE
    <3>1. SubSeq(pieces, 1, Len(pieces)) = pieces /\ pattern = FlattenSeq(pieces)
      BY <1>1, PieceSequence, SubSeqFull DEF Parsing
    <3>2. Read(n) = pattern
      BY <1>4, <2>1, <3>1 DEF Read
    <3>3. it + 2 = Len(pattern) + 1
      BY <1>3, <3>2
    <3> QED
      BY <1>3, <3>3
  <2> QED
    BY <2>1
<1>7. PICK i, q : i = n + 1 /\ q = pieces[i]
  OBVIOUS
<1>8. i \in 1 .. m /\ i - 1 = n /\ i # 1
  BY <1>5, <1>6, <1>7
<1>9. q[1] = "["
  <2>1. PICK k : k = it + 2
    OBVIOUS
  <2>2. k = Len(Read(i - 1)) + 1
    BY <1>3, <1>8, <2>1
  <2>3. i \in 1 .. Len(pieces)
    BY <1>4, <1>8
  <2>4. Parsing /\ kind = "pattern" /\ q = pieces[i]
    BY <1>1, <1>7
  <2>5. pattern[k] = q[1]
    BY <2>2, <2>3, <2>4, FirstSymbol
  <2> QED
    BY <1>3, <2>1, <2>5
<1>10. q = <<"[">>
  <2>1. i \in 1 .. Len(pieces)
    BY <1>4, <1>8
  <2>2. /\ Len(q) = 1 => q = <<q[1]>>
        /\ Len(q) # 1 => q[1] = "%"
    BY <1>1, <1>7, <2>1, Kinds
  <2> QED
    BY <1>9, <2>2
<1>11. Parametric(pieces[i - 1])
  <2>1. c \in CustomFlags \cup {"f"}
    BY <1>1 DEF TakesParameter, TypeOK
  <2>2. pieces[i - 1] = <<"%", c>>
    BY <1>1, <1>8
  <2> QED
    BY <2>1, <2>2 DEF Parametric, IsFlag
<1>12. i \in DOMAIN pieces
  <2>1. DOMAIN pieces = 1 .. Len(pieces)
    BY <1>1, PieceSequence, LenProperties
  <2> QED
    BY <1>4, <1>8, <2>1
<1> QED
  BY <1>1, <1>7, <1>8, <1>10, <1>11, <1>12 DEF GoodPattern

LEMMA SymbolsAhead ==
  ASSUME NEW n, NEW p, At(n, p)
  PROVE  \A j \in 1 .. Len(p) : pattern[it - 1 + j] = p[j]
<1>1. /\ Parsing /\ kind = "pattern" /\ n \in 1 .. Len(pieces) /\ p = pieces[n]
      /\ it = Len(Read(n - 1)) + 1
  BY DEF At, Reached
<1>2. PICK k : k = it
  OBVIOUS
<1>3. k = Len(Read(n - 1)) + 1
  BY <1>1, <1>2
<1>4. \A j \in 1 .. Len(p) : pattern[k - 1 + j] = p[j]
  BY <1>1, <1>3, Symbols
<1> QED
  BY <1>2, <1>4

(* The flag with its parameter is in front of the parser.                  *)
LEMMA Bracketed ==
  ASSUME NEW n, NEW p, At(n, p), Len(p) > 2
  PROVE  /\ HasParameter /\ Len(p) > 3 /\ p[1] = "%"
         /\ \A j \in 4 .. Len(p) : p[j] = "]" <=> j = Len(p)
         /\ it \in Nat \ {0} /\ Len(pattern) \in Nat /\ Len(p) \in Nat
         /\ it + Len(p) <= Len(pattern) + 1
<1>1. /\ Parsing /\ kind = "pattern" /\ n \in 1 .. Len(pieces) /\ p = pieces[n]
      /\ it = Len(Read(n - 1)) + 1
  BY DEF At, Reached
<1>2. /\ Len(p) \in Nat \ {0} /\ Len(p) > 3 /\ p[3] = "["
      /\ \A j \in 4 .. Len(p) : p[j] = "]" <=> j = Len(p)
  BY <1>1, Kinds
<1>3. it \in Nat \ {0} /\ Len(pattern) \in Nat /\ it + Len(p) <= Len(pattern) + 1
  BY <1>1, Position
<1>3a. \A j \in 1 .. Len(p) : pattern[it - 1 + j] = p[j]
  BY SymbolsAhead
<1>4. PICK k, w, l : k = it /\ w = Len(pattern) /\ l = Len(p)
  OBVIOUS
<1>5. k \in Nat \ {0} /\ w \in Nat /\ l \in Nat /\ l > 3 /\ k + l <= w + 1
  BY <1>2, <1>3, <1>4
<1>6. 3 \in 1 .. l /\ k - 1 + 3 = k + 2 /\ k + 2 <= w /\ l # 1
  BY <1>5
<1>7. HasParameter
  BY <1>2, <1>3, <1>3a, <1>4, <1>6 DEF HasParameter
<1>8. p[1] = "%"
  BY <1>1, <1>4, <1>6, Kinds
<1> QED
  BY <1>2, <1>3, <1>7, <1>8

LEMMA ReadParameterlessStep ==
  ASSUME NEW n, NEW p, At(n, p), ReadParameterless
  PROVE  (\E m \in 0 .. Len(pieces) : Reached(m))' /\ at' = "pattern"
<1>1. /\ at' = at /\ at = "pattern" /\ Current = "%" /\ TakesParameter(Next1) /\ ~ HasParameter
      /\ Found(<<Flag(Next1, "utc")>>) /\ it' = it + 2 /\ UNCHANGED <<pieces, zone>>
  BY Zenon DEF ReadParameterless, AtPercent, InPattern, Advance, given
<1>2. PICK c, z : c = Next1 /\ z = zone
  OBVIOUS
<1>3. /\ c \notin {"eof", "L", "+", "literal"} /\ c \in STRING
      /\ c = "f" \/ c \in CustomFlags \ (PlainFlags \cup {"L", "+"})
  <2>1. custom \subseteq CustomFlags
    BY DEF At, TypeOK
  <2>2. c = "f" \/ c \in CustomFlags \ (PlainFlags \cup {"L", "+"})
    BY <1>1, <1>2, <2>1 DEF TakesParameter
  <2> QED
    BY <2>2, StringAssumption, FlagsAssumption
<1>4. p = <<"%", c>>
  <2>1. ~ (Len(p) > 2)
    BY <1>1, Bracketed
  <2> QED
    BY <1>1, <1>2, <1>3, <2>1, SeesFlag
<1>5. /\ ~ IsFlag(p, "L") /\ ~ IsFlag(p, "+") /\ Len(p) = 2
      /\ \A e : Meaning(n, e) = FlagText(Flag(c, zone), e)
  BY <1>3, <1>4, FlagMeaning
<1>6. /\ Flag(c, "utc") \in FlagFormatters /\ <<Flag(c, "utc")>> \in Seq(FlagFormatters)
      /\ Substantial(<<Flag(c, "utc")>>)
  BY <1>3, FlagTypes, NewFlag
<1>7. \A e \in Events : Texts(<<Flag(c, "utc")>>, e) = Meaning(n, e)
  <2>1. \A e \in EventRecords : Texts(<<Flag(c, "utc")>>, e) = FlagText(Flag(c, "utc"), e)
    BY <1>6, TextsOne
  <2>2. \A e : FlagText(Flag(c, z), e) = FlagText(Flag(c, "utc"), e)
    BY <1>3, ZoneFree
  <2> QED
    BY <1>2, <1>5, <2>1, <2>2, EventsAssumption DEF EventRecords
<1>8. Found(<<Flag(c, "utc")>>)
  BY <1>1, <1>2
<1> QED
  BY <1>1, <1>5, <1>6, <1>7, <1>8, Passes

(* The parameter ends at the first closing bracket, which is the end of    *)
(* the piece.                                                              *)
LEMMA Closing ==
  ASSUME NEW n, NEW p, At(n, p), Len(p) > 2
  PROVE  LET closing == { i \in it + 3 .. Len(pattern) : pattern[i] = "]" }
         IN /\ it + Len(p) - 1 \in closing
            /\ \A i \in closing : it + Len(p) - 1 <= i
<1>1. /\ Len(p) > 3
      /\ \A j \in 4 .. Len(p) : p[j] = "]" <=> j = Len(p)
      /\ it \in Nat \ {0} /\ Len(pattern) \in Nat /\ Len(p) \in Nat
      /\ it + Len(p) <= Len(pattern) + 1
  BY Bracketed
<1>1a. \A j \in 1 .. Len(p) : pattern[it - 1 + j] = p[j]
  BY SymbolsAhead
<1>2. PICK k, w, l : k = it /\ w = Len(pattern) /\ l = Len(p)
  OBVIOUS
<1>3. /\ k \in Nat \ {0} /\ w \in Nat /\ l \in Nat /\ l > 3 /\ k + l <= w + 1
      /\ \A j \in 4 .. l : p[j] = "]" <=> j = l
      /\ \A j \in 1 .. l : pattern[k - 1 + j] = p[j]
  BY <1>1, <1>1a, <1>2
<1> DEFINE closing == { i \in k + 3 .. w : pattern[i] = "]" }
<1>4. k + l - 1 \in closing
  <2>1. l \in 1 .. l /\ l \in 4 .. l /\ k - 1 + l = k + l - 1 /\ k + l - 1 \in k + 3 .. w
    BY <1>3
  <2>2. pattern[k - 1 + l] = p[l] /\ p[l] = "]"
    BY <1>3, <2>1
  <2>3. pattern[k + l - 1] = "]"
    BY <2>1, <2>2
  <2> QED
    BY <2>1, <2>3
<1>5. ASSUME NEW i \in closing
      PROVE  k + l - 1 <= i
  <2>1. i \in k + 3 .. w /\ pattern[i] = "]"
    OBVIOUS
  <2>2. SUFFICES ASSUME ~ (k + l - 1 <= i)
                 PROVE  FALSE
    OBVIOUS
  <2>3. PICK j : j = i - k + 1
    OBVIOUS
  <2>4. j \in 4 .. l /\ j \in 1 .. l /\ j # l /\ k - 1 + j = i
    BY <1>3, <2>1, <2>2, <2>3
  <2>5. pattern[k - 1 + j] = p[j]
    BY <1>3, <2>4
  <2> QED
    BY <1>3, <2>1, <2>4, <2>5
<1> QED
  BY <1>2, <1>4, <1>5

LEMMA ParameterText ==
  ASSUME NEW n, NEW p, At(n, p), Len(p) > 2
  PROVE  /\ SubSeq(pattern, it + 3, it + Len(p) - 2) = SubSeq(p, 4, Len(p) - 1)
         /\ SubSeq(p, 4, Len(p) - 1) \in Seq(STRING)
<1>1. /\ Len(p) > 3
      /\ it \in Nat \ {0} /\ Len(pattern) \in Nat /\ Len(p) \in Nat
      /\ it + Len(p) <= Len(pattern) + 1
  BY Bracketed
<1>1a. \A j \in 1 .. Len(p) : pattern[it - 1 + j] = p[j]
  BY SymbolsAhead
<1>2. PICK k, w, l : k = it /\ w = Len(pattern) /\ l = Len(p)
  OBVIOUS
<1>3. /\ k \in Nat \ {0} /\ w \in Nat /\ l \in Nat /\ l > 3 /\ k + l <= w + 1
      /\ \A j \in 1 .. l : pattern[k - 1 + j] = p[j]
  BY <1>1, <1>1a, <1>2
<1>4. PICK h, t, u, v : h = k + 3 /\ t = k + l - 2 /\ u = 4 /\ v = l - 1
  OBVIOUS
<1>5. /\ h \in Int /\ t \in Int /\ u \in Int /\ v \in Int
      /\ t - h + 1 = v - u + 1 /\ (h <= t <=> u <= v)
      /\ \A i \in 1 .. v - u + 1 : u + i - 1 \in 1 .. l /\ k - 1 + (u + i - 1) = h + i - 1
      /\ \A i \in u .. v : i \in 1 .. l
      /\ \A i \in h .. t : i \in 1 .. w
  BY <1>3, <1>4
<1>6. p \in Seq(STRING) /\ pattern \in Seq(STRING)
  BY Sees DEF At, Parsing
<1>7. (\A i \in u .. v : p[i] \in STRING) /\ (\A i \in h .. t : pattern[i] \in STRING)
  BY <1>2, <1>5, <1>6, ElementOfSeq
<1> DEFINE a == SubSeq(pattern, h, t)
           b == SubSeq(p, u, v)
<1>8. /\ a \in Seq(STRING) /\ Len(a) = (IF h <= t THEN t - h + 1 ELSE 0)
      /\ \A i \in 1 .. t - h + 1 : a[i] = pattern[h + i - 1]
  BY <1>5, <1>7, SubSeqProperties
<1>9. /\ b \in Seq(STRING) /\ Len(b) = (IF u <= v THEN v - u + 1 ELSE 0)
      /\ \A i \in 1 .. v - u + 1 : b[i] = p[u + i - 1]
  BY <1>5, <1>7, SubSeqProperties
<1> HIDE DEF a, b
<1>10. Len(a) = Len(b) /\ Len(a) \in {0, v - u + 1}
  BY <1>5, <1>8, <1>9
<1>11. ASSUME NEW i \in 1 .. Len(a)
       PROVE  a[i] = b[i]
  <2>1. i \in 1 .. v - u + 1
    BY <1>5, <1>10
  <2>2. a[i] = pattern[h + i - 1] /\ b[i] = p[u + i - 1]
    BY <1>5, <1>8, <1>9, <2>1
  <2>3. pattern[k - 1 + (u + i - 1)] = p[u + i - 1]
    BY <1>3, <1>5, <2>1
  <2> QED
    BY <1>5, <2>1, <2>2, <2>3
<1>12. a = b
  BY <1>8, <1>9, <1>10, <1>11, SeqEqual
<1> QED
  BY <1>2, <1>4, <1>9, <1>12 DEF a, b

LEMMA ReadParameterStep ==
  ASSUME NEW n, NEW p, At(n, p), ReadParameter
  PROVE  (\E m \in 0 .. Len(pieces) : Reached(m))' /\ at' = "pattern"
<1> DEFINE closing == { i \in it + 3 .. Len(pattern) : pattern[i] = "]" }
<1>1. /\ at = "pattern" /\ Current = "%" /\ TakesParameter(Next1) /\ HasParameter
      /\ \/ closing = {} /\ at' = "overrun"
         \/ \E end \in closing :
              /\ \A i \in closing : end <= i
              /\ Found(<<[Flag(Next1, "utc") EXCEPT !.text = SubSeq(pattern, it + 3, end - 1)]>>)
              /\ it' = end + 1
              /\ UNCHANGED at
      /\ UNCHANGED <<pieces, zone>>
  BY Zenon DEF ReadParameter, AtPercent, InPattern, given
<1>2. Next1 # "eof"
  BY <1>1, FlagsAssumption DEF TakesParameter, At, TypeOK
<1>3. Len(p) > 2
  <2>1. Len(p) # 2
    <3>1. ASSUME Len(p) = 2
          PROVE  FALSE
      <4>1. p = <<"%", Next1>>
        BY <1>1, <1>2, <3>1, SeesFlag
      <4>2. PICK c : c = Next1
        OBVIOUS
      <4>3. p = <<"%", c>> /\ TakesParameter(c)
        BY <1>1, <4>1, <4>2
      <4> QED
        BY <1>1, <4>3, NoBracket
    <3> QED
      BY <3>1
  <2> QED
    BY <1>1, <1>2, <2>1, SeesFlag
<1>4. Next1 = "f"
  BY <1>1, <1>2, <1>3, SeesFlag
<1>5. PICK last : last = it + Len(p) - 1
  OBVIOUS
<1>6. last \in closing /\ \A i \in closing : last <= i
  BY <1>3, <1>5, Closing
<1>7. /\ it \in Nat \ {0} /\ Len(p) \in Nat /\ Len(p) > 3 /\ p[1] = "%"
      /\ last \in Nat
  <2>1. it \in Nat \ {0} /\ Len(p) \in Nat /\ Len(p) > 3 /\ p[1] = "%"
    BY <1>3, Bracketed
  <2> QED
    BY <1>5, <2>1
<1> DEFINE text == SubSeq(p, 4, Len(p) - 1)
<1>8. /\ at' = at /\ it' = it + Len(p)
      /\ Found(<<[Flag("f", "utc") EXCEPT !.text = text]>>)
  <2>1. PICK end \in closing :
              /\ \A i \in closing : end <= i
              /\ Found(<<[Flag(Next1, "utc") EXCEPT !.text = SubSeq(pattern, it + 3, end - 1)]>>)
              /\ it' = end + 1
              /\ UNCHANGED at
    BY <1>1, <1>6
  <2>2. end \in Nat /\ end <= last /\ last <= end
    BY <1>6, <1>7, <2>1
  <2>3. end = last
    BY <1>7, <2>2
  <2>4. end - 1 = it + Len(p) - 2 /\ end + 1 = it + Len(p)
    BY <1>5, <1>7, <2>3
  <2>5. SubSeq(pattern, it + 3, end - 1) = text
    BY <1>3, <2>4, ParameterText
  <2> QED
    BY <1>4, <2>1, <2>4, <2>5
<1>9. text \in Seq(STRING)
  BY <1>3, ParameterText
<1> HIDE DEF text
<1> DEFINE f == Fields(text)
<1>10. f \in FlagFormatters /\ f.flag # "literal" /\ Found(<<f>>)
  <2>1. [Flag("f", "utc") EXCEPT !.text = text] = f
    BY DEF Flag, Fields
  <2>2. f \in FlagFormatters
    BY <1>9, FlagTypes
  <2> QED
    BY <1>8, <2>1, <2>2 DEF Fields
<1>11. ~ IsFlag(p, "L") /\ ~ IsFlag(p, "+")
  <2>1. Len(<<"%", "L">>) = 2 /\ Len(<<"%", "+">>) = 2
    OBVIOUS
  <2>2. PICK l : l = Len(p)
    OBVIOUS
  <2>3. l \in Nat /\ l > 3
    BY <1>7, <2>2
  <2>4. l # 2
    BY <2>3
  <2> QED
    BY <2>1, <2>2, <2>4 DEF IsFlag
<1>12. \A e : Meaning(n, e) = FlagText(f, e)
  <2>1. p \in Seq(STRING) /\ p # <<>>
    BY <1>7, Sees, EmptySeq
  <2>2. Head(p) = "%"
    BY <1>7, <2>1
  <2>3. \A z, e : PieceText(p, z, e) = FlagText(f, e)
    BY <1>3, <2>1, <2>2, PieceTexts DEF text
  <2>4. p = pieces[n]
    BY DEF At
  <2> QED
    BY <1>11, <2>3, <2>4 DEF Meaning
<1> HIDE DEF f
<1>13. <<f>> \in Seq(FlagFormatters) /\ Substantial(<<f>>)
  BY <1>10, OneFormatter
<1>14. \A e \in Events : Texts(<<f>>, e) = Meaning(n, e)
  <2>1. \A e \in EventRecords : Texts(<<f>>, e) = FlagText(f, e)
    BY <1>10, TextsOne
  <2> QED
    BY <1>12, <2>1, EventsAssumption DEF EventRecords
<1> QED
  BY <1>1, <1>8, <1>10, <1>11, <1>13, <1>14, Passes

PatternStep ==
  \/ ReadLiteral \/ ReadLastPercent \/ ReadFull \/ ReadLocal \/ ReadFlag
  \/ ReadParameterless \/ ReadParameter \/ ReadUnknown \/ EndPattern

LogfmtStep ==
  \/ MatchFull \/ BeginLine \/ MatchFields \/ MatchKey \/ MatchNoValue
  \/ SkipSpace \/ NextElement \/ EndLine
  \/ EndValue \/ MatchLiteral \/ MatchLocal \/ MatchFlag \/ MatchUnknown

LEMMA PatternStepAt ==
  ASSUME PatternStep
  PROVE  UNCHANGED given /\ at = "pattern"
<1>1. CASE ReadLiteral
  BY <1>1, Zenon DEF ReadLiteral, InPattern, Collect
<1>2. CASE ReadLastPercent
  BY <1>2, Zenon DEF ReadLastPercent, InPattern
<1>3. CASE ReadFull
  BY <1>3, Zenon DEF ReadFull, InPattern
<1>4. CASE ReadLocal
  BY <1>4, Zenon DEF ReadLocal, InPattern
<1>5. CASE ReadFlag
  BY <1>5, Zenon DEF ReadFlag, InPattern
<1>6. CASE ReadParameterless
  BY <1>6, Zenon DEF ReadParameterless, InPattern
<1>7. CASE ReadParameter
  BY <1>7, Zenon DEF ReadParameter, InPattern
<1>8. CASE ReadUnknown
  BY <1>8, Zenon DEF ReadUnknown, InPattern, Throw
<1>9. CASE EndPattern
  BY <1>9, Zenon DEF EndPattern, InPattern
<1> QED
  BY <1>1, <1>2, <1>3, <1>4, <1>5, <1>6, <1>7, <1>8, <1>9 DEF PatternStep

LEMMA LogfmtStepAt ==
  ASSUME LogfmtStep
  PROVE  UNCHANGED given /\ at \in {"start", "line", "value", "spaces"}
<1>1. CASE MatchFull
  BY <1>1, Zenon DEF MatchFull
<1>2. CASE BeginLine
  BY <1>2, Zenon DEF BeginLine
<1>3. CASE MatchFields
  BY <1>3, Zenon DEF MatchFields
<1>4. CASE MatchKey
  BY <1>4, Zenon DEF MatchKey
<1>5. CASE MatchNoValue
  BY <1>5, Zenon DEF MatchNoValue, Throw
<1>6. CASE SkipSpace
  BY <1>6, Zenon DEF SkipSpace
<1>7. CASE NextElement
  BY <1>7, Zenon DEF NextElement
<1>8. CASE EndLine
  BY <1>8, Zenon DEF EndLine
<1>9. CASE EndValue
  BY <1>9, Zenon DEF EndValue
<1>10. CASE MatchLiteral
  BY <1>10, Zenon DEF MatchLiteral, Collect
<1>11. CASE MatchLocal
  BY <1>11, Zenon DEF MatchLocal
<1>12. CASE MatchFlag
  BY <1>12, Zenon DEF MatchFlag
<1>13. CASE MatchUnknown
  BY <1>13, Zenon DEF MatchUnknown, Throw
<1> QED
  BY <1>1, <1>2, <1>3, <1>4, <1>5, <1>6, <1>7, <1>8, <1>9, <1>10, <1>11, <1>12, <1>13
     DEF LogfmtStep

LEMMA GivenStep ==
  ASSUME [Next]_vars
  PROVE  UNCHANGED <<kind, pieces, custom>>
<1>1. CASE PatternStep \/ LogfmtStep
  BY <1>1, PatternStepAt, LogfmtStepAt, Zenon DEF given
<1>2. CASE Format
  BY <1>2, Zenon DEF Format, given
<1>3. CASE UNCHANGED vars
  BY <1>3, Zenon DEF vars, given
<1> QED
  BY <1>1, <1>2, <1>3 DEF Next, Parse, PatternStep, LogfmtStep

(* In front of a piece of a good pattern the parser steps over the piece.  *)
LEMMA PieceStep ==
  ASSUME NEW n, NEW p, At(n, p), PatternStep
  PROVE  (\E m \in 0 .. Len(pieces) : Reached(m))' /\ at' = "pattern"
<1>1. CASE ReadUnknown
  <2>1. /\ Current = "%" /\ Next1 \notin PlainFlags \cup {"eof", "L", "+"}
        /\ ~ TakesParameter(Next1)
    BY <1>1, Zenon DEF ReadUnknown, AtPercent
  <2>2. PICK c : c = Next1
    OBVIOUS
  <2>3. Len(p) # 1 /\ (Len(p) = 2 => p = <<"%", c>>) /\ (Len(p) > 2 => c = "f")
        /\ (Len(p) = 2 \/ Len(p) > 2)
    <3>1. Len(p) # 1
      BY <2>1, Sees
    <3>2. (Len(p) = 2 => p = <<"%", c>>) /\ (Len(p) > 2 => c = "f") /\ (Len(p) = 2 \/ Len(p) > 2)
      BY <2>1, <2>2, SeesFlag
    <3> QED
      BY <3>1, <3>2
  <2>4. c \in KnownFlags
    BY <2>2, <2>3, Sees
  <2>5. c \in CustomFlags \ custom /\ c # "f"
    BY <2>1, <2>2, <2>4 DEF KnownFlags, TakesParameter
  <2>6. IsFlag(pieces[n], c) /\ n \in DOMAIN pieces /\ GoodPattern
    <3>1. Parsing /\ n \in 1 .. Len(pieces) /\ p = pieces[n] /\ GoodPattern
      BY DEF At
    <3>2. DOMAIN pieces = 1 .. Len(pieces)
      BY <3>1, PieceSequence, LenProperties
    <3> QED
      BY <2>3, <2>5, <3>1, <3>2 DEF IsFlag
  <2> QED
    BY <2>5, <2>6 DEF GoodPattern
<1>2. CASE EndPattern
  <2>1. Eof
    BY <1>2, Zenon DEF EndPattern
  <2> QED
    BY <2>1, Sees
<1>3. CASE ReadLiteral
  BY <1>3, ReadLiteralStep
<1>4. CASE ReadLastPercent
  BY <1>4, ReadLastPercentStep
<1>5. CASE ReadFull
  BY <1>5, ReadFullStep
<1>6. CASE ReadLocal
  BY <1>6, ReadLocalStep
<1>7. CASE ReadFlag
  BY <1>7, ReadFlagStep
<1>8. CASE ReadParameterless
  BY <1>8, ReadParameterlessStep
<1>9. CASE ReadParameter
  BY <1>9, ReadParameterStep
<1> QED
  BY <1>1, <1>2, <1>3, <1>4, <1>5, <1>6, <1>7, <1>8, <1>9, Zenon DEF PatternStep

(* Behind the last piece it ends, with the text of all of them.            *)
LEMMA EndStep ==
  ASSUME TypeOK, Parsing, kind = "pattern", Reached(Len(pieces)), PatternStep
  PROVE  at' = "ready" /\ \A e \in Events : Texts(flags', e) = PatternMeans(e)
<1>1. /\ it = Len(Read(Len(pieces))) + 1
      /\ \A e \in Events : Texts(flags, e) \o literal = PatternMeans(e)
  BY DEF Reached, PatternMeans
<1>2. Eof
  BY <1>1, AtEnd
<1>3. at' = "ready" /\ Found(<<>>)
  <2>1. EndPattern
    BY <1>2, Zenon DEF PatternStep, ReadLiteral, ReadLastPercent, ReadFull, ReadLocal, ReadFlag,
      ReadParameterless, ReadParameter, ReadUnknown, AtPercent
  <2> QED
    BY <2>1, Zenon DEF EndPattern
<1>4. flags \in Seq(FlagFormatters) /\ literal \in Seq(STRING) /\ Substantial(flags)
  BY DEF TypeOK, Parsing, Substantial
<1>5. /\ flags' \in Seq(FlagFormatters) /\ literal' = <<>>
      /\ \A e \in EventRecords :
           Texts(flags', e) \o literal' = (Texts(flags, e) \o literal) \o Texts(<<>>, e)
  <2>1. <<>> \in Seq(FlagFormatters) /\ Substantial(<<>>)
    BY NoFlag
  <2>2. PICK fs : fs = <<>>
    OBVIOUS
  <2>3. fs \in Seq(FlagFormatters) /\ Substantial(fs) /\ Found(fs)
    BY <1>3, <2>1, <2>2
  <2>4. flags' \in Seq(FlagFormatters) /\ literal' = <<>>
    BY <1>4, <2>3, FoundText
  <2>5. \A e \in EventRecords :
           Texts(flags', e) \o literal' = (Texts(flags, e) \o literal) \o Texts(fs, e)
    BY <1>4, <2>3, FoundText
  <2> QED
    BY <2>2, <2>4, <2>5
<1>6. ASSUME NEW e \in Events
      PROVE  Texts(flags', e) = PatternMeans(e)
  <2>1. e \in EventRecords
    BY EventsAssumption DEF EventRecords
  <2>2. Texts(flags', e) \o <<>> = PatternMeans(e) \o <<>>
    BY <1>1, <1>5, <2>1, NoText
  <2>3. Texts(flags', e) \in Seq(STRING)
    BY <1>5, <2>1, PartsType
  <2>4. PatternMeans(e) \in Seq(STRING)
    <3>1. Len(pieces) \in 0 .. Len(pieces)
      BY PieceSequence
    <3> QED
      BY <2>1, <3>1, MeaningsType DEF PatternMeans
  <2> QED
    BY <2>2, <2>3, <2>4, ConcatEmptySeq
<1> QED
  BY <1>3, <1>6

LEMMA InitRendering == Init => Rendering
<1> SUFFICES ASSUME Init
             PROVE  Rendering
  OBVIOUS
<1>1. TypeOK /\ Parsing
  BY InitTypes
<1>2. /\ it = 1 /\ literal = <<>> /\ zone = "utc" /\ flags = <<>>
      /\ at = IF kind = "pattern" THEN "pattern" ELSE "start"
  BY DEF Init
<1>3. Len(pieces) \in Nat /\ pieces \in Seq(Seq(STRING))
  BY <1>1, PieceSequence
<1>4. Len(Read(0)) = 0
  <2>1. SubSeq(pieces, 1, 0) = <<>>
    BY SubSeqEmpty
  <2> QED
    BY <2>1, FlattenNone, EmptySeq DEF Read
<1>5. ZoneAt(0 + 1) = "utc"
  <2>1. 1 .. (0 + 1) - 1 = {}
    OBVIOUS
  <2> QED
    BY <2>1 DEF ZoneAt
<1>6. ASSUME NEW e \in Events
      PROVE  Texts(flags, e) \o literal = FirstMean(0, e)
  <2>1. e \in EventRecords
    BY EventsAssumption DEF EventRecords
  <2>2. /\ Meanings(0, e) \in Seq(Seq(STRING)) /\ Len(Meanings(0, e)) = 0
        /\ FirstMean(0, e) = FlattenSeq(Meanings(0, e))
    BY <1>1, <1>3, <2>1, MeaningsType
  <2>3. FirstMean(0, e) = <<>>
    BY <2>2, EmptySeq, FlattenNone
  <2>4. <<>> \o <<>> = <<>>
    BY EmptySeq, ConcatEmptySeq
  <2> QED
    BY <1>2, <2>1, <2>3, <2>4, NoText
<1>7. Reached(0)
  BY <1>2, <1>4, <1>5, <1>6 DEF Reached
<1>8. 0 \in 0 .. Len(pieces)
  BY <1>3
<1> QED
  BY <1>2, <1>7, <1>8 DEF Rendering

LEMMA MeansOfEvent ==
  ASSUME NEW e, pieces' = pieces, event' = e
  PROVE  PatternMeans(event)' = PatternMeans(e)
<1>1. \A i : ZoneAt(i)' = ZoneAt(i)
  BY SamePieces
<1>2. ASSUME NEW i
      PROVE  Meaning(i, event)' = Meaning(i, e)
  BY <1>1 DEF Meaning, IsFlag
<1> QED
  BY <1>2 DEF PatternMeans, FirstMean

LEMMA RenderingStep == IInv /\ [Next]_vars => Rendering'
<1> SUFFICES ASSUME IInv, [Next]_vars, (kind = "pattern" /\ GoodPattern)'
             PROVE  /\ at' \notin {"error", "overrun"}
                    /\ at' = "pattern" => (\E n \in 0 .. Len(pieces) : Reached(n))'
                    /\ at' = "ready" => \A e \in Events : Texts(flags', e) = PatternMeans(e)'
                    /\ at' = "formatted" => (event \in Events /\ out = PatternMeans(event))'
  BY DEF Rendering
<1>1. /\ TypeOK /\ Parsing /\ UNCHANGED <<kind, pieces, custom>>
      /\ kind = "pattern" /\ GoodPattern
  <2>1. UNCHANGED <<kind, pieces, custom>>
    BY GivenStep
  <2>2. GoodPattern
    BY <2>1 DEF GoodPattern, Parametric, IsFlag, ZoneAt
  <2> QED
    BY <2>1, <2>2 DEF IInv
<1>2. /\ at \notin {"error", "overrun"}
      /\ at = "pattern" => \E n \in 0 .. Len(pieces) : Reached(n)
      /\ at = "ready" => \A e \in Events : Texts(flags, e) = PatternMeans(e)
      /\ at = "formatted" => event \in Events /\ out = PatternMeans(event)
  BY <1>1 DEF IInv, Rendering
<1>3. \A e : PatternMeans(e)' = PatternMeans(e)
  BY <1>1, SamePieces
<1>4. CASE PatternStep
  <2>1. PICK n \in 0 .. Len(pieces) : Reached(n)
    BY <1>2, <1>4, PatternStepAt
  <2>2. Len(pieces) \in Nat /\ n \in 0 .. Len(pieces)
    BY <1>1, <2>1, PieceSequence
  <2>3. CASE n = Len(pieces)
    <3>1. at' = "ready" /\ \A e \in Events : Texts(flags', e) = PatternMeans(e)
      BY <1>1, <1>4, <2>1, <2>3, EndStep
    <3> QED
      BY <1>3, <3>1
  <2>4. CASE n # Len(pieces)
    <3>1. PICK i : i = n + 1 /\ i \in 1 .. Len(pieces) /\ i - 1 = n
      BY <2>2, <2>4
    <3>2. PICK p : p = pieces[i]
      OBVIOUS
    <3>3. At(i, p)
      BY <1>1, <2>1, <3>1, <3>2 DEF At
    <3>4. (\E m \in 0 .. Len(pieces) : Reached(m))' /\ at' = "pattern"
      BY <1>4, <3>3, PieceStep
    <3> QED
      BY <3>4
  <2> QED
    BY <2>3, <2>4
<1>5. CASE LogfmtStep
  BY <1>1, <1>5, LogfmtStepAt, Loops
<1>6. CASE Format
  <2>1. /\ at = "ready" /\ at' = "formatted"
        /\ \E e \in Events : event' = e /\ out' = IF kind = "pattern" THEN Texts(flags, e)
                                                  ELSE LineText(line, e)
    BY <1>6, Zenon DEF Format
  <2>2. PICK e \in Events : event' = e /\ out' = Texts(flags, e)
    BY <1>1, <2>1
  <2>3. event' \in Events /\ out' = PatternMeans(e)
    BY <1>2, <2>1, <2>2
  <2>4. PatternMeans(event)' = PatternMeans(e)
    BY <1>1, <2>2, MeansOfEvent
  <2> QED
    BY <2>1, <2>3, <2>4
<1>7. CASE UNCHANGED vars
  <2>1. UNCHANGED <<it, at, literal, zone, flags, event, out>>
    BY <1>7, Zenon DEF vars, parser, result
  <2>2. \A n : /\ Read(n)' = Read(n) /\ ZoneAt(n)' = ZoneAt(n)
               /\ \A e : FirstMean(n, e)' = FirstMean(n, e)
    BY <1>1, SamePieces
  <2>3. \A n : Reached(n) => Reached(n)'
    BY <2>1, <2>2 DEF Reached
  <2> QED
    BY <1>1, <1>2, <1>3, <2>1, <2>3
<1> QED
  BY <1>4, <1>5, <1>6, <1>7 DEF Next, Parse, PatternStep, LogfmtStep

(* The invariant is inductive.                                             *)
THEOREM Inductive == Spec => []IInv
<1>1. Init => IInv
  BY InitTypes, InitRendering DEF IInv
<1>2. IInv /\ [Next]_vars => IInv'
  <2>1. IInv /\ [Next]_vars => TypeOK' /\ Parsing'
    BY TypesStep DEF IInv
  <2> QED
    BY <2>1, RenderingStep DEF IInv
<1> QED
  BY <1>1, <1>2, PTL DEF Spec

(* The state has the right types; no parser leaves the pattern.            *)
THEOREM Types == Spec => []TypeOK
<1>1. IInv => TypeOK
  BY DEF IInv
<1> QED
  BY <1>1, Inductive, PTL

(* A good pattern is accepted, and gives the text of its pieces one after  *)
(* the other, with every date in the zone that "%L" asks for, whatever the *)
(* pieces, the flags that were registered and the events are.              *)
THEOREM PatternText == Spec => []PatternRendered
<1>1. IInv => PatternRendered
  BY DEF IInv, Rendering, PatternRendered
<1> QED
  BY <1>1, Inductive, PTL

=============================================================================
