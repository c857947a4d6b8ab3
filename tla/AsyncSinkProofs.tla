--------------------------- MODULE AsyncSinkProofs ---------------------------
(***************************************************************************)
(* Proofs about AsyncSink: the inductive invariant, and that no inner sink *)
(* misses, repeats or reorders an event, for any number of loggers, sinks, *)
(* levels, events and calls, and sizes of any width.                       *)
(***************************************************************************)
EXTENDS AsyncSink, SequenceTheorems, WellFoundedInduction, TLAPS

-----------------------------------------------------------------------------
(***************************************************************************)
(* Why the properties hold: the invariant that the steps keep.             *)
(***************************************************************************)

(* Only a sink that was activated is known to the poller, or to a caller.  *)
NothingBeforeActivation ==
  phase # "active" => requests = <<>> /\ ~ attached /\ caller = "idle"

(* A ticket has an entry only after it was handed out.                     *)
QueueOK ==
  /\ fifo \in Queue!QueueType
  /\ \A t \in Queue!Tickets : Queue!IsPublished(fifo, t) => t < fifo.reserved
  /\ at \in [Producers -> {Idle} \cup [ticket : Queue!Tickets, event : Events]]
  /\ received \in [ToSet(InnerSinks) -> Seq(Events)]

IInv ==
  /\ TypeOK
  /\ NothingBeforeActivation
  /\ QueueOK
  /\ InnerSinksGetAll

-----------------------------------------------------------------------------
(***************************************************************************)
(* Numbers.                                                                *)
(***************************************************************************)

(* A set of natural numbers has a least one.                               *)
LEMMA Least ==
  ASSUME NEW S, S \subseteq Nat, S # {}
  PROVE  \E m \in S : \A k \in S : m <= k
<1>1. PICK m \in S : \A k \in S : ~ (<<k, m>> \in OpToRel(<, Nat))
  BY NatLessThanWellFounded, WFMin
<1>2. ASSUME NEW k \in S
      PROVE  m <= k
  <2>1. k \in Nat /\ m \in Nat
    OBVIOUS
  <2>2. CASE k < m
    <3>1. <<k, m>> \in OpToRel(<, Nat)
      BY <2>1, <2>2 DEF OpToRel
    <3> QED
      BY <1>1, <3>1
  <2> QED
    BY <2>1, <2>2
<1> QED
  BY <1>2

(* One that is bounded has a greatest.                                     *)
LEMMA Greatest ==
  ASSUME NEW n \in Nat, NEW S, S \subseteq 0 .. n, S # {}
  PROVE  \E m \in S : \A k \in S : k <= m
<1> DEFINE T == { x \in 0 .. n : n - x \in S }
<1>1. ASSUME NEW k \in S
      PROVE  n - k \in T /\ k \in 0 .. n
  <2>1. k \in 0 .. n
    OBVIOUS
  <2>2. n - k \in 0 .. n /\ n - (n - k) = k
    BY <2>1
  <2> QED
    BY <2>1, <2>2
<1> HIDE DEF T
<1>2. T \subseteq Nat /\ T # {}
  <2>1. PICK k \in S : TRUE
    OBVIOUS
  <2>2. T # {}
    BY <1>1, <2>1
  <2> QED
    BY <2>2 DEF T
<1>3. PICK x \in T : \A y \in T : x <= y
  BY <1>2, Least
<1>4. n - x \in S /\ x \in 0 .. n
  BY <1>3 DEF T
<1>5. ASSUME NEW k \in S
      PROVE  k <= n - x
  <2>1. x <= n - k /\ k \in 0 .. n /\ x \in 0 .. n
    BY <1>1, <1>3, <1>4
  <2> QED
    BY <2>1
<1> QED
  BY <1>4, <1>5

(* What holds of 0, and of n when it holds of all before, holds of all.    *)
LEMMA Induction ==
  ASSUME NEW n \in Nat, NEW S, \A k \in 0 .. n : (\A j \in 0 .. k - 1 : j \in S) => k \in S
  PROVE  \A k \in 0 .. n : k \in S
<1> DEFINE T == { k \in 0 .. n : k \notin S }
<1>1. SUFFICES ASSUME T # {}
               PROVE  FALSE
  OBVIOUS
<1> HIDE DEF T
<1>2. T \subseteq Nat
  BY DEF T
<1>3. PICK m \in T : \A k \in T : m <= k
  BY <1>1, <1>2, Least
<1>4. m \in 0 .. n /\ m \notin S
  BY DEF T
<1>5. ASSUME NEW j \in 0 .. m - 1
      PROVE  j \in S
  <2>1. j \in 0 .. n /\ ~ (m <= j)
    BY <1>4
  <2> QED
    BY <1>3, <2>1 DEF T
<1> QED
  BY <1>4, <1>5

(***************************************************************************)
(* The powers of two.                                                      *)
(***************************************************************************)
Doubling(n, f) == f = [k \in 0 .. n |-> IF k = 0 THEN 1 ELSE 2 * f[k - 1]]

LEMMA DoublingExists ==
  ASSUME NEW n \in Nat
  PROVE  \E f : Doubling(n, f)
<1> DEFINE S == { k \in 0 .. n : \E f : Doubling(k, f) }
<1>1. ASSUME NEW m \in 0 .. n, \A j \in 0 .. m - 1 : j \in S
      PROVE  \E f : Doubling(m, f)
  <2>1. CASE m = 0
    <3> DEFINE f == [k \in 0 .. 0 |-> 1]
    <3>1. Doubling(0, f)
      BY DEF Doubling
    <3> HIDE DEF f
    <3> QED
      BY <2>1, <3>1
  <2>2. CASE m # 0
    <3>1. m - 1 \in 0 .. n /\ m - 1 \in 0 .. m - 1 /\ m \in Nat \ {0}
      BY <2>2
    <3>2. PICK g : Doubling(m - 1, g)
      BY <1>1, <3>1
    <3> DEFINE f == [k \in 0 .. m |-> IF k = m THEN 2 * g[m - 1] ELSE g[k]]
    <3>3. \A k \in 0 .. m - 1 : g[k] = IF k = 0 THEN 1 ELSE 2 * g[k - 1]
      BY <3>1, <3>2 DEF Doubling
    <3>4. f[m] = 2 * g[m - 1] /\ \A k \in 0 .. m - 1 : f[k] = g[k]
      BY <3>1
    <3>5. f = [k \in 0 .. m |-> f[k]]
      OBVIOUS
    <3> HIDE DEF f
    <3>6. ASSUME NEW k \in 0 .. m
          PROVE  f[k] = IF k = 0 THEN 1 ELSE 2 * f[k - 1]
      <4>1. CASE k = m
        BY <3>1, <3>4, <4>1
      <4>2. CASE k # m
        <5>1. k \in 0 .. m - 1 /\ (k # 0 => k - 1 \in 0 .. m - 1)
          BY <3>1, <4>2
        <5> QED
          BY <3>3, <3>4, <5>1
      <4> QED
        BY <4>1, <4>2
    <3>7. Doubling(m, f)
      BY <3>5, <3>6 DEF Doubling
    <3> QED
      BY <3>7
  <2> QED
    BY <2>1, <2>2
<1>2. \A k \in 0 .. n : k \in S
  <2>1. \A k \in 0 .. n : (\A j \in 0 .. k - 1 : j \in S) => k \in S
    BY <1>1
  <2> HIDE DEF S
  <2> QED
    BY <2>1, Induction
<1> QED
  BY <1>2

LEMMA Powers ==
  /\ Power[0] = 1
  /\ \A k \in 1 .. Width : Power[k] = 2 * Power[k - 1]
  /\ \A k \in 0 .. Width : Power[k] \in Nat /\ Power[k] >= k + 1
<1> DEFINE f == CHOOSE f : Doubling(Width, f)
<1>1. Doubling(Width, f)
  BY WidthAssumption, DoublingExists, Zenon
<1>2. Power = f
  BY DEF Power, Doubling
<1> HIDE DEF f
<1>3. \A k \in 0 .. Width : Power[k] = IF k = 0 THEN 1 ELSE 2 * Power[k - 1]
  BY <1>1, <1>2 DEF Doubling
<1>4. Power[0] = 1 /\ \A k \in 1 .. Width : Power[k] = 2 * Power[k - 1]
  BY <1>3, WidthAssumption
<1> DEFINE S == { k \in 0 .. Width : Power[k] \in Nat /\ Power[k] >= k + 1 }
<1>5. ASSUME NEW k \in 0 .. Width, \A j \in 0 .. k - 1 : j \in S
      PROVE  k \in S
  <2>1. CASE k = 0
    BY <1>4, <2>1
  <2>2. CASE k # 0
    <3>1. k - 1 \in 0 .. k - 1 /\ k \in 1 .. Width
      BY <2>2
    <3>2. Power[k - 1] \in Nat /\ Power[k - 1] >= k
      BY <1>5, <3>1
    <3> QED
      BY <1>4, <3>1, <3>2
  <2> QED
    BY <2>1, <2>2
<1> HIDE DEF S
<1>6. \A k \in 0 .. Width : k \in S
  BY <1>5, WidthAssumption, Induction
<1> QED
  BY <1>4, <1>6 DEF S

LEMMA PowersGrow ==
  ASSUME NEW k \in 0 .. Width, NEW j \in 0 .. k - 1
  PROVE  2 * Power[j] <= Power[k]
<1> DEFINE S == { i \in 0 .. Width : \A m \in 0 .. i - 1 : 2 * Power[m] <= Power[i] }
<1>1. ASSUME NEW i \in 0 .. Width, \A m \in 0 .. i - 1 : m \in S
      PROVE  i \in S
  <2>1. SUFFICES ASSUME NEW m \in 0 .. i - 1
                 PROVE  2 * Power[m] <= Power[i]
    OBVIOUS
  <2>2. /\ i \in 1 .. Width /\ i - 1 \in 0 .. i - 1 /\ i - 1 \in 0 .. Width /\ m \in 0 .. Width
        /\ Power[i] = 2 * Power[i - 1] /\ Power[m] \in Nat /\ Power[i - 1] \in Nat
    <3>1. i \in 1 .. Width /\ i - 1 \in 0 .. i - 1 /\ i - 1 \in 0 .. Width /\ m \in 0 .. Width
      BY WidthAssumption
    <3> QED
      BY <3>1, Powers
  <2>3. CASE m = i - 1
    BY <2>2, <2>3
  <2>4. CASE m # i - 1
    <3>1. i - 1 \in S /\ m \in 0 .. (i - 1) - 1
      BY <1>1, <2>2, <2>4
    <3>2. 2 * Power[m] <= Power[i - 1]
      BY <3>1
    <3> QED
      BY <2>2, <3>2
  <2> QED
    BY <2>3, <2>4
<1> HIDE DEF S
<1>2. k \in S
  BY <1>1, WidthAssumption, Induction
<1> QED
  BY <1>2 DEF S

(* Every size but zero lies between two powers.                            *)
LEMMA Between ==
  ASSUME NEW n \in 1 .. SizeLimit - 1
  PROVE  \E t \in 0 .. Width - 1 :
           Power[t] <= n /\ n < Power[t + 1] /\ Power[t + 1] = 2 * Power[t]
<1> DEFINE S == { k \in 0 .. Width : Power[k] <= n }
<1>1. 0 \in S /\ SizeLimit \in Nat /\ n < Power[Width] /\ S \subseteq 0 .. Width
  BY Powers, WidthAssumption DEF SizeLimit
<1>2. PICK t \in S : \A k \in S : k <= t
  <2> HIDE DEF S
  <2> QED
    BY <1>1, WidthAssumption, Greatest
<1>3. t # Width /\ t \in 0 .. Width
  <2>1. t \in 0 .. Width /\ Power[t] \in Nat /\ Power[Width] \in Nat /\ Power[t] <= n
    BY Powers, WidthAssumption
  <2>2. n \in Int
    OBVIOUS
  <2> QED
    BY <1>1, <2>1, <2>2
<1>4. t \in 0 .. Width - 1 /\ t + 1 \in 1 .. Width /\ t + 1 \in 0 .. Width /\ ~ (t + 1 <= t)
  BY <1>3, WidthAssumption
<1>5. t + 1 \notin S
  BY <1>2, <1>4
<1>6. Power[t] <= n /\ ~ (Power[t + 1] <= n)
  BY <1>4, <1>5
<1>7. Power[t + 1] \in Nat /\ Power[t + 1] = 2 * Power[(t + 1) - 1] /\ (t + 1) - 1 = t
  BY <1>4, Powers
<1> QED
  BY <1>4, <1>6, <1>7

-----------------------------------------------------------------------------
(***************************************************************************)
(* The bits of a number.                                                   *)
(***************************************************************************)
LEMMA Quotient ==
  ASSUME NEW n \in Nat, NEW p \in Nat \ {0}
  PROVE  /\ n \div p \in Nat
         /\ n % p \in 0 .. p - 1
         /\ n = p * (n \div p) + (n % p)
OBVIOUS

LEMMA QuotientIs ==
  ASSUME NEW n \in Nat, NEW p \in Nat \ {0}, NEW q \in Nat, p * q <= n, n < p * q + p
  PROVE  n \div p = q
<1> DEFINE d == n \div p
<1>1. d \in Nat /\ p * d <= n /\ n < p * d + p
  BY Quotient
<1> HIDE DEF d
<1>2. ASSUME NEW a \in Nat, NEW b \in Nat, a < b
      PROVE  p * a + p <= p * b
  <2>1. PICK c \in Nat : b = a + 1 + c
    <3>1. b - a - 1 \in Nat /\ b = a + 1 + (b - a - 1)
      BY <1>2
    <3> QED
      BY <3>1
  <2>2. p * b = p * a + p + p * c /\ p * c \in Nat
    BY <2>1
  <2>3. p * a \in Nat
    OBVIOUS
  <2> QED
    BY <2>2, <2>3
<1>3. p * d \in Nat /\ p * q \in Nat
  BY <1>1
<1>4. ~ (d < q) /\ ~ (q < d)
  BY <1>1, <1>2, <1>3
<1>5. d = q
  BY <1>1, <1>4
<1> QED
  BY <1>5 DEF d

LEMMA Halved ==
  ASSUME NEW n \in Nat, NEW k \in 0 .. Width - 1
  PROVE  /\ n \div Power[k] \in Nat /\ n \div Power[k + 1] \in Nat
         /\ n \div Power[k + 1] = (n \div Power[k]) \div 2
         /\ n \div Power[k] = 2 * (n \div Power[k + 1]) + ((n \div Power[k]) % 2)
<1> DEFINE p == Power[k]
           q == n \div p
           h == q \div 2
<1>1. k \in 0 .. Width /\ k + 1 \in 1 .. Width /\ k + 1 \in 0 .. Width /\ (k + 1) - 1 = k
  BY WidthAssumption
<1>2. p \in Nat \ {0} /\ Power[k + 1] = 2 * p /\ 2 * p \in Nat \ {0}
  BY <1>1, Powers
<1> HIDE DEF p
<1>3. q \in Nat /\ p * q <= n /\ n < p * q + p
  <2>1. q \in Nat /\ n % p \in 0 .. p - 1 /\ n = p * q + (n % p)
    BY <1>2, Quotient
  <2> HIDE DEF q
  <2>2. PICK r \in 0 .. p - 1 : n = p * q + r
    BY <2>1
  <2>3. p * q \in Nat
    BY <1>2, <2>1
  <2> QED
    BY <1>2, <2>1, <2>2, <2>3
<1> HIDE DEF q
<1>4. h \in Nat /\ q % 2 \in 0 .. 1 /\ q = 2 * h + (q % 2)
  BY <1>3
<1> HIDE DEF h
<1>5. (2 * p) * h <= n /\ n < (2 * p) * h + 2 * p
  <2>1. PICK b \in 0 .. 1 : q = 2 * h + b
    BY <1>4
  <2>2. p * q = (2 * p) * h + p * b
    BY <1>2, <1>4, <2>1
  <2>3. p * b \in 0 .. p
    BY <1>2
  <2>4. (2 * p) * h \in Nat /\ p * q \in Nat
    BY <1>2, <1>3, <1>4
  <2> QED
    BY <1>2, <1>3, <2>2, <2>3, <2>4
<1>6. n \div (2 * p) = h
  BY <1>2, <1>4, <1>5, QuotientIs
<1> QED
  BY <1>2, <1>3, <1>4, <1>6 DEF p, q, h

(* Numbers with the same bits are the same.                                *)
LEMMA SameBits ==
  ASSUME NEW a \in 0 .. SizeLimit - 1, NEW b \in 0 .. SizeLimit - 1, Bits(a) = Bits(b)
  PROVE  a = b
<1> DEFINE S == { k \in 0 .. Width : a \div Power[Width - k] = b \div Power[Width - k] }
<1>1. SizeLimit \in Nat \ {0} /\ a \in Nat /\ b \in Nat /\ Width \in Nat
  BY Powers, WidthAssumption DEF SizeLimit
<1>2. ASSUME NEW k \in 0 .. Width, \A j \in 0 .. k - 1 : j \in S
      PROVE  k \in S
  <2>1. CASE k = 0
    <3>1. a \div SizeLimit = 0 /\ b \div SizeLimit = 0
      BY <1>1, QuotientIs
    <3> QED
      BY <1>1, <2>1, <3>1 DEF SizeLimit
  <2>2. CASE k # 0
    <3> DEFINE c == Width - k
    <3>1. c \in 0 .. Width - 1 /\ Width - (k - 1) = c + 1 /\ k - 1 \in 0 .. k - 1
      BY <1>1, <2>2
    <3>2. a \div Power[c + 1] = b \div Power[c + 1]
      BY <1>2, <3>1
    <3>3. c \in Bits(a) <=> c \in Bits(b)
      OBVIOUS
    <3> HIDE DEF c
    <3>4. (a \div Power[c]) % 2 = 1 <=> (b \div Power[c]) % 2 = 1
      BY <3>1, <3>3 DEF Bits
    <3>5. /\ a \div Power[c] \in Nat /\ b \div Power[c] \in Nat
          /\ a \div Power[c] = 2 * (a \div Power[c + 1]) + ((a \div Power[c]) % 2)
          /\ b \div Power[c] = 2 * (b \div Power[c + 1]) + ((b \div Power[c]) % 2)
      BY <1>1, <3>1, Halved
    <3>6. (a \div Power[c]) % 2 \in {0, 1} /\ (b \div Power[c]) % 2 \in {0, 1}
      BY <3>5
    <3>7. a \div Power[c] = b \div Power[c]
      BY <3>2, <3>4, <3>5, <3>6
    <3> QED
      BY <3>7 DEF c
  <2> QED
    BY <2>1, <2>2
<1> HIDE DEF S
<1>3. Width \in S
  BY <1>1, <1>2, Induction
<1>4. a \div Power[0] = b \div Power[0]
  BY <1>1, <1>3 DEF S
<1>5. a \div 1 = a /\ b \div 1 = b
  BY <1>1, QuotientIs
<1> QED
  BY <1>4, <1>5, Powers

(* The highest one of a number.                                            *)
LEMMA TopBit ==
  ASSUME NEW n \in Nat, NEW t \in 0 .. Width - 1, Power[t] <= n, n < Power[t + 1]
  PROVE  t \in Bits(n) /\ Bits(n) \subseteq 0 .. t
<1>1. /\ t \in 0 .. Width /\ t + 1 \in 1 .. Width /\ t + 1 \in 0 .. Width /\ (t + 1) - 1 = t
  BY WidthAssumption
<1>2. Power[t] \in Nat \ {0} /\ Power[t + 1] \in Nat /\ Power[t + 1] = 2 * Power[t]
  BY <1>1, Powers
<1>3. n \div Power[t] = 1
  BY <1>2, QuotientIs
<1>4. t \in Bits(n)
  BY <1>3 DEF Bits
<1>5. ASSUME NEW b \in Bits(n)
      PROVE  b \in 0 .. t
  <2>1. b \in 0 .. Width - 1 /\ (n \div Power[b]) % 2 = 1
    BY DEF Bits
  <2>2. CASE b > t
    <3>1. b \in 0 .. Width /\ t \in 0 .. b - 1 /\ Power[b] \in Nat \ {0}
      BY <2>1, <2>2, WidthAssumption, Powers
    <3>2. 2 * Power[t] <= Power[b]
      BY <3>1, PowersGrow
    <3>3. n \div Power[b] = 0
      BY <1>2, <3>1, <3>2, QuotientIs
    <3> QED
      BY <2>1, <3>3
  <2> QED
    BY <2>1, <2>2
<1> QED
  BY <1>4, <1>5

(* A power less one has all the bits below.                                *)
LEMMA AllOnes ==
  ASSUME NEW t \in 0 .. Width - 1
  PROVE  Bits(Power[t + 1] - 1) = 0 .. t /\ Power[t + 1] - 1 \in 0 .. SizeLimit - 1
<1> DEFINE n == Power[t + 1] - 1
           S == { b \in 0 .. t : n \div Power[b] = Power[t + 1 - b] - 1 }
<1>1. /\ t \in Nat /\ t + 1 \in 1 .. Width /\ t + 1 \in 0 .. Width /\ t \in 0 .. Width
      /\ Power[t + 1] \in Nat /\ Power[t + 1] >= t + 2
      /\ Power[t + 1] = 2 * Power[t] /\ Power[t] \in Nat \ {0}
  <2>1. t \in Nat /\ t + 1 \in 1 .. Width /\ t + 1 \in 0 .. Width /\ t \in 0 .. Width /\ (t + 1) - 1 = t
    BY WidthAssumption
  <2> QED
    BY <2>1, Powers
<1>2. n \in Nat \ {0} /\ Power[t] <= n /\ n < Power[t + 1]
  BY <1>1
<1>3. n \in 0 .. SizeLimit - 1
  <2>1. CASE t + 1 = Width
    BY <1>1, <2>1 DEF SizeLimit
  <2>2. CASE t + 1 # Width
    <3>1. Width \in 0 .. Width /\ t + 1 \in 0 .. Width - 1
      BY <1>1, <2>2, WidthAssumption
    <3>2. 2 * Power[t + 1] <= SizeLimit /\ SizeLimit \in Nat
      BY <3>1, PowersGrow, Powers DEF SizeLimit
    <3> QED
      BY <1>1, <3>2
  <2> QED
    BY <2>1, <2>2
<1>4. ASSUME NEW b \in 0 .. t, \A j \in 0 .. b - 1 : j \in S
      PROVE  b \in S
  <2>1. CASE b = 0
    <3>1. n \div 1 = n
      BY <1>2, QuotientIs
    <3> QED
      BY <1>1, <2>1, <3>1, Powers
  <2>2. CASE b # 0
    <3> DEFINE c == b - 1
    <3>1. /\ c \in 0 .. b - 1 /\ c \in 0 .. Width - 1 /\ b = c + 1
          /\ t + 1 - c \in 1 .. Width /\ t + 1 - b = (t + 1 - c) - 1 /\ t + 1 - b \in 0 .. Width
      BY <2>2, WidthAssumption
    <3>2. n \div Power[c] = Power[t + 1 - c] - 1
      BY <1>4, <3>1
    <3>3. n \div Power[b] = (n \div Power[c]) \div 2
      <4> HIDE DEF n, c
      <4> QED
        BY <1>2, <3>1, Halved
    <3>4. Power[t + 1 - c] = 2 * Power[t + 1 - b] /\ Power[t + 1 - b] \in Nat \ {0}
      BY <3>1, Powers
    <3>5. PICK x \in Nat \ {0} : x = Power[t + 1 - b]
      BY <3>4
    <3>6. (2 * x - 1) \div 2 = x - 1
      OBVIOUS
    <3> QED
      BY <3>2, <3>3, <3>4, <3>5, <3>6
  <2> QED
    BY <2>1, <2>2
<1>5. ASSUME NEW b \in 0 .. t
      PROVE  b \in Bits(n)
  <2>1. b \in S
    <3> HIDE DEF S
    <3> QED
      BY <1>1, <1>4, Induction
  <2>2. /\ t + 1 - b \in 1 .. Width /\ b \in 0 .. Width - 1
        /\ (t + 1 - b) - 1 \in 0 .. Width
    BY WidthAssumption
  <2>3. PICK x \in Nat \ {0} : Power[t + 1 - b] = 2 * x
    BY <2>2, Powers
  <2>4. (2 * x - 1) % 2 = 1
    OBVIOUS
  <2> QED
    BY <2>1, <2>2, <2>3, <2>4 DEF Bits
<1>6. Bits(n) \subseteq 0 .. t
  BY <1>2, TopBit
<1> QED
  BY <1>3, <1>5, <1>6

LEMMA NumberOfOnes ==
  ASSUME NEW t \in 0 .. Width - 1
  PROVE  Number(0 .. t) = Power[t + 1] - 1
<1> DEFINE n == Power[t + 1] - 1
<1>1. n \in 0 .. SizeLimit - 1 /\ Bits(n) = 0 .. t
  BY AllOnes
<1> HIDE DEF n
<1>2. Number(0 .. t) \in 0 .. SizeLimit - 1 /\ Bits(Number(0 .. t)) = 0 .. t
  BY <1>1, Zenon DEF Number
<1>3. Number(0 .. t) = n
  BY <1>1, <1>2, SameBits
<1> QED
  BY <1>3 DEF n


-----------------------------------------------------------------------------
(***************************************************************************)
(* The loop of the rounding spreads the highest one to all the bits below. *)
(***************************************************************************)
Spreading(bits, n, f) ==
  f = [i \in 0 .. n |-> IF i = 0 THEN bits
                        ELSE IF i \in Shifts THEN f[i - 1] \cup ShiftRight(f[i - 1], i)
                        ELSE f[i - 1]]

LEMMA SpreadingExists ==
  ASSUME NEW bits, NEW n \in Nat
  PROVE  \E f : Spreading(bits, n, f)
<1> DEFINE S == { k \in 0 .. n : \E f : Spreading(bits, k, f) }
           Step(s, i) == IF i \in Shifts THEN s \cup ShiftRight(s, i) ELSE s
<1>1. ASSUME NEW m \in 0 .. n, \A j \in 0 .. m - 1 : j \in S
      PROVE  \E f : Spreading(bits, m, f)
  <2>1. CASE m = 0
    <3> DEFINE f == [i \in 0 .. 0 |-> bits]
    <3>1. Spreading(bits, 0, f)
      BY DEF Spreading
    <3> HIDE DEF f
    <3> QED
      BY <2>1, <3>1
  <2>2. CASE m # 0
    <3>1. m - 1 \in 0 .. n /\ m - 1 \in 0 .. m - 1 /\ m \in Nat \ {0}
      BY <2>2
    <3>2. PICK g : Spreading(bits, m - 1, g)
      BY <1>1, <3>1
    <3> DEFINE f == [i \in 0 .. m |-> IF i = m THEN Step(g[m - 1], m) ELSE g[i]]
    <3>3. \A i \in 0 .. m - 1 : g[i] = IF i = 0 THEN bits ELSE Step(g[i - 1], i)
      BY <3>1, <3>2 DEF Spreading
    <3>4. f[m] = Step(g[m - 1], m) /\ \A i \in 0 .. m - 1 : f[i] = g[i]
      BY <3>1
    <3>5. f = [i \in 0 .. m |-> f[i]]
      OBVIOUS
    <3> HIDE DEF f
    <3>6. ASSUME NEW i \in 0 .. m
          PROVE  f[i] = IF i = 0 THEN bits ELSE Step(f[i - 1], i)
      <4>1. CASE i = m
        BY <3>1, <3>4, <4>1
      <4>2. CASE i # m
        <5>1. i \in 0 .. m - 1 /\ (i # 0 => i - 1 \in 0 .. m - 1)
          BY <3>1, <4>2
        <5> QED
          BY <3>3, <3>4, <5>1
      <4> QED
        BY <4>1, <4>2
    <3>7. Spreading(bits, m, f)
      BY <3>5, <3>6 DEF Spreading
    <3> QED
      BY <3>7
  <2> QED
    BY <2>1, <2>2
<1>2. \A k \in 0 .. n : k \in S
  <2>1. \A k \in 0 .. n : (\A j \in 0 .. k - 1 : j \in S) => k \in S
    BY <1>1
  <2> HIDE DEF S
  <2> QED
    BY <2>1, Induction
<1> QED
  BY <1>2

LEMMA SpreadOut ==
  ASSUME NEW bits, NEW t \in 0 .. Width - 1, t \in bits, bits \subseteq 0 .. t
  PROVE  Spread(bits) = 0 .. t
<1> DEFINE f == CHOOSE f : Spreading(bits, Width, f)
<1>1. Spreading(bits, Width, f)
  BY WidthAssumption, SpreadingExists, Zenon
<1>2. Spread(bits) = f[Width]
  BY DEF Spread, Spreading
<1> HIDE DEF f
<1>3. /\ f[0] = bits
      /\ \A i \in 1 .. Width : f[i - 1] \subseteq f[i]
      /\ \A i \in 1 .. Width : i \in Shifts => f[i] = f[i - 1] \cup ShiftRight(f[i - 1], i)
      /\ \A i \in 1 .. Width : i \notin Shifts => f[i] = f[i - 1]
  <2>1. \A i \in 0 .. Width :
          f[i] = IF i = 0 THEN bits
                 ELSE IF i \in Shifts THEN f[i - 1] \cup ShiftRight(f[i - 1], i)
                 ELSE f[i - 1]
    BY <1>1 DEF Spreading
  <2>2. f[0] = bits
    <3>1. 0 \in 0 .. Width
      BY WidthAssumption
    <3> QED
      BY <2>1, <3>1, Zenon
  <2>3. ASSUME NEW i \in 1 .. Width
        PROVE  f[i] = IF i \in Shifts THEN f[i - 1] \cup ShiftRight(f[i - 1], i) ELSE f[i - 1]
    BY <2>1, WidthAssumption
  <2> QED
    BY <2>2, <2>3
(* How far below the highest one the shifts up to i have spread it.        *)
<1> DEFINE Near(i) ==
             { j \in 0 .. t :
                 \/ j = 0
                 \/ \E m \in 0 .. Width : Power[m] <= i /\ Power[m] < Width /\ j < 2 * Power[m] }
           S == { i \in 0 .. Width : f[i] \subseteq 0 .. t /\ \A j \in Near(i) : t - j \in f[i] }
<1>4. ASSUME NEW i \in 0 .. Width, \A j \in 0 .. i - 1 : j \in S
      PROVE  i \in S
  <2>1. CASE i = 0
    <3>1. f[i] = bits /\ t - 0 = t
      BY <1>3, <2>1
    <3>2. \A m \in 0 .. Width : ~ (Power[m] <= i)
      BY <2>1, Powers
    <3>3. \A j \in Near(i) : t - j \in f[i]
      BY <3>1, <3>2
    <3> QED
      BY <3>1, <3>3
  <2>2. CASE i # 0
    <3>0. i \in 1 .. Width /\ i - 1 \in 0 .. i - 1 /\ i - 1 \in 0 .. Width
      BY <2>2, WidthAssumption
    <3>1. /\ i \in 1 .. Width /\ i - 1 \in 0 .. i - 1 /\ i - 1 \in 0 .. Width
          /\ f[i - 1] \subseteq f[i]
      BY <1>3, <3>0
    <3>2. f[i - 1] \subseteq 0 .. t /\ \A j \in Near(i - 1) : t - j \in f[i - 1]
      BY <1>4, <3>1
    <3>3. f[i] \subseteq 0 .. t
      <4>1. CASE i \in Shifts
        <5>1. ShiftRight(f[i - 1], i) \subseteq 0 .. t
          BY <3>1, <3>2 DEF ShiftRight
        <5> QED
          BY <1>3, <3>1, <3>2, <4>1, <5>1
      <4>2. CASE i \notin Shifts
        BY <1>3, <3>1, <3>2, <4>2
      <4> QED
        BY <4>1, <4>2
    <3>4. ASSUME NEW j \in Near(i)
          PROVE  t - j \in f[i]
      <4>1. CASE j \in Near(i - 1)
        BY <3>1, <3>2, <4>1
      <4>2. CASE j \notin Near(i - 1)
        <5>1. PICK m \in 0 .. Width : Power[m] <= i /\ Power[m] < Width /\ j < 2 * Power[m]
          BY <4>2
        <5>2. Power[m] \in Nat \ {0} /\ j \in 0 .. t
          BY Powers
        <5>3. Power[m] = i
          <6>1. ~ (Power[m] <= i - 1)
            BY <4>2, <5>1, <5>2
          <6>2. i \in Nat
            OBVIOUS
          <6> QED
            BY <5>1, <5>2, <6>1, <6>2
        <5>4. i \in Shifts
          <6>1. i \in 1 .. Width - 1
            BY <3>1, <5>1, <5>3, WidthAssumption
          <6> QED
            BY <5>3, <6>1, Zenon DEF Shifts
        <5>5. ASSUME NEW k \in 0 .. t, k < i
              PROVE  t - k \in f[i - 1]
          <6>1. CASE m = 0
            <7>1. k = 0
              BY <5>3, <5>5, <6>1, Powers
            <7> QED
              BY <3>2, <7>1
          <6>2. CASE m # 0
            <7>1. m - 1 \in 0 .. Width /\ m \in 1 .. Width
              BY <6>2, WidthAssumption
            <7>2. Power[m] = 2 * Power[m - 1] /\ Power[m - 1] \in Nat /\ Power[m - 1] >= m
              BY <7>1, Powers
            <7>3. Power[m - 1] <= i - 1 /\ Power[m - 1] < Width /\ k < 2 * Power[m - 1]
              BY <5>1, <5>3, <5>5, <7>1, <7>2, WidthAssumption
            <7> QED
              BY <3>2, <7>1, <7>3
          <6> QED
            BY <6>1, <6>2
        <5>6. CASE j < i
          BY <3>1, <5>2, <5>5, <5>6
        <5>7. CASE ~ j < i
          <6>1. j - i \in 0 .. t /\ j - i < i /\ t - j \in 0 .. Width - 1 /\ t - (j - i) = (t - j) + i
            BY <3>1, <5>1, <5>2, <5>3, <5>7, WidthAssumption
          <6>2. (t - j) + i \in f[i - 1]
            BY <5>5, <6>1
          <6> QED
            BY <1>3, <3>1, <5>4, <6>1, <6>2 DEF ShiftRight
        <5> QED
          BY <5>6, <5>7
      <4> QED
        BY <4>1, <4>2
    <3> HIDE DEF Near
    <3> QED
      BY <3>3, <3>4
  <2> QED
    BY <2>1, <2>2
<1>5. Width \in S
  <2> HIDE DEF S
  <2> QED
    BY <1>4, WidthAssumption, Induction
<1>6. ASSUME NEW j \in 0 .. t
      PROVE  j \in Near(Width)
  <2>1. CASE j = 0
    BY <2>1
  <2>2. CASE j # 0
    <3>1. j \in 1 .. SizeLimit - 1 /\ j < Width /\ Width \in 0 .. Width
      <4>1. Power[Width] \in Nat /\ Power[Width] >= Width + 1
        BY WidthAssumption, Powers
      <4> QED
        BY <2>2, <4>1, WidthAssumption DEF SizeLimit
    <3>2. PICK m \in 0 .. Width - 1 : Power[m] <= j /\ j < Power[m + 1] /\ Power[m + 1] = 2 * Power[m]
      BY <3>1, Between
    <3>3. m \in 0 .. Width /\ Power[m] \in Nat
      BY Powers, WidthAssumption
    <3>4. Power[m] <= Width /\ Power[m] < Width /\ j < 2 * Power[m]
      BY <3>1, <3>2, <3>3, WidthAssumption
    <3> QED
      BY <3>3, <3>4
  <2> QED
    BY <2>1, <2>2
<1>7. ASSUME NEW b \in 0 .. t
      PROVE  b \in f[Width]
  <2>1. t - b \in 0 .. t /\ t - (t - b) = b
    OBVIOUS
  <2>2. t - b \in Near(Width)
    BY <1>6, <2>1
  <2> QED
    BY <1>5, <2>1, <2>2
<1> QED
  BY <1>2, <1>5, <1>7

-----------------------------------------------------------------------------
(***************************************************************************)
(* A size becomes the least power of two that is not below it; one that is *)
(* larger than half of the numbers becomes zero.                           *)
(***************************************************************************)
LEMMA PowersAreRecognised ==
  ASSUME NEW value \in 1 .. SizeLimit - 1, IsPowerOfTwo(value)
  PROVE  \E t \in 0 .. Width - 1 : value = Power[t]
<1>1. PICK t \in 0 .. Width - 1 : Power[t] <= value /\ value < Power[t + 1]
  BY Between
<1>2. SizeLimit \in Nat /\ value \in Nat /\ value - 1 \in Nat /\ Power[t] \in Nat /\ Power[t + 1] \in Nat
  BY Powers, WidthAssumption DEF SizeLimit
<1>3. CASE value # Power[t]
  <2>1. Power[t] <= value - 1 /\ value - 1 < Power[t + 1]
    BY <1>1, <1>2, <1>3
  <2>2. t \in Bits(value) /\ t \in Bits(value - 1)
    BY <1>1, <1>2, <2>1, TopBit
  <2> QED
    BY <2>2 DEF IsPowerOfTwo
<1> QED
  BY <1>3

LEMMA ZeroHasNoBits == Bits(0) = {}
<1>1. ASSUME NEW b \in 0 .. Width - 1
      PROVE  0 \div Power[b] = 0
  <2>1. Power[b] \in Nat \ {0}
    BY Powers, WidthAssumption
  <2> QED
    BY <2>1, QuotientIs
<1> QED
  BY <1>1 DEF Bits

LEMMA RoundedUp ==
  ASSUME NEW value \in 0 .. SizeLimit - 1
  PROVE  \/ RoundNextPowerOfTwo(value) = 0
         \/ \E t \in 0 .. Width - 1 :
              /\ RoundNextPowerOfTwo(value) = Power[t]
              /\ Power[t] >= value
              /\ Power[t] = 1 \/ Power[t] < 2 * value
<1>1. SizeLimit \in Nat \ {0} /\ value \in Nat /\ 0 \in 0 .. Width - 1
  BY Powers, WidthAssumption DEF SizeLimit
<1>2. CASE value = 0
  BY <1>1, <1>2, Powers DEF RoundNextPowerOfTwo
<1>3. CASE value # 0 /\ IsPowerOfTwo(value)
  <2>1. PICK t \in 0 .. Width - 1 : value = Power[t]
    BY <1>1, <1>3, PowersAreRecognised
  <2>2. RoundNextPowerOfTwo(value) = value
    BY <1>3, Zenon DEF RoundNextPowerOfTwo
  <2> QED
    BY <1>1, <1>3, <2>1, <2>2
<1>4. CASE value # 0 /\ ~ IsPowerOfTwo(value)
  <2>1. value # 1
    BY <1>4, ZeroHasNoBits DEF IsPowerOfTwo
  <2>2. value - 1 \in 1 .. SizeLimit - 1 /\ value - 1 \in Nat
    BY <1>1, <1>4, <2>1
  <2>3. PICK t \in 0 .. Width - 1 :
          /\ Power[t] <= value - 1 /\ value - 1 < Power[t + 1]
          /\ Power[t + 1] = 2 * Power[t]
    BY <2>2, Between
  <2>4. t + 1 \in 1 .. Width /\ t + 1 \in 0 .. Width /\ Power[t] \in Nat /\ Power[t + 1] \in Nat
    BY WidthAssumption, Powers
  <2>5. Spread(Bits(value - 1)) = 0 .. t
    BY <2>2, <2>3, TopBit, SpreadOut
  <2>6. Number(Spread(Bits(value - 1))) + 1 = Power[t + 1]
    BY <2>4, <2>5, NumberOfOnes
  <2>7. RoundNextPowerOfTwo(value) = Power[t + 1] % SizeLimit
    BY <1>4, <2>6, Zenon DEF RoundNextPowerOfTwo, Wrap
  <2>8. CASE t + 1 = Width
    BY <1>1, <2>7, <2>8 DEF SizeLimit
  <2>9. CASE t + 1 # Width
    <3>1. t + 1 \in 0 .. Width - 1 /\ Width \in 0 .. Width
      BY <2>9, <2>4, WidthAssumption
    <3>2. 2 * Power[t + 1] <= SizeLimit
      BY <3>1, PowersGrow DEF SizeLimit
    <3>3. Power[t + 1] % SizeLimit = Power[t + 1]
      BY <1>1, <2>3, <2>4, <3>2
    <3>4. Power[t + 1] >= value /\ Power[t + 1] < 2 * value
      BY <1>1, <2>2, <2>3, <2>4
    <3> QED
      BY <2>7, <3>1, <3>3, <3>4
  <2> QED
    BY <2>8, <2>9
<1> QED
  BY <1>2, <1>3, <1>4

LEMMA SizesBelowLimit ==
  /\ SizeLimit \in Nat \ {0}
  /\ \A n \in 0 .. SizeLimit - 1 : RoundNextPowerOfTwo(n) \in 0 .. SizeLimit - 1
<1>1. SizeLimit \in Nat \ {0}
  BY Powers, WidthAssumption DEF SizeLimit
<1>2. ASSUME NEW t \in 0 .. Width - 1
      PROVE  Power[t] \in 0 .. SizeLimit - 1
  <2>1. t \in 0 .. Width /\ Width \in 0 .. Width
    BY WidthAssumption
  <2>2. 2 * Power[t] <= SizeLimit /\ Power[t] \in Nat \ {0}
    BY <2>1, Powers, PowersGrow DEF SizeLimit
  <2> QED
    BY <1>1, <2>2
<1>3. ASSUME NEW n \in 0 .. SizeLimit - 1
      PROVE  RoundNextPowerOfTwo(n) \in 0 .. SizeLimit - 1
  BY <1>1, <1>2, RoundedUp
<1> QED
  BY <1>1, <1>3

-----------------------------------------------------------------------------
(***************************************************************************)
(* What the inner sinks have received, for a queue that is not a variable. *)
(***************************************************************************)

(* The sink of a level received r, when n entries of d were polled.        *)
GotAll(r, d, n, level) ==
  \E ticket \in [DOMAIN r -> Queue!Tickets] :
    /\ \A i, j \in DOMAIN r : i < j => ticket[i] < ticket[j]
    /\ \A i \in DOMAIN r : r[i] = d[ticket[i]]
    /\ Range(ticket) = { t \in Queue!Tickets : t < n /\ d[t].level >= level }

(* One entry more, which the sink received if its level passes.            *)
LEMMA GotOneMore ==
  ASSUME NEW r \in Seq(Events), NEW d, NEW n \in Queue!Tickets, NEW level,
         GotAll(r, d, n, level), NEW e \in Events,
         NEW d1, \A t \in Queue!Tickets : d1[t] = IF t = n THEN e ELSE d[t],
         NEW r1, r1 = IF e.level >= level THEN Append(r, e) ELSE r
  PROVE  GotAll(r1, d1, n + 1, level)
<1>1. PICK ticket \in [DOMAIN r -> Queue!Tickets] :
        /\ \A i, j \in DOMAIN r : i < j => ticket[i] < ticket[j]
        /\ \A i \in DOMAIN r : r[i] = d[ticket[i]]
        /\ Range(ticket) = { t \in Queue!Tickets : t < n /\ d[t].level >= level }
  BY DEF GotAll
<1>2. Queue!Tickets \subseteq Nat /\ Len(r) \in Nat /\ DOMAIN r = 1 .. Len(r)
  BY CallsAssumption DEF Queue!Tickets
<1>3. \A t \in Range(ticket) : t \in Queue!Tickets /\ t < n /\ d[t].level >= level
  BY <1>1
<1>4. \A i \in DOMAIN r : ticket[i] \in Range(ticket)
  BY DEF Range
<1>5. CASE e.level >= level
  <2> DEFINE next == [i \in 1 .. Len(r) + 1 |-> IF i = Len(r) + 1 THEN n ELSE ticket[i]]
  <2>1. /\ r1 = Append(r, e) /\ DOMAIN r1 = 1 .. Len(r) + 1
        /\ \A i \in DOMAIN r : r1[i] = r[i]
        /\ r1[Len(r) + 1] = e
    <3>1. r1 = Append(r, e)
      BY <1>5
    <3>2. /\ r1 \in Seq(Events) /\ Len(r1) = Len(r) + 1
          /\ \A i \in 1 .. Len(r) : r1[i] = r[i]
          /\ r1[Len(r) + 1] = e
      BY <3>1, AppendProperties, HeadTailAppend
    <3>3. DOMAIN r1 = 1 .. Len(r) + 1
      BY <3>2
    <3>4. \A i \in DOMAIN r : r1[i] = r[i]
      BY <1>2, <3>2
    <3> QED
      BY <3>1, <3>2, <3>3, <3>4
  <2>2. next \in [DOMAIN r1 -> Queue!Tickets]
    BY <1>2, <2>1
  <2>3. ASSUME NEW i \in DOMAIN r1, NEW j \in DOMAIN r1, i < j
        PROVE  next[i] < next[j]
    BY <1>1, <1>2, <1>3, <1>4, <2>1, <2>3
  <2>4. ASSUME NEW i \in DOMAIN r1
        PROVE  r1[i] = d1[next[i]]
    <3>1. CASE i = Len(r) + 1
      BY <1>2, <2>1, <3>1
    <3>2. CASE i # Len(r) + 1
      <4>1. i \in DOMAIN r /\ next[i] = ticket[i]
        BY <1>2, <2>1, <3>2
      <4>2. ticket[i] < n /\ ticket[i] \in Queue!Tickets
        BY <1>3, <1>4, <4>1
      <4>3. PICK t \in Queue!Tickets : t = ticket[i] /\ t < n
        BY <4>2
      <4>4. t # n
        BY <1>2, <4>3
      <4>5. d1[t] = d[t]
        BY <4>4
      <4> QED
        BY <1>1, <2>1, <4>1, <4>3, <4>5
    <3> QED
      BY <3>1, <3>2
  <2>5. Range(next) = { t \in Queue!Tickets : t < n + 1 /\ d1[t].level >= level }
    <3>1. Range(next) = Range(ticket) \cup {n}
      BY <1>2 DEF Range
    <3>2. \A t \in Queue!Tickets :
            t < n + 1 /\ d1[t].level >= level <=> t = n \/ (t < n /\ d[t].level >= level)
      BY <1>2, <1>5
    <3> QED
      BY <1>1, <3>1, <3>2
  <2> HIDE DEF next
  <2> QED
    BY <2>2, <2>3, <2>4, <2>5 DEF GotAll
<1>6. CASE ~ (e.level >= level)
  <2>1. r1 = r
    BY <1>6
  <2>2. \A t \in Queue!Tickets :
          t < n + 1 /\ d1[t].level >= level <=> t < n /\ d[t].level >= level
    BY <1>2, <1>6
  <2>3. \A i \in DOMAIN r : d1[ticket[i]] = d[ticket[i]]
    BY <1>2, <1>3, <1>4
  <2>4. Range(ticket) = { t \in Queue!Tickets : t < n + 1 /\ d1[t].level >= level }
    BY <1>1, <2>2
  <2> QED
    BY <1>1, <2>1, <2>3, <2>4 DEF GotAll
<1> QED
  BY <1>5, <1>6

LEMMA InnerSinksByLevel ==
  InnerSinksGetAll <=>
    (~ raced => \A s \in DOMAIN received :
                  GotAll(received[s], fifo.delivered, fifo.claimed, MinLevel[s]))
BY Zenon DEF InnerSinksGetAll, GotAll

-----------------------------------------------------------------------------
(***************************************************************************)
(* The steps.                                                              *)
(***************************************************************************)
(* strtoll returns the number if it fits, and the largest one otherwise.   *)
LEMMA ParsedNumber ==
  ASSUME NEW number \in Nat
  PROVE  Parsed(number) \in Nat /\ (number <= LargestLong => Parsed(number) = number)
<1>1. Power[Width - 1] \in Nat /\ Power[Width - 1] >= 1
  BY Powers, WidthAssumption
<1>2. LargestLong \in Nat
  BY <1>1 DEF LargestLong
<1> QED
  BY <1>2 DEF Parsed

LEMMA InitIInv == Init => IInv
<1> SUFFICES ASSUME Init
             PROVE  IInv
  OBVIOUS
<1>1. /\ capacity = 0 /\ phase = "new" /\ fifo = Queue!EmptyQueue /\ handler = "none"
      /\ requests = <<>> /\ attached = FALSE /\ worker = "control"
      /\ at = [p \in Producers |-> Idle] /\ caller = "idle" /\ calls = 0 /\ stopped = FALSE
      /\ received = [s \in ToSet(InnerSinks) |-> <<>>] /\ raced = FALSE
  BY DEF Init
<1>2. option \in [number : Sizes, unit : Units] /\ size \in 0 .. SizeLimit - 1
  <2>1. /\ option \in [number : Sizes, unit : Units]
        /\ size = Wrap(Parsed(option.number) * option.unit)
    BY DEF Init
  <2>2. option.number \in Nat /\ option.unit \in Nat
    BY <2>1, SizesAssumption
  <2>3. Parsed(option.number) \in Nat /\ SizeLimit \in Nat \ {0}
    BY <2>2, ParsedNumber, SizesBelowLimit
  <2>4. Parsed(option.number) * option.unit \in Nat
    BY <2>2, <2>3
  <2> QED
    BY <2>1, <2>3, <2>4 DEF Wrap
<1>3. /\ fifo.reserved = 0 /\ fifo.claimed = 0
      /\ \A t \in Queue!Tickets : fifo.published[t] = Nothing /\ fifo.delivered[t] = Nothing
      /\ fifo \in Queue!QueueType
  BY <1>1, CallsAssumption DEF Queue!EmptyQueue, Queue!QueueType
<1>4. requests \in Seq({"add", "remove"}) /\ <<>> \in Seq(Events)
  BY <1>1, EmptySeq
<1>5. TypeOK
  <2>1. capacity \in 0 .. SizeLimit - 1 /\ calls \in 0 .. MaxCalls /\ phase # "active"
    BY <1>1, CallsAssumption, SizesBelowLimit
  <2>2. \A t \in Queue!Tickets : fifo.published[t] \in Events \cup {Nothing}
    BY <1>3
  <2>3. fifo.reserved \in 0 .. MaxTickets /\ fifo.claimed \in 0 .. fifo.reserved
    BY <1>3, CallsAssumption
  <2>4. \A p \in Producers : at[p] = Idle
    BY <1>1
  <2> QED
    BY <1>1, <1>2, <1>4, <2>1, <2>2, <2>3, <2>4 DEF TypeOK
<1>6. NothingBeforeActivation
  BY <1>1 DEF NothingBeforeActivation
<1>7. QueueOK
  BY <1>1, <1>3, <1>4 DEF QueueOK, Queue!IsPublished
<1>8. ASSUME NEW s \in DOMAIN received
      PROVE  GotAll(received[s], fifo.delivered, fifo.claimed, MinLevel[s])
  <2>1. received[s] = <<>> /\ DOMAIN received[s] = {}
    BY <1>1
  <2> DEFINE ticket == [i \in {} |-> 0]
  <2>2. ticket \in [DOMAIN received[s] -> Queue!Tickets] /\ Range(ticket) = {}
    BY <2>1 DEF Range
  <2>3. { t \in Queue!Tickets : t < fifo.claimed /\ fifo.delivered[t].level >= MinLevel[s] } = {}
    BY <1>3, CallsAssumption DEF Queue!Tickets
  <2> HIDE DEF ticket
  <2> QED
    BY <2>1, <2>2, <2>3 DEF GotAll
<1>9. InnerSinksGetAll
  BY <1>8, InnerSinksByLevel
<1> QED
  BY <1>5, <1>6, <1>7, <1>9 DEF IInv

(* What a step keeps that leaves the queue and the inner sinks alone.      *)
LEMMA QueueAlone ==
  ASSUME QueueOK, InnerSinksGetAll, UNCHANGED <<fifo, at, received, raced>>
  PROVE  QueueOK' /\ InnerSinksGetAll'
<1>1. QueueOK'
  BY DEF QueueOK, Queue!QueueType, Queue!Tickets, Queue!IsPublished
<1>2. InnerSinksGetAll'
  BY DEF InnerSinksGetAll, Queue!Tickets
<1> QED
  BY <1>1, <1>2

(* The requests in the queue of the poller.                                *)
LEMMA RequestsKept ==
  ASSUME NEW r \in Seq({"add", "remove"}), NEW e \in {"add", "remove"}
  PROVE  /\ Append(r, e) \in Seq({"add", "remove"})
         /\ Append(r, e) # <<>>
         /\ r # <<>> => Head(Append(r, e)) = Head(r)
         /\ r # <<>> => Tail(r) \in Seq({"add", "remove"})
BY AppendProperties, HeadTailAppend

(* Activating, starting, stopping, and the thread between its polls.       *)
LEMMA ControlStep ==
  ASSUME IInv,
         \/ Activate \/ Start \/ SetHandler \/ AddQueue \/ Stop
         \/ HandleAdd \/ HandleRemove \/ BeginRound \/ EndPoll
  PROVE  IInv'
<1>1. TypeOK /\ NothingBeforeActivation /\ QueueOK /\ InnerSinksGetAll
  BY DEF IInv
<1>2. UNCHANGED <<fifo, at, received, raced>> /\ size' = size /\ option' = option
  <2>1. CASE Activate
    BY <2>1 DEF Activate
  <2>2. CASE Start
    BY <2>2 DEF Start, setting
  <2>3. CASE SetHandler
    BY <2>3 DEF SetHandler, setting
  <2>4. CASE AddQueue
    BY <2>4 DEF AddQueue, setting
  <2>5. CASE Stop
    BY <2>5 DEF Stop, setting
  <2>6. CASE HandleAdd
    BY <2>6 DEF HandleAdd, setting
  <2>7. CASE HandleRemove
    BY <2>7 DEF HandleRemove, setting
  <2>8. CASE BeginRound
    BY <2>8 DEF BeginRound, setting
  <2>9. CASE EndPoll
    BY <2>9 DEF EndPoll, setting
  <2> QED
    BY <2>1, <2>2, <2>3, <2>4, <2>5, <2>6, <2>7, <2>8, <2>9
<1>3. QueueOK' /\ InnerSinksGetAll'
  BY <1>1, <1>2, QueueAlone
<1>4. /\ requests \in Seq({"add", "remove"}) /\ handler \in {"none", "set", "writing"}
      /\ handler = "writing" <=> caller = "setting"
      /\ worker # "control" => attached
      /\ worker = "last_poll" => requests # <<>> /\ Head(requests) = "remove"
      /\ stopped \in BOOLEAN /\ caller \in {"idle", "setting", "adding"} /\ calls \in 0 .. MaxCalls
      /\ capacity \in 0 .. SizeLimit - 1 /\ size \in 0 .. SizeLimit - 1
      /\ phase = "active" => capacity > 0 /\ handler # "none"
      /\ phase # "active" => requests = <<>> /\ ~ attached /\ caller = "idle"
  BY <1>1 DEF TypeOK, NothingBeforeActivation
<1>5. /\ requests' \in Seq({"add", "remove"}) /\ handler' \in {"none", "set", "writing"}
      /\ handler' = "writing" <=> caller' = "setting"
      /\ worker' # "control" => attached'
      /\ worker' = "last_poll" => requests' # <<>> /\ Head(requests') = "remove"
      /\ stopped' \in BOOLEAN /\ caller' \in {"idle", "setting", "adding"}
      /\ calls' \in 0 .. MaxCalls
      /\ capacity' \in 0 .. SizeLimit - 1
      /\ phase' = "active" => capacity' > 0 /\ handler' # "none"
      /\ phase' # "active" => requests' = <<>> /\ ~ attached' /\ caller' = "idle"
  <2>1. CASE Activate
    <3>1. /\ phase = "new" /\ capacity' = RoundNextPowerOfTwo(size)
          /\ IF capacity' < 1
             THEN phase' = "rejected" /\ handler' = handler /\ requests' = requests
             ELSE /\ phase' = "active" /\ handler' = "set"
                  /\ requests' = Append(requests, "add")
          /\ attached' = attached /\ worker' = worker /\ caller' = caller /\ calls' = calls
          /\ stopped' = stopped
      BY <2>1 DEF Activate, control
    <3>2. capacity' \in 0 .. SizeLimit - 1
      BY <1>4, <3>1, SizesBelowLimit
    <3>3. worker = "control"
      BY <1>4, <3>1
    <3>4. ~ capacity' < 1 => capacity' > 0
      BY <3>2
    <3>5. CASE capacity' < 1
      BY <1>4, <3>1, <3>2, <3>3, <3>5
    <3>6. CASE ~ capacity' < 1
      <4>1. requests' \in Seq({"add", "remove"})
        BY <1>4, <3>1, <3>6, RequestsKept
      <4>2. phase' = "active" /\ handler' = "set" /\ caller' = "idle"
        BY <1>4, <3>1, <3>6
      <4> QED
        BY <1>4, <3>1, <3>2, <3>3, <3>4, <3>6, <4>1, <4>2
    <3> QED
      BY <3>5, <3>6
  <2>2. CASE Start
    <3>1. /\ phase = "active" /\ calls < MaxCalls /\ calls' = calls + 1 /\ caller' = "setting"
          /\ handler' = "writing" /\ stopped' = FALSE
          /\ capacity' = capacity /\ phase' = phase /\ requests' = requests
          /\ attached' = attached /\ worker' = worker
      BY <2>2 DEF Start, MayCall, setting, thread
    <3>2. calls' \in 0 .. MaxCalls
      BY <1>4, <3>1, CallsAssumption
    <3> QED
      BY <1>4, <3>1, <3>2
  <2>3. CASE SetHandler
    <3>1. /\ caller = "setting" /\ caller' = "adding" /\ handler' = "set"
          /\ capacity' = capacity /\ phase' = phase /\ requests' = requests
          /\ attached' = attached /\ worker' = worker /\ calls' = calls /\ stopped' = stopped
      BY <2>3 DEF SetHandler, setting, thread
    <3> QED
      BY <1>4, <3>1
  <2>4. CASE AddQueue
    <3>1. /\ caller = "adding" /\ caller' = "idle" /\ requests' = Append(requests, "add")
          /\ capacity' = capacity /\ phase' = phase /\ handler' = handler
          /\ attached' = attached /\ worker' = worker /\ calls' = calls /\ stopped' = stopped
      BY <2>4 DEF AddQueue, setting
    <3> QED
      BY <1>4, <3>1, RequestsKept
  <2>5. CASE Stop
    <3>1. /\ phase = "active" /\ calls < MaxCalls /\ calls' = calls + 1
          /\ stopped' = TRUE /\ requests' = Append(requests, "remove")
          /\ capacity' = capacity /\ phase' = phase /\ handler' = handler /\ caller' = caller
          /\ attached' = attached /\ worker' = worker
      BY <2>5 DEF Stop, MayCall, setting
    <3> QED
      BY <1>4, <3>1, CallsAssumption, RequestsKept
  <2>6. CASE HandleAdd
    <3>1. /\ worker = "control" /\ requests # <<>> /\ attached' = TRUE
          /\ requests' = Tail(requests)
          /\ capacity' = capacity /\ phase' = phase /\ handler' = handler /\ caller' = caller
          /\ calls' = calls /\ stopped' = stopped /\ worker' = worker
      BY <2>6 DEF HandleAdd, setting, control
    <3> QED
      BY <1>4, <3>1, RequestsKept
  <2>7. CASE HandleRemove
    <3>1. /\ worker = "control" /\ requests # <<>> /\ Head(requests) = "remove"
          /\ \/ attached /\ worker' = "last_poll" /\ requests' = requests
             \/ requests' = Tail(requests) /\ worker' = worker
          /\ attached' = attached
          /\ capacity' = capacity /\ phase' = phase /\ handler' = handler /\ caller' = caller
          /\ calls' = calls /\ stopped' = stopped
      BY <2>7 DEF HandleRemove, setting, control
    <3> QED
      BY <1>4, <3>1, RequestsKept
  <2>8. CASE BeginRound
    <3>1. /\ attached /\ worker' = "poll" /\ attached' = attached /\ requests' = requests
          /\ capacity' = capacity /\ phase' = phase /\ handler' = handler /\ caller' = caller
          /\ calls' = calls /\ stopped' = stopped
      BY <2>8 DEF BeginRound, setting, control
    <3> QED
      BY <1>4, <3>1
  <2>9. CASE EndPoll
    <3>1. /\ worker' = "control" /\ worker # "control"
          /\ \/ worker = "last_poll" /\ attached' = FALSE /\ requests' = Tail(requests)
             \/ attached' = attached /\ requests' = requests
          /\ capacity' = capacity /\ phase' = phase /\ handler' = handler /\ caller' = caller
          /\ calls' = calls /\ stopped' = stopped
      BY <2>9 DEF EndPoll, setting, control
    <3> QED
      BY <1>4, <3>1, RequestsKept
  <2> QED
    BY <2>1, <2>2, <2>3, <2>4, <2>5, <2>6, <2>7, <2>8, <2>9
<1>6. TypeOK'
  BY <1>1, <1>2, <1>5 DEF TypeOK, Queue!Tickets
<1>7. NothingBeforeActivation'
  BY <1>5 DEF NothingBeforeActivation
<1> QED
  BY <1>3, <1>6, <1>7 DEF IInv

(* A step of the queue, which leaves the rest alone.                       *)
LEMMA RestAlone ==
  ASSUME IInv, UNCHANGED <<setting, handler, thread, control>>,
         fifo'.reserved \in 0 .. MaxTickets, fifo'.claimed \in 0 .. fifo'.reserved,
         QueueOK', \A p \in Producers : at'[p] # Idle => at'[p].event.logger = p
  PROVE  TypeOK' /\ NothingBeforeActivation'
<1>1. TypeOK /\ NothingBeforeActivation
  BY DEF IInv
<1>2. /\ option' = option /\ size' = size /\ capacity' = capacity /\ phase' = phase /\ handler' = handler
      /\ requests' = requests /\ attached' = attached /\ worker' = worker
      /\ caller' = caller /\ calls' = calls /\ stopped' = stopped
  BY DEF setting, thread, control
<1>3. \A t \in Queue!Tickets : fifo'.published[t] \in Events \cup {Nothing}
  BY DEF QueueOK, Queue!QueueType, Queue!Tickets
<1> QED
  BY <1>1, <1>2, <1>3 DEF TypeOK, NothingBeforeActivation, Queue!Tickets

(* The record of a queue, after a push begins, ends, and after a pop.      *)
QueueIs(f, reserved, published, claimed, delivered) ==
  /\ f \in Queue!QueueType
  /\ f.reserved = reserved /\ f.published = published
  /\ f.claimed = claimed /\ f.delivered = delivered

LEMMA QueueOperations ==
  ASSUME NEW f \in Queue!QueueType
  PROVE  /\ Queue!MayReserve(f) =>
              QueueIs(Queue!AfterReserve(f), f.reserved + 1, f.published, f.claimed, f.delivered)
         /\ \A t \in Queue!Tickets, e \in Events :
              QueueIs(Queue!AfterPublish(f, t, e), f.reserved, [f.published EXCEPT ![t] = e],
                      f.claimed, f.delivered)
         /\ \A t \in Queue!Tickets :
              Queue!MayClaim(f) =>
                QueueIs(Queue!AfterDeliver(Queue!AfterClaim(f), t), f.reserved, f.published,
                        f.claimed + 1, [f.delivered EXCEPT ![t] = f.published[t]])
<1>1. /\ f.reserved \in 0 .. MaxTickets /\ f.claimed \in 0 .. MaxTickets
      /\ f.published \in [Queue!Tickets -> Events \cup {Nothing}]
      /\ f.delivered \in [Queue!Tickets -> Events \cup {Nothing}]
  BY DEF Queue!QueueType
<1>2. ASSUME Queue!MayReserve(f)
      PROVE  QueueIs(Queue!AfterReserve(f), f.reserved + 1, f.published, f.claimed, f.delivered)
  <2>1. f.reserved + 1 \in 0 .. MaxTickets
    BY <1>1, <1>2, CallsAssumption DEF Queue!MayReserve
  <2> QED
    BY <2>1 DEF QueueIs, Queue!AfterReserve, Queue!QueueType
<1>3. ASSUME NEW t \in Queue!Tickets, NEW e \in Events
      PROVE  QueueIs(Queue!AfterPublish(f, t, e), f.reserved, [f.published EXCEPT ![t] = e],
                     f.claimed, f.delivered)
  <2>1. [f.published EXCEPT ![t] = e] \in [Queue!Tickets -> Events \cup {Nothing}]
    BY <1>1
  <2>2. Queue!AfterPublish(f, t, e) = [f EXCEPT !.published = [f.published EXCEPT ![t] = e]]
    BY DEF Queue!AfterPublish
  <2> QED
    BY <2>1, <2>2 DEF QueueIs, Queue!QueueType
<1>4. ASSUME NEW t \in Queue!Tickets, Queue!MayClaim(f)
      PROVE  QueueIs(Queue!AfterDeliver(Queue!AfterClaim(f), t), f.reserved, f.published,
                     f.claimed + 1, [f.delivered EXCEPT ![t] = f.published[t]])
  <2> DEFINE g == [f EXCEPT !.claimed = f.claimed + 1]
  <2>1. f.claimed + 1 \in 0 .. MaxTickets
    BY <1>1, <1>4, CallsAssumption DEF Queue!MayClaim
  <2>2. /\ g \in Queue!QueueType /\ g.reserved = f.reserved /\ g.published = f.published
        /\ g.claimed = f.claimed + 1 /\ g.delivered = f.delivered
    BY <2>1 DEF Queue!QueueType
  <2>3. Queue!AfterClaim(f) = g
    BY DEF Queue!AfterClaim
  <2> HIDE DEF g
  <2>4. Queue!AfterDeliver(g, t) = [g EXCEPT !.delivered = [g.delivered EXCEPT ![t] = g.published[t]]]
    BY DEF Queue!AfterDeliver
  <2>5. [g.delivered EXCEPT ![t] = g.published[t]] \in [Queue!Tickets -> Events \cup {Nothing}]
    BY <1>1, <2>2
  <2>6. QueueIs(Queue!AfterDeliver(g, t), g.reserved, g.published, g.claimed,
                [g.delivered EXCEPT ![t] = g.published[t]])
    BY <2>2, <2>4, <2>5 DEF QueueIs, Queue!QueueType
  <2> QED
    BY <2>2, <2>3, <2>6
<1> QED
  BY <1>2, <1>3, <1>4, Zenon

(* A logger pushes: what was polled stays as it was.                       *)
LEMMA PushStep ==
  ASSUME IInv, NEW p \in Producers, NEW reserved \in 0 .. MaxTickets, NEW published,
         fifo.claimed <= reserved,
         QueueIs(fifo', reserved, published, fifo.claimed, fifo.delivered),
         \A t \in Queue!Tickets : published[t] # Nothing => t < reserved,
         NEW now \in {Idle} \cup [ticket : Queue!Tickets, event : Events],
         now # Idle => now.event.logger = p, at' = [at EXCEPT ![p] = now],
         UNCHANGED <<setting, handler, thread, control, received, raced>>
  PROVE  IInv'
<1>1. TypeOK /\ QueueOK /\ InnerSinksGetAll
  BY DEF IInv
<1>2. /\ fifo' \in Queue!QueueType /\ fifo'.reserved = reserved /\ fifo'.published = published
      /\ fifo'.claimed = fifo.claimed /\ fifo'.delivered = fifo.delivered
  BY DEF QueueIs
<1>3. /\ at \in [Producers -> {Idle} \cup [ticket : Queue!Tickets, event : Events]]
      /\ \A q \in Producers : at[q] # Idle => at[q].event.logger = q
      /\ received \in [ToSet(InnerSinks) -> Seq(Events)] /\ fifo.claimed \in Nat
  BY <1>1, CallsAssumption DEF TypeOK, QueueOK
<1>4. /\ at' \in [Producers -> {Idle} \cup [ticket : Queue!Tickets, event : Events]]
      /\ \A q \in Producers : at'[q] # Idle => at'[q].event.logger = q
  BY <1>3
<1>5. QueueOK'
  BY <1>2, <1>3, <1>4 DEF QueueOK, Queue!IsPublished, Queue!QueueType, Queue!Tickets
<1>6. fifo'.reserved \in 0 .. MaxTickets /\ fifo'.claimed \in 0 .. fifo'.reserved
  BY <1>2, <1>3, CallsAssumption
<1>7. TypeOK' /\ NothingBeforeActivation'
  BY <1>4, <1>5, <1>6, RestAlone
<1>8. InnerSinksGetAll'
  BY <1>1, <1>2 DEF InnerSinksGetAll, Queue!Tickets
<1> QED
  BY <1>5, <1>7, <1>8 DEF IInv

LEMMA SinkSteps ==
  ASSUME IInv, NEW p \in Producers,
         FinishSink(p) \/ \E event \in Events : event.logger = p /\ BeginSink(p, event)
  PROVE  IInv'
<1>1. /\ fifo \in Queue!QueueType /\ fifo.reserved \in 0 .. MaxTickets
      /\ fifo.claimed \in 0 .. fifo.reserved
      /\ \A t \in Queue!Tickets : fifo.published[t] # Nothing => t < fifo.reserved
      /\ at \in [Producers -> {Idle} \cup [ticket : Queue!Tickets, event : Events]]
      /\ fifo.published \in [Queue!Tickets -> Events \cup {Nothing}]
  BY DEF IInv, TypeOK, QueueOK, Queue!IsPublished, Queue!QueueType
<1>2. ASSUME NEW event \in Events, event.logger = p, BeginSink(p, event)
      PROVE  IInv'
  <2>1. /\ Queue!MayReserve(fifo) /\ fifo' = Queue!AfterReserve(fifo)
        /\ at' = [at EXCEPT ![p] = [ticket |-> fifo.reserved, event |-> event]]
        /\ UNCHANGED <<setting, handler, thread, control, received, raced>>
    BY <1>2 DEF BeginSink
  <2>2. QueueIs(fifo', fifo.reserved + 1, fifo.published, fifo.claimed, fifo.delivered)
    BY <1>1, <2>1, QueueOperations
  <2>3. fifo.reserved \in Queue!Tickets /\ fifo.reserved + 1 \in 0 .. MaxTickets
    BY <1>1, <2>1, CallsAssumption DEF Queue!Tickets, Queue!MayReserve
  <2>4. /\ fifo.claimed <= fifo.reserved + 1
        /\ \A t \in Queue!Tickets : fifo.published[t] # Nothing => t < fifo.reserved + 1
    BY <1>1, CallsAssumption DEF Queue!Tickets
  <2>5. PICK now : now = [ticket |-> fifo.reserved, event |-> event]
    OBVIOUS
  <2>6. now \in [ticket : Queue!Tickets, event : Events] /\ now.event.logger = p
    BY <1>2, <2>3, <2>5
  <2>7. PICK reserved, published : reserved = fifo.reserved + 1 /\ published = fifo.published
    OBVIOUS
  <2>8. /\ QueueIs(fifo', reserved, published, fifo.claimed, fifo.delivered)
        /\ reserved \in 0 .. MaxTickets /\ fifo.claimed <= reserved
        /\ \A t \in Queue!Tickets : published[t] # Nothing => t < reserved
        /\ at' = [at EXCEPT ![p] = now]
    BY <2>1, <2>2, <2>3, <2>4, <2>5, <2>7
  <2> QED
    BY <2>1, <2>6, <2>8, PushStep
<1>3. CASE FinishSink(p)
  <2>1. PICK t, e : t = at[p].ticket /\ e = at[p].event
    OBVIOUS
  <2>2. /\ at[p] # Idle /\ t < fifo.reserved /\ fifo' = Queue!AfterPublish(fifo, t, e)
        /\ at' = [at EXCEPT ![p] = Idle]
        /\ UNCHANGED <<setting, handler, thread, control, received, raced>>
    BY <1>3, <2>1 DEF FinishSink, Queue!MayPublish
  <2>3. t \in Queue!Tickets /\ e \in Events
    BY <1>1, <2>1, <2>2
  <2>4. QueueIs(fifo', fifo.reserved, [fifo.published EXCEPT ![t] = e], fifo.claimed, fifo.delivered)
    BY <1>1, <2>2, <2>3, QueueOperations
  <2>5. \A u \in Queue!Tickets : [fifo.published EXCEPT ![t] = e][u] # Nothing => u < fifo.reserved
    BY <1>1, <2>2, <2>3
  <2>6. PICK reserved, published :
          reserved = fifo.reserved /\ published = [fifo.published EXCEPT ![t] = e]
    OBVIOUS
  <2>7. /\ QueueIs(fifo', reserved, published, fifo.claimed, fifo.delivered)
        /\ reserved \in 0 .. MaxTickets /\ fifo.claimed <= reserved
        /\ \A u \in Queue!Tickets : published[u] # Nothing => u < reserved
    BY <1>1, <2>4, <2>5, <2>6
  <2> QED
    BY <2>2, <2>7, PushStep
<1> QED
  BY <1>2, <1>3

(* The thread polls an entry: the inner sinks get it, unless the handler   *)
(* is being replaced.                                                      *)
LEMMA PollStep ==
  ASSUME IInv, PollEntry
  PROVE  IInv'
<1>1. TypeOK /\ NothingBeforeActivation /\ QueueOK /\ InnerSinksGetAll
  BY DEF IInv
<1>2. PICK n, e : n = fifo.claimed /\ e = fifo.published[n]
  OBVIOUS
<1>3. /\ worker \in {"poll", "last_poll"}
      /\ Queue!MayClaim(fifo) /\ e # Nothing
      /\ fifo' = Queue!AfterDeliver(Queue!AfterClaim(fifo), n)
      /\ (handler # "none" /\ Deliver(e)) \/ (handler # "set" /\ received' = received)
      /\ raced' = (raced \/ handler = "writing")
      /\ UNCHANGED <<setting, handler, thread, at, control>>
  <2>1. /\ worker \in {"poll", "last_poll"}
        /\ Queue!MayClaim(fifo) /\ Queue!IsPublished(fifo, fifo.claimed)
        /\ fifo' = Queue!AfterDeliver(Queue!AfterClaim(fifo), fifo.claimed)
        /\ \/ handler # "none" /\ Deliver(fifo.published[fifo.claimed])
           \/ handler # "set" /\ UNCHANGED received
        /\ raced' = (raced \/ handler = "writing")
        /\ UNCHANGED <<setting, handler, thread, at, control>>
    BY Zenon DEF PollEntry, MayPoll
  <2> QED
    BY <1>2, <2>1 DEF Queue!IsPublished
<1>4. /\ fifo \in Queue!QueueType /\ fifo.reserved \in 0 .. MaxTickets
      /\ fifo.claimed \in 0 .. fifo.reserved
      /\ \A t \in Queue!Tickets : fifo.published[t] # Nothing => t < fifo.reserved
      /\ received \in [ToSet(InnerSinks) -> Seq(Events)]
      /\ fifo.published \in [Queue!Tickets -> Events \cup {Nothing}]
      /\ fifo.delivered \in [Queue!Tickets -> Events \cup {Nothing}]
      /\ at \in [Producers -> {Idle} \cup [ticket : Queue!Tickets, event : Events]]
      /\ \A p \in Producers : at[p] # Idle => at[p].event.logger = p
  BY <1>1 DEF TypeOK, QueueOK, Queue!IsPublished, Queue!QueueType
<1>5. n \in Queue!Tickets /\ e \in Events /\ n < fifo.reserved
  <2>1. n \in Queue!Tickets
    BY <1>2, <1>3, <1>4, CallsAssumption DEF Queue!Tickets, Queue!MayClaim
  <2> QED
    BY <1>2, <1>3, <1>4, <2>1
<1>6. QueueIs(fifo', fifo.reserved, fifo.published, n + 1, [fifo.delivered EXCEPT ![n] = e])
  <2>1. QueueIs(Queue!AfterDeliver(Queue!AfterClaim(fifo), n), fifo.reserved, fifo.published,
                fifo.claimed + 1, [fifo.delivered EXCEPT ![n] = fifo.published[n]])
    BY <1>3, <1>4, <1>5, QueueOperations
  <2> QED
    BY <1>2, <1>3, <2>1
<1>7. /\ fifo' \in Queue!QueueType /\ fifo'.reserved = fifo.reserved
      /\ fifo'.published = fifo.published /\ fifo'.claimed = n + 1
      /\ fifo'.delivered = [fifo.delivered EXCEPT ![n] = e]
  BY <1>6 DEF QueueIs
<1>8. handler # "none" /\ (handler = "set" \/ handler = "writing")
  BY <1>1, <1>3 DEF TypeOK, NothingBeforeActivation
<1>9. Deliver(e) => \A s \in DOMAIN received :
                      received'[s] = IF e.level >= MinLevel[s] THEN Append(received[s], e)
                                     ELSE received[s]
  BY DEF Deliver, Passes
<1>10. received' \in [ToSet(InnerSinks) -> Seq(Events)]
  <2>1. CASE Deliver(e)
    <3>1. \A s \in ToSet(InnerSinks) : Append(received[s], e) \in Seq(Events)
      BY <1>4, <1>5, AppendProperties, HeadTailAppend
    <3>2. received' = [s \in ToSet(InnerSinks) |-> IF Passes(s, e) THEN Append(received[s], e)
                                                   ELSE received[s]]
      BY <1>4, <2>1 DEF Deliver
    <3> QED
      BY <1>4, <3>1, <3>2
  <2>2. CASE received' = received
    BY <1>4, <2>2
  <2> QED
    BY <1>3, <2>1, <2>2
<1>11. QueueOK'
  BY <1>3, <1>4, <1>7, <1>10 DEF QueueOK, Queue!IsPublished, Queue!QueueType, Queue!Tickets
<1>12. fifo'.reserved \in 0 .. MaxTickets /\ fifo'.claimed \in 0 .. fifo'.reserved
  BY <1>2, <1>4, <1>5, <1>7, CallsAssumption
<1>13. TypeOK' /\ NothingBeforeActivation'
  BY <1>3, <1>4, <1>11, <1>12, RestAlone
<1>14. InnerSinksGetAll'
  <2>1. CASE raced'
    BY <2>1 DEF InnerSinksGetAll
  <2>2. CASE ~ raced'
    <3>1. ~ raced /\ handler = "set" /\ Deliver(e)
      BY <1>3, <1>8, <2>2
    <3>2. PICK d : d = fifo'.delivered
      OBVIOUS
    <3>3. \A t \in Queue!Tickets : d[t] = IF t = n THEN e ELSE fifo.delivered[t]
      BY <1>4, <1>7, <3>2
    <3>4. ASSUME NEW s \in DOMAIN received
          PROVE  GotAll(received'[s], d, n + 1, MinLevel[s])
      <4>1. GotAll(received[s], fifo.delivered, n, MinLevel[s])
        BY <1>1, <1>2, <3>1, InnerSinksByLevel
      <4>2. received[s] \in Seq(Events)
        BY <1>4
      <4>3. PICK r : r = received'[s]
        OBVIOUS
      <4>4. r = IF e.level >= MinLevel[s] THEN Append(received[s], e) ELSE received[s]
        BY <1>9, <3>1, <4>3
      <4>5. GotAll(r, d, n + 1, MinLevel[s])
        BY <1>5, <3>3, <4>1, <4>2, <4>4, GotOneMore
      <4> QED
        BY <4>3, <4>5
    <3>5. DOMAIN received' = DOMAIN received
      BY <1>4, <1>10
    <3>6. \A s \in DOMAIN received' : GotAll(received'[s], fifo'.delivered, fifo'.claimed, MinLevel[s])
      BY <1>7, <3>2, <3>4, <3>5
    <3> QED
      BY <3>6 DEF InnerSinksGetAll, GotAll, Queue!Tickets
  <2> QED
    BY <2>1, <2>2
<1> QED
  BY <1>11, <1>13, <1>14 DEF IInv

LEMMA StepIInv == IInv /\ [Next]_vars => IInv'
<1> SUFFICES ASSUME IInv, [Next]_vars
             PROVE  IInv'
  OBVIOUS
<1>1. CASE Activate \/ Start \/ Stop \/ Continue
  BY <1>1, ControlStep DEF Continue
<1>2. CASE Work
  BY <1>2, ControlStep, PollStep DEF Work
<1>3. ASSUME NEW p \in Producers,
             FinishSink(p) \/ \E event \in Events : event.logger = p /\ BeginSink(p, event)
      PROVE  IInv'
  BY <1>3, SinkSteps
<1>4. CASE UNCHANGED vars
  <2>1. UNCHANGED <<fifo, at, received, raced>> /\ UNCHANGED <<setting, handler, thread, control>>
    BY <1>4 DEF vars
  <2>2. QueueOK' /\ InnerSinksGetAll'
    BY <2>1, QueueAlone DEF IInv
  <2>3. fifo.reserved \in 0 .. MaxTickets /\ fifo.claimed \in 0 .. fifo.reserved
        /\ \A p \in Producers : at[p] # Idle => at[p].event.logger = p
    BY DEF IInv, TypeOK
  <2>4. TypeOK' /\ NothingBeforeActivation'
    BY <2>1, <2>2, <2>3, RestAlone
  <2> QED
    BY <2>2, <2>4 DEF IInv
<1> QED
  BY <1>1, <1>2, <1>3, <1>4 DEF Next

-----------------------------------------------------------------------------
(***************************************************************************)
(* The theorems.                                                           *)
(***************************************************************************)

(* The loggers, the calls of start and stop, and the polling thread keep   *)
(* the invariant.                                                          *)
THEOREM Inductive == Spec => []IInv
BY InitIInv, StepIInv, PTL DEF Spec

(* Type correctness: among it that an active sink always has a handler,    *)
(* so that no entry that the thread polls is dropped for want of one, and  *)
(* that the thread polls the queue only while the poller has it.           *)
THEOREM Types == Spec => []TypeOK
<1>1. IInv => TypeOK
  BY DEF IInv
<1> QED
  BY <1>1, Inductive, PTL

(* AsyncSink::handle gives each inner sink every event of its level that   *)
(* was polled once, in the order of the queue, however start, stop and the *)
(* loggers interleave with the thread, unless start replaced the handler   *)
(* of the queue while the thread called it.                                *)
THEOREM InnerSinksComplete == Spec => []InnerSinksGetAll
<1>1. IInv => InnerSinksGetAll
  BY DEF IInv
<1> QED
  BY <1>1, Inductive, PTL

(* The size is what parseSize made of the option, and the ring has room    *)
(* for it.                                                                 *)
RoomForParsed ==
  /\ size = Wrap(Parsed(option.number) * option.unit)
  /\ phase = "active" => capacity >= size /\ (capacity = 1 \/ capacity < 2 * size)

LEMMA RoomStep ==
  ASSUME IInv, RoomForParsed, [Next]_vars
  PROVE  RoomForParsed'
<1>1. CASE Activate
  <2>1. /\ capacity' = RoundNextPowerOfTwo(size) /\ size' = size /\ option' = option
        /\ phase' = "active" => ~ capacity' < 1
    BY <1>1, Zenon DEF Activate
  <2>2. size \in 0 .. SizeLimit - 1 /\ SizeLimit \in Nat
    BY SizesBelowLimit DEF IInv, TypeOK
  <2>3. size' = Wrap(Parsed(option'.number) * option'.unit)
    BY <2>1 DEF RoomForParsed
  <2>4. phase' = "active" =>
          capacity' >= size' /\ (capacity' = 1 \/ capacity' < 2 * size')
    <3>1. CASE RoundNextPowerOfTwo(size) = 0
      BY <2>1, <3>1
    <3>2. CASE RoundNextPowerOfTwo(size) # 0
      BY <2>1, <2>2, <3>2, RoundedUp
    <3> QED
      BY <3>1, <3>2
  <2> QED
    BY <2>3, <2>4 DEF RoomForParsed
<1>2. CASE ~ Activate
  <2>1. UNCHANGED <<option, size, capacity, phase>>
    <3>1. CASE Work
      BY <3>1 DEF Work, HandleAdd, HandleRemove, BeginRound, PollEntry, EndPoll, setting
    <3>2. CASE Start \/ Stop \/ Continue
      BY <3>2 DEF Start, Stop, Continue, SetHandler, AddQueue, setting
    <3>3. ASSUME NEW p \in Producers,
                 FinishSink(p) \/ \E event \in Events : event.logger = p /\ BeginSink(p, event)
          PROVE  UNCHANGED <<option, size, capacity, phase>>
      BY <3>3 DEF FinishSink, BeginSink, setting
    <3>4. CASE UNCHANGED vars
      BY <3>4 DEF vars, setting
    <3> QED
      BY <1>2, <3>1, <3>2, <3>3, <3>4 DEF Next
  <2> QED
    BY <2>1 DEF RoomForParsed
<1> QED
  BY <1>1, <1>2

(* parseSize leaves an option alone that fits.                             *)
LEMMA FittingSize ==
  ASSUME TypeOK, RoomForParsed, Fits
  PROVE  size = Wanted
<1>1. option.number \in Nat /\ option.unit \in Nat
  BY SizesAssumption DEF TypeOK
<1>2. Parsed(option.number) = option.number
  BY <1>1, ParsedNumber DEF Fits
<1>3. Wanted \in Nat /\ SizeLimit \in Nat
  BY <1>1, SizesBelowLimit DEF Wanted
<1>4. Wanted \in 0 .. SizeLimit - 1
  BY <1>3 DEF Fits
<1>5. size = Wrap(Wanted)
  BY <1>2 DEF RoomForParsed, Wanted
<1> HIDE DEF Wanted
<1> QED
  BY <1>3, <1>4, <1>5 DEF Wrap

(* parseSize and roundNextPowerOfTwo, for a size_t of any width: a sink    *)
(* that activates has a queue with room for what the option says, and for  *)
(* less than twice as much, if the option fits into a size_t.  A size that *)
(* no power of two covers makes a queue of zero entries, which the ring    *)
(* rejects.                                                                *)
THEOREM RoomForSize == Spec => []CapacityCoversSize
<1>1. Init => RoomForParsed
  BY DEF Init, RoomForParsed
<1>2. IInv /\ RoomForParsed /\ [Next]_vars => RoomForParsed'
  BY RoomStep
<1>3. IInv /\ RoomForParsed => CapacityCoversSize
  BY FittingSize DEF IInv, RoomForParsed, CapacityCoversSize
<1> QED
  BY <1>1, <1>2, <1>3, Inductive, PTL DEF Spec

=============================================================================
