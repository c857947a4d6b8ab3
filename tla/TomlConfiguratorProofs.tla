------------------------ MODULE TomlConfiguratorProofs ------------------------
(***************************************************************************)
(* Proofs about TomlConfigurator: the inductive invariant, and the         *)
(* theorems that follow from it, for all configurations and any number of  *)
(* clients and loggers.                                                    *)
(***************************************************************************)
EXTENDS TomlConfigurator, SequenceTheorems, FiniteSetTheorems, WellFoundedInduction, TLAPS

-----------------------------------------------------------------------------
(***************************************************************************)
(* Why the properties hold: the invariant that the steps keep.             *)
(***************************************************************************)

(* A factory makes loggers that have a sink, or answers a logger that has  *)
(* one and that no registration updates.                                   *)
SoundFactory(factory) ==
  \/ factory.kind = "new" /\ factory.sink # Noop
  \/ /\ factory.kind = "same"
     /\ factory.logger \in DOMAIN objects \ tracked
     /\ objects[factory.logger].sink # Noop

FactoriesSound ==
  /\ \A n \in DOMAIN factories : SoundFactory(factories[n])
  /\ defaultFactory = Instantiator \/ SoundFactory(defaultFactory)
  /\ job # NoJob => SoundFactory(job.factory)

(* A registration updates a tracked logger after the other, the sink of    *)
(* each before its level, and nothing else.                                *)
UpdatesInOrder ==
  job # NoJob =>
    /\ job.half # 0 => /\ job.half \in job.todo
                       /\ objects[job.half].sink = Template(job.factory).sink
    /\ ~ job.default => job.todo = {}

(* The tracked loggers follow the default that is being registered, as far *)
(* as it has got, and otherwise the last one.                              *)
Following ==
  reloads = 0 =>
    IF job # NoJob /\ job.default
    THEN \A id \in tracked \ job.todo : objects[id] = Template(job.factory)
    ELSE defaultFactory # Instantiator =>
           \A id \in tracked : objects[id] = Template(defaultFactory)

(* A logger without a sink is off, and nobody is logging to it.            *)
SilentWithoutSink ==
  /\ \A id \in DOMAIN objects :
       objects[id].sink = Noop => id \in tracked /\ (reloads = 0 => objects[id].level = Off)
  /\ \A c \in Clients :
       at[c] = "logging" =>
         held[c] # 0 /\ (reloads = 0 => objects[held[c]].sink # Noop)

(* What prepareLoggers accepts has sinks everywhere.                       *)
ConfigComplete ==
  phase \in {"sinks", "loggers"} =>
    \A i \in DOMAIN config.loggers : config.loggers[i].sinks # <<>>

IInv ==
  /\ TypeOK
  /\ FactoriesSound
  /\ UpdatesInOrder
  /\ Following
  /\ SilentWithoutSink
  /\ ConfigComplete
  /\ NoEventWasted

(* The first n loggers have registered their factories.                    *)
Registered(ls, n) ==
  LET Made(i) == Making(ls[i].level, ls[i].sinks)
  IN /\ DOMAIN factories = {<<"logpp">>} \cup { ls[i].name : i \in 1 .. n }
     /\ \A i \in 1 .. n : /\ ls[i].name \notin {NoName, <<"logpp">>}
                          /\ factories[ls[i].name] = Made(i)
                          /\ \A j \in 1 .. n : ls[j].name = ls[i].name => j = i
     /\ IF \E i \in 1 .. n : ls[i].default
        THEN \E i \in 1 .. n : ls[i].default /\ defaultFactory = Made(i)
        ELSE defaultFactory = Instantiator

(* The first configuration registers what the file says, and nothing else. *)
FirstSetup ==
  /\ setups \in Nat
  /\ setups = 0 => phase = "idle" /\ job = NoJob /\ Registered(<<>>, 0)
  /\ setups = 1 /\ phase \in {"sinks", "loggers"} =>
       /\ file \in Configs
       /\ Prepare(file.loggers).result = "sinks"
       /\ Prepare(file.loggers).loggers = config.loggers
       /\ index <= Len(config.loggers) + 1 \/ phase = "sinks"
       /\ Registered(config.loggers, IF phase = "sinks" THEN 0 ELSE index - 1)
       /\ job # NoJob =>
            LET logger == config.loggers[index]
            IN /\ phase = "loggers" /\ index <= Len(config.loggers)
               /\ job.name = logger.name /\ job.default = logger.default
               /\ job.factory = Making(logger.level, logger.sinks)
  /\ OnlyConfigured =>
       /\ file \in Configs /\ job = NoJob
       /\ Prepare(file.loggers).result = "sinks"
       /\ Registered(Prepare(file.loggers).loggers, Len(file.loggers))

(* Who has a logger has one that is still found, and a logger that was     *)
(* made after the configuration is as the file says.                       *)
Answered ==
  /\ DOMAIN loggers \subseteq Names
  /\ asked \in [Clients -> {NoName} \cup Names]
  /\ \A c \in Clients : held[c] # 0 => DOMAIN loggers \cap Fragments(asked[c]) # {}
  /\ OnlyConfigured /\ OneDefault /\ reloads = 0 =>
       /\ \A n \in DOMAIN loggers : Fresh(n) => objects[loggers[n]] = Configured(n)
       /\ \A c \in ConfiguredClients : objects[held[c]] = Configured(asked[c])

(* The names of the first n sinks, and whether one fails after them.       *)
FirstNames(ordered, n) == { ordered[k].name : k \in 1 .. n }

FailsAt(ordered, k) ==
  Activate(ordered[k].type, ordered[k].options, FirstNames(ordered, k - 1)) = "error"

(* While the first configuration creates its sinks, those that there are   *)
(* are the ones before index, and none of them failed.                     *)
SinksPassed ==
  /\ job # NoJob => phase \in {"loggers", "registering"}
  /\ setups = 0 => DOMAIN sinks = {}
  /\ setups = 1 /\ phase = "sinks" =>
       /\ config.sinks = InLineOrder(file)
       /\ index <= Cardinality(ParseSinks(file)) + 1
       /\ DOMAIN sinks = FirstNames(config.sinks, index - 1)
       /\ \A k \in 1 .. index - 1 : ~ FailsAt(config.sinks, k)
  /\ SinksFollowLines


-----------------------------------------------------------------------------
(***************************************************************************)
(* Numbers and sequences.                                                  *)
(***************************************************************************)

(* A set of natural numbers has a least one.                               *)
LEMMA Least ==
  ASSUME NEW S, S \subseteq Nat, S # {}
  PROVE  \E m \in S : \A k \in S : m <= k
<1>1. PICK m \in S : \A k \in S : ~ (<<k, m>> \in OpToRel(<, Nat))
  BY NatLessThanWellFounded, WFMin
<1>2. ASSUME NEW k \in S
      PROVE  m <= k
  <2>1. k \in Nat /\ m \in Nat
    OBVIOUS
  <2>2. CASE k < m
    <3>1. <<k, m>> \in OpToRel(<, Nat)
      BY <2>1, <2>2 DEF OpToRel
    <3> QED
      BY <1>1, <3>1
  <2> QED
    BY <2>1, <2>2
<1> QED
  BY <1>2

(* One that is bounded has a greatest.                                     *)
LEMMA Greatest ==
  ASSUME NEW n \in Nat, NEW S, S \subseteq 0 .. n, S # {}
  PROVE  \E m \in S : \A k \in S : k <= m
<1> DEFINE T == { x \in 0 .. n : n - x \in S }
<1>1. ASSUME NEW k \in S
      PROVE  n - k \in T /\ k \in 0 .. n
  <2>1. k \in 0 .. n
    OBVIOUS
  <2>2. n - k \in 0 .. n /\ n - (n - k) = k
    BY <2>1
  <2> QED
    BY <2>1, <2>2
<1> HIDE DEF T
<1>2. T \subseteq Nat /\ T # {}
  <2>1. PICK k \in S : TRUE
    OBVIOUS
  <2>2. T # {}
    BY <1>1, <2>1
  <2> QED
    BY <2>2 DEF T
<1>3. PICK x \in T : \A y \in T : x <= y
  BY <1>2, Least
<1>4. n - x \in S /\ x \in 0 .. n
  BY <1>3 DEF T
<1>5. ASSUME NEW k \in S
      PROVE  k <= n - x
  <2>1. x <= n - k /\ k \in 0 .. n /\ x \in 0 .. n
    BY <1>1, <1>3, <1>4
  <2> QED
    BY <2>1
<1> QED
  BY <1>4, <1>5

(* What holds of 0, and of n when it holds of all before, holds of all.    *)
LEMMA Induction ==
  ASSUME NEW n \in Nat, NEW S, \A k \in 0 .. n : (\A j \in 0 .. k - 1 : j \in S) => k \in S
  PROVE  \A k \in 0 .. n : k \in S
<1> DEFINE T == { k \in 0 .. n : k \notin S }
<1>1. SUFFICES ASSUME T # {}
               PROVE  FALSE
  OBVIOUS
<1> HIDE DEF T
<1>2. T \subseteq Nat
  BY DEF T
<1>3. PICK m \in T : \A k \in T : m <= k
  BY <1>1, <1>2, Least
<1>4. m \in 0 .. n /\ m \notin S
  BY DEF T
<1>5. ASSUME NEW j \in 0 .. m - 1
      PROVE  j \in S
  <2>1. j \in 0 .. n /\ ~ (m <= j)
    BY <1>4
  <2> QED
    BY <1>3, <2>1 DEF T
<1> QED
  BY <1>4, <1>5

(* A part of a sequence.                                                   *)
LEMMA Part ==
  ASSUME NEW S, NEW s, NEW m \in Nat, NEW n \in Nat, m <= n + 1, \A i \in m .. n : s[i] \in S
  PROVE  /\ SubSeq(s, m, n) \in Seq(S)
         /\ Len(SubSeq(s, m, n)) = n - m + 1
         /\ \A i \in 1 .. n - m + 1 : SubSeq(s, m, n)[i] = s[m + i - 1]
BY SubSeqProperties

(***************************************************************************)
(* Searching, and preparing one logger after the other.                    *)
(***************************************************************************)

(* Prepared(ls, n, f): f has what there is after each of n loggers.        *)
Prepared(ls, n, f) ==
  f = [i \in 0 .. n |-> IF i = 0 THEN [loggers |-> ls, result |-> "sinks"]
                        ELSE PrepareLogger(f[i - 1], i)]

LEMMA PreparedExists ==
  ASSUME NEW ls, NEW n \in Nat
  PROVE  \E f : Prepared(ls, n, f)
<1> DEFINE S == { k \in 0 .. n : \E f : Prepared(ls, k, f) }
<1>1. ASSUME NEW m \in 0 .. n, \A j \in 0 .. m - 1 : j \in S
      PROVE  \E f : Prepared(ls, m, f)
  <2>1. CASE m = 0
    <3> DEFINE f == [i \in 0 .. 0 |-> [loggers |-> ls, result |-> "sinks"]]
    <3>1. Prepared(ls, 0, f)
      BY DEF Prepared
    <3> HIDE DEF f
    <3> QED
      BY <2>1, <3>1
  <2>2. CASE m # 0
    <3>1. m - 1 \in 0 .. n /\ m - 1 \in 0 .. m - 1 /\ m \in Nat \ {0}
      BY <2>2
    <3>2. PICK g : Prepared(ls, m - 1, g)
      BY <1>1, <3>1
    <3> DEFINE f == [i \in 0 .. m |-> IF i = m THEN PrepareLogger(g[m - 1], m) ELSE g[i]]
    <3>3. \A i \in 0 .. m - 1 :
            g[i] = IF i = 0 THEN [loggers |-> ls, result |-> "sinks"]
                   ELSE PrepareLogger(g[i - 1], i)
      BY <3>1, <3>2 DEF Prepared
    <3>4. f[m] = PrepareLogger(g[m - 1], m) /\ \A i \in 0 .. m - 1 : f[i] = g[i]
      BY <3>1
    <3>5. f = [i \in 0 .. m |-> f[i]]
      OBVIOUS
    <3> HIDE DEF f
    <3>6. ASSUME NEW i \in 0 .. m
          PROVE  f[i] = IF i = 0 THEN [loggers |-> ls, result |-> "sinks"]
                        ELSE PrepareLogger(f[i - 1], i)
      <4>1. CASE i = m
        BY <3>1, <3>4, <4>1
      <4>2. CASE i # m
        <5>1. i \in 0 .. m - 1 /\ (i # 0 => i - 1 \in 0 .. m - 1)
          BY <3>1, <4>2
        <5> QED
          BY <3>3, <3>4, <5>1
      <4> QED
        BY <4>1, <4>2
    <3>7. Prepared(ls, m, f)
      BY <3>5, <3>6 DEF Prepared
    <3> QED
      BY <3>7
  <2> QED
    BY <2>1, <2>2
<1>2. \A k \in 0 .. n : k \in S
  <2>1. \A k \in 0 .. n : (\A j \in 0 .. k - 1 : j \in S) => k \in S
    BY <1>1
  <2> HIDE DEF S
  <2> QED
    BY <2>1, Induction
<1> QED
  BY <1>2

LEMMA Preparing ==
  ASSUME NEW ls, Len(ls) \in Nat
  PROVE  \E f : Prepared(ls, Len(ls), f) /\ Prepare(ls) = f[Len(ls)]
<1> DEFINE f == CHOOSE f : Prepared(ls, Len(ls), f)
<1>1. Prepared(ls, Len(ls), f)
  BY PreparedExists, Zenon
<1>2. Prepare(ls) = f[Len(ls)]
  BY DEF Prepare, Prepared
<1> QED
  BY <1>1, <1>2, Zenon

(* The least and the greatest of a set.                                    *)
LEMMA MinIn ==
  ASSUME NEW S, S \subseteq Nat, S # {}
  PROVE  Min(S) \in S /\ \A k \in S : Min(S) <= k
<1>1. \E m \in S : \A k \in S : m <= k
  BY Least
<1> QED
  BY <1>1, Zenon DEF Min

LEMMA MaxIn ==
  ASSUME NEW n \in Nat, NEW S, S \subseteq 0 .. n, S # {}
  PROVE  Max(S) \in S /\ \A k \in S : k <= Max(S)
<1>1. \E m \in S : \A k \in S : m >= k
  BY Greatest
<1> QED
  BY <1>1, Zenon DEF Max

(* A fragment is a name, no longer than the whole.                         *)
LEMMA FragmentIsName ==
  ASSUME NEW name \in Seq(STRING), NEW f \in Fragments(name)
  PROVE  f \in Seq(STRING) /\ Len(f) \in 1 .. Len(name)
<1>1. PICK i \in 0 .. Len(name) - 1 : f = SubSeq(name, 1, Len(name) - i)
  BY DEF Fragments, Fragment
<1>2. Len(name) \in Nat /\ Len(name) - i \in Nat /\ 1 <= Len(name) - i /\ Len(name) - i <= Len(name)
  BY <1>1
<1>3. \A j \in 1 .. Len(name) - i : name[j] \in STRING
  BY <1>2
<1>4. SubSeq(name, 1, Len(name) - i) \in Seq(STRING)
      /\ Len(SubSeq(name, 1, Len(name) - i)) = Len(name) - i
  BY <1>2, <1>3, Part
<1> QED
  BY <1>1, <1>2, <1>4

(* A search among fragments finds the longest.                             *)
LEMMA LongestFound ==
  ASSUME NEW name \in Seq(STRING), NEW known, known \subseteq Fragments(name), known # {}
  PROVE  LET nearest == CHOOSE f \in known : \A g \in known : Len(g) <= Len(f)
         IN nearest \in known /\ \A g \in known : Len(g) <= Len(nearest)
<1> DEFINE S == { Len(f) : f \in known }
<1>1. Len(name) \in Nat
  OBVIOUS
<1>2. S \subseteq 0 .. Len(name) /\ S # {}
  BY <1>1, FragmentIsName
<1>3. PICK m \in S : \A k \in S : k <= m
  BY <1>1, <1>2, Greatest
<1>4. PICK f \in known : m = Len(f)
  OBVIOUS
<1>5. \A g \in known : Len(g) <= Len(f)
  BY <1>3, <1>4
<1> QED
  BY <1>5

(* The parent of a logger is one of the loggers, if there is one.          *)
LEMMA ParentIsLogger ==
  ASSUME NEW ls \in Seq(LoggerNode), NEW i \in DOMAIN ls
  PROVE  FindParent(ls, i) \in {0} \cup DOMAIN ls
<1> DEFINE names == ProperFragments(ls[i].name)
           S == { j \in DOMAIN ls : ls[j].name \in names }
<1>1. DOMAIN ls \subseteq Nat /\ ls[i] \in LoggerNode
  OBVIOUS
<1>2. ls[i].name \in Seq(STRING) /\ Len(ls[i].name) \in Nat
  BY <1>1 DEF LoggerNode
<1>3. CASE \E j \in DOMAIN ls : ls[j].name \in names
  <2> DEFINE L == { Len(ls[k].name) : k \in S }
             length == Max(L)
             T == { k \in DOMAIN ls : ls[k].name \in names /\ Len(ls[k].name) = length }
  <2>1. L \subseteq 0 .. Len(ls[i].name)
    BY <1>2, FragmentIsName DEF ProperFragments
  <2>2. L # {}
    BY <1>3
  <2>3. length \in L
    BY <1>2, <2>1, <2>2, MaxIn
  <2>4. T # {} /\ T \subseteq Nat /\ T \subseteq DOMAIN ls
    BY <1>1, <2>3
  <2>5. Min(T) \in DOMAIN ls
    BY <2>4, MinIn
  <2>6. FindParent(ls, i) = Min(T)
    BY <1>3 DEF FindParent, Nearest
  <2> QED
    BY <2>5, <2>6
<1>4. CASE ~ \E j \in DOMAIN ls : ls[j].name \in names
  <2> DEFINE defaults == { k \in DOMAIN ls : ls[k].default }
  <2>1. FindParent(ls, i) = IF defaults = {} THEN 0 ELSE Min(defaults)
    BY <1>4 DEF FindParent, DefaultOf
  <2>2. defaults \subseteq Nat /\ defaults \subseteq DOMAIN ls
    BY <1>1
  <2>3. defaults # {} => Min(defaults) \in DOMAIN ls
    BY <2>2, MinIn
  <2> QED
    BY <2>1, <2>3
<1> QED
  BY <1>3, <1>4

(* The chain of parents consists of loggers.                               *)
Links(ls, i, n, f) ==
  f = [k \in 0 .. n |-> IF k = 0 THEN i
                        ELSE IF f[k - 1] = 0 THEN 0 ELSE FindParent(ls, f[k - 1])]

LEMMA LinksExist ==
  ASSUME NEW ls, NEW i, NEW n \in Nat
  PROVE  \E f : Links(ls, i, n, f)
<1> DEFINE S == { k \in 0 .. n : \E f : Links(ls, i, k, f) }
           Next1(x) == IF x = 0 THEN 0 ELSE FindParent(ls, x)
<1>1. ASSUME NEW m \in 0 .. n, \A j \in 0 .. m - 1 : j \in S
      PROVE  \E f : Links(ls, i, m, f)
  <2>1. CASE m = 0
    <3> DEFINE f == [k \in 0 .. 0 |-> i]
    <3>1. Links(ls, i, 0, f)
      BY DEF Links
    <3> HIDE DEF f
    <3> QED
      BY <2>1, <3>1
  <2>2. CASE m # 0
    <3>1. m - 1 \in 0 .. n /\ m - 1 \in 0 .. m - 1 /\ m \in Nat \ {0}
      BY <2>2
    <3>2. PICK g : Links(ls, i, m - 1, g)
      BY <1>1, <3>1
    <3> DEFINE f == [k \in 0 .. m |-> IF k = m THEN Next1(g[m - 1]) ELSE g[k]]
    <3>3. \A k \in 0 .. m - 1 :
            g[k] = IF k = 0 THEN i ELSE IF g[k - 1] = 0 THEN 0 ELSE FindParent(ls, g[k - 1])
      BY <3>1, <3>2 DEF Links
    <3>4. f[m] = Next1(g[m - 1]) /\ \A k \in 0 .. m - 1 : f[k] = g[k]
      BY <3>1
    <3>5. f = [k \in 0 .. m |-> f[k]]
      OBVIOUS
    <3> HIDE DEF f
    <3>6. ASSUME NEW k \in 0 .. m
          PROVE  f[k] = IF k = 0 THEN i
                        ELSE IF f[k - 1] = 0 THEN 0 ELSE FindParent(ls, f[k - 1])
      <4>1. CASE k = m
        BY <3>1, <3>4, <4>1
      <4>2. CASE k # m
        <5>1. k \in 0 .. m - 1 /\ (k # 0 => k - 1 \in 0 .. m - 1)
          BY <3>1, <4>2
        <5> QED
          BY <3>3, <3>4, <5>1
      <4> QED
        BY <4>1, <4>2
    <3>7. Links(ls, i, m, f)
      BY <3>5, <3>6 DEF Links
    <3> QED
      BY <3>7
  <2> QED
    BY <2>1, <2>2
<1>2. \A k \in 0 .. n : k \in S
  <2>1. \A k \in 0 .. n : (\A j \in 0 .. k - 1 : j \in S) => k \in S
    BY <1>1
  <2> HIDE DEF S
  <2> QED
    BY <2>1, Induction
<1> QED
  BY <1>2

LEMMA ChainLinks ==
  ASSUME NEW ls, NEW i, Len(ls) \in Nat
  PROVE  Links(ls, i, Len(ls) + 1, Chain(ls, i))
<1>1. \E f : Links(ls, i, Len(ls) + 1, f)
  BY LinksExist
<1>2. Chain(ls, i) = CHOOSE f : Links(ls, i, Len(ls) + 1, f)
  BY DEF Chain, Links
<1> QED
  BY <1>1, <1>2, Zenon

LEMMA ChainOfLoggers ==
  ASSUME NEW ls \in Seq(LoggerNode), NEW i \in DOMAIN ls
  PROVE  \A k \in 0 .. Len(ls) + 1 : Chain(ls, i)[k] \in {0} \cup DOMAIN ls
<1> DEFINE f == Chain(ls, i)
           n == Len(ls) + 1
           S == { k \in 0 .. n : f[k] \in {0} \cup DOMAIN ls }
<1>1. Len(ls) \in Nat /\ n \in Nat
  OBVIOUS
<1>2. \A k \in 0 .. n :
        f[k] = IF k = 0 THEN i ELSE IF f[k - 1] = 0 THEN 0 ELSE FindParent(ls, f[k - 1])
  <2>1. Links(ls, i, n, f)
    BY <1>1, ChainLinks
  <2> HIDE DEF f, n
  <2> QED
    BY <2>1 DEF Links
<1> HIDE DEF f, n
<1>3. ASSUME NEW k \in 0 .. n, \A j \in 0 .. k - 1 : j \in S
      PROVE  k \in S
  <2>1. CASE k = 0
    BY <1>2, <2>1
  <2>2. CASE k # 0
    <3>1. k - 1 \in S
      BY <1>1, <1>3, <2>2
    <3>2. f[k] = IF f[k - 1] = 0 THEN 0 ELSE FindParent(ls, f[k - 1])
      BY <1>2, <2>2
    <3> QED
      BY <3>1, <3>2, ParentIsLogger
  <2> QED
    BY <2>1, <2>2
<1>4. \A k \in 0 .. n : k \in S
  <2>1. \A k \in 0 .. n : (\A j \in 0 .. k - 1 : j \in S) => k \in S
    BY <1>3
  <2> HIDE DEF S
  <2> QED
    BY <1>1, <2>1, Induction
<1> QED
  BY <1>4 DEF f, n

(* A logger that can be completed gets sinks, and the others stay.         *)
LEMMA NodeChanged ==
  ASSUME NEW b \in LoggerNode, NEW l, NEW s
  PROVE  [b EXCEPT !.level = l, !.sinks = s] =
           [kind |-> b.kind, name |-> b.name, level |-> l, sinks |-> s, default |-> b.default]
<1>1. PICK p, q, r, x, y :
        b = [kind |-> p, name |-> q, level |-> r, sinks |-> x, default |-> y]
  BY Zenon DEF LoggerNode
<1>2. [b EXCEPT !.level = l, !.sinks = s] = [[b EXCEPT !.level = l] EXCEPT !.sinks = s]
  OBVIOUS
<1>3. [b EXCEPT !.level = l] =
        [kind |-> b.kind, name |-> b.name, level |-> l, sinks |-> b.sinks, default |-> b.default]
  BY <1>1
<1>4. [[kind |-> b.kind, name |-> b.name, level |-> l, sinks |-> b.sinks, default |-> b.default]
         EXCEPT !.sinks = s] =
        [kind |-> b.kind, name |-> b.name, level |-> l, sinks |-> s, default |-> b.default]
  OBVIOUS
<1> QED
  BY <1>2, <1>3, <1>4, Zenon

LEMMA Found ==
  ASSUME NEW ls \in Seq(LoggerNode), NEW i \in DOMAIN ls, NEW field,
         Having(ls, i, field) # {}
  PROVE  LET j == Chain(ls, i)[Min(Having(ls, i, field))]
         IN j \in DOMAIN ls /\ Has(ls[j], field)
<1> DEFINE H == Having(ls, i, field)
           k == Min(H)
<1>1. Len(ls) \in Nat
  OBVIOUS
<1>2. \A x : x \in H <=> /\ x \in 0 .. Len(ls) + 1 /\ Chain(ls, i)[x] # 0
                         /\ Has(ls[Chain(ls, i)[x]], field)
  BY Zenon DEF Having
<1> HIDE DEF H
<1>3. H \subseteq Nat
  BY <1>1, <1>2
<1>4. k \in H
  BY <1>3, MinIn DEF H
<1>5. k \in 0 .. Len(ls) + 1 /\ Chain(ls, i)[k] # 0 /\ Has(ls[Chain(ls, i)[k]], field)
  BY <1>2, <1>4
<1>6. Chain(ls, i)[k] \in {0} \cup DOMAIN ls
  BY <1>5, ChainOfLoggers, Zenon
<1> QED
  BY <1>5, <1>6 DEF H

LEMMA Completing ==
  ASSUME NEW ls \in Seq(LoggerNode), NEW i \in DOMAIN ls, Completed(ls, i)
  PROVE  /\ Complete(ls, i) \in LoggerNode /\ Complete(ls, i).sinks # <<>>
         /\ Complete(ls, i).name = ls[i].name /\ Complete(ls, i).default = ls[i].default
<1> DEFINE j == Chain(ls, i)[Min(Having(ls, i, "level"))]
           k == Chain(ls, i)[Min(Having(ls, i, "sinks"))]
<1>1. j \in DOMAIN ls /\ k \in DOMAIN ls /\ Has(ls[k], "sinks")
  BY Found, Zenon DEF Completed
<1>2. Complete(ls, i) = [ls[i] EXCEPT !.level = ls[j].level, !.sinks = ls[k].sinks]
  BY DEF Complete
<1> HIDE DEF j, k
<1>3. ls[i] \in LoggerNode /\ ls[j] \in LoggerNode /\ ls[k] \in LoggerNode
  BY <1>1
<1>4. Complete(ls, i) = [kind |-> ls[i].kind, name |-> ls[i].name, level |-> ls[j].level,
                         sinks |-> ls[k].sinks, default |-> ls[i].default]
  BY <1>2, <1>3, NodeChanged
<1>5. ls[k].sinks # <<>>
  BY <1>1 DEF Has
<1> QED
  BY <1>3, <1>4, <1>5 DEF LoggerNode

(* Loggers with the same names: the search does not look at what they have *)
(* of levels and sinks.                                                    *)
SameTree(ms, ls) ==
  /\ ms \in Seq(LoggerNode) /\ DOMAIN ms = DOMAIN ls
  /\ \A i \in DOMAIN ls : ms[i].name = ls[i].name /\ ms[i].default = ls[i].default

(* What prepareLoggers accepts has sinks everywhere.                       *)
LEMMA PrepareCompletes ==
  ASSUME NEW ls \in Seq(LoggerNode)
  PROVE  /\ Prepare(ls).loggers \in Seq(LoggerNode)
         /\ SameTree(Prepare(ls).loggers, ls)
         /\ Prepare(ls).result = "sinks" =>
              \A i \in DOMAIN Prepare(ls).loggers : Prepare(ls).loggers[i].sinks # <<>>
         /\ Prepare(ls).result \in {"sinks", "failed", "looping"}
<1> DEFINE n == Len(ls)
           Done(p, k) == /\ p.loggers \in Seq(LoggerNode)
                         /\ Len(p.loggers) = n /\ SameTree(p.loggers, ls)
                         /\ p.result \in {"sinks", "failed", "looping"}
                         /\ p.result = "sinks" => \A i \in 1 .. k : p.loggers[i].sinks # <<>>
<1>1. n \in Nat
  OBVIOUS
<1>2. PICK f : Prepared(ls, n, f) /\ Prepare(ls) = f[n]
  BY <1>1, Preparing
<1> DEFINE S == { k \in 0 .. n : Done(f[k], k) }
<1>3. \A k \in 0 .. n :
        f[k] = IF k = 0 THEN [loggers |-> ls, result |-> "sinks"] ELSE PrepareLogger(f[k - 1], k)
  BY <1>2 DEF Prepared
<1>4. ASSUME NEW k \in 0 .. n, \A j \in 0 .. k - 1 : j \in S
      PROVE  k \in S
  <2>1. CASE k = 0
    <3>1. f[0] = [loggers |-> ls, result |-> "sinks"]
      BY <1>3, <2>1
    <3>2. SameTree(ls, ls)
      BY DEF SameTree
    <3> QED
      BY <2>1, <3>1, <3>2
  <2>2. CASE k # 0
    <3> DEFINE p == f[k - 1]
    <3>1. Done(p, k - 1) /\ k \in 1 .. n
      BY <1>1, <1>4, <2>2
    <3>2. f[k] = PrepareLogger(p, k)
      BY <1>3, <2>2
    <3> HIDE DEF p
    <3>3. p.loggers \in Seq(LoggerNode) /\ k \in DOMAIN p.loggers /\ DOMAIN p.loggers = 1 .. n
      BY <1>1, <3>1
    <3>4. CASE p.result # "sinks"
      <4>1. f[k] = p
        BY <3>2, <3>4 DEF PrepareLogger
      <4> QED
        BY <3>1, <3>4, <4>1
    <3>5. CASE p.result = "sinks" /\ Completed(p.loggers, k)
      <4> DEFINE c == Complete(p.loggers, k)
                 q == [p.loggers EXCEPT ![k] = c]
      <4>1. /\ c \in LoggerNode /\ c.sinks # <<>>
           /\ c.name = p.loggers[k].name /\ c.default = p.loggers[k].default
        BY <3>3, <3>5, Completing
      <4>2. f[k] = [loggers |-> q, result |-> "sinks"]
        BY <3>2, <3>5 DEF PrepareLogger
      <4> HIDE DEF c
      <4>3. /\ q \in Seq(LoggerNode) /\ Len(q) = n
            /\ \A i \in 1 .. n : q[i] = IF i = k THEN c ELSE p.loggers[i]
        BY <1>1, <3>1, <3>3, <4>1
      <4> HIDE DEF q
      <4>4. ASSUME NEW i \in 1 .. k
            PROVE  q[i].sinks # <<>>
        <5>1. CASE i = k
          BY <3>1, <4>1, <4>3, <5>1
        <5>2. CASE i # k
          <6>1. i \in 1 .. k - 1 /\ i \in 1 .. n
            BY <3>1, <5>2
          <6> QED
            BY <3>1, <3>5, <4>3, <5>2, <6>1
        <5> QED
          BY <5>1, <5>2
      <4>5. SameTree(q, ls)
        <5>1. ASSUME NEW i \in DOMAIN ls
              PROVE  q[i].name = ls[i].name /\ q[i].default = ls[i].default
          <6>1. i \in 1 .. n /\ q[i] = IF i = k THEN c ELSE p.loggers[i]
            BY <3>1, <3>3, <4>3 DEF SameTree
          <6> QED
            BY <3>1, <4>1, <6>1 DEF SameTree
        <5>2. DOMAIN q = DOMAIN ls
          BY <3>1, <3>3, <4>3 DEF SameTree
        <5> QED
          BY <4>3, <5>1, <5>2 DEF SameTree
      <4> QED
        BY <4>2, <4>3, <4>4, <4>5
    <3>6. CASE p.result = "sinks" /\ ~ Completed(p.loggers, k)
      <4>1. f[k].loggers = p.loggers /\ f[k].result \in {"failed", "looping"}
        BY <3>2, <3>6 DEF PrepareLogger
      <4> QED
        BY <3>1, <4>1
    <3> QED
      BY <3>4, <3>5, <3>6
  <2> QED
    BY <2>1, <2>2
<1>5. n \in S
  <2>1. \A k \in 0 .. n : (\A j \in 0 .. k - 1 : j \in S) => k \in S
    BY <1>4
  <2>2. n \in 0 .. n
    BY <1>1
  <2> HIDE DEF S, n
  <2>3. \A k \in 0 .. n : k \in S
    BY <1>1, <2>1, Induction
  <2> QED
    BY <2>2, <2>3
<1> QED
  BY <1>1, <1>2, <1>5

-----------------------------------------------------------------------------
(***************************************************************************)
(* What steps do to loggers, factories and registrations.                  *)
(***************************************************************************)

(* The loggers that there are keep what they have.                         *)
LoggersKept ==
  /\ objects' \in Seq(LoggerType)
  /\ Len(objects) <= Len(objects')
  /\ \A id \in DOMAIN objects : id \in DOMAIN objects' /\ objects'[id] = objects[id]

LEMMA TemplateKept ==
  ASSUME NEW f \in FactoryType, f = Instantiator \/ SoundFactory(f), LoggersKept
  PROVE  Template(f)' = Template(f)
<1>1. f.kind = "same" => f.logger \in DOMAIN objects
  BY DEF SoundFactory, Instantiator
<1> QED
  BY <1>1 DEF Template, LoggersKept

LEMMA SoundKept ==
  ASSUME NEW f, SoundFactory(f), LoggersKept, tracked' \cap DOMAIN objects \subseteq tracked
  PROVE  SoundFactory(f)'
BY DEF SoundFactory, LoggersKept

(* What a sound factory would make.                                        *)
LEMMA TemplateOfSound ==
  ASSUME TypeOK, NEW f \in FactoryType, SoundFactory(f)
  PROVE  Template(f) \in LoggerType /\ Template(f).sink # Noop /\ f # Instantiator
<1>1. f # Instantiator
  BY DEF SoundFactory, Instantiator
<1>2. CASE f.kind = "same"
  <2>1. f.logger \in DOMAIN objects /\ objects[f.logger].sink # Noop
    BY <1>2 DEF SoundFactory
  <2>2. objects \in Seq(LoggerType)
    BY DEF TypeOK
  <2>3. objects[f.logger] \in LoggerType
    BY <2>1, <2>2
  <2> QED
    BY <1>1, <1>2, <2>1, <2>3 DEF Template
<1>3. CASE f.kind # "same"
  <2>1. f.sink # Noop
    BY <1>3 DEF SoundFactory
  <2>2. Template(f) = [level |-> f.level, sink |-> f.sink]
    BY <1>3 DEF Template
  <2> QED
    BY <1>1, <2>1, <2>2 DEF FactoryType, LoggerType
<1> QED
  BY <1>2, <1>3

(* A logger gets another level or another sink.                            *)
LoggerIsNow(r, q, id, c) ==
  /\ r \in Seq(LoggerType)
  /\ Len(r) = Len(q)
  /\ DOMAIN r = DOMAIN q
  /\ \A x \in DOMAIN q : r[x] = IF x = id THEN c ELSE q[x]

LEMMA SinkChanged ==
  ASSUME NEW q \in Seq(LoggerType), NEW id \in DOMAIN q, NEW s \in Seq(STRING)
  PROVE  LoggerIsNow([q EXCEPT ![id].sink = s], q, id, [level |-> q[id].level, sink |-> s])
<1> DEFINE c == [q[id] EXCEPT !.sink = s]
<1>1. q[id] \in LoggerType /\ Len(q) \in Nat /\ DOMAIN q = 1 .. Len(q)
  OBVIOUS
<1>2. \E l, u : q[id] = [level |-> l, sink |-> u]
  BY <1>1, Zenon DEF LoggerType
<1>3. c = [level |-> q[id].level, sink |-> s]
  BY <1>2
<1>4. c \in LoggerType
  BY <1>1, <1>3 DEF LoggerType
<1>5. [q EXCEPT ![id].sink = s] = [q EXCEPT ![id] = c]
  OBVIOUS
<1> HIDE DEF c
<1>6. LoggerIsNow([q EXCEPT ![id] = c], q, id, c)
  BY <1>1, <1>4 DEF LoggerIsNow
<1> QED
  BY <1>3, <1>5, <1>6, Zenon

LEMMA LevelChanged ==
  ASSUME NEW q \in Seq(LoggerType), NEW id \in DOMAIN q, NEW l \in 0 .. Off
  PROVE  LoggerIsNow([q EXCEPT ![id].level = l], q, id, [level |-> l, sink |-> q[id].sink])
<1> DEFINE c == [q[id] EXCEPT !.level = l]
<1>1. q[id] \in LoggerType /\ Len(q) \in Nat /\ DOMAIN q = 1 .. Len(q)
  OBVIOUS
<1>2. \E k, u : q[id] = [level |-> k, sink |-> u]
  BY <1>1, Zenon DEF LoggerType
<1>3. c = [level |-> l, sink |-> q[id].sink]
  BY <1>2
<1>4. c \in LoggerType
  BY <1>1, <1>3 DEF LoggerType
<1>5. [q EXCEPT ![id].level = l] = [q EXCEPT ![id] = c]
  OBVIOUS
<1> HIDE DEF c
<1>6. LoggerIsNow([q EXCEPT ![id] = c], q, id, c)
  BY <1>1, <1>4 DEF LoggerIsNow
<1> QED
  BY <1>3, <1>5, <1>6, Zenon

(* A registration that is one, and what its updates make of it.            *)
LEMMA JobFields ==
  ASSUME NEW b \in JobType, NEW h, NEW d
  PROVE  /\ [b EXCEPT !.half = h] =
              [kind |-> b.kind, name |-> b.name, factory |-> b.factory, default |-> b.default,
               todo |-> b.todo, half |-> h]
         /\ [b EXCEPT !.half = h, !.todo = d] =
              [kind |-> b.kind, name |-> b.name, factory |-> b.factory, default |-> b.default,
               todo |-> d, half |-> h]
<1>1. PICK p, q, r, x, y, z :
        b = [kind |-> p, name |-> q, factory |-> r, default |-> x, todo |-> y, half |-> z]
  BY Zenon DEF JobType
<1>2. [b EXCEPT !.half = h, !.todo = d] = [[b EXCEPT !.half = h] EXCEPT !.todo = d]
  OBVIOUS
<1>3. [b EXCEPT !.half = h] =
        [kind |-> b.kind, name |-> b.name, factory |-> b.factory, default |-> b.default,
         todo |-> b.todo, half |-> h]
  BY <1>1
<1>4. [[kind |-> b.kind, name |-> b.name, factory |-> b.factory, default |-> b.default,
        todo |-> b.todo, half |-> h] EXCEPT !.todo = d] =
        [kind |-> b.kind, name |-> b.name, factory |-> b.factory, default |-> b.default,
         todo |-> d, half |-> h]
  OBVIOUS
<1> QED
  BY <1>2, <1>3, <1>4, Zenon

-----------------------------------------------------------------------------
(***************************************************************************)
(* The steps.                                                              *)
(***************************************************************************)

(* The constructor of the registry.                                        *)
LEMMA InitIInv == Init => IInv
<1> SUFFICES ASSUME Init
             PROVE  IInv
  OBVIOUS
<1>1. /\ objects = <<[level |-> 2, sink |-> Console]>> /\ loggers = <<>>
      /\ factories = [n \in {<<"logpp">>} |-> Answering(1)]
      /\ defaultFactory = Instantiator /\ defaultLogger = 0 /\ tracked = {} /\ job = NoJob
      /\ at = [c \in Clients |-> "idle"] /\ held = [c \in Clients |-> 0] /\ wasted = FALSE
      /\ phase = "idle" /\ index = 1 /\ config = NoConfig /\ reload = Idle /\ reloads = 0
  BY DEF Init, RegistryInit
<1>2. Console \in Seq(STRING) /\ Console # Noop /\ Noop \in Seq(STRING)
  BY EmptySeq, StringAssumption DEF Console, Noop
<1>3. /\ objects \in Seq(LoggerType) /\ DOMAIN objects = {1}
      /\ objects[1] = [level |-> 2, sink |-> Console]
  BY <1>1, <1>2 DEF LoggerType, Off
<1>4. /\ Answering(1) \in FactoryType /\ Answering(1).kind = "same" /\ Answering(1).logger = 1
      /\ Instantiator \in FactoryType
  BY <1>2 DEF Answering, Instantiator, FactoryType, NoLevel, Off
<1>5. DOMAIN loggers = {}
  BY <1>1
<1>6. SoundFactory(Answering(1))
  BY <1>1, <1>2, <1>3, <1>4 DEF SoundFactory
<1>7. config.loggers \in Seq(LoggerNode) /\ reload.kind # "reloading"
  BY <1>1, EmptySeq DEF NoConfig, Idle
<1>8. TypeOK
  <2>1. \A n \in DOMAIN factories : factories[n] \in FactoryType
    BY <1>1, <1>4
  <2>2. at \in [Clients -> {"idle", "logging", "free"}] /\ held \in [Clients -> {0} \cup DOMAIN objects]
    BY <1>1
  <2>3. \A n \in DOMAIN loggers : loggers[n] \in DOMAIN objects
    BY <1>5
  <2>4. tracked = {} /\ index = 1 /\ reloads = 0
    BY <1>1
  <2>5. tracked \subseteq DOMAIN objects /\ index \in Nat \ {0} /\ reloads \in Nat
    BY <2>4
  <2>6. wasted \in BOOLEAN
    BY <1>1
  <2> QED
    BY <1>1, <1>3, <1>4, <1>7, <2>1, <2>2, <2>3, <2>5, <2>6, Zenon DEF TypeOK
<1>9. FactoriesSound
  BY <1>1, <1>6 DEF FactoriesSound
<1>10. UpdatesInOrder /\ Following /\ ConfigComplete /\ NoEventWasted
  BY <1>1 DEF UpdatesInOrder, Following, ConfigComplete, NoEventWasted
<1>11. SilentWithoutSink
  BY <1>1, <1>2, <1>3 DEF SilentWithoutSink
<1> QED
  BY <1>8, <1>9, <1>10, <1>11 DEF IInv

(* A step that leaves the registry and its clients alone.                  *)
LEMMA QuietStep ==
  ASSUME IInv, UNCHANGED <<registry, job, clients, wasted>>,
         reloads' \in Nat, reloads <= reloads',
         index' \in Nat \ {0}, config'.loggers \in Seq(LoggerNode), ConfigComplete',
         reload'.kind = "reloading" =>
           reload'.toml \in Configs /\ reload'.index \in Nat \ {0} /\ reloads' > 0
  PROVE  IInv'
<1>1. /\ objects' = objects /\ loggers' = loggers /\ factories' = factories
      /\ defaultFactory' = defaultFactory /\ defaultLogger' = defaultLogger
      /\ tracked' = tracked /\ job' = job /\ at' = at /\ held' = held /\ wasted' = wasted
  BY DEF registry, clients
<1>2. /\ TypeOK /\ FactoriesSound /\ UpdatesInOrder /\ Following /\ SilentWithoutSink
      /\ NoEventWasted
  BY DEF IInv
<1>3. reloads \in Nat /\ (reloads' = 0 => reloads = 0) /\ (reloads > 0 => reloads' > 0)
  BY <1>2 DEF TypeOK
<1>4. TypeOK'
  BY <1>1, <1>2 DEF TypeOK, JobType
<1>5. FactoriesSound'
  BY <1>1, <1>2 DEF FactoriesSound, SoundFactory
<1>6. UpdatesInOrder'
  BY <1>1, <1>2 DEF UpdatesInOrder, Template
<1>7. Following'
  BY <1>1, <1>2, <1>3 DEF Following, Template
<1>8. SilentWithoutSink'
  BY <1>1, <1>2, <1>3 DEF SilentWithoutSink
<1>9. NoEventWasted'
  BY <1>1, <1>2, <1>3 DEF NoEventWasted
<1> QED
  BY <1>4, <1>5, <1>6, <1>7, <1>8, <1>9 DEF IInv

(* Parsing, the sinks, and what follows the loggers.                       *)
LEMMA ConfigureStep ==
  ASSUME IInv, NEW toml \in Configs, Configure(toml)
  PROVE  IInv'
<1> DEFINE prepared == Prepare(toml.loggers)
<1>1. /\ UNCHANGED <<registry, job, clients, wasted>> /\ UNCHANGED reloadVars
      /\ \/ Fail
         \/ /\ phase' = prepared.result /\ index' = 1
            /\ config' = [toml EXCEPT !.loggers = prepared.loggers,
                                      !.sinks = InLineOrder(toml)]
  BY DEF Configure
<1>2. /\ toml.loggers \in Seq(LoggerNode)
      /\ toml = [tables |-> toml.tables, sinks |-> toml.sinks, loggers |-> toml.loggers]
  BY ConfigsAssumption
<1>3. /\ prepared.loggers \in Seq(LoggerNode)
      /\ prepared.result = "sinks" =>
           \A i \in DOMAIN prepared.loggers : prepared.loggers[i].sinks # <<>>
  BY <1>2, PrepareCompletes
<1>4. prepared.result # "loggers"
  BY <1>2, PrepareCompletes
<1> HIDE DEF prepared
<1>5. config'.loggers \in Seq(LoggerNode) /\ index' = 1 /\ ConfigComplete'
  <2>1. CASE Fail
    BY <2>1 DEF Fail, NoConfig, ConfigComplete
  <2>2. CASE ~ Fail
    <3>1. /\ phase' = prepared.result /\ index' = 1
          /\ config' = [toml EXCEPT !.loggers = prepared.loggers,
                                    !.sinks = InLineOrder(toml)]
      BY <1>1, <2>2
    <3>2. config'.loggers = prepared.loggers
      BY <1>2, <3>1
    <3> QED
      BY <1>3, <1>4, <3>1, <3>2 DEF ConfigComplete
  <2> QED
    BY <2>1, <2>2
<1>6. reloads' = reloads /\ reload' = reload /\ TypeOK
  BY <1>1 DEF reloadVars, IInv
<1> QED
  BY <1>1, <1>5, <1>6, QuietStep DEF TypeOK

LEMMA SinkSteps ==
  ASSUME IInv, ConfigureSink \/ SinksConfigured \/ LoggersConfigured
  PROVE  IInv'
<1>1. /\ UNCHANGED <<registry, job, clients, wasted>> /\ reloads' = reloads /\ reload' = reload
      /\ index' \in {1, index, index + 1}
      /\ \/ config' = config /\ (phase' = phase \/ (phase = "sinks" /\ phase' = "loggers"))
         \/ config' = NoConfig /\ phase' \notin {"sinks", "loggers"}
  <2>1. CASE ConfigureSink
    BY <2>1 DEF ConfigureSink, Fail, reloadVars
  <2>2. CASE SinksConfigured
    BY <2>2 DEF SinksConfigured, reloadVars
  <2>3. CASE LoggersConfigured
    BY <2>3 DEF LoggersConfigured
  <2> QED
    BY <2>1, <2>2, <2>3
<1>2. TypeOK /\ ConfigComplete
  BY DEF IInv
<1>3. index' \in Nat \ {0} /\ reloads \in Nat
  BY <1>1, <1>2 DEF TypeOK
<1>4. NoConfig.loggers \in Seq(LoggerNode)
  BY EmptySeq DEF NoConfig
<1>5. config'.loggers \in Seq(LoggerNode)
  BY <1>1, <1>2, <1>4 DEF TypeOK
<1>6. ConfigComplete'
  BY <1>1, <1>2 DEF ConfigComplete
<1> QED
  BY <1>1, <1>2, <1>3, <1>5, <1>6, QuietStep DEF TypeOK

(* The callback of the watcher, up to the loggers.                         *)
LEMMA WatchSteps ==
  ASSUME IInv, Reloaded \/ \E toml \in Configs : Reload(toml)
  PROVE  IInv'
<1>1. /\ UNCHANGED <<registry, job, clients, wasted>> /\ UNCHANGED setupVars
      /\ \/ reloads' = reloads /\ reload'.kind = "done"
         \/ /\ reloads' = reloads + 1
            /\ reload' = reload \/ \E toml \in Configs :
                                     reload' = [kind |-> "reloading", toml |-> toml, index |-> 1]
  <2>1. CASE Reloaded
    BY <2>1 DEF Reloaded
  <2>2. ASSUME NEW toml \in Configs, Reload(toml)
        PROVE  /\ UNCHANGED <<registry, job, clients, wasted>> /\ UNCHANGED setupVars
               /\ reloads' = reloads + 1
               /\ reload' = reload \/ reload' = [kind |-> "reloading", toml |-> toml, index |-> 1]
    BY <2>2 DEF Reload
  <2> QED
    BY <2>1, <2>2
<1>2. TypeOK /\ ConfigComplete /\ reloads \in Nat
  BY DEF IInv, TypeOK
<1>3. reloads' \in Nat /\ reloads <= reloads'
  BY <1>1, <1>2
<1>4. index' = index /\ config' = config /\ phase' = phase
  BY <1>1 DEF setupVars
<1>5. ConfigComplete'
  BY <1>2, <1>4 DEF ConfigComplete
<1>6. reload'.kind = "reloading" =>
        reload'.toml \in Configs /\ reload'.index \in Nat \ {0} /\ reloads' > 0
  BY <1>1, <1>2 DEF TypeOK
<1> QED
  BY <1>1, <1>2, <1>3, <1>4, <1>5, <1>6, QuietStep DEF TypeOK

(* A registration begins.                                                  *)
LEMMA RegisterStep ==
  ASSUME IInv, NEW name \in Seq(STRING), NEW factory \in FactoryType, NEW isDefault \in BOOLEAN,
         Register(name, factory, isDefault), SoundFactory(factory)', LoggersKept,
         \A id \in DOMAIN objects' \ DOMAIN objects : objects'[id].sink # Noop,
         UNCHANGED <<loggers, factories, defaultFactory, defaultLogger, tracked>>,
         UNCHANGED <<clients, wasted, index, reloads, reload>>, config' = config,
         phase' = phase \/ phase' = "registering"
  PROVE  IInv'
<1>1. /\ TypeOK /\ FactoriesSound /\ UpdatesInOrder /\ Following /\ SilentWithoutSink
      /\ ConfigComplete /\ NoEventWasted
  BY DEF IInv
<1>2. /\ job = NoJob
      /\ job' = [kind |-> "register", name |-> name, factory |-> factory, default |-> isDefault,
                 todo |-> IF isDefault THEN tracked ELSE {}, half |-> 0]
  BY DEF Register
<1>3. job' # NoJob /\ job'.half = 0 /\ job'.factory = factory /\ job'.default = isDefault
      /\ job'.todo = (IF isDefault THEN tracked ELSE {})
  BY <1>2 DEF NoJob
<1>4. /\ DOMAIN objects \subseteq DOMAIN objects' /\ tracked \subseteq DOMAIN objects
      /\ \A id \in DOMAIN objects : objects'[id] = objects[id]
      /\ at' = at /\ held' = held
  BY <1>1 DEF LoggersKept, TypeOK, clients
<1>5. TypeOK'
  <2>1. job' \in JobType'
    BY <1>2 DEF JobType
  <2>2. held' \in [Clients -> {0} \cup DOMAIN objects']
    BY <1>1, <1>4 DEF TypeOK
  <2> QED
    BY <1>1, <1>4, <2>1, <2>2 DEF TypeOK, LoggersKept
<1>6. FactoriesSound'
  <2>1. ASSUME NEW f, SoundFactory(f)
        PROVE  SoundFactory(f)'
    BY <2>1, SoundKept
  <2>2. ASSUME NEW n \in DOMAIN factories
        PROVE  SoundFactory(factories[n])'
    BY <1>1, <2>1 DEF FactoriesSound
  <2>3. defaultFactory' = Instantiator \/ SoundFactory(defaultFactory)'
    BY <1>1, <2>1 DEF FactoriesSound
  <2>4. SoundFactory(job.factory)'
    BY <1>3
  <2> QED
    BY <2>2, <2>3, <2>4 DEF FactoriesSound
<1>7. UpdatesInOrder'
  BY <1>3 DEF UpdatesInOrder
<1>8. Following'
  <2>1. PICK f : f = defaultFactory
    OBVIOUS
  <2>2. f \in FactoryType /\ (f = Instantiator \/ SoundFactory(f))
    BY <1>1, <2>1 DEF TypeOK, FactoriesSound
  <2>3. Template(f)' = Template(f)
    BY <2>2, TemplateKept
  <2>4. reloads = 0 /\ f # Instantiator => \A id \in tracked : objects[id] = Template(f)
    BY <1>1, <1>2, <2>1 DEF Following
  <2>5. reloads' = 0 /\ f # Instantiator => \A id \in tracked : objects'[id] = Template(f)'
    BY <1>4, <2>3, <2>4
  <2>6. tracked' \ job'.todo = {} \/ ~ isDefault
    BY <1>3
  <2>7. Template(f)' = Template(defaultFactory)'
    BY <2>1
  <2> QED
    BY <1>3, <2>1, <2>5, <2>6, <2>7 DEF Following
<1>9. SilentWithoutSink'
  <2>1. ASSUME NEW c \in Clients, at[c] = "logging"
        PROVE  held'[c] # 0 /\ (reloads' = 0 => objects'[held'[c]].sink # Noop)
    <3>1. held[c] # 0 /\ (reloads = 0 => objects[held[c]].sink # Noop)
      BY <1>1, <2>1 DEF SilentWithoutSink
    <3>2. held[c] \in DOMAIN objects
      BY <1>1, <3>1 DEF TypeOK
    <3> QED
      BY <1>4, <3>1, <3>2
  <2> QED
    BY <1>1, <1>4, <2>1 DEF SilentWithoutSink
<1>10. ConfigComplete' /\ NoEventWasted'
  BY <1>1 DEF ConfigComplete, NoEventWasted
<1> QED
  BY <1>5, <1>6, <1>7, <1>8, <1>9, <1>10 DEF IInv

LEMMA RegisterSteps ==
  ASSUME IInv,
         \/ ConfigureLogger
         \/ \E isDefault \in BOOLEAN : RegisterLogger(isDefault)
         \/ SetDefaultLoggerFunc
  PROVE  IInv'
<1>1. /\ TypeOK /\ ConfigComplete /\ objects \in Seq(LoggerType) /\ Len(objects) \in Nat
      /\ DOMAIN objects = 1 .. Len(objects) /\ tracked \subseteq DOMAIN objects
  BY DEF IInv, TypeOK
<1>2. <<"user">> \in Seq(STRING) /\ <<"user">> # Noop /\ Noop \in Seq(STRING)
  BY EmptySeq, StringAssumption DEF Noop
<1>3. objects' = objects => LoggersKept
  BY <1>1 DEF LoggersKept
<1>4. CASE ConfigureLogger
  <2> DEFINE logger == config.loggers[index]
             factory == Making(logger.level, logger.sinks)
  <2>1. /\ phase = "loggers" /\ index <= Len(config.loggers)
        /\ Register(logger.name, factory, logger.default)
        /\ UNCHANGED <<registry, clients, wasted>> /\ UNCHANGED setupVars /\ UNCHANGED reloadVars
    BY <1>4 DEF ConfigureLogger
  <2>2. index \in DOMAIN config.loggers /\ config.loggers \in Seq(LoggerNode)
    BY <1>1, <2>1 DEF TypeOK
  <2>3. logger \in LoggerNode /\ logger.sinks # <<>>
    BY <1>1, <2>1, <2>2 DEF ConfigComplete
  <2> HIDE DEF logger
  <2>4. factory \in FactoryType /\ factory.kind = "new" /\ factory.sink # Noop
    BY <2>3 DEF Making, FactoryType, LoggerNode, Noop
  <2>5. logger.default \in BOOLEAN /\ logger.name \in Seq(STRING)
    BY <2>3 DEF LoggerNode
  <2> HIDE DEF factory
  <2>6. PICK f, n, b : f = factory /\ n = logger.name /\ b = logger.default
    OBVIOUS
  <2>7. Register(n, f, b) /\ f \in FactoryType /\ b \in BOOLEAN /\ SoundFactory(f)'
        /\ n \in Seq(STRING)
    BY <2>1, <2>4, <2>5, <2>6 DEF SoundFactory
  <2>8. /\ objects' = objects
        /\ UNCHANGED <<loggers, factories, defaultFactory, defaultLogger, tracked>>
        /\ UNCHANGED <<clients, wasted, index, reloads, reload>> /\ config' = config
        /\ phase' = phase
    BY <2>1 DEF registry, setupVars, reloadVars
  <2> QED
    BY <1>3, <2>7, <2>8, RegisterStep
<1>5. ASSUME NEW isDefault \in BOOLEAN, RegisterLogger(isDefault)
      PROVE  IInv'
  <2> DEFINE logger == [level |-> 1, sink |-> <<"user">>]
             n == Len(objects) + 1
  <2>1. /\ phase' = "registering" /\ objects' = Append(objects, logger)
        /\ Register(<<"user">>, Answering(n), isDefault)
        /\ UNCHANGED <<loggers, factories, defaultFactory, defaultLogger, tracked>>
        /\ UNCHANGED <<clients, wasted, index>> /\ config' = config /\ UNCHANGED reloadVars
    BY <1>5 DEF RegisterLogger
  <2>2. logger \in LoggerType /\ logger.sink # Noop
    BY <1>2 DEF LoggerType, Off
  <2> HIDE DEF logger
  <2>3. /\ objects' \in Seq(LoggerType) /\ Len(objects') = n /\ objects'[n] = logger
        /\ \A id \in 1 .. Len(objects) : objects'[id] = objects[id]
    BY <1>1, <2>1, <2>2, AppendProperties, HeadTailAppend
  <2>4. /\ LoggersKept /\ n \in DOMAIN objects' /\ n \notin tracked
        /\ \A id \in DOMAIN objects' \ DOMAIN objects : objects'[id].sink # Noop
    BY <1>1, <2>2, <2>3 DEF LoggersKept
  <2>5. /\ Answering(n) \in FactoryType /\ Answering(n).kind = "same"
        /\ Answering(n).logger = n
    BY <1>1, <1>2 DEF Answering, FactoryType, NoLevel, Off
  <2>6. PICK f, m : f = Answering(n) /\ m = n
    OBVIOUS
  <2>7. SoundFactory(f)'
    BY <2>1, <2>2, <2>3, <2>4, <2>5, <2>6 DEF SoundFactory
  <2>8. Register(<<"user">>, f, isDefault) /\ f \in FactoryType
    BY <2>1, <2>5, <2>6
  <2>9. UNCHANGED <<clients, wasted, index, reloads, reload>>
    BY <2>1 DEF reloadVars
  <2> QED
    BY <1>2, <2>1, <2>4, <2>7, <2>8, <2>9, RegisterStep
<1>6. CASE SetDefaultLoggerFunc
  <2> DEFINE f == Making(2, <<"user">>)
  <2>1. /\ phase' = "registering" /\ Register(NoName, f, TRUE)
        /\ UNCHANGED <<registry, clients, wasted, index, config>> /\ UNCHANGED reloadVars
    BY <1>6 DEF SetDefaultLoggerFunc
  <2>2. f \in FactoryType /\ f.kind = "new" /\ f.sink # Noop
    BY <1>2 DEF Making, FactoryType, Off
  <2> HIDE DEF f
  <2>3. SoundFactory(f)'
    BY <2>2 DEF SoundFactory, f
  <2>4. /\ objects' = objects
        /\ UNCHANGED <<loggers, factories, defaultFactory, defaultLogger, tracked>>
        /\ UNCHANGED <<clients, wasted, index, reloads, reload>> /\ config' = config
    BY <2>1 DEF registry, reloadVars
  <2> QED
    BY <1>2, <1>3, <2>1, <2>2, <2>3, <2>4, RegisterStep DEF f, NoName, Noop
<1> QED
  BY <1>4, <1>5, <1>6

(* A logger that follows a default gets something from it: the sink, or    *)
(* the level when it has the sink.                                         *)
LEMMA FollowStep ==
  ASSUME IInv, job # NoJob, NEW f, f = job.factory,
         NEW id \in job.todo, NEW c \in LoggerType, c.sink = Template(f).sink,
         LoggerIsNow(objects', objects, id, c),
         NEW todo, NEW half, todo \subseteq job.todo, half = 0 \/ (half = id /\ id \in todo),
         id \in todo \/ c = Template(f), job.todo \subseteq todo \cup {id},
         job' = [kind |-> job.kind, name |-> job.name, factory |-> f, default |-> job.default,
                 todo |-> todo, half |-> half],
         UNCHANGED <<loggers, factories, defaultFactory, defaultLogger, tracked, clients, wasted>>,
         UNCHANGED <<setupVars, reloadVars>>
  PROVE  IInv'
<1>1. /\ TypeOK /\ FactoriesSound /\ UpdatesInOrder /\ Following /\ SilentWithoutSink
      /\ ConfigComplete /\ NoEventWasted
  BY DEF IInv
<1>2. /\ job \in JobType /\ f \in FactoryType /\ SoundFactory(f) /\ id \in tracked /\ job.default
      /\ job.todo \subseteq tracked /\ job.kind = "register"
  <2>1. job \in JobType
    BY <1>1 DEF TypeOK
  <2>2. job.todo \subseteq tracked /\ f \in FactoryType /\ job.kind = "register"
    BY <2>1 DEF JobType
  <2>3. SoundFactory(f)
    BY <1>1 DEF FactoriesSound
  <2>4. job.default
    BY <1>1 DEF UpdatesInOrder
  <2> QED
    BY <2>1, <2>2, <2>3, <2>4
<1>3. PICK t : t = Template(f)
  OBVIOUS
<1>4. t \in LoggerType /\ t.sink # Noop /\ c.sink = t.sink
  BY <1>1, <1>2, <1>3, TemplateOfSound
<1>5. objects \in Seq(LoggerType) /\ id \in DOMAIN objects /\ tracked \subseteq DOMAIN objects
  BY <1>1, <1>2 DEF TypeOK
<1>6. /\ objects' \in Seq(LoggerType) /\ DOMAIN objects' = DOMAIN objects
      /\ \A x \in DOMAIN objects : objects'[x] = IF x = id THEN c ELSE objects[x]
  BY DEF LoggerIsNow
<1>7. /\ job' # NoJob /\ job'.factory = f /\ job'.todo = todo /\ job'.half = half
      /\ job'.default = job.default /\ job' \in JobType'
  <2>1. todo \subseteq tracked' /\ half \in {0} \cup tracked'
    BY <1>2
  <2>2. job' \in JobType'
    BY <1>2, <2>1 DEF JobType
  <2>3. job' # NoJob
    BY <1>2 DEF NoJob
  <2> QED
    BY <2>2, <2>3
<1>8. /\ loggers' = loggers /\ factories' = factories /\ defaultFactory' = defaultFactory
      /\ defaultLogger' = defaultLogger /\ tracked' = tracked /\ at' = at /\ held' = held
      /\ wasted' = wasted /\ index' = index /\ config' = config /\ phase' = phase
      /\ reload' = reload /\ reloads' = reloads
  BY DEF clients, setupVars, reloadVars
<1>9. ASSUME NEW g, SoundFactory(g)
      PROVE  SoundFactory(g)' /\ Template(g)' = Template(g)
  <2>1. CASE g.kind = "same"
    <3>1. g.logger \in DOMAIN objects \ tracked /\ objects[g.logger].sink # Noop
      BY <1>9, <2>1 DEF SoundFactory
    <3>2. g.logger \in DOMAIN objects' \ tracked' /\ objects'[g.logger] = objects[g.logger]
      BY <1>2, <1>6, <1>8, <3>1
    <3> QED
      BY <2>1, <3>1, <3>2 DEF SoundFactory, Template
  <2>2. CASE g.kind # "same"
    BY <1>9, <2>2 DEF SoundFactory, Template
  <2> QED
    BY <2>1, <2>2
<1>10. TypeOK'
  BY <1>1, <1>6, <1>7, <1>8 DEF TypeOK
<1>11. FactoriesSound'
  <2>1. ASSUME NEW n \in DOMAIN factories
        PROVE  SoundFactory(factories[n])'
    <3>1. PICK g : g = factories[n]
      OBVIOUS
    <3>2. SoundFactory(g)'
      BY <1>1, <1>9, <3>1 DEF FactoriesSound
    <3> QED
      BY <1>8, <3>1, <3>2
  <2>2. defaultFactory' = Instantiator \/ SoundFactory(defaultFactory)'
    <3>1. PICK g : g = defaultFactory
      OBVIOUS
    <3>2. g = Instantiator \/ SoundFactory(g)'
      BY <1>1, <1>9, <3>1 DEF FactoriesSound
    <3> QED
      BY <1>8, <3>1, <3>2
  <2>3. SoundFactory(job.factory)'
    <3>1. SoundFactory(f)'
      BY <1>2, <1>9
    <3> QED
      BY <1>7, <3>1
  <2> QED
    BY <1>8, <2>1, <2>2, <2>3 DEF FactoriesSound
<1>12. Template(job.factory)' = t
  <2>1. Template(f)' = t
    BY <1>2, <1>3, <1>9
  <2> QED
    BY <1>7, <2>1
<1>13. UpdatesInOrder'
  BY <1>2, <1>4, <1>5, <1>6, <1>7, <1>12 DEF UpdatesInOrder
<1>14. Following'
  <2>1. reloads = 0 => \A x \in tracked \ job.todo : objects[x] = t
    BY <1>1, <1>2, <1>3 DEF Following
  <2>2. reloads' = 0 => \A x \in tracked' \ job'.todo : objects'[x] = Template(job.factory)'
    BY <1>3, <1>5, <1>6, <1>7, <1>8, <1>12, <2>1
  <2> QED
    BY <1>2, <1>7, <2>2 DEF Following
<1>15. SilentWithoutSink'
  <2>1. ASSUME NEW x \in DOMAIN objects', objects'[x].sink = Noop
        PROVE  x \in tracked' /\ (reloads' = 0 => objects'[x].level = Off)
    <3>1. x # id
      BY <1>4, <1>6, <2>1
    <3> QED
      BY <1>1, <1>6, <1>8, <2>1, <3>1 DEF SilentWithoutSink
  <2>2. ASSUME NEW k \in Clients, at'[k] = "logging"
        PROVE  held'[k] # 0 /\ (reloads' = 0 => objects'[held'[k]].sink # Noop)
    <3>1. held[k] # 0 /\ (reloads = 0 => objects[held[k]].sink # Noop)
      BY <1>1, <1>8, <2>2 DEF SilentWithoutSink
    <3>2. held[k] \in DOMAIN objects
      BY <1>1, <3>1 DEF TypeOK
    <3> QED
      BY <1>4, <1>6, <1>8, <3>1, <3>2
  <2> QED
    BY <2>1, <2>2 DEF SilentWithoutSink
<1>16. ConfigComplete' /\ NoEventWasted'
  BY <1>1, <1>8 DEF ConfigComplete, NoEventWasted
<1> QED
  BY <1>10, <1>11, <1>13, <1>14, <1>15, <1>16 DEF IInv

LEMMA UpdateStep ==
  ASSUME IInv, Update
  PROVE  IInv'
<1>1. TypeOK /\ FactoriesSound /\ UpdatesInOrder
  BY DEF IInv
<1>2. PICK f, t : f = job.factory /\ t = Template(f)
  OBVIOUS
<1>3. job.kind = "register" /\ UNCHANGED <<setupVars, reloadVars>>
      /\ UNCHANGED <<loggers, factories, defaultFactory, defaultLogger, tracked, clients, wasted>>
  BY DEF Update, UpdateSink, UpdateLevel
<1>4. /\ job # NoJob /\ job \in JobType /\ t \in LoggerType
      /\ objects \in Seq(LoggerType) /\ job.todo \subseteq DOMAIN objects
  <2>1. job # NoJob
    BY <1>3 DEF NoJob
  <2>2. job \in JobType
    BY <1>1, <2>1 DEF TypeOK
  <2>3. SoundFactory(f) /\ f \in FactoryType
    BY <1>1, <1>2, <2>1, <2>2 DEF FactoriesSound, JobType
  <2>4. t \in LoggerType
    BY <1>1, <1>2, <2>3, TemplateOfSound
  <2> QED
    BY <1>1, <2>1, <2>2, <2>4 DEF TypeOK, JobType
<1>5. CASE UpdateSink
  <2>1. PICK id \in job.todo :
          /\ objects' = [objects EXCEPT ![id].sink = t.sink]
          /\ job' = [job EXCEPT !.half = id]
    BY <1>2, <1>5 DEF UpdateSink
  <2>2. PICK c : c = [level |-> objects[id].level, sink |-> t.sink]
    OBVIOUS
  <2>3. objects[id] \in LoggerType /\ t.sink \in Seq(STRING) /\ id \in DOMAIN objects
    <3>1. id \in DOMAIN objects
      BY <1>4
    <3>2. objects[id] \in LoggerType
      BY <1>4, <3>1
    <3>3. t.sink \in Seq(STRING)
      BY <1>4 DEF LoggerType
    <3> QED
      BY <3>1, <3>2, <3>3
  <2>4. LoggerIsNow(objects', objects, id, c)
    BY <1>4, <2>1, <2>2, <2>3, SinkChanged, Zenon
  <2>5. c \in LoggerType /\ c.sink = Template(f).sink
    BY <1>2, <2>2, <2>3 DEF LoggerType
  <2>6. job' = [kind |-> job.kind, name |-> job.name, factory |-> f, default |-> job.default,
                todo |-> job.todo, half |-> id]
    BY <1>2, <1>4, <2>1, JobFields
  <2> QED
    BY <1>2, <1>3, <1>4, <2>4, <2>5, <2>6, FollowStep
<1>6. CASE UpdateLevel
  <2>1. PICK id : id = job.half
    OBVIOUS
  <2>2. /\ id # 0
        /\ objects' = [objects EXCEPT ![id].level = t.level]
        /\ job' = [job EXCEPT !.half = 0, !.todo = job.todo \ {id}]
    BY <1>2, <1>6, <2>1 DEF UpdateLevel
  <2>3. id \in job.todo /\ objects[id].sink = t.sink
    BY <1>1, <1>2, <1>4, <2>1, <2>2 DEF UpdatesInOrder
  <2>4. id \in DOMAIN objects /\ t.level \in 0 .. Off
    BY <1>4, <2>3 DEF LoggerType
  <2>5. LoggerIsNow(objects', objects, id, [level |-> t.level, sink |-> objects[id].sink])
    BY <1>4, <2>2, <2>4, LevelChanged, Zenon
  <2>6. [level |-> t.level, sink |-> objects[id].sink] = t
    BY <1>4, <2>3 DEF LoggerType
  <2>7. LoggerIsNow(objects', objects, id, t)
    BY <2>5, <2>6, Zenon
  <2>8. job' = [kind |-> job.kind, name |-> job.name, factory |-> f, default |-> job.default,
                todo |-> job.todo \ {id}, half |-> 0]
    BY <1>2, <1>4, <2>2, JobFields
  <2>9. PICK todo : todo = job.todo \ {id}
    OBVIOUS
  <2> QED
    BY <1>2, <1>3, <1>4, <2>3, <2>7, <2>8, <2>9, FollowStep
<1> QED
  BY <1>5, <1>6 DEF Update

(* The registration is done: a factory more, and perhaps a new default.    *)
LEMMA FinishStep ==
  ASSUME IInv, Finish
  PROVE  IInv'
<1>1. /\ TypeOK /\ FactoriesSound /\ UpdatesInOrder /\ Following /\ SilentWithoutSink
      /\ ConfigComplete /\ NoEventWasted
  BY DEF IInv
<1>2. PICK f : f = job.factory
  OBVIOUS
<1>3. /\ job.kind = "register" /\ job.todo = {} /\ job' = NoJob
      /\ defaultFactory' = IF job.default THEN f ELSE defaultFactory
      /\ factories' = factories \/ factories' = With(factories, job.name, f)
      /\ objects' = objects /\ loggers' = loggers /\ defaultLogger' = defaultLogger
      /\ tracked' = tracked /\ clients' = clients /\ wasted' = wasted
  BY <1>2 DEF Finish, FinishRegister
<1>4. job # NoJob /\ f \in FactoryType /\ SoundFactory(f) /\ job.default \in BOOLEAN
  <2>1. job # NoJob
    BY <1>3 DEF NoJob
  <2>2. job \in JobType
    BY <1>1, <2>1 DEF TypeOK
  <2> QED
    BY <1>1, <1>2, <2>1, <2>2 DEF FactoriesSound, JobType
<1>5. /\ at' = at /\ held' = held /\ reloads' = reloads /\ reload' = reload
      /\ index' \in {1, index, index + 1}
      /\ \/ config' = config /\ phase' = phase
         \/ config' = config /\ phase' = "idle"
         \/ config' = NoConfig /\ phase' = "failed"
  <2>1. at' = at /\ held' = held
    BY <1>3 DEF clients
  <2>2. reloads' = reloads /\ reload' = reload
    BY DEF Finish, reloadVars
  <2>3. IF phase = "registering" THEN phase' = "idle" /\ UNCHANGED <<index, config>>
        ELSE IF Inserted THEN index' = index + 1 /\ UNCHANGED <<phase, config>>
        ELSE Fail
    BY Zenon DEF Finish
  <2> QED
    BY <2>1, <2>2, <2>3 DEF Fail
<1>6. /\ \A n \in DOMAIN factories' : factories'[n] = f \/ (n \in DOMAIN factories /\ factories'[n] = factories[n])
      /\ defaultFactory' = f \/ defaultFactory' = defaultFactory
  BY <1>3 DEF With
<1>7. \A g : SoundFactory(g)' <=> SoundFactory(g)
  BY <1>3 DEF SoundFactory
<1>8. TypeOK'
  <2>1. \A n \in DOMAIN factories' : factories'[n] \in FactoryType
    BY <1>1, <1>4, <1>6 DEF TypeOK
  <2>2. defaultFactory' \in FactoryType
    BY <1>1, <1>4, <1>6 DEF TypeOK
  <2>3. index' \in Nat \ {0} /\ config'.loggers \in Seq(LoggerNode)
    <3>1. NoConfig.loggers \in Seq(LoggerNode)
      BY EmptySeq DEF NoConfig
    <3> QED
      BY <1>1, <1>5, <3>1 DEF TypeOK
  <2> QED
    BY <1>1, <1>3, <1>5, <2>1, <2>2, <2>3 DEF TypeOK
<1>9. FactoriesSound'
  <2>1. ASSUME NEW n \in DOMAIN factories'
        PROVE  SoundFactory(factories[n])'
    <3>1. PICK g : g = factories'[n]
      OBVIOUS
    <3>2. SoundFactory(g)
      BY <1>1, <1>4, <1>6, <3>1 DEF FactoriesSound
    <3> QED
      BY <1>7, <3>1, <3>2
  <2>2. defaultFactory' = Instantiator \/ SoundFactory(defaultFactory)'
    <3>1. PICK g : g = defaultFactory'
      OBVIOUS
    <3>2. g = Instantiator \/ SoundFactory(g)
      BY <1>1, <1>4, <1>6, <3>1 DEF FactoriesSound
    <3> QED
      BY <1>7, <3>1, <3>2
  <2> QED
    BY <1>3, <2>1, <2>2 DEF FactoriesSound
<1>10. UpdatesInOrder'
  BY <1>3 DEF UpdatesInOrder
<1>11. Following'
  <2>1. PICK g : g = defaultFactory'
    OBVIOUS
  <2>2. reloads = 0 /\ g # Instantiator => \A id \in tracked : objects[id] = Template(g)
    <3>1. CASE job.default
      BY <1>1, <1>2, <1>3, <1>4, <2>1, <3>1 DEF Following
    <3>2. CASE ~ job.default
      BY <1>1, <1>3, <1>4, <2>1, <3>2 DEF Following
    <3> QED
      BY <3>1, <3>2
  <2>3. Template(g)' = Template(g)
    BY <1>3 DEF Template
  <2> QED
    BY <1>3, <1>5, <2>1, <2>2, <2>3 DEF Following
<1>12. SilentWithoutSink' /\ NoEventWasted'
  BY <1>1, <1>3, <1>5 DEF SilentWithoutSink, NoEventWasted
<1>13. ConfigComplete'
  BY <1>1, <1>5 DEF ConfigComplete
<1> QED
  BY <1>8, <1>9, <1>10, <1>11, <1>12, <1>13 DEF IInv

(* A reload gives loggers another level, and leaves them their sinks.      *)
LEMMA ReloadLoggerStep ==
  ASSUME IInv, ReloadLogger
  PROVE  IInv'
<1>1. /\ TypeOK /\ FactoriesSound /\ UpdatesInOrder /\ SilentWithoutSink /\ ConfigComplete
  BY DEF IInv
<1> DEFINE logger == reload.toml.loggers[reload.index]
           matched == { loggers[n] : n \in DOMAIN loggers \cap Fragments(logger.name) }
<1>2. PICK level \in IF logger.level = NoLevel THEN Levels \cup {Off} ELSE {logger.level} :
        objects' = [id \in DOMAIN objects |->
                      IF id \in matched THEN [objects[id] EXCEPT !.level = level] ELSE objects[id]]
  BY DEF ReloadLogger
<1>3. /\ reload.kind = "reloading" /\ reload.index <= Len(reload.toml.loggers)
      /\ reload' = [reload EXCEPT !.index = @ + 1] /\ job = NoJob
      /\ UNCHANGED <<loggers, factories, defaultFactory, defaultLogger, tracked, job>>
      /\ UNCHANGED <<clients, wasted, index, config, phase, reloads>>
  BY DEF ReloadLogger, setupVars
<1>4. /\ reload.toml \in Configs /\ reload.index \in Nat \ {0} /\ reloads > 0 /\ reloads \in Nat
      /\ objects \in Seq(LoggerType)
  BY <1>1, <1>3 DEF TypeOK
<1>5. logger \in LoggerNode
  <2>1. reload.toml.loggers \in Seq(LoggerNode)
    BY <1>4, ConfigsAssumption
  <2> QED
    BY <1>3, <1>4, <2>1
<1>6. level \in 0 .. Off
  <2>1. logger.level \in 0 .. Off
    BY <1>5 DEF LoggerNode
  <2> QED
    BY <1>2, <2>1, LevelsAssumption DEF Off, NoLevel
<1> HIDE DEF matched, logger
<1>7. ASSUME NEW id \in DOMAIN objects
      PROVE  objects'[id] \in LoggerType /\ objects'[id].sink = objects[id].sink
  <2>1. objects[id] \in LoggerType
    BY <1>4
  <2>2. PICK l, s : objects[id] = [level |-> l, sink |-> s]
    BY <2>1, Zenon DEF LoggerType
  <2>3. [objects[id] EXCEPT !.level = level] = [level |-> level, sink |-> s]
    BY <2>2
  <2>4. objects'[id] \in {objects[id], [level |-> level, sink |-> s]}
    BY <1>2, <2>3
  <2>5. l \in 0 .. Off /\ s \in Seq(STRING)
    BY <2>1, <2>2 DEF LoggerType
  <2> QED
    BY <1>6, <2>1, <2>2, <2>4, <2>5 DEF LoggerType
<1>8. /\ objects' \in Seq(LoggerType) /\ DOMAIN objects' = DOMAIN objects
  <2>1. DOMAIN objects = 1 .. Len(objects) /\ Len(objects) \in Nat
    BY <1>4
  <2>2. DOMAIN objects' = 1 .. Len(objects) /\ objects' = [id \in 1 .. Len(objects) |-> objects'[id]]
    BY <1>2, <2>1
  <2>3. objects' \in [1 .. Len(objects) -> LoggerType]
    BY <1>7, <2>1, <2>2
  <2> QED
    BY <2>1, <2>2, <2>3, SeqDef
<1>9. reload'.kind = "reloading" =>
        reload'.toml \in Configs /\ reload'.index \in Nat \ {0} /\ reloads' > 0
  BY <1>3, <1>4
<1>10. at' = at /\ held' = held
  BY <1>3 DEF clients
<1>11. TypeOK'
  BY <1>1, <1>3, <1>8, <1>9, <1>10 DEF TypeOK
<1>12. \A g : SoundFactory(g) => SoundFactory(g)'
  BY <1>3, <1>7, <1>8 DEF SoundFactory
<1>13. FactoriesSound'
  BY <1>1, <1>3, <1>12 DEF FactoriesSound
<1>14. UpdatesInOrder' /\ Following' /\ NoEventWasted'
  BY <1>3, <1>4 DEF UpdatesInOrder, Following, NoEventWasted
<1>15. SilentWithoutSink'
  BY <1>1, <1>3, <1>4, <1>7, <1>8, <1>10 DEF SilentWithoutSink
<1>16. ConfigComplete'
  BY <1>1, <1>3 DEF ConfigComplete
<1> QED
  BY <1>11, <1>13, <1>14, <1>15, <1>16 DEF IInv


(* A factory answers a client that found no logger.                        *)
LEMMA CreateStep ==
  ASSUME IInv, job = NoJob, NEW c \in Clients, at[c] = "idle", NEW name, NEW f \in FactoryType,
         SoundFactory(f) \/ (f = Instantiator /\ defaultFactory = Instantiator),
         Create(c, name, f),
         UNCHANGED <<factories, defaultFactory, defaultLogger, job, at, wasted>>,
         UNCHANGED <<setupVars, reloadVars>>
  PROVE  IInv'
<1>1. /\ TypeOK /\ FactoriesSound /\ UpdatesInOrder /\ Following /\ SilentWithoutSink
      /\ ConfigComplete /\ NoEventWasted
  BY DEF IInv
<1>2. /\ objects \in Seq(LoggerType) /\ Len(objects) \in Nat /\ DOMAIN objects = 1 .. Len(objects)
      /\ tracked \subseteq DOMAIN objects /\ held \in [Clients -> {0} \cup DOMAIN objects]
  BY <1>1 DEF TypeOK
<1> DEFINE id == IF f.kind = "same" THEN f.logger ELSE Len(objects) + 1
           logger == [level |-> f.level, sink |-> f.sink]
<1>3. /\ IF f.kind = "same" THEN objects' = objects ELSE objects' = Append(objects, logger)
      /\ tracked' = IF f.kind = "instantiator" THEN tracked \cup {id} ELSE tracked
      /\ loggers' = With(loggers, name, id)
      /\ held' = [held EXCEPT ![c] = id]
  BY DEF Create
<1>4. /\ index' = index /\ config' = config /\ phase' = phase
      /\ reload' = reload /\ reloads' = reloads
  BY DEF setupVars, reloadVars
<1>5. logger \in LoggerType
  BY DEF LoggerType, FactoryType
<1> HIDE DEF logger
<1>6. /\ LoggersKept /\ id \in DOMAIN objects'
      /\ \A x \in DOMAIN objects' \ DOMAIN objects :
           x = id /\ objects'[x] = logger /\ f.kind # "same"
  <2>1. CASE f.kind = "same"
    <3>1. f.logger \in DOMAIN objects
      BY <2>1 DEF SoundFactory, Instantiator
    <3> QED
      BY <1>2, <1>3, <2>1, <3>1 DEF LoggersKept
  <2>2. CASE f.kind # "same"
    <3>1. /\ objects' \in Seq(LoggerType) /\ Len(objects') = Len(objects) + 1
          /\ \A x \in 1 .. Len(objects) : objects'[x] = objects[x]
          /\ objects'[Len(objects) + 1] = logger
      BY <1>2, <1>3, <1>5, <2>2, AppendProperties, HeadTailAppend
    <3> QED
      BY <1>2, <2>2, <3>1 DEF LoggersKept
  <2> QED
    BY <2>1, <2>2
<1>7. /\ tracked \subseteq tracked' /\ tracked' \subseteq DOMAIN objects'
      /\ tracked' \cap DOMAIN objects \subseteq tracked
      /\ f # Instantiator => tracked' = tracked
      /\ f.kind = "instantiator" <=> f = Instantiator
  <2>1. f.kind = "instantiator" <=> f = Instantiator
    BY DEF SoundFactory, Instantiator
  <2>2. f = Instantiator => id = Len(objects) + 1
    BY DEF Instantiator
  <2> HIDE DEF id
  <2> QED
    BY <1>2, <1>3, <1>6, <2>1, <2>2 DEF LoggersKept
<1> HIDE DEF id
<1>8. TypeOK'
  <2>1. \A n \in DOMAIN loggers' : loggers'[n] \in DOMAIN objects'
    BY <1>1, <1>3, <1>6 DEF TypeOK, With, LoggersKept
  <2>2. held' \in [Clients -> {0} \cup DOMAIN objects']
    BY <1>2, <1>3, <1>6 DEF LoggersKept
  <2>3. objects' \in Seq(LoggerType)
    BY <1>6 DEF LoggersKept
  <2> QED
    BY <1>1, <1>4, <1>7, <2>1, <2>2, <2>3 DEF TypeOK
<1>9. ASSUME NEW g, SoundFactory(g)
      PROVE  SoundFactory(g)'
  BY <1>6, <1>7, <1>9, SoundKept
<1>10. FactoriesSound'
  <2>1. ASSUME NEW n \in DOMAIN factories
        PROVE  SoundFactory(factories[n])'
    <3>1. PICK g : g = factories[n]
      OBVIOUS
    <3>2. SoundFactory(g)'
      BY <1>1, <1>9, <3>1 DEF FactoriesSound
    <3> QED
      BY <3>1, <3>2
  <2>2. defaultFactory' = Instantiator \/ SoundFactory(defaultFactory)'
    <3>1. PICK g : g = defaultFactory
      OBVIOUS
    <3>2. g = Instantiator \/ SoundFactory(g)'
      BY <1>1, <1>9, <3>1 DEF FactoriesSound
    <3> QED
      BY <3>1, <3>2
  <2> QED
    BY <2>1, <2>2 DEF FactoriesSound
<1>11. UpdatesInOrder'
  BY DEF UpdatesInOrder
<1>12. Following'
  <2>1. PICK g : g = defaultFactory
    OBVIOUS
  <2>2. CASE g # Instantiator
    <3>1. g \in FactoryType /\ SoundFactory(g)
      BY <1>1, <2>1, <2>2 DEF TypeOK, FactoriesSound
    <3>2. Template(g)' = Template(g)
      BY <1>6, <3>1, TemplateKept
    <3>3. tracked' = tracked
      <4>1. f # Instantiator
        BY <2>1, <2>2 DEF SoundFactory, Instantiator
      <4> QED
        BY <1>7, <4>1
    <3>4. reloads = 0 => \A x \in tracked : objects[x] = Template(g)
      BY <1>1, <2>1, <2>2 DEF Following
    <3>5. reloads' = 0 => \A x \in tracked' : objects'[x] = Template(g)'
      BY <1>2, <1>4, <1>6, <3>2, <3>3, <3>4 DEF LoggersKept
    <3>6. Template(defaultFactory)' = Template(g)'
      BY <2>1
    <3> QED
      BY <3>5, <3>6 DEF Following
  <2>3. CASE g = Instantiator
    BY <2>1, <2>3 DEF Following
  <2> QED
    BY <2>2, <2>3
<1>13. SilentWithoutSink'
  <2>1. ASSUME NEW x \in DOMAIN objects', objects'[x].sink = Noop
        PROVE  x \in tracked' /\ (reloads' = 0 => objects'[x].level = Off)
    <3>1. CASE x \in DOMAIN objects
      BY <1>1, <1>4, <1>6, <1>7, <2>1, <3>1 DEF SilentWithoutSink, LoggersKept
    <3>2. CASE x \notin DOMAIN objects
      <4>1. x = id /\ objects'[x] = logger /\ f.kind # "same"
        BY <1>6, <3>2
      <4>2. f.sink = Noop
        BY <2>1, <4>1 DEF logger
      <4>3. f = Instantiator
        BY <4>1, <4>2 DEF SoundFactory
      <4>4. x \in tracked'
        BY <1>3, <1>7, <4>1, <4>3
      <4>5. objects'[x].level = Off
        BY <4>1, <4>3 DEF logger, Instantiator
      <4> QED
        BY <4>4, <4>5
    <3> QED
      BY <3>1, <3>2
  <2>2. ASSUME NEW k \in Clients, at'[k] = "logging"
        PROVE  held'[k] # 0 /\ (reloads' = 0 => objects'[held'[k]].sink # Noop)
    <3>1. held'[k] = held[k]
      BY <1>2, <1>3, <2>2
    <3>2. held[k] # 0 /\ (reloads = 0 => objects[held[k]].sink # Noop)
      BY <1>1, <2>2 DEF SilentWithoutSink
    <3>3. held[k] \in DOMAIN objects
      BY <1>2, <3>2
    <3> QED
      BY <1>4, <1>6, <3>1, <3>2, <3>3 DEF LoggersKept
  <2> QED
    BY <2>1, <2>2 DEF SilentWithoutSink
<1>14. ConfigComplete' /\ NoEventWasted'
  BY <1>1, <1>4 DEF ConfigComplete, NoEventWasted
<1> QED
  BY <1>8, <1>10, <1>11, <1>12, <1>13, <1>14 DEF IInv

(* A step of the clients only.                                             *)
LEMMA ClientStep ==
  ASSUME IInv, UNCHANGED <<registry, job>>, UNCHANGED <<setupVars, reloadVars>>,
         held' \in [Clients -> {0} \cup DOMAIN objects],
         at' \in [Clients -> {"idle", "logging", "free"}], wasted' \in BOOLEAN,
         \A k \in Clients : at'[k] = "logging" =>
           held'[k] # 0 /\ (reloads = 0 => objects[held'[k]].sink # Noop),
         wasted' => reloads > 0
  PROVE  IInv'
<1>1. /\ TypeOK /\ FactoriesSound /\ UpdatesInOrder /\ Following /\ SilentWithoutSink
      /\ ConfigComplete
  BY DEF IInv
<1>2. /\ objects' = objects /\ loggers' = loggers /\ factories' = factories
      /\ defaultFactory' = defaultFactory /\ defaultLogger' = defaultLogger
      /\ tracked' = tracked /\ job' = job
      /\ index' = index /\ config' = config /\ phase' = phase
      /\ reload' = reload /\ reloads' = reloads
  BY DEF registry, setupVars, reloadVars
<1>3. TypeOK'
  BY <1>1, <1>2 DEF TypeOK, JobType
<1>4. FactoriesSound'
  BY <1>1, <1>2 DEF FactoriesSound, SoundFactory
<1>5. UpdatesInOrder'
  BY <1>1, <1>2 DEF UpdatesInOrder, Template
<1>6. Following'
  BY <1>1, <1>2 DEF Following, Template
<1>7. SilentWithoutSink'
  BY <1>1, <1>2 DEF SilentWithoutSink
<1>8. ConfigComplete' /\ NoEventWasted'
  BY <1>1, <1>2 DEF ConfigComplete, NoEventWasted
<1> QED
  BY <1>3, <1>4, <1>5, <1>6, <1>7, <1>8 DEF IInv

(* A client gets a logger: the nearest there is, or one that a factory     *)
(* makes or answers.                                                       *)
LEMMA GetStep ==
  ASSUME IInv, NEW c \in Clients, NEW name \in Names, Get(c, name),
         UNCHANGED <<setupVars, reloadVars>>
  PROVE  IInv'
<1>1. TypeOK /\ FactoriesSound /\ SilentWithoutSink /\ NoEventWasted
  BY DEF IInv
<1>2. /\ at[c] = "idle" /\ job = NoJob /\ Find(c, name)
      /\ UNCHANGED <<factories, defaultFactory, defaultLogger, job, at, wasted>>
  BY DEF Get
<1>3. name \in Seq(STRING)
  BY NamesAssumption
<1> DEFINE known == { f \in Fragments(name) : f \in DOMAIN loggers \cup DOMAIN factories }
           nearest == CHOOSE f \in known : \A g \in known : Len(g) <= Len(f)
<1>4. IF known = {} THEN Create(c, name, defaultFactory)
      ELSE IF nearest \in DOMAIN loggers THEN Answer(c, loggers[nearest])
      ELSE Create(c, name, factories[nearest])
  BY <1>2, Zenon DEF Find
<1>5. known # {} => nearest \in known
  BY <1>3, LongestFound
<1>6. nearest \in known => nearest \in DOMAIN loggers \/ nearest \in DOMAIN factories
  OBVIOUS
<1> HIDE DEF nearest, known
<1>7. CASE known # {} /\ nearest \in DOMAIN loggers
  <2>1. Answer(c, loggers[nearest])
    BY <1>4, <1>7
  <2>2. /\ held' = [held EXCEPT ![c] = loggers[nearest]]
        /\ objects' = objects /\ loggers' = loggers /\ tracked' = tracked
    BY <2>1 DEF Answer
  <2>3. held' \in [Clients -> {0} \cup DOMAIN objects]
    BY <1>1, <1>7, <2>2 DEF TypeOK
  <2>4. \A k \in Clients : at'[k] = "logging" =>
          held'[k] # 0 /\ (reloads = 0 => objects[held'[k]].sink # Noop)
    BY <1>1, <1>2, <2>2 DEF SilentWithoutSink, TypeOK
  <2>5. UNCHANGED <<registry, job>>
    BY <1>2, <2>2 DEF registry
  <2>6. /\ at' \in [Clients -> {"idle", "logging", "free"}] /\ wasted' \in BOOLEAN
        /\ wasted' => reloads > 0
    BY <1>1, <1>2 DEF TypeOK, NoEventWasted
  <2> QED
    BY <2>3, <2>4, <2>5, <2>6, ClientStep
<1>8. CASE known # {} /\ nearest \notin DOMAIN loggers
  <2>1. PICK f : f = factories[nearest]
    OBVIOUS
  <2>2. Create(c, name, f) /\ nearest \in DOMAIN factories
    BY <1>4, <1>5, <1>6, <1>8, <2>1
  <2>3. f \in FactoryType /\ SoundFactory(f)
    BY <1>1, <2>1, <2>2 DEF TypeOK, FactoriesSound
  <2> QED
    BY <1>2, <2>2, <2>3, CreateStep
<1>9. CASE known = {}
  <2>1. PICK f : f = defaultFactory
    OBVIOUS
  <2>2. Create(c, name, f)
    BY <1>4, <1>9, <2>1
  <2>3. f \in FactoryType /\ (SoundFactory(f) \/ (f = Instantiator /\ defaultFactory = Instantiator))
    BY <1>1, <2>1 DEF TypeOK, FactoriesSound
  <2> QED
    BY <1>2, <2>2, <2>3, CreateStep
<1> QED
  BY <1>7, <1>8, <1>9

(* Logging: an event passes only the level of a logger that has a sink.    *)
LEMMA LogSteps ==
  ASSUME IInv, NEW c \in Clients,
         BeginLog(c) \/ FinishLog(c) \/ FetchDefault(c) \/ LogToDefault(c),
         UNCHANGED <<setupVars, reloadVars>>
  PROVE  IInv'
<1>1. TypeOK /\ SilentWithoutSink /\ NoEventWasted
  BY DEF IInv
<1>2. /\ objects \in Seq(LoggerType) /\ held \in [Clients -> {0} \cup DOMAIN objects]
      /\ at \in [Clients -> {"idle", "logging", "free"}] /\ wasted \in BOOLEAN
      /\ defaultLogger = 0 /\ reloads \in Nat
  BY <1>1 DEF TypeOK
<1>3. UNCHANGED <<registry, job>> /\ held' = held
  <2>1. CASE BeginLog(c)
    BY <2>1 DEF BeginLog
  <2>2. CASE FinishLog(c)
    BY <2>2 DEF FinishLog
  <2>3. CASE FetchDefault(c)
    BY <2>3 DEF FetchDefault
  <2>4. CASE LogToDefault(c)
    BY <2>4 DEF LogToDefault
  <2> QED
    BY <2>1, <2>2, <2>3, <2>4
<1>4. ASSUME NEW where \in {"idle", "free"}, at' = [at EXCEPT ![c] = where],
             wasted' \in BOOLEAN, wasted' => reloads > 0
      PROVE  IInv'
  <2>1. \A k \in Clients : at'[k] = "logging" =>
          held'[k] # 0 /\ (reloads = 0 => objects[held'[k]].sink # Noop)
    BY <1>1, <1>2, <1>3, <1>4 DEF SilentWithoutSink
  <2>2. at' \in [Clients -> {"idle", "logging", "free"}]
    BY <1>2, <1>4
  <2> QED
    BY <1>2, <1>3, <1>4, <2>1, <2>2, ClientStep
<1>5. CASE BeginLog(c)
  <2>1. /\ held[c] # 0 /\ at' = [at EXCEPT ![c] = "logging"] /\ wasted' = wasted
        /\ \E level \in Levels : level >= objects[held[c]].level
    BY <1>5 DEF BeginLog
  <2>2. held[c] \in DOMAIN objects
    BY <1>2, <2>1
  <2>3. objects[held[c]] \in LoggerType
    BY <1>2, <2>2
  <2>4. objects[held[c]].level \in 0 .. Off
    BY <2>3 DEF LoggerType
  <2>5. objects[held[c]].level # Off
    BY <2>1, <2>4, LevelsAssumption DEF Off
  <2>6. reloads = 0 => objects[held[c]].sink # Noop
    BY <1>1, <2>2, <2>5 DEF SilentWithoutSink
  <2>7. \A k \in Clients : at'[k] = "logging" =>
          held'[k] # 0 /\ (reloads = 0 => objects[held'[k]].sink # Noop)
    BY <1>1, <1>2, <1>3, <2>1, <2>6 DEF SilentWithoutSink
  <2>8. /\ at' \in [Clients -> {"idle", "logging", "free"}] /\ wasted' \in BOOLEAN
        /\ wasted' => reloads > 0
    BY <1>1, <1>2, <2>1 DEF NoEventWasted
  <2> QED
    BY <1>2, <1>3, <2>7, <2>8, ClientStep
<1>6. CASE FinishLog(c)
  <2>1. /\ at[c] = "logging" /\ at' = [at EXCEPT ![c] = "idle"]
        /\ wasted' = (wasted \/ objects[held[c]].sink = Noop)
    BY <1>6 DEF FinishLog
  <2>2. reloads = 0 => objects[held[c]].sink # Noop
    BY <1>1, <2>1 DEF SilentWithoutSink
  <2>3. wasted' \in BOOLEAN /\ (wasted' => reloads > 0)
    BY <1>1, <1>2, <2>1, <2>2 DEF NoEventWasted
  <2> QED
    BY <1>4, <2>1, <2>3
<1>7. CASE FetchDefault(c)
  <2>1. at' = [at EXCEPT ![c] = "free"] /\ wasted' = wasted
    BY <1>7 DEF FetchDefault
  <2> QED
    BY <1>1, <1>2, <1>4, <2>1 DEF NoEventWasted
<1>8. CASE LogToDefault(c)
  <2>1. /\ at' = [at EXCEPT ![c] = "idle"]
        /\ wasted' = (wasted \/ (defaultLogger # 0 /\ objects[defaultLogger].sink = Noop))
    BY <1>8 DEF LogToDefault
  <2>2. wasted' = wasted
    BY <1>2, <2>1
  <2> QED
    BY <1>1, <1>2, <1>4, <2>1, <2>2 DEF NoEventWasted
<1> QED
  BY <1>5, <1>6, <1>7, <1>8


LEMMA StepIInv == IInv /\ [Next]_vars => IInv'
<1> SUFFICES ASSUME IInv, [Next]_vars
             PROVE  IInv'
  OBVIOUS
<1>1. CASE Setup
  <2>1. CASE ConfigureSink \/ SinksConfigured \/ LoggersConfigured
    BY <2>1, SinkSteps
  <2>2. CASE ConfigureLogger
    BY <2>2, RegisterSteps
  <2>3. CASE Update
    BY <2>3, UpdateStep
  <2>4. CASE Finish
    BY <2>4, FinishStep
  <2> QED
    BY <1>1, <2>1, <2>2, <2>3, <2>4 DEF Setup
<1>2. CASE NewSetup
  <2>1. ASSUME NEW toml \in Configs, Configure(toml)
        PROVE  IInv'
    BY <2>1, ConfigureStep
  <2>2. CASE \E isDefault \in BOOLEAN : RegisterLogger(isDefault)
    BY <2>2, RegisterSteps
  <2>3. CASE SetDefaultLoggerFunc
    BY <2>3, RegisterSteps
  <2> QED
    BY <1>2, <2>1, <2>2, <2>3 DEF NewSetup
<1>3. CASE Watch
  <2>1. CASE Reloaded \/ \E toml \in Configs : Reload(toml)
    BY <2>1, WatchSteps
  <2>2. CASE ReloadLogger
    BY <2>2, ReloadLoggerStep
  <2> QED
    BY <1>3, <2>1, <2>2 DEF Watch
<1>4. ASSUME NEW c \in Clients, Client(c)
      PROVE  IInv'
  <2>1. UNCHANGED <<setupVars, reloadVars>>
    BY <1>4 DEF Client
  <2>2. ASSUME NEW name \in Names, Get(c, name)
        PROVE  IInv'
    BY <2>1, <2>2, GetStep
  <2>3. CASE BeginLog(c) \/ FinishLog(c) \/ FetchDefault(c) \/ LogToDefault(c)
    BY <2>1, <2>3, LogSteps
  <2> QED
    BY <1>4, <2>2, <2>3 DEF Client
<1>5. CASE UNCHANGED vars
  <2>1. /\ UNCHANGED <<registry, job, clients, wasted>> /\ UNCHANGED <<setupVars, reloadVars>>
    BY <1>5 DEF vars
  <2>2. index' = index /\ config' = config /\ phase' = phase /\ reload' = reload /\ reloads' = reloads
    BY <2>1 DEF setupVars, reloadVars
  <2>3. ConfigComplete'
    BY <2>2 DEF IInv, ConfigComplete
  <2> QED
    BY <2>1, <2>2, <2>3, QuietStep DEF IInv, TypeOK
<1> QED
  BY <1>1, <1>2, <1>3, <1>4, <1>5 DEF Next

-----------------------------------------------------------------------------
(***************************************************************************)
(* What the hierarchy in a file gives a name, and that prepareLoggers      *)
(* finds it.                                                               *)
(***************************************************************************)

(* A fragment is what a name begins with.                                  *)
LEMMA FragmentIff ==
  ASSUME NEW name \in Seq(STRING), NEW f
  PROVE  f \in Fragments(name) <=> /\ f \in Seq(STRING)
                                   /\ Len(f) \in 1 .. Len(name)
                                   /\ \A j \in 1 .. Len(f) : f[j] = name[j]
<1>1. /\ Len(name) \in Nat /\ \A j \in 1 .. Len(name) : name[j] \in STRING
  OBVIOUS
<1>2. ASSUME NEW i \in 0 .. Len(name) - 1
      PROVE  /\ Fragment(name, i) \in Seq(STRING) /\ Len(Fragment(name, i)) = Len(name) - i
             /\ \A j \in 1 .. Len(name) - i : Fragment(name, i)[j] = name[j]
  <2>1. Len(name) - i \in Nat /\ 1 <= Len(name) - i + 1 /\ Len(name) - i <= Len(name)
    BY <1>1
  <2>2. \A j \in 1 .. Len(name) - i : name[j] \in STRING
    BY <1>1, <2>1
  <2>3. /\ SubSeq(name, 1, Len(name) - i) \in Seq(STRING)
        /\ Len(SubSeq(name, 1, Len(name) - i)) = Len(name) - i - 1 + 1
        /\ \A j \in 1 .. Len(name) - i - 1 + 1 :
             SubSeq(name, 1, Len(name) - i)[j] = name[1 + j - 1]
    BY <2>1, <2>2, Part
  <2> QED
    BY <1>1, <2>1, <2>3 DEF Fragment
<1>3. ASSUME f \in Fragments(name)
      PROVE  /\ f \in Seq(STRING) /\ Len(f) \in 1 .. Len(name)
             /\ \A j \in 1 .. Len(f) : f[j] = name[j]
  <2>1. PICK i \in 0 .. Len(name) - 1 : f = Fragment(name, i)
    BY <1>3 DEF Fragments
  <2>2. /\ f \in Seq(STRING) /\ Len(f) = Len(name) - i
        /\ \A j \in 1 .. Len(name) - i : f[j] = name[j]
    BY <1>2, <2>1, Zenon
  <2> QED
    BY <1>1, <2>1, <2>2
<1>4. ASSUME f \in Seq(STRING), Len(f) \in 1 .. Len(name), \A j \in 1 .. Len(f) : f[j] = name[j]
      PROVE  f \in Fragments(name)
  <2> DEFINE i == Len(name) - Len(f)
  <2>1. i \in 0 .. Len(name) - 1 /\ Len(name) - i = Len(f) /\ Len(f) \in Nat
    BY <1>1, <1>4
  <2> HIDE DEF i
  <2>2. /\ Fragment(name, i) \in Seq(STRING) /\ Len(Fragment(name, i)) = Len(f)
        /\ \A j \in 1 .. Len(f) : Fragment(name, i)[j] = f[j]
    BY <1>2, <1>4, <2>1
  <2>3. Fragment(name, i) = f
    BY <1>4, <2>1, <2>2, SeqEqual
  <2> QED
    BY <2>1, <2>3 DEF Fragments
<1> QED
  BY <1>3, <1>4

LEMMA FragmentsNested ==
  ASSUME NEW name \in Seq(STRING), NEW f \in Fragments(name)
  PROVE  /\ \A g : g \in Fragments(f) <=> g \in Fragments(name) /\ Len(g) <= Len(f)
         /\ f \in Fragments(f)
         /\ Len(f) = Len(name) => f = name
<1>1. /\ f \in Seq(STRING) /\ Len(f) \in 1 .. Len(name) /\ Len(name) \in Nat
      /\ \A j \in 1 .. Len(f) : f[j] = name[j]
  BY FragmentIff
<1>2. ASSUME NEW g
      PROVE  g \in Fragments(f) <=> g \in Fragments(name) /\ Len(g) <= Len(f)
  <2>1. g \in Fragments(f) <=> /\ g \in Seq(STRING) /\ Len(g) \in 1 .. Len(f)
                               /\ \A j \in 1 .. Len(g) : g[j] = f[j]
    BY <1>1, FragmentIff
  <2>2. g \in Fragments(name) <=> /\ g \in Seq(STRING) /\ Len(g) \in 1 .. Len(name)
                                  /\ \A j \in 1 .. Len(g) : g[j] = name[j]
    BY FragmentIff
  <2>3. Len(g) \in Nat /\ Len(g) <= Len(f) => \A j \in 1 .. Len(g) : f[j] = name[j]
    BY <1>1
  <2> QED
    BY <1>1, <2>1, <2>2, <2>3
<1>3. f \in Fragments(f)
  BY <1>1, <1>2
<1>4. Len(f) = Len(name) => f = name
  BY <1>1, SeqEqual
<1> QED
  BY <1>2, <1>3, <1>4

LEMMA WholeIsFragment ==
  ASSUME NEW name \in Seq(STRING), name # <<>>
  PROVE  name \in Fragments(name)
<1>1. Len(name) \in Nat \ {0}
  BY EmptySeq
<1> QED
  BY <1>1, FragmentIff

(* Of some loggers, the one with the longest name.                         *)
Longest(ls, S) == CHOOSE i \in S : \A j \in S : Len(ls[j].name) <= Len(ls[i].name)

(* What a logger has of a field.                                           *)
Value(logger, field) == IF field = "level" THEN logger.level ELSE logger.sinks

(* Names that identify.                                                    *)
Distinct(ls) ==
  /\ ls \in Seq(LoggerNode)
  /\ \A i \in DOMAIN ls : ls[i].name # <<>>
  /\ \A i, j \in DOMAIN ls : ls[i].name = ls[j].name => i = j

LEMMA NodeNames ==
  ASSUME NEW ls, Distinct(ls)
  PROVE  /\ Len(ls) \in Nat /\ DOMAIN ls = 1 .. Len(ls) /\ DOMAIN ls \subseteq Nat \ {0}
         /\ \A i \in DOMAIN ls : /\ ls[i] \in LoggerNode /\ ls[i].name \in Seq(STRING)
                                 /\ Len(ls[i].name) \in Nat
                                 /\ ls[i].name \in Fragments(ls[i].name)
<1>1. ls \in Seq(LoggerNode)
  BY DEF Distinct
<1>2. Len(ls) \in Nat /\ DOMAIN ls = 1 .. Len(ls) /\ DOMAIN ls \subseteq Nat \ {0}
  BY <1>1
<1>3. ASSUME NEW i \in DOMAIN ls
      PROVE  /\ ls[i] \in LoggerNode /\ ls[i].name \in Seq(STRING) /\ Len(ls[i].name) \in Nat
             /\ ls[i].name \in Fragments(ls[i].name)
  <2>1. ls[i] \in LoggerNode
    BY <1>1
  <2>2. ls[i].name \in Seq(STRING) /\ ls[i].name # <<>>
    BY <2>1 DEF LoggerNode, Distinct
  <2> QED
    BY <2>1, <2>2, WholeIsFragment
<1> QED
  BY <1>2, <1>3

(* The longest is there.                                                   *)
LEMMA LongestIn ==
  ASSUME NEW ls, Distinct(ls), NEW name \in Seq(STRING), NEW field,
         NearestGiven(ls, name, field) # {}
  PROVE  LET S == NearestGiven(ls, name, field)
         IN /\ Longest(ls, S) \in S
            /\ \A j \in S : Len(ls[j].name) <= Len(ls[Longest(ls, S)].name)
<1> DEFINE S == NearestGiven(ls, name, field)
           T == { Len(ls[j].name) : j \in S }
<1>1. Len(name) \in Nat /\ S # {}
  OBVIOUS
<1>2. \A j \in S : Len(ls[j].name) \in 0 .. Len(name)
  BY FragmentIff DEF NearestGiven
<1> HIDE DEF S
<1>3. T \subseteq 0 .. Len(name) /\ T # {}
  BY <1>1, <1>2
<1>4. PICK m \in T : \A k \in T : k <= m
  BY <1>1, <1>3, Greatest
<1>5. PICK i \in S : m = Len(ls[i].name)
  OBVIOUS
<1>6. i \in S /\ \A j \in S : Len(ls[j].name) <= Len(ls[i].name)
  BY <1>4, <1>5
<1>7. /\ Longest(ls, S) \in S
      /\ \A j \in S : Len(ls[j].name) <= Len(ls[Longest(ls, S)].name)
  BY <1>6, Zenon DEF Longest
<1> QED
  BY <1>7 DEF S

LEMMA GivenIs ==
  ASSUME NEW ls, NEW name, NEW field
  PROVE  LET own     == NearestGiven(ls, name, field)
             default == IF DefaultOf(ls) = 0 THEN {}
                        ELSE NearestGiven(ls, ls[DefaultOf(ls)].name, field)
         IN Given(ls, name, field) =
              IF own # {} THEN Longest(ls, own)
              ELSE IF default # {} THEN Longest(ls, default) ELSE 0
BY DEF Given, Longest

(* Who has a field is not given another.                                   *)
LEMMA GivenOwn ==
  ASSUME NEW ls, Distinct(ls), NEW i \in DOMAIN ls, NEW field, Has(ls[i], field)
  PROVE  Given(ls, ls[i].name, field) = i
<1> DEFINE own == NearestGiven(ls, ls[i].name, field)
           k == Longest(ls, own)
<1>1. ls[i].name \in Seq(STRING) /\ ls[i].name \in Fragments(ls[i].name)
  BY NodeNames
<1>2. i \in own
  BY <1>1 DEF NearestGiven
<1>3. k \in own /\ Len(ls[i].name) <= Len(ls[k].name)
  BY <1>1, <1>2, LongestIn
<1>4. k \in DOMAIN ls /\ ls[k].name \in Fragments(ls[i].name)
  BY <1>3 DEF NearestGiven
<1> HIDE DEF k
<1>5. Len(ls[k].name) \in Nat /\ Len(ls[i].name) \in Nat /\ Len(ls[k].name) <= Len(ls[i].name)
  BY <1>1, <1>4, NodeNames, FragmentIff
<1>6. ls[k].name = ls[i].name
  BY <1>1, <1>3, <1>4, <1>5, FragmentsNested
<1>7. k = i
  BY <1>4, <1>6 DEF Distinct
<1> QED
  BY <1>2, <1>7, GivenIs DEF k

(* What a search for the parent finds.                                     *)
LEMMA ParentFound ==
  ASSUME NEW ls, Distinct(ls), NEW i \in DOMAIN ls
  PROVE  LET names == ProperFragments(ls[i].name)
             j == FindParent(ls, i)
         IN IF \E k \in DOMAIN ls : ls[k].name \in names
            THEN /\ j \in DOMAIN ls /\ ls[j].name \in names
                 /\ \A k \in DOMAIN ls : ls[k].name \in names => Len(ls[k].name) <= Len(ls[j].name)
            ELSE j = DefaultOf(ls)
<1> DEFINE names == ProperFragments(ls[i].name)
           S == { k \in DOMAIN ls : ls[k].name \in names }
<1>1. DOMAIN ls \subseteq Nat /\ ls[i].name \in Seq(STRING) /\ Len(ls[i].name) \in Nat
  BY NodeNames
<1>2. CASE \E k \in DOMAIN ls : ls[k].name \in names
  <2> DEFINE L == { Len(ls[k].name) : k \in S }
             length == Max(L)
             T == { k \in DOMAIN ls : ls[k].name \in names /\ Len(ls[k].name) = length }
  <2>1. L \subseteq 0 .. Len(ls[i].name)
    BY <1>1, FragmentIsName DEF ProperFragments
  <2>2. L # {}
    BY <1>2
  <2>3. length \in L /\ \A x \in L : x <= length
    BY <1>1, <2>1, <2>2, MaxIn
  <2>4. T # {} /\ T \subseteq Nat
    BY <1>1, <2>3
  <2>5. Min(T) \in T
    BY <2>4, MinIn
  <2>6. FindParent(ls, i) = Min(T)
    BY <1>2 DEF FindParent, Nearest
  <2>7. \A k \in DOMAIN ls : ls[k].name \in names => Len(ls[k].name) <= length
    BY <2>3
  <2> QED
    BY <1>2, <2>5, <2>6, <2>7
<1>3. CASE ~ \E k \in DOMAIN ls : ls[k].name \in names
  BY <1>3 DEF FindParent
<1> QED
  BY <1>2, <1>3

(* Who lacks a field is given that of the parent.                          *)
LEMMA GivenOfParent ==
  ASSUME NEW ls, Distinct(ls), NEW i \in DOMAIN ls, NEW field, ~ Has(ls[i], field),
         FindParent(ls, i) # 0
  PROVE  Given(ls, ls[i].name, field) = Given(ls, ls[FindParent(ls, i)].name, field)
<1> DEFINE own(k) == NearestGiven(ls, ls[k].name, field)
           names == ProperFragments(ls[i].name)
<1>1. PICK j : j = FindParent(ls, i)
  OBVIOUS
<1>2. ls[i].name \in Seq(STRING) /\ Len(ls[i].name) \in Nat
  BY NodeNames
<1>3. \A k : k \in own(i) => k \in DOMAIN ls /\ ls[k].name \in names
  <2>1. \A k : k \in own(i) => k \in DOMAIN ls /\ Has(ls[k], field)
                               /\ ls[k].name \in Fragments(ls[i].name)
    BY DEF NearestGiven
  <2> QED
    BY <2>1 DEF Distinct, ProperFragments
<1>4. CASE \E k \in DOMAIN ls : ls[k].name \in names
  <2>1. /\ j \in DOMAIN ls /\ ls[j].name \in names
        /\ \A k \in DOMAIN ls : ls[k].name \in names => Len(ls[k].name) <= Len(ls[j].name)
    BY <1>1, <1>4, ParentFound
  <2>2. ls[j].name \in Fragments(ls[i].name)
    BY <2>1 DEF ProperFragments
  <2>3. \A g : g \in Fragments(ls[j].name) <=>
               g \in Fragments(ls[i].name) /\ Len(g) <= Len(ls[j].name)
    BY <1>2, <2>2, FragmentsNested
  <2>4. \A k : k \in own(j) <=> k \in own(i)
    BY <1>3, <2>1, <2>3 DEF NearestGiven
  <2>5. own(j) = own(i)
    BY <2>4
  <2> QED
    BY <1>1, <2>5, GivenIs
<1>5. CASE ~ \E k \in DOMAIN ls : ls[k].name \in names
  <2>1. j = DefaultOf(ls) /\ j # 0
    BY <1>1, <1>5, ParentFound
  <2>2. own(i) = {}
    BY <1>3, <1>5
  <2>3. Given(ls, ls[i].name, field) = IF own(j) # {} THEN Longest(ls, own(j)) ELSE 0
    BY <2>1, <2>2, GivenIs
  <2>4. Given(ls, ls[j].name, field) = IF own(j) # {} THEN Longest(ls, own(j)) ELSE 0
    BY <2>1, GivenIs
  <2> QED
    BY <1>1, <2>3, <2>4
<1> QED
  BY <1>4, <1>5

(* The search does not look at levels and sinks.                           *)
LEMMA SameParent ==
  ASSUME NEW ls, NEW ms, SameTree(ms, ls), NEW i \in DOMAIN ls
  PROVE  FindParent(ms, i) = FindParent(ls, i)
<1> DEFINE names == ProperFragments(ls[i].name)
<1>1. { k \in DOMAIN ms : ms[k].name \in names } = { k \in DOMAIN ls : ls[k].name \in names }
  BY DEF SameTree
<1>2. { Len(ms[k].name) : k \in { j \in DOMAIN ms : ms[j].name \in names } }
        = { Len(ls[k].name) : k \in { j \in DOMAIN ls : ls[j].name \in names } }
  BY DEF SameTree
<1>3. \A length : { k \in DOMAIN ms : ms[k].name \in names /\ Len(ms[k].name) = length }
                    = { k \in DOMAIN ls : ls[k].name \in names /\ Len(ls[k].name) = length }
  BY DEF SameTree
<1>4. Nearest(ms, names) = Nearest(ls, names)
  BY <1>2, <1>3 DEF Nearest
<1>5. { k \in DOMAIN ms : ms[k].default } = { k \in DOMAIN ls : ls[k].default }
  BY DEF SameTree
<1>6. DefaultOf(ms) = DefaultOf(ls)
  BY <1>5 DEF DefaultOf
<1>7. ProperFragments(ms[i].name) = names
  BY DEF SameTree
<1>8. (\E j \in DOMAIN ms : ms[j].name \in names) <=> (\E j \in DOMAIN ls : ls[j].name \in names)
  BY DEF SameTree
<1> QED
  BY <1>4, <1>6, <1>7, <1>8 DEF FindParent

(* While the loggers are prepared, they have what they are given, or lack  *)
(* what they lacked.                                                       *)
Fields == {"level", "sinks"}

Right(ls, ms) ==
  /\ SameTree(ms, ls)
  /\ \A i \in DOMAIN ls : \A field \in Fields :
       IF Has(ms[i], field)
       THEN /\ Given(ls, ls[i].name, field) \in DOMAIN ls
            /\ Value(ms[i], field) = Value(ls[Given(ls, ls[i].name, field)], field)
       ELSE ~ Has(ls[i], field)

LEMMA RightFirst ==
  ASSUME NEW ls, Distinct(ls)
  PROVE  Right(ls, ls)
<1>1. SameTree(ls, ls)
  BY DEF SameTree, Distinct
<1>2. ASSUME NEW i \in DOMAIN ls, NEW field, Has(ls[i], field)
      PROVE  Given(ls, ls[i].name, field) = i
  BY <1>2, GivenOwn
<1> QED
  BY <1>1, <1>2 DEF Right

(* The nearest in the chain that has a field has what the first is given.  *)
LEMMA ChainGives ==
  ASSUME NEW ls, Distinct(ls), NEW ms, Right(ls, ms), NEW i \in DOMAIN ls, NEW field \in Fields,
         Having(ms, i, field) # {}
  PROVE  LET j == Chain(ms, i)[Min(Having(ms, i, field))]
         IN /\ j \in DOMAIN ls /\ Has(ms[j], field)
            /\ Given(ls, ls[j].name, field) = Given(ls, ls[i].name, field)
<1> DEFINE f == Chain(ms, i)
           n == Len(ms) + 1
           H == Having(ms, i, field)
           k == Min(H)
           Same(x) == x \in DOMAIN ls /\ Given(ls, ls[x].name, field) = Given(ls, ls[i].name, field)
           S == { m \in 0 .. k : f[m] = 0 \/ Same(f[m]) }
<1>1. ms \in Seq(LoggerNode) /\ DOMAIN ms = DOMAIN ls /\ SameTree(ms, ls)
  BY DEF Right, SameTree
<1>2. Len(ms) \in Nat /\ n \in Nat
  BY <1>1
<1>3. \A m \in 0 .. n :
        f[m] = IF m = 0 THEN i ELSE IF f[m - 1] = 0 THEN 0 ELSE FindParent(ms, f[m - 1])
  <2>1. Links(ms, i, n, f)
    BY <1>2, ChainLinks
  <2> HIDE DEF f, n
  <2> QED
    BY <2>1 DEF Links
<1>4. \A x : x \in H <=> x \in 0 .. n /\ f[x] # 0 /\ Has(ms[f[x]], field)
  BY Zenon DEF Having
<1> HIDE DEF H, f
<1>5. H \subseteq Nat /\ H # {}
  BY <1>2, <1>4 DEF H
<1>6. k \in H /\ \A x \in H : k <= x
  BY <1>5, MinIn
<1> HIDE DEF k
<1>7. k \in 0 .. n /\ k \in Nat /\ f[k] # 0 /\ Has(ms[f[k]], field)
  BY <1>2, <1>4, <1>6
<1> HIDE DEF n
<1>8. ASSUME NEW x \in DOMAIN ls, ~ Has(ms[x], field), FindParent(ms, x) # 0, Same(x)
      PROVE  Same(FindParent(ms, x))
  <2>1. PICK y : y = FindParent(ms, x)
    OBVIOUS
  <2>2. y = FindParent(ls, x) /\ y \in DOMAIN ls
    <3>1. y = FindParent(ls, x)
      BY <1>1, <2>1, SameParent
    <3>2. y \in {0} \cup DOMAIN ms
      BY <1>1, <2>1, ParentIsLogger
    <3> QED
      BY <1>1, <1>8, <2>1, <3>1, <3>2
  <2>3. ~ Has(ls[x], field)
    BY <1>8 DEF Right
  <2>4. Given(ls, ls[x].name, field) = Given(ls, ls[y].name, field)
    BY <1>8, <2>1, <2>2, <2>3, GivenOfParent
  <2> QED
    BY <1>8, <2>1, <2>2, <2>4
<1>9. ASSUME NEW m \in 0 .. k, \A j \in 0 .. m - 1 : j \in S
      PROVE  m \in S
  <2>1. CASE m = 0
    <3>1. f[0] = i
      BY <1>2, <1>3 DEF n
    <3> QED
      BY <2>1, <3>1
  <2>2. CASE m # 0
    <3>1. m - 1 \in S /\ m \in 0 .. n /\ m - 1 \in 0 .. n /\ ~ (k <= m - 1)
      BY <1>2, <1>7, <1>9, <2>2 DEF n
    <3>2. f[m] = IF f[m - 1] = 0 THEN 0 ELSE FindParent(ms, f[m - 1])
      BY <1>3, <2>2, <3>1
    <3>3. CASE f[m - 1] = 0
      BY <3>2, <3>3
    <3>4. CASE f[m - 1] # 0
      <4>1. PICK x : x = f[m - 1]
        OBVIOUS
      <4>2. Same(x)
        BY <3>1, <3>4, <4>1
      <4>3. m - 1 \notin H
        BY <1>6, <3>1
      <4>4. ~ Has(ms[x], field)
        BY <1>4, <3>1, <3>4, <4>1, <4>3
      <4>5. f[m] = FindParent(ms, x)
        BY <3>2, <3>4, <4>1
      <4> HIDE DEF Same
      <4>6. x \in DOMAIN ls
        BY <4>2 DEF Same
      <4>7. f[m] = 0 \/ Same(f[m])
        BY <1>8, <4>2, <4>4, <4>5, <4>6
      <4> QED
        BY <4>7
    <3> QED
      BY <3>3, <3>4
  <2> QED
    BY <2>1, <2>2
<1>10. k \in S
  <2>1. \A m \in 0 .. k : (\A j \in 0 .. m - 1 : j \in S) => m \in S
    BY <1>9
  <2> HIDE DEF S
  <2>2. \A m \in 0 .. k : m \in S
    BY <1>7, <2>1, Induction
  <2> QED
    BY <1>7, <2>2
<1>11. Same(f[k])
  BY <1>7, <1>10
<1> QED
  BY <1>7, <1>11 DEF f, k, H

(* So a logger that is completed is given what the file says.              *)
LEMMA CompletedRight ==
  ASSUME NEW ls, Distinct(ls), NEW ms, Right(ls, ms), NEW i \in DOMAIN ls, Completed(ms, i)
  PROVE  LET qs == [ms EXCEPT ![i] = Complete(ms, i)]
         IN Right(ls, qs) /\ \A field \in Fields : Has(qs[i], field)
<1> DEFINE c == Complete(ms, i)
           qs == [ms EXCEPT ![i] = c]
           At(field) == Chain(ms, i)[Min(Having(ms, i, field))]
           Gift(field) == Given(ls, ls[i].name, field)
<1>1. ms \in Seq(LoggerNode) /\ DOMAIN ms = DOMAIN ls /\ SameTree(ms, ls)
  BY DEF Right, SameTree
<1>2. ASSUME NEW field \in Fields
      PROVE  /\ At(field) \in DOMAIN ms /\ Has(ms[At(field)], field)
             /\ Gift(field) \in DOMAIN ls
             /\ Value(ms[At(field)], field) = Value(ls[Gift(field)], field)
  <2>1. Having(ms, i, field) # {}
    BY DEF Completed, Fields
  <2>2. /\ At(field) \in DOMAIN ls /\ Has(ms[At(field)], field)
        /\ Given(ls, ls[At(field)].name, field) = Gift(field)
    BY <2>1, ChainGives, Zenon
  <2> HIDE DEF At, Gift
  <2> QED
    BY <1>1, <2>2 DEF Right
<1>3. c \in LoggerNode
  BY <1>1, Completing
<1>4. c = [ms[i] EXCEPT !.level = ms[At("level")].level, !.sinks = ms[At("sinks")].sinks]
  BY DEF Complete
<1> HIDE DEF c, At, Gift
<1>5. c = [kind |-> ms[i].kind, name |-> ms[i].name, level |-> ms[At("level")].level,
           sinks |-> ms[At("sinks")].sinks, default |-> ms[i].default]
  <2>1. ms[i] \in LoggerNode
    BY <1>1
  <2> QED
    BY <1>4, <2>1, NodeChanged
<1>6. ASSUME NEW field \in Fields
      PROVE  Has(c, field) /\ Value(c, field) = Value(ls[Gift(field)], field)
  <2>1. Has(c, field) <=> Has(ms[At(field)], field)
    BY <1>5 DEF Fields, Has
  <2>2. Value(c, field) = Value(ms[At(field)], field)
    BY <1>5 DEF Fields, Value
  <2> QED
    BY <1>2, <2>1, <2>2
<1>7. /\ DOMAIN qs = DOMAIN ls /\ qs[i] = c /\ qs \in Seq(LoggerNode)
      /\ \A j \in DOMAIN ls : j # i => qs[j] = ms[j]
  BY <1>1, <1>3
<1> HIDE DEF qs
<1>8. SameTree(qs, ls)
  <2>1. ASSUME NEW j \in DOMAIN ls
        PROVE  qs[j].name = ls[j].name /\ qs[j].default = ls[j].default
    <3>1. CASE j = i
      BY <1>1, <1>5, <1>7, <3>1 DEF SameTree
    <3>2. CASE j # i
      BY <1>1, <1>7, <3>2 DEF SameTree
    <3> QED
      BY <3>1, <3>2
  <2> QED
    BY <1>7, <2>1 DEF SameTree
<1>9. ASSUME NEW j \in DOMAIN ls, NEW field \in Fields
      PROVE  IF Has(qs[j], field)
             THEN /\ Given(ls, ls[j].name, field) \in DOMAIN ls
                  /\ Value(qs[j], field) = Value(ls[Given(ls, ls[j].name, field)], field)
             ELSE ~ Has(ls[j], field)
  <2>1. CASE j = i
    BY <1>2, <1>6, <1>7, <2>1 DEF Gift
  <2>2. CASE j # i
    BY <1>7, <2>2 DEF Right
  <2> QED
    BY <2>1, <2>2
<1>10. Right(ls, qs)
  BY <1>8, <1>9 DEF Right
<1>11. \A field \in Fields : Has(qs[i], field)
  BY <1>6, <1>7
<1> QED
  BY <1>10, <1>11 DEF qs, c

(* What prepareLoggers accepts is what the file gives each logger.         *)
LEMMA PrepareRight ==
  ASSUME NEW ls, Distinct(ls), Prepare(ls).result = "sinks"
  PROVE  /\ Right(ls, Prepare(ls).loggers)
         /\ \A i \in DOMAIN ls : \A field \in Fields : Has(Prepare(ls).loggers[i], field)
<1> DEFINE n == Len(ls)
           Done(p, k) == p.result = "sinks" =>
                           /\ Right(ls, p.loggers)
                           /\ \A i \in 1 .. k : \A field \in Fields : Has(p.loggers[i], field)
<1>1. n \in Nat /\ DOMAIN ls = 1 .. n
  BY NodeNames
<1>2. PICK f : Prepared(ls, n, f) /\ Prepare(ls) = f[n]
  BY <1>1, Preparing
<1> DEFINE S == { k \in 0 .. n : Done(f[k], k) }
<1>3. \A k \in 0 .. n :
        f[k] = IF k = 0 THEN [loggers |-> ls, result |-> "sinks"] ELSE PrepareLogger(f[k - 1], k)
  BY <1>2 DEF Prepared
<1>4. ASSUME NEW k \in 0 .. n, \A j \in 0 .. k - 1 : j \in S
      PROVE  k \in S
  <2>1. CASE k = 0
    <3>1. f[0] = [loggers |-> ls, result |-> "sinks"]
      BY <1>3, <2>1
    <3>2. Right(ls, ls)
      BY RightFirst
    <3> QED
      BY <2>1, <3>1, <3>2
  <2>2. CASE k # 0
    <3> DEFINE p == f[k - 1]
    <3>1. Done(p, k - 1) /\ k \in 1 .. n
      BY <1>1, <1>4, <2>2
    <3>2. f[k] = PrepareLogger(p, k)
      BY <1>3, <2>2
    <3> HIDE DEF p
    <3>3. CASE p.result # "sinks"
      <4>1. f[k] = p
        BY <3>2, <3>3 DEF PrepareLogger
      <4> QED
        BY <3>3, <4>1
    <3>4. CASE p.result = "sinks" /\ Completed(p.loggers, k)
      <4> DEFINE q == [p.loggers EXCEPT ![k] = Complete(p.loggers, k)]
      <4>1. /\ Right(ls, p.loggers)
            /\ \A i \in 1 .. k - 1 : \A field \in Fields : Has(p.loggers[i], field)
        BY <3>1, <3>4
      <4>2. Right(ls, q) /\ \A field \in Fields : Has(q[k], field)
        BY <1>1, <3>1, <3>4, <4>1, CompletedRight
      <4>3. f[k] = [loggers |-> q, result |-> "sinks"]
        BY <3>2, <3>4 DEF PrepareLogger
      <4>4. ASSUME NEW i \in 1 .. k, NEW field \in Fields
            PROVE  Has(q[i], field)
        <5>1. CASE i = k
          BY <4>2, <5>1
        <5>2. CASE i # k
          <6>1. i \in 1 .. k - 1 /\ i \in DOMAIN p.loggers
            BY <1>1, <3>1, <4>1, <5>2 DEF Right, SameTree
          <6>2. q[i] = p.loggers[i]
            BY <5>2, <6>1
          <6> QED
            BY <4>1, <6>1, <6>2
        <5> QED
          BY <5>1, <5>2
      <4> HIDE DEF q
      <4> QED
        BY <4>2, <4>3, <4>4
    <3>5. CASE p.result = "sinks" /\ ~ Completed(p.loggers, k)
      <4>1. f[k].result \in {"failed", "looping"}
        BY <3>2, <3>5 DEF PrepareLogger
      <4> QED
        BY <4>1
    <3> QED
      BY <3>3, <3>4, <3>5
  <2> QED
    BY <2>1, <2>2
<1>5. n \in S
  <2>1. \A k \in 0 .. n : (\A j \in 0 .. k - 1 : j \in S) => k \in S
    BY <1>4
  <2>2. n \in 0 .. n
    BY <1>1
  <2> HIDE DEF S, n
  <2>3. \A k \in 0 .. n : k \in S
    BY <1>1, <2>1, Induction
  <2> QED
    BY <2>2, <2>3
<1> QED
  BY <1>1, <1>2, <1>5

-----------------------------------------------------------------------------
(***************************************************************************)
(* What the configuration registers.                                       *)
(***************************************************************************)

(* The factories that have been registered tell the loggers apart.         *)
LEMMA RegisteredDistinct ==
  ASSUME NEW ls, NEW ms, ls \in Seq(LoggerNode), SameTree(ms, ls), Registered(ms, Len(ls))
  PROVE  Distinct(ls)
<1>1. DOMAIN ls = 1 .. Len(ls)
  OBVIOUS
<1>2. \A i \in 1 .. Len(ls) : /\ ms[i].name # NoName
                              /\ \A j \in 1 .. Len(ls) : ms[j].name = ms[i].name => j = i
  BY Zenon DEF Registered
<1> QED
  BY <1>1, <1>2 DEF Distinct, SameTree, NoName

(* What prepareLoggers has made of the loggers of the file.                *)
LEMMA PreparedConfigured ==
  ASSUME NEW ls, ls = file.loggers, Distinct(ls), Prepare(ls).result = "sinks",
         NEW i \in DOMAIN ls
  PROVE  Configured(ls[i].name) = [level |-> Prepare(ls).loggers[i].level,
                                   sink  |-> Prepare(ls).loggers[i].sinks]
<1> DEFINE ms == Prepare(ls).loggers
           Gift(field) == Given(ls, ls[i].name, field)
<1>1. Right(ls, ms) /\ \A field \in Fields : Has(ms[i], field)
  BY PrepareRight
<1> HIDE DEF ms
<1>2. \A field \in Fields : Gift(field) \in DOMAIN ls /\ Value(ms[i], field) = Value(ls[Gift(field)], field)
  BY <1>1 DEF Right
<1> HIDE DEF Gift
<1>3. /\ Gift("level") # 0 /\ Gift("sinks") # 0
      /\ ms[i].level = ls[Gift("level")].level /\ ms[i].sinks = ls[Gift("sinks")].sinks
  <2>1. DOMAIN ls \subseteq Nat \ {0}
    BY NodeNames
  <2> QED
    BY <1>2, <2>1 DEF Fields, Value
<1>4. LevelOf(ls[i].name) = ls[Gift("level")].level /\ SinksOf(ls[i].name) = ls[Gift("sinks")].sinks
  BY <1>3 DEF LevelOf, SinksOf, Gift
<1> QED
  BY <1>3, <1>4 DEF Configured, ms

(* A name of which no logger has a fragment goes by the default.           *)
LEMMA DefaultConfigured ==
  ASSUME NEW ls, ls = file.loggers, NEW name,
         \A i \in DOMAIN ls : ls[i].name \notin Fragments(name)
  PROVE  Configured(name) = IF DefaultOf(ls) = 0 THEN [level |-> Off, sink |-> Noop]
                            ELSE Configured(ls[DefaultOf(ls)].name)
<1>1. \A field : NearestGiven(ls, name, field) = {}
  BY DEF NearestGiven
<1>2. CASE DefaultOf(ls) = 0
  <2>1. \A field : Given(ls, name, field) = 0
    BY <1>1, <1>2, GivenIs
  <2> QED
    BY <1>2, <2>1 DEF Configured, LevelOf, SinksOf
<1>3. CASE DefaultOf(ls) # 0
  <2> DEFINE other == ls[DefaultOf(ls)].name
  <2>1. ASSUME NEW field
        PROVE  Given(ls, name, field) = Given(ls, other, field)
    <3> DEFINE own == NearestGiven(ls, other, field)
    <3>1. Given(ls, name, field) = IF own # {} THEN Longest(ls, own) ELSE 0
      BY <1>1, <1>3, GivenIs
    <3>2. Given(ls, other, field) = IF own # {} THEN Longest(ls, own) ELSE 0
      BY <1>3, GivenIs
    <3> QED
      BY <3>1, <3>2
  <2> QED
    BY <1>3, <2>1 DEF Configured, LevelOf, SinksOf
<1> QED
  BY <1>2, <1>3

(* A fragment beyond which no logger is goes by the same loggers.          *)
LEMMA SameConfigured ==
  ASSUME NEW ls, ls = file.loggers, NEW name \in Seq(STRING), NEW f \in Fragments(name),
         \A i \in DOMAIN ls : ls[i].name \in Fragments(name) => Len(ls[i].name) <= Len(f)
  PROVE  Configured(name) = Configured(f)
<1>1. \A g : g \in Fragments(f) <=> g \in Fragments(name) /\ Len(g) <= Len(f)
  BY FragmentsNested
<1>2. ASSUME NEW field
      PROVE  Given(ls, name, field) = Given(ls, f, field)
  <2>1. NearestGiven(ls, name, field) = NearestGiven(ls, f, field)
    BY <1>1 DEF NearestGiven
  <2> QED
    BY <2>1, GivenIs
<1> QED
  BY <1>2 DEF Configured, LevelOf, SinksOf

(* The only default logger is the one that findParent goes by.             *)
LEMMA DefaultFound ==
  ASSUME NEW ls, ls \in Seq(LoggerNode),
         \A i, j \in DOMAIN ls : ls[i].default /\ ls[j].default => i = j
  PROVE  /\ \A i \in DOMAIN ls : ls[i].default => DefaultOf(ls) = i
         /\ (\A i \in DOMAIN ls : ~ ls[i].default) => DefaultOf(ls) = 0
<1> DEFINE S == { i \in DOMAIN ls : ls[i].default }
<1>1. DefaultOf(ls) = IF S = {} THEN 0 ELSE Min(S)
  BY DEF DefaultOf
<1>2. S \subseteq Nat
  OBVIOUS
<1>3. S # {} => Min(S) \in S
  BY <1>2, MinIn
<1> QED
  BY <1>1, <1>3

(* What is made for a name that had no logger when the configuration was   *)
(* done: by the default factory, if nothing is known of the name ...       *)
Settled == OnlyConfigured /\ OneDefault /\ reloads = 0

LEMMA DefaultMakes ==
  ASSUME FirstSetup, Settled, NEW name,
         \A f \in Fragments(name) : f \notin DOMAIN factories
  PROVE  /\ defaultFactory.kind # "same"
         /\ Configured(name) = [level |-> defaultFactory.level, sink |-> defaultFactory.sink]
<1> DEFINE ls == file.loggers
           ms == Prepare(ls).loggers
<1>1. ls \in Seq(LoggerNode) /\ Prepare(ls).result = "sinks" /\ Registered(ms, Len(ls))
  BY ConfigsAssumption DEF FirstSetup, Settled
<1>2. SameTree(ms, ls)
  BY <1>1, PrepareCompletes
<1>3. Distinct(ls)
  BY <1>1, <1>2, RegisteredDistinct
<1>4. DOMAIN ls = 1 .. Len(ls)
  BY <1>1
<1>5. /\ \A i \in DOMAIN ls : ls[i].default => DefaultOf(ls) = i
      /\ (\A i \in DOMAIN ls : ~ ls[i].default) => DefaultOf(ls) = 0
  <2>1. \A i, j \in DOMAIN ls : ls[i].default /\ ls[j].default => i = j
    BY DEF Settled, OneDefault
  <2> QED
    BY <1>1, <2>1, DefaultFound
<1>6. \A i \in DOMAIN ls : Configured(ls[i].name) = [level |-> ms[i].level, sink |-> ms[i].sinks]
  BY <1>1, <1>3, PreparedConfigured
<1>7. Configured(name) = IF DefaultOf(ls) = 0 THEN [level |-> Off, sink |-> Noop]
                         ELSE Configured(ls[DefaultOf(ls)].name)
  <2>1. \A i \in DOMAIN ls : ls[i].name \in DOMAIN factories
    BY <1>1, <1>2, <1>4 DEF Registered, SameTree
  <2>2. \A i \in DOMAIN ls : ls[i].name \notin Fragments(name)
    BY <2>1
  <2> HIDE DEF ls
  <2> QED
    BY <2>2, DefaultConfigured DEF ls
<1>8. IF \E i \in 1 .. Len(ls) : ms[i].default
      THEN \E i \in 1 .. Len(ls) : ms[i].default
                                   /\ defaultFactory = Making(ms[i].level, ms[i].sinks)
      ELSE defaultFactory = Instantiator
  BY <1>1, Zenon DEF Registered
<1>9. CASE \E i \in 1 .. Len(ls) : ms[i].default
  <2>1. PICK i \in 1 .. Len(ls) : ms[i].default
                                  /\ defaultFactory = Making(ms[i].level, ms[i].sinks)
    BY <1>8, <1>9
  <2>2. ls[i].default /\ i \in DOMAIN ls
    BY <1>2, <1>4, <2>1 DEF SameTree
  <2>3. DefaultOf(ls) = i /\ i # 0
    BY <1>5, <2>1, <2>2
  <2>4. Configured(name) = [level |-> ms[i].level, sink |-> ms[i].sinks]
    BY <1>6, <1>7, <2>2, <2>3
  <2> QED
    BY <2>1, <2>4 DEF Making
<1>10. CASE ~ \E i \in 1 .. Len(ls) : ms[i].default
  <2>1. \A i \in DOMAIN ls : ~ ls[i].default
    BY <1>2, <1>4, <1>10 DEF SameTree
  <2>2. Configured(name) = [level |-> Off, sink |-> Noop] /\ defaultFactory = Instantiator
    BY <1>5, <1>7, <1>8, <1>10, <2>1
  <2> QED
    BY <2>2 DEF Instantiator
<1> QED
  BY <1>9, <1>10

(* ... and by the factory of the nearest.                                  *)
LEMMA FactoryMakes ==
  ASSUME FirstSetup, Settled, NEW f \in DOMAIN factories, f # <<"logpp">>
  PROVE  /\ factories[f].kind # "same"
         /\ Configured(f) = [level |-> factories[f].level, sink |-> factories[f].sink]
<1> DEFINE ls == file.loggers
           ms == Prepare(ls).loggers
<1>1. ls \in Seq(LoggerNode) /\ Prepare(ls).result = "sinks" /\ Registered(ms, Len(ls))
  BY ConfigsAssumption DEF FirstSetup, Settled
<1>2. SameTree(ms, ls)
  BY <1>1, PrepareCompletes
<1>3. Distinct(ls)
  BY <1>1, <1>2, RegisteredDistinct
<1>4. DOMAIN ls = 1 .. Len(ls)
  BY <1>1
<1>5. PICK i \in 1 .. Len(ls) : f = ms[i].name /\ factories[f] = Making(ms[i].level, ms[i].sinks)
  BY <1>1 DEF Registered
<1>6. f = ls[i].name /\ i \in DOMAIN ls
  BY <1>2, <1>4, <1>5 DEF SameTree
<1>7. Configured(f) = [level |-> ms[i].level, sink |-> ms[i].sinks]
  BY <1>1, <1>3, <1>6, PreparedConfigured
<1> QED
  BY <1>5, <1>7 DEF Making

(* Every logger of the file has a factory.                                 *)
LEMMA FileHasFactories ==
  ASSUME FirstSetup, Settled
  PROVE  \A i \in DOMAIN file.loggers : file.loggers[i].name \in DOMAIN factories
<1> DEFINE ls == file.loggers
           ms == Prepare(ls).loggers
<1>1. ls \in Seq(LoggerNode) /\ Registered(ms, Len(ls))
  BY ConfigsAssumption DEF FirstSetup, Settled
<1>2. SameTree(ms, ls)
  BY <1>1, PrepareCompletes
<1> QED
  BY <1>1, <1>2 DEF Registered, SameTree

-----------------------------------------------------------------------------
(***************************************************************************)
(* The steps again: the first configuration, and the answers after it.     *)
(***************************************************************************)

LEMMA InitAnswered == Init => FirstSetup /\ Answered
<1> SUFFICES ASSUME Init
             PROVE  FirstSetup /\ Answered
  OBVIOUS
<1>1. /\ factories = [n \in {<<"logpp">>} |-> Answering(1)] /\ defaultFactory = Instantiator
      /\ loggers = <<>> /\ job = NoJob /\ held = [c \in Clients |-> 0]
      /\ asked = [c \in Clients |-> <<>>] /\ phase = "idle" /\ setups = 0
  BY DEF Init, RegistryInit
<1>2. Registered(<<>>, 0)
  BY <1>1 DEF Registered
<1>3. FirstSetup
  BY <1>1, <1>2 DEF FirstSetup, OnlyConfigured
<1>4. DOMAIN loggers = {}
  BY <1>1
<1>5. asked \in [Clients -> {NoName} \cup Names]
  BY <1>1 DEF NoName
<1>6. ~ OnlyConfigured /\ \A c \in Clients : held[c] = 0
  BY <1>1 DEF OnlyConfigured
<1> QED
  BY <1>3, <1>4, <1>5, <1>6 DEF Answered

(* A step that goes on with what is being registered.                      *)
SameJob ==
  \/ job' = job
  \/ /\ job # NoJob /\ job' # NoJob
     /\ job'.name = job.name /\ job'.default = job.default /\ job'.factory = job.factory

LEMMA RegisteredKept ==
  ASSUME UNCHANGED <<factories, defaultFactory>>, NEW ls, NEW n, Registered(ls, n)
  PROVE  Registered(ls, n)'
BY DEF Registered

LEMMA SetupKept ==
  ASSUME FirstSetup, SameJob,
         UNCHANGED <<factories, defaultFactory, setups, phase, index, config, file>>
  PROVE  FirstSetup'
<1>1. \A ls, n : Registered(ls, n)' <=> Registered(ls, n)
  BY DEF Registered
<1>2. job' = NoJob <=> job = NoJob
  BY DEF SameJob
<1>3. setups' \in Nat /\ (setups' = 0 => phase' = "idle" /\ job' = NoJob /\ Registered(<<>>, 0)')
  BY <1>1, <1>2 DEF FirstSetup
<1>4. ASSUME setups = 1, phase \in {"sinks", "loggers"}
      PROVE  /\ file' \in Configs
             /\ Prepare(file'.loggers).result = "sinks"
             /\ Prepare(file'.loggers).loggers = config'.loggers
             /\ index' <= Len(config'.loggers) + 1 \/ phase' = "sinks"
             /\ Registered(config.loggers, IF phase = "sinks" THEN 0 ELSE index - 1)'
             /\ job' # NoJob =>
                  LET logger == config'.loggers[index']
                  IN /\ phase' = "loggers" /\ index' <= Len(config'.loggers)
                     /\ job'.name = logger.name /\ job'.default = logger.default
                     /\ job'.factory = Making(logger.level, logger.sinks)
  <2>1. /\ file \in Configs
        /\ Prepare(file.loggers).result = "sinks"
        /\ Prepare(file.loggers).loggers = config.loggers
        /\ index <= Len(config.loggers) + 1 \/ phase = "sinks"
        /\ Registered(config.loggers, IF phase = "sinks" THEN 0 ELSE index - 1)
    BY <1>4, Zenon DEF FirstSetup
  <2>2. job # NoJob =>
          LET logger == config.loggers[index]
          IN /\ phase = "loggers" /\ index <= Len(config.loggers)
             /\ job.name = logger.name /\ job.default = logger.default
             /\ job.factory = Making(logger.level, logger.sinks)
    BY <1>4, Zenon DEF FirstSetup
  <2>3. Registered(config.loggers, IF phase = "sinks" THEN 0 ELSE index - 1)'
    <3>1. PICK ls, n : ls = config.loggers /\ n = IF phase = "sinks" THEN 0 ELSE index - 1
      OBVIOUS
    <3>2. Registered(ls, n)'
      BY <1>1, <2>1, <3>1
    <3>3. config'.loggers = ls /\ (IF phase' = "sinks" THEN 0 ELSE index' - 1) = n
      BY <3>1
    <3> QED
      BY <3>2, <3>3
  <2>4. job' # NoJob =>
          LET logger == config'.loggers[index']
          IN /\ phase' = "loggers" /\ index' <= Len(config'.loggers)
             /\ job'.name = logger.name /\ job'.default = logger.default
             /\ job'.factory = Making(logger.level, logger.sinks)
    BY <2>2 DEF SameJob
  <2> QED
    BY <2>1, <2>3, <2>4
<1>5. ASSUME OnlyConfigured
      PROVE  /\ file' \in Configs /\ job' = NoJob /\ Prepare(file'.loggers).result = "sinks"
             /\ Registered(Prepare(file.loggers).loggers, Len(file.loggers))'
  <2>1. /\ file \in Configs /\ job = NoJob /\ Prepare(file.loggers).result = "sinks"
        /\ Registered(Prepare(file.loggers).loggers, Len(file.loggers))
    BY <1>5, Zenon DEF FirstSetup
  <2>2. PICK ls, n : ls = Prepare(file.loggers).loggers /\ n = Len(file.loggers)
    OBVIOUS
  <2>3. Registered(ls, n)'
    BY <1>1, <2>1, <2>2
  <2>4. Registered(Prepare(file.loggers).loggers, Len(file.loggers))'
    <3>1. Prepare(file'.loggers).loggers = ls /\ Len(file'.loggers) = n
      BY <2>2
    <3> QED
      BY <2>3, <3>1
  <2> QED
    BY <1>2, <2>1, <2>4
<1>6. OnlyConfigured' <=> OnlyConfigured
  BY DEF OnlyConfigured
<1> QED
  BY <1>3, <1>4, <1>5, <1>6, Zenon DEF FirstSetup

(* Another call, and one that is given up or has nothing to do with the    *)
(* configuration.                                                          *)
LEMMA SetupLeft ==
  ASSUME FirstSetup, setups' \in Nat, setups' # 0,
         setups' # 1 \/ phase' \notin {"sinks", "loggers", "done"}
  PROVE  FirstSetup'
BY DEF FirstSetup, OnlyConfigured

LEMMA ConfigureFirst ==
  ASSUME FirstSetup, TypeOK, NEW toml \in Configs, Configure(toml)
  PROVE  FirstSetup'
<1> DEFINE prepared == Prepare(toml.loggers)
<1>1. /\ setups' = setups + 1 /\ job' = job
      /\ factories' = factories /\ defaultFactory' = defaultFactory
      /\ \/ Fail
         \/ /\ phase' = prepared.result /\ index' = 1 /\ file' = toml
            /\ config' = [toml EXCEPT !.loggers = prepared.loggers,
                                      !.sinks = InLineOrder(toml)]
  BY DEF Configure, MayCall, registry
<1>2. setups \in Nat /\ setups' \in Nat /\ setups' # 0
  BY <1>1 DEF FirstSetup
<1>3. /\ toml.loggers \in Seq(LoggerNode)
      /\ toml = [tables |-> toml.tables, sinks |-> toml.sinks, loggers |-> toml.loggers]
  BY ConfigsAssumption
<1>4. prepared.result \in {"sinks", "failed", "looping"}
  BY <1>3, PrepareCompletes
<1> HIDE DEF prepared
<1>5. CASE setups # 0 \/ Fail \/ prepared.result # "sinks"
  <2>1. setups' # 1 \/ phase' \notin {"sinks", "loggers", "done"}
    BY <1>1, <1>2, <1>4, <1>5 DEF Fail
  <2> QED
    BY <1>2, <2>1, SetupLeft
<1>6. CASE setups = 0 /\ ~ Fail /\ prepared.result = "sinks"
  <2>1. /\ phase' = "sinks" /\ index' = 1 /\ file' = toml /\ setups' = 1
        /\ config' = [toml EXCEPT !.loggers = prepared.loggers,
                                  !.sinks = InLineOrder(toml)]
    BY <1>1, <1>6
  <2>2. config'.loggers = prepared.loggers
    BY <1>3, <2>1
  <2>3. job' = NoJob /\ Registered(<<>>, 0)
    BY <1>1, <1>6 DEF FirstSetup
  <2>4. \A ls : Registered(ls, 0)'
    BY <1>1, <2>3 DEF Registered
  <2>5. ~ OnlyConfigured'
    BY <2>1 DEF OnlyConfigured
  <2>6. Registered(config.loggers, IF phase = "sinks" THEN 0 ELSE index - 1)'
    <3>1. PICK ls : ls = config'.loggers
      OBVIOUS
    <3>2. Registered(ls, 0)'
      BY <2>4
    <3>3. (IF phase' = "sinks" THEN 0 ELSE index' - 1) = 0
      BY <2>1
    <3> QED
      BY <3>1, <3>2, <3>3
  <2> QED
    BY <1>6, <2>1, <2>2, <2>3, <2>5, <2>6 DEF FirstSetup, prepared
<1> QED
  BY <1>5, <1>6

(* One logger more has its factory.                                        *)
LEMMA OneMore ==
  ASSUME NEW ls, NEW n \in Nat \ {0}, Registered(ls, n - 1), NEW l, l = ls[n], l.default \in BOOLEAN,
         l.name # NoName, l.name \notin DOMAIN factories,
         factories' = With(factories, l.name, Making(l.level, l.sinks)),
         defaultFactory' = IF l.default THEN Making(l.level, l.sinks) ELSE defaultFactory
  PROVE  Registered(ls, n)'
<1> DEFINE Made(i) == Making(ls[i].level, ls[i].sinks)
<1>1. /\ DOMAIN factories = {<<"logpp">>} \cup { ls[i].name : i \in 1 .. n - 1 }
      /\ \A i \in 1 .. n - 1 : /\ ls[i].name \notin {NoName, <<"logpp">>}
                               /\ factories[ls[i].name] = Made(i)
                               /\ \A j \in 1 .. n - 1 : ls[j].name = ls[i].name => j = i
      /\ IF \E i \in 1 .. n - 1 : ls[i].default
         THEN \E i \in 1 .. n - 1 : ls[i].default /\ defaultFactory = Made(i)
         ELSE defaultFactory = Instantiator
  BY Zenon DEF Registered
<1> HIDE DEF Made
<1>2. \A i : i \in 1 .. n <=> i = n \/ i \in 1 .. n - 1
  OBVIOUS
<1>3. n \notin 1 .. n - 1
  OBVIOUS
<1>4. /\ DOMAIN factories' = DOMAIN factories \cup {l.name}
      /\ factories'[l.name] = Made(n)
      /\ \A f \in DOMAIN factories : factories'[f] = factories[f]
      /\ l.name # <<"logpp">> /\ <<"logpp">> \in DOMAIN factories
      /\ \A i \in 1 .. n - 1 : ls[i].name # l.name /\ ls[i].name \in DOMAIN factories
  BY <1>1 DEF With, Made
<1>5. DOMAIN factories' = {<<"logpp">>} \cup { ls[i].name : i \in 1 .. n }
  BY <1>1, <1>2, <1>4
<1>6. ASSUME NEW i \in 1 .. n
      PROVE  /\ ls[i].name \notin {NoName, <<"logpp">>}
             /\ factories'[ls[i].name] = Made(i)
             /\ \A j \in 1 .. n : ls[j].name = ls[i].name => j = i
  <2>1. CASE i = n
    BY <1>2, <1>4, <2>1
  <2>2. CASE i # n
    BY <1>1, <1>2, <1>4, <2>2
  <2> QED
    BY <2>1, <2>2
<1>7. IF \E i \in 1 .. n : ls[i].default
      THEN \E i \in 1 .. n : ls[i].default /\ defaultFactory' = Made(i)
      ELSE defaultFactory' = Instantiator
  <2>1. CASE l.default
    <3>1. defaultFactory' = Made(n) /\ n \in 1 .. n /\ ls[n].default
      BY <1>2, <2>1 DEF Made
    <3> QED
      BY <3>1
  <2>2. CASE ~ l.default
    BY <1>1, <1>2, <2>2
  <2> QED
    BY <2>1, <2>2
<1> QED
  BY <1>5, <1>6, <1>7, Zenon DEF Registered, Made

(* The configuration goes on.                                              *)
LEMMA SetupGoesOn ==
  ASSUME FirstSetup, TypeOK, Setup
  PROVE  FirstSetup'
<1>1. setups' = setups /\ file' = file
  <2>1. CASE ConfigureSink \/ SinksConfigured \/ LoggersConfigured
    BY <2>1 DEF ConfigureSink, SinksConfigured, LoggersConfigured
  <2>2. CASE ConfigureLogger \/ Update \/ Finish
    BY <2>2 DEF ConfigureLogger, Update, Finish, setupVars
  <2> QED
    BY <2>1, <2>2 DEF Setup
<1>2. setups \in Nat /\ index \in Nat \ {0} /\ config.loggers \in Seq(LoggerNode)
  BY DEF FirstSetup, TypeOK
<1>3. setups # 0
  <2>1. setups = 0 => phase = "idle" /\ job.kind # "register"
    BY DEF FirstSetup, NoJob
  <2>2. CASE ConfigureSink \/ SinksConfigured \/ LoggersConfigured \/ ConfigureLogger
    BY <2>1, <2>2 DEF ConfigureSink, SinksConfigured, LoggersConfigured, ConfigureLogger
  <2>3. CASE Update \/ Finish
    BY <2>1, <2>3 DEF Update, UpdateSink, UpdateLevel, Finish, FinishRegister
  <2> QED
    BY <2>2, <2>3 DEF Setup
<1>4. CASE setups # 1
  BY <1>1, <1>2, <1>3, <1>4, SetupLeft
<1> DEFINE During ==
             /\ file \in Configs
             /\ Prepare(file.loggers).result = "sinks"
             /\ Prepare(file.loggers).loggers = config.loggers
             /\ index <= Len(config.loggers) + 1 \/ phase = "sinks"
             /\ Registered(config.loggers, IF phase = "sinks" THEN 0 ELSE index - 1)
           Logger == config.loggers[index]
           Registering ==
             /\ phase = "loggers" /\ index <= Len(config.loggers)
             /\ job.name = Logger.name /\ job.default = Logger.default
             /\ job.factory = Making(Logger.level, Logger.sinks)
<1>5. setups = 1 /\ phase \in {"sinks", "loggers"} => During /\ (job # NoJob => Registering)
  BY Zenon DEF FirstSetup
<1>6. ASSUME setups' = 1, phase' \in {"sinks", "loggers"}, During', job' # NoJob => Registering'
      PROVE  FirstSetup'
  <2>1. ~ OnlyConfigured'
    BY <1>6 DEF OnlyConfigured
  <2> QED
    BY <1>6, <2>1 DEF FirstSetup
<1>7. CASE setups = 1 /\ ConfigureSink
  <2>1. /\ phase = "sinks" /\ job = NoJob /\ job' = job
        /\ factories' = factories /\ defaultFactory' = defaultFactory
        /\ Fail \/ (phase' = phase /\ config' = config)
    BY <1>7, Zenon DEF ConfigureSink, registry
  <2>2. CASE Fail
    BY <1>1, <1>7, <2>2, SetupLeft DEF Fail
  <2>3. CASE ~ Fail
    <3>1. During
      BY <1>5, <1>7, <2>1
    <3>2. PICK ls : ls = config.loggers
      OBVIOUS
    <3>3. Registered(ls, 0)
      BY <2>1, <3>1, <3>2
    <3>4. Registered(ls, 0)'
      BY <2>1, <3>3, RegisteredKept
    <3>5. Registered(config.loggers, IF phase = "sinks" THEN 0 ELSE index - 1)'
      <4>1. config'.loggers = ls /\ (IF phase' = "sinks" THEN 0 ELSE index' - 1) = 0
        BY <2>1, <2>3, <3>2
      <4> QED
        BY <3>4, <4>1
    <3>6. During'
      BY <1>1, <2>1, <2>3, <3>1, <3>5
    <3> QED
      BY <1>1, <1>6, <1>7, <2>1, <2>3, <3>6
  <2> QED
    BY <2>2, <2>3
<1>8. CASE setups = 1 /\ SinksConfigured
  <2>1. /\ phase = "sinks" /\ job' = job /\ phase' = "loggers" /\ index' = 1 /\ config' = config
        /\ factories' = factories /\ defaultFactory' = defaultFactory
    BY <1>8, Zenon DEF SinksConfigured, registry
  <2>2. During /\ job = NoJob
    BY <1>5, <1>8, <2>1
  <2>3. Registered(config.loggers, IF phase = "sinks" THEN 0 ELSE index - 1)'
    <3>1. PICK ls : ls = config.loggers
      OBVIOUS
    <3>2. Registered(ls, 0)
      BY <2>1, <2>2, <3>1
    <3>3. Registered(ls, 0)'
      BY <2>1, <3>2, RegisteredKept
    <3>4. config'.loggers = ls /\ (IF phase' = "sinks" THEN 0 ELSE index' - 1) = 0
      BY <2>1, <3>1
    <3> QED
      BY <3>3, <3>4
  <2>4. During'
    BY <1>1, <1>2, <2>1, <2>2, <2>3
  <2> QED
    BY <1>1, <1>6, <1>8, <2>1, <2>2, <2>4
<1>9. CASE setups = 1 /\ ConfigureLogger
  <2>1. /\ phase = "loggers" /\ index <= Len(config.loggers) /\ UNCHANGED setupVars
        /\ Register(Logger.name, Making(Logger.level, Logger.sinks), Logger.default)
        /\ factories' = factories /\ defaultFactory' = defaultFactory
    BY <1>9, Zenon DEF ConfigureLogger, registry
  <2>2. During
    BY <1>5, <1>9, <2>1
  <2>3. phase' = phase /\ index' = index /\ config' = config
    BY <2>1 DEF setupVars
  <2>4. PICK ls, n : ls = config.loggers /\ n = IF phase = "sinks" THEN 0 ELSE index - 1
    OBVIOUS
  <2>5. Registered(ls, n)'
    <3>1. Registered(ls, n)
      BY <2>2, <2>4
    <3> QED
      BY <2>1, <3>1, RegisteredKept
  <2>6. Registered(config.loggers, IF phase = "sinks" THEN 0 ELSE index - 1)'
    <3>1. config'.loggers = ls /\ (IF phase' = "sinks" THEN 0 ELSE index' - 1) = n
      BY <2>3, <2>4
    <3> QED
      BY <2>5, <3>1
  <2>7. During'
    BY <1>1, <2>1, <2>2, <2>3, <2>6
  <2>8. /\ job'.name = Logger.name /\ job'.default = Logger.default
        /\ job'.factory = Making(Logger.level, Logger.sinks)
    BY <2>1 DEF Register
  <2> QED
    BY <1>1, <1>6, <1>9, <2>1, <2>3, <2>7, <2>8
<1>10. CASE setups = 1 /\ LoggersConfigured
  <2>1. /\ phase = "loggers" /\ index > Len(config.loggers) /\ job = NoJob /\ job' = job
        /\ factories' = factories /\ defaultFactory' = defaultFactory
        /\ phase' \in {"done", "failed"}
    BY <1>10 DEF LoggersConfigured, registry
  <2>2. During
    BY <1>5, <1>10, <2>1
  <2>3. index - 1 = Len(config.loggers) /\ Len(config.loggers) = Len(file.loggers)
    <3>1. file.loggers \in Seq(LoggerNode)
      BY <2>2, ConfigsAssumption
    <3>2. SameTree(config.loggers, file.loggers)
      BY <2>2, <3>1, PrepareCompletes
    <3>3. Len(config.loggers) = Len(file.loggers)
      BY <3>1, <3>2 DEF SameTree
    <3> QED
      BY <1>2, <2>1, <2>2, <3>3
  <2>4. Registered(Prepare(file.loggers).loggers, Len(file.loggers))
    BY <2>1, <2>2, <2>3
  <2>5. Registered(Prepare(file.loggers).loggers, Len(file.loggers))'
    <3>1. PICK ls, n : ls = Prepare(file.loggers).loggers /\ n = Len(file.loggers)
      OBVIOUS
    <3>2. Registered(ls, n)'
      <4>1. Registered(ls, n)
        BY <2>4, <3>1
      <4> QED
        BY <2>1, <4>1, RegisteredKept
    <3>3. Prepare(file'.loggers).loggers = ls /\ Len(file'.loggers) = n
      BY <1>1, <3>1
    <3> QED
      BY <3>2, <3>3
  <2> QED
    BY <1>1, <1>10, <2>1, <2>2, <2>5 DEF FirstSetup
<1>11. CASE setups = 1 /\ Update
  <2>1. /\ UNCHANGED setupVars /\ job.kind = "register"
        /\ UNCHANGED <<factories, defaultFactory>>
        /\ \/ \E id : job' = [job EXCEPT !.half = id]
           \/ job' = [job EXCEPT !.half = 0, !.todo = job.todo \ {job.half}]
    BY <1>11 DEF Update, UpdateSink, UpdateLevel
  <2>2. job # NoJob /\ job \in JobType
    BY <2>1 DEF TypeOK, NoJob
  <2>3. /\ job'.kind = "register" /\ job'.name = job.name /\ job'.default = job.default
        /\ job'.factory = job.factory
    <3>1. PICK half, todo :
            job' = [kind |-> job.kind, name |-> job.name, factory |-> job.factory,
                    default |-> job.default, todo |-> todo, half |-> half]
      <4>1. \A half : [job EXCEPT !.half = half] =
                        [kind |-> job.kind, name |-> job.name, factory |-> job.factory,
                         default |-> job.default, todo |-> job.todo, half |-> half]
        BY <2>2, JobFields, Zenon
      <4>2. [job EXCEPT !.half = 0, !.todo = job.todo \ {job.half}] =
              [kind |-> job.kind, name |-> job.name, factory |-> job.factory,
               default |-> job.default, todo |-> job.todo \ {job.half}, half |-> 0]
        BY <2>2, JobFields, Zenon
      <4> QED
        BY <2>1, <4>1, <4>2, Zenon
    <3> QED
      BY <2>1, <3>1
  <2>4. SameJob
    BY <2>2, <2>3 DEF SameJob, NoJob
  <2>5. UNCHANGED <<factories, defaultFactory, setups, phase, index, config, file>>
    BY <2>1 DEF setupVars
  <2> QED
    BY <2>4, <2>5, SetupKept
<1>12. CASE setups = 1 /\ Finish
  <2>1. /\ job.kind = "register" /\ job' = NoJob
        /\ defaultFactory' = IF job.default THEN job.factory ELSE defaultFactory
        /\ factories' = IF Inserted THEN With(factories, job.name, job.factory) ELSE factories
    BY <1>12 DEF Finish, FinishRegister
  <2>2. IF phase = "registering" THEN phase' = "idle" /\ UNCHANGED <<index, config>>
        ELSE IF Inserted THEN index' = index + 1 /\ UNCHANGED <<phase, config>>
        ELSE Fail
    BY <1>12, Zenon DEF Finish
  <2>3. job # NoJob
    BY <2>1 DEF NoJob
  <2>4. CASE phase = "registering" \/ ~ Inserted \/ phase \notin {"sinks", "loggers", "done"}
    <3>1. phase' \notin {"sinks", "loggers", "done"}
      BY <2>2, <2>4 DEF Fail
    <3> QED
      BY <1>1, <1>12, <3>1, SetupLeft
  <2>5. CASE phase = "done"
    BY <1>12, <2>3, <2>5 DEF FirstSetup, OnlyConfigured
  <2>6. CASE Inserted /\ phase \in {"sinks", "loggers"}
    <3>1. During /\ Registering
      BY <1>5, <1>12, <2>3, <2>6
    <3>2. phase = "loggers" /\ index' = index + 1 /\ phase' = phase /\ config' = config
      BY <2>2, <2>6, <3>1
    <3>3. PICK ls, n, l : ls = config.loggers /\ n = index /\ l = ls[n]
      OBVIOUS
    <3>4. l.default \in BOOLEAN
      <4>1. l \in LoggerNode
        BY <1>2, <3>1, <3>3
      <4> QED
        BY <4>1 DEF LoggerNode
    <3>5. Registered(ls, n - 1) /\ n \in Nat \ {0}
      BY <1>2, <3>1, <3>2, <3>3
    <3>6. /\ l.name # NoName /\ l.name \notin DOMAIN factories
          /\ factories' = With(factories, l.name, Making(l.level, l.sinks))
          /\ defaultFactory' = IF l.default THEN Making(l.level, l.sinks) ELSE defaultFactory
      BY <2>1, <2>6, <3>1, <3>3 DEF Inserted
    <3>7. Registered(ls, n)'
      BY <3>3, <3>4, <3>5, <3>6, OneMore
    <3>8. Registered(config.loggers, IF phase = "sinks" THEN 0 ELSE index - 1)'
      <4>1. config'.loggers = ls /\ (IF phase' = "sinks" THEN 0 ELSE index' - 1) = n
        BY <3>2, <3>3, <3>5
      <4> QED
        BY <3>7, <4>1
    <3>9. index' <= Len(config'.loggers) + 1
      BY <1>2, <3>1, <3>2
    <3> QED
      BY <1>1, <1>6, <1>12, <2>1, <3>1, <3>2, <3>8, <3>9
  <2> QED
    BY <2>4, <2>5, <2>6
<1> QED
  BY <1>3, <1>4, <1>7, <1>8, <1>9, <1>10, <1>11, <1>12 DEF Setup

(* The rest of the steps.                                                  *)
LEMMA StepFirstSetup ==
  ASSUME FirstSetup, TypeOK, [Next]_vars
  PROVE  FirstSetup'
<1>1. CASE Setup
  BY <1>1, SetupGoesOn
<1>2. CASE NewSetup
  <2>1. ASSUME NEW toml \in Configs, Configure(toml)
        PROVE  FirstSetup'
    BY <2>1, ConfigureFirst
  <2>2. CASE SetDefaultLoggerFunc \/ \E isDefault \in BOOLEAN : RegisterLogger(isDefault)
    <3>1. setups' = setups + 1 /\ phase' = "registering"
      BY <2>2 DEF SetDefaultLoggerFunc, RegisterLogger, MayCall
    <3>2. setups' \in Nat /\ setups' # 0
      BY <3>1 DEF FirstSetup
    <3> QED
      BY <3>1, <3>2, SetupLeft
  <2> QED
    BY <1>2, <2>1, <2>2 DEF NewSetup
<1>3. CASE Watch
  <2>1. UNCHANGED setupVars /\ UNCHANGED <<job, factories, defaultFactory>>
    BY <1>3 DEF Watch, Reload, ReloadLogger, Reloaded, registry
  <2> QED
    BY <2>1, SetupKept DEF setupVars, SameJob
<1>4. ASSUME NEW c \in Clients, Client(c)
      PROVE  FirstSetup'
  <2>1. UNCHANGED setupVars /\ UNCHANGED <<job, factories, defaultFactory>>
    <3>1. UNCHANGED setupVars
      BY <1>4 DEF Client
    <3>2. CASE \E n \in Names : Get(c, n)
      BY <3>1, <3>2 DEF Get
    <3>3. CASE BeginLog(c) \/ FinishLog(c) \/ FetchDefault(c) \/ LogToDefault(c)
      BY <3>1, <3>3 DEF BeginLog, FinishLog, FetchDefault, LogToDefault, registry
    <3> QED
      BY <1>4, <3>2, <3>3 DEF Client
  <2> QED
    BY <2>1, SetupKept DEF setupVars, SameJob
<1>5. CASE UNCHANGED vars
  BY <1>5, SetupKept DEF vars, registry, setupVars, SameJob
<1> QED
  BY <1>1, <1>2, <1>3, <1>4, <1>5 DEF Next

(* Nobody gets another logger, and no logger another level or sink.        *)
LEMMA AnswersKept ==
  ASSUME Answered, UNCHANGED <<loggers, asked, held>>,
         Settled' => Settled /\ UNCHANGED <<objects, file, early>>
  PROVE  Answered'
<1>1. /\ DOMAIN loggers' \subseteq Names /\ asked' \in [Clients -> {NoName} \cup Names]
      /\ \A c \in Clients : held'[c] # 0 => DOMAIN loggers' \cap Fragments(asked'[c]) # {}
  BY DEF Answered
<1>2. ASSUME Settled'
      PROVE  /\ \A n \in DOMAIN loggers' : Fresh(n)' => (objects[loggers[n]] = Configured(n))'
             /\ \A c \in ConfiguredClients' : (objects[held[c]] = Configured(asked[c]))'
  <2>1. Settled /\ objects' = objects /\ file' = file /\ early' = early
    BY <1>2
  <2>2. \A n : (Fresh(n)' <=> Fresh(n)) /\ Configured(n)' = Configured(n)
    BY <2>1 DEF Fresh, Configured, LevelOf, SinksOf
  <2>3. ConfiguredClients' = ConfiguredClients
    BY <2>1 DEF ConfiguredClients, Fresh
  <2>4. /\ \A n \in DOMAIN loggers : Fresh(n) => objects[loggers[n]] = Configured(n)
        /\ \A c \in ConfiguredClients : objects[held[c]] = Configured(asked[c])
    BY <2>1 DEF Answered, Settled
  <2>5. \A c \in ConfiguredClients' : (objects[held[c]] = Configured(asked[c]))'
    BY <2>1, <2>3, <2>4 DEF Configured, LevelOf, SinksOf
  <2>6. \A n \in DOMAIN loggers' : Fresh(n)' => (objects[loggers[n]] = Configured(n))'
    BY <2>1, <2>2, <2>4
  <2> QED
    BY <2>5, <2>6
<1> QED
  BY <1>1, <1>2 DEF Answered, Settled

(* The configuration is done: the loggers that there are came before.      *)
LEMMA DoneAnswered ==
  ASSUME Answered, LoggersConfigured
  PROVE  Answered'
<1>1. UNCHANGED <<loggers, asked, held>> /\ early' = DOMAIN loggers
  BY DEF LoggersConfigured, registry, clients
<1>2. /\ DOMAIN loggers' \subseteq Names /\ asked' \in [Clients -> {NoName} \cup Names]
      /\ \A c \in Clients : held'[c] # 0 => DOMAIN loggers' \cap Fragments(asked'[c]) # {}
  BY <1>1 DEF Answered
<1>3. \A n \in DOMAIN loggers' : ~ Fresh(n)'
  <2>1. ASSUME NEW n \in DOMAIN loggers
        PROVE  n \in early' \cap Fragments(n)
    <3>1. n \in Seq(STRING) /\ n # <<>>
      BY NamesAssumption DEF Answered
    <3> QED
      BY <1>1, <3>1, WholeIsFragment
  <2> QED
    BY <1>1, <2>1 DEF Fresh
<1>4. \A c \in Clients : ~ (held'[c] # 0 /\ Fresh(asked[c])')
  BY <1>1, <1>2 DEF Fresh
<1>5. ConfiguredClients' = {}
  BY <1>4 DEF ConfiguredClients
<1> QED
  BY <1>2, <1>3, <1>5 DEF Answered

(* A search answers a logger that is there, or one that it makes; after    *)
(* the configuration it is what the file says.                             *)
FindAnswers(c, name, id) ==
  /\ held' = [held EXCEPT ![c] = id]
  /\ \A x \in DOMAIN objects : objects'[x] = objects[x]
  /\ \/ loggers' = loggers /\ DOMAIN loggers \cap Fragments(name) # {}
     \/ loggers' = With(loggers, name, id)
  /\ Settled /\ Fresh(name) => objects'[id] = Configured(name)

LEMMA MakeAnswers ==
  ASSUME TypeOK, NEW c \in Clients, NEW name, NEW f \in FactoryType, Create(c, name, f),
         Settled /\ Fresh(name) => /\ f.kind # "same"
                                   /\ Configured(name) = [level |-> f.level, sink |-> f.sink]
  PROVE  \E id : FindAnswers(c, name, id)
<1> DEFINE id == IF f.kind = "same" THEN f.logger ELSE Len(objects) + 1
           logger == [level |-> f.level, sink |-> f.sink]
<1>1. /\ IF f.kind = "same" THEN objects' = objects ELSE objects' = Append(objects, logger)
      /\ loggers' = With(loggers, name, id)
      /\ held' = [held EXCEPT ![c] = id]
  BY DEF Create
<1>2. objects \in Seq(LoggerType) /\ logger \in LoggerType
  BY DEF TypeOK, LoggerType, FactoryType
<1>3. DOMAIN objects = 1 .. Len(objects)
  BY <1>2
<1> HIDE DEF logger
<1>4. f.kind # "same" => objects'[Len(objects) + 1] = logger
  BY <1>1, <1>2, AppendProperties, HeadTailAppend
<1>5. \A x \in DOMAIN objects : objects'[x] = objects[x]
  <2>1. CASE f.kind = "same"
    BY <1>1, <2>1
  <2>2. CASE f.kind # "same"
    BY <1>1, <1>2, <1>3, <2>2, AppendProperties, HeadTailAppend
  <2> QED
    BY <2>1, <2>2
<1>6. Settled /\ Fresh(name) => objects'[id] = Configured(name)
  BY <1>4 DEF logger
<1> HIDE DEF id
<1>7. FindAnswers(c, name, id)
  BY <1>1, <1>5, <1>6 DEF FindAnswers
<1> QED
  BY <1>7

LEMMA SearchAnswers ==
  ASSUME TypeOK, FirstSetup, Answered, NEW c \in Clients, NEW name \in Names, Find(c, name)
  PROVE  \E id : FindAnswers(c, name, id)
<1>1. name \in Seq(STRING)
  BY NamesAssumption
<1> DEFINE known == { f \in Fragments(name) : f \in DOMAIN loggers \cup DOMAIN factories }
           nearest == CHOOSE f \in known : \A g \in known : Len(g) <= Len(f)
<1>2. IF known = {} THEN Create(c, name, defaultFactory)
      ELSE IF nearest \in DOMAIN loggers THEN Answer(c, loggers[nearest])
      ELSE Create(c, name, factories[nearest])
  BY Zenon DEF Find
<1>3. known # {} => nearest \in known /\ \A g \in known : Len(g) <= Len(nearest)
  BY <1>1, LongestFound
<1>4. \A f : f \in known <=> f \in Fragments(name) /\ (f \in DOMAIN loggers \/ f \in DOMAIN factories)
  OBVIOUS
<1>5. PICK n : n = nearest
  OBVIOUS
<1> HIDE DEF nearest, known
<1>6. CASE known = {}
  <2>1. PICK f : f = defaultFactory
    OBVIOUS
  <2>2. f \in FactoryType /\ Create(c, name, f)
    BY <1>2, <1>6, <2>1 DEF TypeOK
  <2>3. \A g \in Fragments(name) : g \notin DOMAIN factories
    BY <1>4, <1>6
  <2>4. Settled => /\ f.kind # "same"
                   /\ Configured(name) = [level |-> f.level, sink |-> f.sink]
    BY <2>1, <2>3, DefaultMakes
  <2> QED
    BY <2>2, <2>4, MakeAnswers
<1>7. CASE known # {}
  <2>1. n \in Fragments(name) /\ (n \in DOMAIN loggers \/ n \in DOMAIN factories)
    BY <1>3, <1>4, <1>5, <1>7
  <2>2. Settled => Configured(name) = Configured(n)
    <3>1. ASSUME Settled, NEW i \in DOMAIN file.loggers, file.loggers[i].name \in Fragments(name)
          PROVE  Len(file.loggers[i].name) <= Len(n)
      <4>1. file.loggers[i].name \in DOMAIN factories
        BY <3>1, FileHasFactories
      <4> QED
        BY <1>3, <1>4, <1>5, <1>7, <3>1, <4>1
    <3> QED
      BY <1>1, <2>1, <3>1, SameConfigured
  <2>3. Fresh(name) => Fresh(n) /\ n # <<"logpp">>
    <3>1. n \in Fragments(n) /\ \A g : g \in Fragments(n) => g \in Fragments(name)
      BY <1>1, <2>1, FragmentsNested
    <3> QED
      BY <3>1 DEF Fresh
  <2>4. CASE n \in DOMAIN loggers
    <3>1. Answer(c, loggers[n])
      BY <1>2, <1>5, <1>7, <2>4
    <3>2. /\ held' = [held EXCEPT ![c] = loggers[n]]
          /\ objects' = objects /\ loggers' = loggers
      BY <3>1 DEF Answer
    <3>3. Settled /\ Fresh(n) => objects[loggers[n]] = Configured(n)
      BY <2>4 DEF Answered, Settled
    <3>4. FindAnswers(c, name, loggers[n])
      BY <2>1, <2>2, <2>3, <2>4, <3>2, <3>3 DEF FindAnswers
    <3> QED
      BY <3>4
  <2>5. CASE n \notin DOMAIN loggers
    <3>1. PICK f : f = factories[n]
      OBVIOUS
    <3>2. n \in DOMAIN factories /\ Create(c, name, f)
      BY <1>2, <1>5, <1>7, <2>1, <2>5, <3>1
    <3>3. f \in FactoryType
      BY <3>1, <3>2 DEF TypeOK
    <3>4. Settled /\ n # <<"logpp">> =>
            f.kind # "same" /\ Configured(n) = [level |-> f.level, sink |-> f.sink]
      BY <3>1, <3>2, FactoryMakes
    <3>5. Settled /\ Fresh(name) =>
            f.kind # "same" /\ Configured(name) = [level |-> f.level, sink |-> f.sink]
      BY <2>2, <2>3, <3>4
    <3> QED
      BY <3>2, <3>3, <3>5, MakeAnswers
  <2> QED
    BY <2>4, <2>5
<1> QED
  BY <1>6, <1>7

LEMMA GetAnswered ==
  ASSUME TypeOK, FirstSetup, Answered, NEW c \in Clients, NEW name \in Names, Get(c, name),
         UNCHANGED <<setupVars, reloadVars, early>>
  PROVE  Answered'
<1>1. Find(c, name) /\ asked' = [asked EXCEPT ![c] = name]
  BY DEF Get
<1>2. PICK id : FindAnswers(c, name, id)
  BY <1>1, SearchAnswers
<1>3. /\ held' = [held EXCEPT ![c] = id]
      /\ \A x \in DOMAIN objects : objects'[x] = objects[x]
      /\ \/ loggers' = loggers /\ DOMAIN loggers \cap Fragments(name) # {}
         \/ loggers' = With(loggers, name, id)
      /\ Settled /\ Fresh(name) => objects'[id] = Configured(name)
  BY <1>2 DEF FindAnswers
<1>4. /\ held \in [Clients -> {0} \cup DOMAIN objects] /\ asked \in [Clients -> {NoName} \cup Names]
      /\ \A n \in DOMAIN loggers : loggers[n] \in DOMAIN objects
      /\ DOMAIN loggers \subseteq Names
  BY DEF TypeOK, Answered
<1>5. /\ held'[c] = id /\ asked'[c] = name
      /\ \A k \in Clients : k # c => held'[k] = held[k] /\ asked'[k] = asked[k]
      /\ asked' \in [Clients -> {NoName} \cup Names]
  BY <1>1, <1>3, <1>4
<1>6. /\ DOMAIN loggers \subseteq DOMAIN loggers' /\ DOMAIN loggers' \subseteq Names
      /\ DOMAIN loggers' \cap Fragments(name) # {}
      /\ \A n \in DOMAIN loggers' : \/ n \in DOMAIN loggers /\ loggers'[n] = loggers[n]
                                    \/ n = name /\ loggers'[n] = id
  <2>1. CASE loggers' = loggers /\ DOMAIN loggers \cap Fragments(name) # {}
    BY <1>4, <2>1
  <2>2. CASE loggers' = With(loggers, name, id)
    <3>1. name \in Fragments(name)
      BY NamesAssumption, WholeIsFragment
    <3> QED
      BY <1>4, <2>2, <3>1 DEF With
  <2> QED
    BY <1>3, <2>1, <2>2
<1>7. \A k \in Clients : held'[k] # 0 => DOMAIN loggers' \cap Fragments(asked'[k]) # {}
  <2>1. ASSUME NEW k \in Clients, k # c, held'[k] # 0
        PROVE  DOMAIN loggers' \cap Fragments(asked'[k]) # {}
    <3>1. DOMAIN loggers \cap Fragments(asked[k]) # {}
      BY <1>5, <2>1 DEF Answered
    <3> QED
      BY <1>5, <1>6, <2>1, <3>1
  <2> QED
    BY <1>5, <1>6, <2>1
<1>8. /\ Settled' = Settled
      /\ \A n : (Fresh(n)' <=> Fresh(n)) /\ Configured(n)' = Configured(n)
  <2>1. file' = file /\ setups' = setups /\ phase' = phase /\ reloads' = reloads /\ early' = early
    BY DEF setupVars, reloadVars
  <2>2. \A n : (Fresh(n)' <=> Fresh(n)) /\ Configured(n)' = Configured(n)
    BY <2>1 DEF Fresh, Configured, LevelOf, SinksOf
  <2> QED
    BY <2>1, <2>2 DEF Settled, OnlyConfigured, OneDefault
<1>9. ASSUME Settled
      PROVE  /\ \A n \in DOMAIN loggers' : Fresh(n) => objects'[loggers'[n]] = Configured(n)
             /\ \A k \in Clients : held'[k] # 0 /\ Fresh(asked'[k]) =>
                                     objects'[held'[k]] = Configured(asked'[k])
  <2>1. /\ \A n \in DOMAIN loggers : Fresh(n) => objects[loggers[n]] = Configured(n)
        /\ \A k \in Clients : held[k] # 0 /\ Fresh(asked[k]) =>
                                objects[held[k]] = Configured(asked[k])
    BY <1>9 DEF Answered, Settled, ConfiguredClients
  <2>2. ASSUME NEW n \in DOMAIN loggers', Fresh(n)
        PROVE  objects'[loggers'[n]] = Configured(n)
    <3>1. CASE n \in DOMAIN loggers /\ loggers'[n] = loggers[n]
      BY <1>3, <1>4, <2>1, <2>2, <3>1
    <3>2. CASE n = name /\ loggers'[n] = id
      BY <1>3, <1>9, <2>2, <3>2
    <3> QED
      BY <1>6, <3>1, <3>2
  <2>3. ASSUME NEW k \in Clients, held'[k] # 0, Fresh(asked'[k])
        PROVE  objects'[held'[k]] = Configured(asked'[k])
    <3>1. CASE k = c
      BY <1>3, <1>5, <1>9, <2>3, <3>1
    <3>2. CASE k # c
      <4>1. held'[k] = held[k] /\ asked'[k] = asked[k] /\ held[k] \in DOMAIN objects
        BY <1>4, <1>5, <2>3, <3>2
      <4>2. objects[held[k]] = Configured(asked[k])
        BY <2>1, <2>3, <4>1
      <4> QED
        BY <1>3, <4>1, <4>2
    <3> QED
      BY <3>1, <3>2
  <2> QED
    BY <2>2, <2>3
<1>10. ASSUME Settled'
       PROVE  /\ \A n \in DOMAIN loggers' : Fresh(n)' => (objects[loggers[n]] = Configured(n))'
              /\ \A k \in ConfiguredClients' : (objects[held[k]] = Configured(asked[k]))'
  <2>1. Settled
    BY <1>8, <1>10
  <2>2. \A n \in DOMAIN loggers' : Fresh(n)' => (objects[loggers[n]] = Configured(n))'
    BY <1>8, <1>9, <2>1
  <2>3. ASSUME NEW k \in ConfiguredClients'
        PROVE  (objects[held[k]] = Configured(asked[k]))'
    <3>1. PICK a : a = asked'[k]
      OBVIOUS
    <3>2. k \in Clients /\ held'[k] # 0 /\ Fresh(a)'
      BY <2>3, <3>1 DEF ConfiguredClients, Fresh
    <3>3. objects'[held'[k]] = Configured(a)'
      BY <1>8, <1>9, <2>1, <3>1, <3>2
    <3>4. Configured(a)' = Configured(asked[k])'
      BY <3>1
    <3> QED
      BY <3>3, <3>4
  <2> QED
    BY <2>2, <2>3
<1> QED
  BY <1>5, <1>6, <1>7, <1>10 DEF Answered, Settled

LEMMA StepAnswered ==
  ASSUME IInv, FirstSetup, Answered, [Next]_vars
  PROVE  Answered'
<1>1. TypeOK /\ reloads \in Nat /\ setups \in Nat
  BY DEF IInv, TypeOK, FirstSetup
<1>2. CASE UNCHANGED <<loggers, asked, held>> /\ ~ Settled'
  BY <1>2, AnswersKept
<1>3. CASE /\ UNCHANGED <<loggers, asked, held, objects, file, early>>
           /\ UNCHANGED <<setups, phase, reloads>>
  <2>1. Settled' => Settled
    BY <1>3 DEF Settled, OnlyConfigured, OneDefault
  <2> QED
    BY <1>3, <2>1, AnswersKept
<1>4. CASE Setup
  <2>1. CASE LoggersConfigured
    BY <2>1, DoneAnswered
  <2>2. CASE ConfigureSink \/ SinksConfigured \/ ConfigureLogger
    <3>1. UNCHANGED <<loggers, asked, held>> /\ phase' # "done"
      BY <2>2 DEF ConfigureSink, SinksConfigured, ConfigureLogger, Fail, registry, clients,
                  setupVars
    <3> QED
      BY <1>2, <3>1 DEF Settled, OnlyConfigured
  <2>3. CASE Update \/ Finish
    <3>1. job.kind = "register" /\ UNCHANGED <<loggers, asked, held, setups>>
          /\ (phase' = "done" => phase = "done")
      <4>1. CASE Update
        BY <4>1 DEF Update, UpdateSink, UpdateLevel, setupVars, clients
      <4>2. CASE Finish
        BY <4>2 DEF Finish, FinishRegister, Fail, clients
      <4> QED
        BY <2>3, <4>1, <4>2
    <3>2. ~ Settled'
      BY <3>1 DEF Settled, OnlyConfigured, FirstSetup, NoJob
    <3> QED
      BY <1>2, <3>1, <3>2
  <2> QED
    BY <1>4, <2>1, <2>2, <2>3 DEF Setup
<1>5. CASE NewSetup
  <2>1. /\ UNCHANGED <<loggers, asked, held>> /\ setups' = setups + 1
        /\ phase' # "done"
    <3>1. ASSUME NEW toml \in Configs, Configure(toml)
          PROVE  UNCHANGED <<loggers, asked, held>> /\ setups' = setups + 1 /\ phase' # "done"
      <4>1. Prepare(toml.loggers).result \in {"sinks", "failed", "looping"}
        BY ConfigsAssumption, PrepareCompletes
      <4> QED
        BY <3>1, <4>1 DEF Configure, MayCall, Fail, registry, clients
    <3>2. CASE SetDefaultLoggerFunc \/ \E isDefault \in BOOLEAN : RegisterLogger(isDefault)
      BY <3>2 DEF SetDefaultLoggerFunc, RegisterLogger, MayCall, registry, clients
    <3> QED
      BY <1>5, <3>1, <3>2 DEF NewSetup
  <2> QED
    BY <1>2, <2>1 DEF Settled, OnlyConfigured
<1>6. CASE Watch
  <2>1. UNCHANGED <<loggers, asked, held, file, early, setups, phase>>
    BY <1>6 DEF Watch, Reload, ReloadLogger, Reloaded, registry, clients, setupVars
  <2>2. CASE \E toml \in Configs : Reload(toml)
    <3>1. reloads' = reloads + 1
      BY <2>2 DEF Reload
    <3> QED
      BY <1>1, <1>2, <2>1, <3>1 DEF Settled
  <2>3. CASE ReloadLogger
    <3>1. reloads' = reloads /\ reloads > 0
      BY <1>1, <2>3 DEF ReloadLogger, TypeOK
    <3> QED
      BY <1>1, <1>2, <2>1, <3>1 DEF Settled
  <2>4. CASE Reloaded
    <3>1. objects' = objects /\ reloads' = reloads
      BY <2>4 DEF Reloaded, registry
    <3> QED
      BY <1>3, <2>1, <3>1
  <2> QED
    BY <1>6, <2>2, <2>3, <2>4 DEF Watch
<1>7. ASSUME NEW c \in Clients, Client(c)
      PROVE  Answered'
  <2>1. UNCHANGED <<setupVars, reloadVars, early>>
    BY <1>7 DEF Client
  <2>2. ASSUME NEW n \in Names, Get(c, n)
        PROVE  Answered'
    BY <1>1, <2>1, <2>2, GetAnswered
  <2>3. CASE BeginLog(c) \/ FinishLog(c) \/ FetchDefault(c) \/ LogToDefault(c)
    <3>1. UNCHANGED <<loggers, asked, held, objects>>
      BY <2>3 DEF BeginLog, FinishLog, FetchDefault, LogToDefault, registry
    <3> QED
      BY <1>3, <2>1, <3>1 DEF setupVars, reloadVars
  <2> QED
    BY <1>7, <2>2, <2>3 DEF Client
<1>8. CASE UNCHANGED vars
  BY <1>3, <1>8 DEF vars, registry, clients, setupVars, reloadVars
<1> QED
  BY <1>4, <1>5, <1>6, <1>7, <1>8 DEF Next

-----------------------------------------------------------------------------
(***************************************************************************)
(* The sinks of a file, in the order of their lines.                       *)
(***************************************************************************)

(* In a finite set with a total order, of which before[i] are those that   *)
(* come before i, every place is taken by one.                             *)
LEMMA Ranked ==
  ASSUME NEW S, IsFiniteSet(S), NEW before,
         \A i \in S : before[i] \subseteq S \ {i},
         \A i, j \in S : i = j \/ i \in before[j] \/ j \in before[i],
         \A i, j \in S : j \in before[i] => before[j] \subseteq before[i]
  PROVE  /\ Cardinality(S) \in Nat
         /\ \A k \in 1 .. Cardinality(S) : \E i \in S : Cardinality(before[i]) = k - 1
         /\ \A i \in S : Cardinality(before[i]) \in 0 .. Cardinality(S) - 1
         /\ \A i, j \in S : j \in before[i] <=> Cardinality(before[j]) < Cardinality(before[i])
<1> DEFINE n == Cardinality(S)
           rank == [i \in S |-> Cardinality(before[i])]
<1>1. n \in Nat
  BY FS_CardinalityType
<1>2. ASSUME NEW i \in S
      PROVE  /\ IsFiniteSet(before[i]) /\ rank[i] = Cardinality(before[i])
             /\ rank[i] \in 0 .. n - 1
  <2>1. IsFiniteSet(S \ {i}) /\ Cardinality(S \ {i}) = n - 1
    BY FS_RemoveElement
  <2>2. IsFiniteSet(before[i]) /\ Cardinality(before[i]) <= n - 1
    BY <2>1, FS_Subset
  <2>3. Cardinality(before[i]) \in Nat
    BY <2>2, FS_CardinalityType
  <2> QED
    BY <1>1, <2>2, <2>3
<1>3. ASSUME NEW i \in S, NEW j \in S, j \in before[i]
      PROVE  rank[j] < rank[i]
  <2>1. before[j] \cup {j} \subseteq before[i] /\ j \notin before[j]
    BY <1>3
  <2>2. /\ IsFiniteSet(before[j] \cup {j})
        /\ Cardinality(before[j] \cup {j}) = rank[j] + 1
    BY <1>2, <2>1, FS_AddElement
  <2>3. Cardinality(before[j] \cup {j}) <= Cardinality(before[i])
    BY <1>2, <2>1, FS_Subset
  <2> QED
    BY <1>2, <2>2, <2>3
<1>4. \A i, j \in S : j \in before[i] <=> rank[j] < rank[i]
  <2>1. ASSUME NEW i \in S, NEW j \in S, rank[j] < rank[i]
        PROVE  j \in before[i]
    <3>1. rank[i] \in Nat /\ rank[j] \in Nat
      BY <1>2
    <3>2. i # j
      BY <2>1, <3>1
    <3>3. CASE i \in before[j]
      BY <1>3, <2>1, <3>1, <3>3
    <3> QED
      BY <3>2, <3>3
  <2> QED
    BY <1>3, <2>1
<1> DEFINE ranks == 0 .. n - 1
<1>5. rank \in Injection(S, ranks)
  <2>1. rank \in [S -> ranks]
    BY <1>2
  <2>2. ASSUME NEW i \in S, NEW j \in S, rank[i] = rank[j]
        PROVE  i = j
    <3>1. rank[i] \in Nat /\ ~ (rank[i] < rank[j]) /\ ~ (rank[j] < rank[i])
      BY <1>2, <2>2
    <3> QED
      BY <1>3, <3>1
  <2> HIDE DEF rank
  <2> QED
    BY <2>1, <2>2 DEF Injection, IsInjective
<1>6. IsFiniteSet(ranks) /\ Cardinality(ranks) = n
  BY <1>1, FS_Interval
<1>7. rank \in Surjection(S, ranks)
  <2> HIDE DEF rank, ranks, n
  <2> QED
    BY <1>5, <1>6, FS_Injection DEF n
<1>8. \A r \in ranks : \E i \in S : rank[i] = r
  <2> HIDE DEF rank, ranks
  <2> QED
    BY <1>7 DEF Surjection
<1>9. ASSUME NEW k \in 1 .. n
      PROVE  \E i \in S : Cardinality(before[i]) = k - 1
  <2>1. k - 1 \in ranks
    BY <1>1
  <2> QED
    BY <1>2, <1>8, <2>1
<1> QED
  BY <1>1, <1>2, <1>4, <1>9

(* InLineOrder has every sink once, and a sink that is on a line before    *)
(* another comes before it.                                                *)
LEMMA Sorted ==
  ASSUME NEW toml \in Configs
  PROVE  LET n == Cardinality(ParseSinks(toml))
             ordered == InLineOrder(toml)
         IN /\ n \in Nat /\ DOMAIN ordered = 1 .. n /\ Len(ordered) = n
            /\ \E place \in [1 .. n -> ParseSinks(toml)] :
                 /\ \A k \in 1 .. n : ordered[k] = toml.sinks[place[k]]
                 /\ \A i \in ParseSinks(toml) : \E k \in 1 .. n : place[k] = i
                 /\ \A j, k \in 1 .. n : Precedes(toml, place[j], place[k]) <=> j < k
<1> DEFINE S == ParseSinks(toml)
           n == Cardinality(S)
           before == [i \in S |-> { j \in S : Precedes(toml, j, i) }]
           place == [k \in 1 .. n |-> CHOOSE i \in S :
                        Cardinality({ j \in S : Precedes(toml, j, i) }) = k - 1]
           ordered == InLineOrder(toml)
<1>1. /\ Len(toml.sinks) \in Nat /\ S \subseteq 1 .. Len(toml.sinks)
      /\ \A i \in S : toml.sinks[i].line \in Nat
  BY ConfigsAssumption DEF ParseSinks
<1>2. IsFiniteSet(S)
  <2>1. IsFiniteSet(1 .. Len(toml.sinks))
    BY <1>1, FS_Interval
  <2> QED
    BY <1>1, <2>1, FS_Subset
<1>3. ordered = [k \in 1 .. n |-> toml.sinks[place[k]]]
  BY DEF InLineOrder
<1>4. \A i, j \in S : j \in before[i] <=> Precedes(toml, j, i)
  OBVIOUS
<1>5. \A i \in S : before[i] = { j \in S : Precedes(toml, j, i) }
  OBVIOUS
<1>6. \A k \in 1 .. n : place[k] = CHOOSE i \in S :
                          Cardinality({ j \in S : Precedes(toml, j, i) }) = k - 1
  OBVIOUS
<1>7. \A i \in S : i \in Nat
  BY <1>1
<1>8. /\ \A i \in S : before[i] \subseteq S \ {i}
      /\ \A i, j \in S : i = j \/ i \in before[j] \/ j \in before[i]
      /\ \A i, j \in S : j \in before[i] => before[j] \subseteq before[i]
  BY <1>1, <1>4, <1>5, <1>7 DEF Precedes
<1> HIDE DEF S, before, place, ordered
<1>9. /\ n \in Nat
      /\ \A k \in 1 .. n : \E i \in S : Cardinality(before[i]) = k - 1
      /\ \A i \in S : Cardinality(before[i]) \in 0 .. n - 1
      /\ \A i, j \in S : j \in before[i] <=> Cardinality(before[j]) < Cardinality(before[i])
  BY <1>2, <1>8, Ranked
<1> HIDE DEF n
<1>10. ASSUME NEW k \in 1 .. n
       PROVE  place[k] \in S /\ Cardinality(before[place[k]]) = k - 1
  <2>1. \E i \in S : Cardinality({ j \in S : Precedes(toml, j, i) }) = k - 1
    BY <1>5, <1>9
  <2>2. place[k] \in S /\ Cardinality({ j \in S : Precedes(toml, j, place[k]) }) = k - 1
    BY <1>6, <2>1, Zenon
  <2> QED
    BY <1>5, <2>2
<1>11. ASSUME NEW i \in S
       PROVE  \E k \in 1 .. n : place[k] = i
  <2> DEFINE k == Cardinality(before[i]) + 1
  <2>1. k \in 1 .. n /\ k - 1 = Cardinality(before[i])
    BY <1>9
  <2> HIDE DEF k
  <2>2. place[k] \in S /\ Cardinality(before[place[k]]) = Cardinality(before[i])
    BY <1>10, <2>1
  <2>3. ~ (Cardinality(before[i]) < Cardinality(before[i]))
    BY <1>9
  <2>4. place[k] = i
    BY <1>8, <1>9, <2>2, <2>3
  <2> QED
    BY <2>1, <2>4
<1>12. ASSUME NEW j \in 1 .. n, NEW k \in 1 .. n
       PROVE  Precedes(toml, place[j], place[k]) <=> j < k
  <2>1. Precedes(toml, place[j], place[k]) <=> place[j] \in before[place[k]]
    BY <1>4, <1>10
  <2>2. place[j] \in before[place[k]] <=> j - 1 < k - 1
    BY <1>9, <1>10
  <2>3. j - 1 < k - 1 <=> j < k
    BY <1>9
  <2> QED
    BY <2>1, <2>2, <2>3
<1>13. place \in [1 .. n -> S]
  BY <1>10 DEF place
<1>14. DOMAIN ordered = 1 .. n /\ \A k \in 1 .. n : ordered[k] = toml.sinks[place[k]]
  BY <1>3
<1>15. Len(ordered) = n
  <2>1. ordered \in Seq({ toml.sinks[i] : i \in S })
    BY <1>3, <1>9, <1>10
  <2> QED
    BY <1>9, <1>14, <2>1
<1> QED
  BY <1>9, <1>11, <1>12, <1>13, <1>14, <1>15 DEF S, n, ordered

(* The sinks that pass are those before the first one that fails.          *)
LEMMA PassedOnes ==
  ASSUME NEW toml \in Configs, LinesApart(toml), NEW m \in 0 .. Cardinality(ParseSinks(toml)),
         NEW ordered, ordered = InLineOrder(toml),
         \A k \in 1 .. m : ~ FailsAt(ordered, k),
         m = Cardinality(ParseSinks(toml)) \/ FailsAt(ordered, m + 1)
  PROVE  { s.name : s \in SinksThatPass(toml) } = FirstNames(ordered, m)
<1> DEFINE n == Cardinality(ParseSinks(toml))
           nodes == { toml.sinks[i] : i \in ParseSinks(toml) }
           Before(s) == { t \in nodes : t.line < s.line }
           Fails(s) == Activate(s.type, s.options, { t.name : t \in Before(s) }) = "error"
<1>1. PICK place \in [1 .. n -> ParseSinks(toml)] :
        /\ \A k \in 1 .. n : ordered[k] = toml.sinks[place[k]]
        /\ \A i \in ParseSinks(toml) : \E k \in 1 .. n : place[k] = i
        /\ \A j, k \in 1 .. n : Precedes(toml, place[j], place[k]) <=> j < k
  BY Sorted
<1>2. n \in Nat
  BY Sorted
<1>3. \A i \in ParseSinks(toml) : i \in Nat /\ toml.sinks[i].line \in Nat
  BY ConfigsAssumption DEF ParseSinks
<1>4. \A k \in 1 .. n : place[k] \in ParseSinks(toml)
  BY <1>1
<1>5. ASSUME NEW j \in 1 .. n, NEW k \in 1 .. n
      PROVE  ordered[j].line < ordered[k].line <=> j < k
  <2>1. Precedes(toml, place[j], place[k]) <=> j < k
    BY <1>1
  <2>2. ordered[j] = toml.sinks[place[j]] /\ ordered[k] = toml.sinks[place[k]]
    BY <1>1
  <2>3. place[j] = place[k] \/ toml.sinks[place[j]].line # toml.sinks[place[k]].line
    BY <1>4 DEF LinesApart
  <2>4. ~ (place[j] < place[j]) /\ ~ (toml.sinks[place[j]].line < toml.sinks[place[j]].line)
    BY <1>3, <1>4
  <2> QED
    BY <2>1, <2>2, <2>3, <2>4 DEF Precedes
<1>6. nodes = { ordered[k] : k \in 1 .. n }
  BY <1>1, <1>4
<1>7. ASSUME NEW k \in 1 .. n
      PROVE  { t.name : t \in Before(ordered[k]) } = FirstNames(ordered, k - 1)
  <2>1. Before(ordered[k]) = { ordered[j] : j \in 1 .. k - 1 }
    <3>1. ASSUME NEW t \in Before(ordered[k])
          PROVE  \E j \in 1 .. k - 1 : t = ordered[j]
      <4>1. PICK j \in 1 .. n : t = ordered[j]
        BY <1>6
      <4>2. j < k
        BY <1>5, <4>1
      <4> QED
        BY <1>2, <4>1, <4>2
    <3>2. ASSUME NEW j \in 1 .. k - 1
          PROVE  ordered[j] \in Before(ordered[k])
      <4>1. j \in 1 .. n /\ j < k
        BY <1>2
      <4> QED
        BY <1>5, <1>6, <4>1
    <3> HIDE DEF Before
    <3> QED
      BY <3>1, <3>2
  <2> HIDE DEF Before
  <2> QED
    BY <2>1 DEF FirstNames
<1>8. \A k \in 1 .. n : Fails(ordered[k]) <=> FailsAt(ordered, k)
  BY <1>7 DEF FailsAt
<1> DEFINE passed == { s \in nodes : ~ \E t \in Before(s) \cup {s} : Fails(t) }
<1>9. SinksThatPass(toml) = passed
  BY DEF SinksThatPass
<1>10. ASSUME NEW k \in 1 .. n
       PROVE  ordered[k] \in passed <=> k <= m
  <2>1. ordered[k] \in nodes
    BY <1>6
  <2>2. ASSUME k <= m, NEW t \in Before(ordered[k]) \cup {ordered[k]}
        PROVE  ~ Fails(t)
    <3>1. PICK j \in 1 .. n : t = ordered[j]
      BY <1>6
    <3>2. j <= k
      <4>1. CASE t = ordered[k]
        <5>1. ~ (ordered[k].line < ordered[k].line)
          BY <1>5, <1>2
        <5>2. ~ (k < j)
          BY <1>5, <3>1, <4>1, <5>1
        <5> QED
          BY <5>2, <1>2
      <4>2. CASE t \in Before(ordered[k])
        <5>1. j < k
          BY <1>5, <3>1, <4>2
        <5> QED
          BY <5>1, <1>2
      <4> QED
        BY <4>1, <4>2
    <3>3. j \in 1 .. m
      BY <1>2, <2>2, <3>2
    <3> HIDE DEF Fails
    <3> QED
      BY <1>8, <3>1, <3>3
  <2>3. ASSUME ~ (k <= m)
        PROVE  \E t \in Before(ordered[k]) \cup {ordered[k]} : Fails(t)
    <3>1. m # n /\ m + 1 \in 1 .. n /\ m + 1 <= k
      BY <1>2, <2>3
    <3>2. Fails(ordered[m + 1])
      <4> HIDE DEF Fails
      <4> QED
        BY <1>8, <3>1
    <3>3. m + 1 = k \/ ordered[m + 1] \in Before(ordered[k])
      <4>1. m + 1 = k \/ m + 1 < k
        BY <1>2, <3>1
      <4> QED
        BY <1>5, <1>6, <3>1, <4>1
    <3> HIDE DEF Fails, Before
    <3> QED
      BY <3>2, <3>3
  <2> HIDE DEF Fails, Before, nodes
  <2> QED
    BY <2>1, <2>2, <2>3
<1> HIDE DEF passed, nodes
<1>11. \A s \in passed : \E k \in 1 .. m : s = ordered[k]
  <2>1. ASSUME NEW s \in passed
        PROVE  \E k \in 1 .. m : s = ordered[k]
    <3>1. s \in nodes
      BY DEF passed
    <3>2. PICK k \in 1 .. n : s = ordered[k]
      BY <1>6, <3>1
    <3>3. k <= m
      BY <1>10, <3>2
    <3> QED
      BY <1>2, <3>2, <3>3
  <2> QED
    BY <2>1
<1>12. \A k \in 1 .. m : ordered[k] \in passed
  BY <1>2, <1>10
<1> QED
  BY <1>9, <1>11, <1>12 DEF FirstNames

(* No two sinks of a file have one name.                                   *)
LEMMA NamesDiffer ==
  ASSUME NEW toml \in Configs, NEW ordered, ordered = InLineOrder(toml),
         NEW j \in 1 .. Cardinality(ParseSinks(toml)), NEW k \in 1 .. Cardinality(ParseSinks(toml)),
         ordered[j].name = ordered[k].name
  PROVE  j = k
<1> DEFINE n == Cardinality(ParseSinks(toml))
<1>1. PICK place \in [1 .. n -> ParseSinks(toml)] :
        /\ \A i \in 1 .. n : ordered[i] = toml.sinks[place[i]]
        /\ \A i, l \in 1 .. n : Precedes(toml, place[i], place[l]) <=> i < l
  BY Sorted
<1>2. n \in Nat
  BY Sorted
<1>3. place[j] \in DOMAIN toml.sinks /\ place[k] \in DOMAIN toml.sinks
  BY <1>1 DEF ParseSinks
<1>4. place[j] = place[k]
  BY <1>1, <1>3, ConfigsAssumption
<1>5. (j < k <=> k < j) /\ j \in Int /\ k \in Int
  BY <1>1, <1>2, <1>4
<1> QED
  BY <1>5

(* A step that has nothing to do with the sinks.                           *)
LEMMA SinksKept ==
  ASSUME SinksPassed, UNCHANGED <<phase, index, config, file, setups, sinks>>,
         job' # NoJob => phase \in {"loggers", "registering"}
  PROVE  SinksPassed'
BY DEF SinksPassed, SinksFollowLines

(* One sink after the other.                                               *)
LEMMA SinkPassed ==
  ASSUME SinksPassed, FirstSetup, TypeOK, ConfigureSink
  PROVE  SinksPassed'
<1>1. /\ phase = "sinks" /\ index <= Len(config.sinks) /\ job = NoJob /\ job' = job
      /\ setups' = setups /\ file' = file
  BY Zenon DEF ConfigureSink
<1>2. setups # 0
  BY <1>1 DEF FirstSetup
<1>3. CASE setups # 1
  BY <1>1, <1>2, <1>3 DEF SinksPassed, SinksFollowLines
<1>4. CASE setups = 1
  <2>1. PICK toml, ordered, i : toml = file /\ ordered = InLineOrder(toml) /\ i = index
    OBVIOUS
  <2> DEFINE n == Cardinality(ParseSinks(toml))
  <2>2. toml \in Configs /\ i \in Nat \ {0}
    BY <1>1, <1>4, <2>1 DEF FirstSetup, TypeOK
  <2>3. /\ config.sinks = ordered /\ DOMAIN sinks = FirstNames(ordered, i - 1)
        /\ \A k \in 1 .. i - 1 : ~ FailsAt(ordered, k)
    BY <1>1, <1>4, <2>1 DEF SinksPassed
  <2>4. n \in Nat /\ Len(ordered) = n
    BY <2>1, <2>2, Sorted
  <2>5. i \in 1 .. n /\ i - 1 \in 0 .. n /\ (i - 1) + 1 = i
    BY <1>1, <2>1, <2>2, <2>3, <2>4
  <2> DEFINE verdict == Activate(ordered[i].type, ordered[i].options, DOMAIN sinks)
  <2>6. IF verdict # "error" /\ ordered[i].name \notin DOMAIN sinks
        THEN /\ sinks' = With(sinks, ordered[i].name, verdict)
             /\ index' = i + 1 /\ UNCHANGED <<phase, config>>
        ELSE Fail /\ UNCHANGED sinks
    BY <2>1, <2>3, Zenon DEF ConfigureSink
  <2>7. verdict = "error" <=> FailsAt(ordered, i)
    BY <2>3 DEF FailsAt
  <2>8. ordered[i].name \notin DOMAIN sinks
    <3>1. ASSUME NEW k \in 1 .. i - 1
          PROVE  ordered[k].name # ordered[i].name
      <4>1. k \in 1 .. n /\ k # i
        BY <2>4, <2>5
      <4> QED
        BY <2>1, <2>2, <2>5, <4>1, NamesDiffer
    <3> QED
      BY <2>3, <3>1 DEF FirstNames
  <2> HIDE DEF verdict
  <2>9. CASE FailsAt(ordered, i)
    <3>1. phase' = "failed" /\ sinks' = sinks
      BY <2>6, <2>7, <2>9 DEF Fail
    <3>2. LinesApart(toml) =>
            { s.name : s \in SinksThatPass(toml) } = FirstNames(ordered, i - 1)
      BY <2>1, <2>2, <2>3, <2>5, <2>9, PassedOnes
    <3>3. SinksFollowLines'
      BY <1>1, <2>1, <2>3, <3>1, <3>2 DEF SinksFollowLines
    <3> QED
      BY <1>1, <1>4, <3>1, <3>3 DEF SinksPassed
  <2>10. CASE ~ FailsAt(ordered, i)
    <3>1. /\ sinks' = With(sinks, ordered[i].name, verdict)
          /\ index' = i + 1 /\ phase' = phase /\ config' = config
      BY <2>6, <2>7, <2>8, <2>10
    <3>2. DOMAIN sinks' = DOMAIN sinks \cup {ordered[i].name}
      BY <3>1 DEF With
    <3>3. \A k : k \in 1 .. i <=> k = i \/ k \in 1 .. i - 1
      BY <2>2
    <3>4. DOMAIN sinks' = FirstNames(ordered, i)
      BY <2>3, <3>2, <3>3 DEF FirstNames
    <3>5. \A k \in 1 .. i : ~ FailsAt(ordered, k)
      BY <2>3, <2>10, <3>3
    <3>6. index' - 1 = i /\ index' <= n + 1
      BY <2>2, <2>4, <2>5, <3>1
    <3>7. /\ config'.sinks = ordered /\ ordered = InLineOrder(file')
          /\ n = Cardinality(ParseSinks(file'))
      BY <1>1, <2>1, <2>3, <3>1
    <3>8. SinksFollowLines'
      BY <1>1, <3>1 DEF SinksFollowLines
    <3>9. job' = NoJob /\ setups' = 1
      BY <1>1, <1>4
    <3>10. /\ config'.sinks = InLineOrder(file')
           /\ index' <= Cardinality(ParseSinks(file')) + 1
           /\ DOMAIN sinks' = FirstNames(config'.sinks, index' - 1)
           /\ \A k \in 1 .. index' - 1 : ~ FailsAt(config'.sinks, k)
      BY <3>4, <3>5, <3>6, <3>7
    <3> QED
      BY <3>8, <3>9, <3>10 DEF SinksPassed
  <2> QED
    BY <2>9, <2>10
<1> QED
  BY <1>3, <1>4

(* No sink has failed.                                                     *)
LEMMA AllPassed ==
  ASSUME SinksPassed, FirstSetup, TypeOK, SinksConfigured
  PROVE  SinksPassed'
<1>1. /\ phase = "sinks" /\ index > Len(config.sinks) /\ phase' = "loggers"
      /\ setups' = setups /\ file' = file /\ sinks' = sinks
  BY DEF SinksConfigured
<1>2. setups # 0
  BY <1>1 DEF FirstSetup
<1>3. ASSUME setups = 1, LinesApart(file)
      PROVE  DOMAIN sinks = { s.name : s \in SinksThatPass(file) }
  <2>1. PICK toml, ordered, i : toml = file /\ ordered = InLineOrder(toml) /\ i = index
    OBVIOUS
  <2> DEFINE n == Cardinality(ParseSinks(toml))
  <2>2. toml \in Configs /\ i \in Nat \ {0} /\ LinesApart(toml)
    BY <1>1, <1>3, <2>1 DEF FirstSetup, TypeOK
  <2>3. /\ config.sinks = ordered /\ i <= n + 1
        /\ DOMAIN sinks = FirstNames(ordered, i - 1)
        /\ \A k \in 1 .. i - 1 : ~ FailsAt(ordered, k)
    BY <1>1, <1>3, <2>1 DEF SinksPassed
  <2>4. n \in Nat /\ Len(ordered) = n
    BY <2>1, <2>2, Sorted
  <2>5. i - 1 = n /\ n \in 0 .. n
    BY <1>1, <2>1, <2>2, <2>3, <2>4
  <2>6. { s.name : s \in SinksThatPass(toml) } = FirstNames(ordered, n)
    BY <2>1, <2>2, <2>3, <2>5, PassedOnes
  <2> QED
    BY <2>1, <2>3, <2>5, <2>6
<1> QED
  BY <1>1, <1>2, <1>3 DEF SinksPassed, SinksFollowLines

(* The rest of the steps.                                                  *)
LEMMA StepSinksPassed ==
  ASSUME SinksPassed, FirstSetup, TypeOK, [Next]_vars
  PROVE  SinksPassed'
<1>1. CASE Setup
  <2>1. CASE ConfigureSink
    BY <2>1, SinkPassed
  <2>2. CASE SinksConfigured
    BY <2>2, AllPassed
  <2>3. CASE ConfigureLogger
    <3>1. UNCHANGED setupVars /\ phase = "loggers"
      BY <2>3 DEF ConfigureLogger
    <3> QED
      BY <3>1, SinksKept DEF setupVars
  <2>4. CASE Update
    <3>1. UNCHANGED setupVars /\ job # NoJob
      BY <2>4 DEF Update, UpdateSink, UpdateLevel, NoJob
    <3> QED
      BY <3>1, SinksKept DEF setupVars, SinksPassed
  <2>5. CASE LoggersConfigured
    <3>1. /\ phase = "loggers" /\ phase' \in {"done", "failed"} /\ job' = NoJob
          /\ setups' = setups /\ file' = file /\ sinks' = sinks
      BY <2>5 DEF LoggersConfigured
    <3> QED
      BY <3>1 DEF SinksPassed, SinksFollowLines
  <2>6. CASE Finish
    <3>1. /\ job # NoJob /\ job' = NoJob /\ setups' = setups /\ file' = file /\ sinks' = sinks
          /\ IF phase = "registering" THEN phase' = "idle" ELSE phase' \in {phase, "failed"}
      BY <2>6 DEF Finish, FinishRegister, Fail, NoJob
    <3>2. phase \in {"loggers", "registering"}
      BY <3>1 DEF SinksPassed
    <3> QED
      BY <3>1, <3>2 DEF SinksPassed, SinksFollowLines
  <2> QED
    BY <1>1, <2>1, <2>2, <2>3, <2>4, <2>5, <2>6 DEF Setup
<1>2. CASE NewSetup
  <2>1. ASSUME NEW toml \in Configs, Configure(toml)
        PROVE  SinksPassed'
    <3>1. /\ phase \in {"idle", "failed", "done"} /\ setups' = setups + 1
          /\ job' = job /\ sinks' = sinks
          /\ \/ phase' = "failed"
             \/ /\ phase' = Prepare(toml.loggers).result /\ index' = 1 /\ file' = toml
                /\ config' = [toml EXCEPT !.loggers = Prepare(toml.loggers).loggers,
                                          !.sinks = InLineOrder(toml)]
      BY <2>1 DEF Configure, MayCall, Fail
    <3>2. setups \in Nat /\ job' = NoJob
      BY <3>1 DEF FirstSetup, SinksPassed
    <3>3. setups' # 0 /\ (setups' = 1 => DOMAIN sinks' = {})
      BY <3>1, <3>2 DEF SinksPassed
    <3>4. /\ toml.loggers \in Seq(LoggerNode)
          /\ toml = [tables |-> toml.tables, sinks |-> toml.sinks, loggers |-> toml.loggers]
      BY ConfigsAssumption
    <3>5. Prepare(toml.loggers).result \in {"sinks", "failed", "looping"}
      BY <3>4, PrepareCompletes
    <3>6. phase' \notin {"loggers", "done"}
      BY <3>1, <3>5
    <3>7. SinksFollowLines'
      BY <3>3, <3>6 DEF SinksFollowLines
    <3>8. ASSUME setups' = 1, phase' = "sinks"
          PROVE  /\ config'.sinks = InLineOrder(file')
                 /\ index' <= Cardinality(ParseSinks(file')) + 1
                 /\ DOMAIN sinks' = FirstNames(config'.sinks, index' - 1)
                 /\ \A k \in 1 .. index' - 1 : ~ FailsAt(config'.sinks, k)
      <4>1. /\ index' = 1 /\ file' = toml
            /\ config' = [toml EXCEPT !.loggers = Prepare(toml.loggers).loggers,
                                      !.sinks = InLineOrder(toml)]
        BY <3>1, <3>8
      <4>2. config'.sinks = InLineOrder(toml)
        BY <3>4, <4>1
      <4>3. Cardinality(ParseSinks(toml)) \in Nat
        BY Sorted
      <4>4. 1 .. index' - 1 = {} /\ index' <= Cardinality(ParseSinks(file')) + 1
        BY <4>1, <4>3
      <4> QED
        BY <3>3, <3>8, <4>1, <4>2, <4>4 DEF FirstNames
    <3> QED
      BY <3>2, <3>3, <3>7, <3>8, Zenon DEF SinksPassed
  <2>2. CASE SetDefaultLoggerFunc \/ \E isDefault \in BOOLEAN : RegisterLogger(isDefault)
    <3>1. setups' = setups + 1 /\ phase' = "registering" /\ setups \in Nat
      BY <2>2 DEF SetDefaultLoggerFunc, RegisterLogger, MayCall, FirstSetup
    <3> QED
      BY <3>1 DEF SinksPassed, SinksFollowLines
  <2> QED
    BY <1>2, <2>1, <2>2 DEF NewSetup
<1>3. CASE Watch
  <2>1. UNCHANGED setupVars /\ UNCHANGED job
    BY <1>3 DEF Watch, Reload, ReloadLogger, Reloaded, registry
  <2> QED
    BY <2>1, SinksKept DEF setupVars, SinksPassed
<1>4. ASSUME NEW c \in Clients, Client(c)
      PROVE  SinksPassed'
  <2>1. UNCHANGED setupVars
    BY <1>4 DEF Client
  <2>2. job' = job
    <3>1. CASE \E n \in Names : Get(c, n)
      BY <3>1 DEF Get
    <3>2. CASE BeginLog(c) \/ FinishLog(c) \/ FetchDefault(c) \/ LogToDefault(c)
      BY <3>2 DEF BeginLog, FinishLog, FetchDefault, LogToDefault
    <3> QED
      BY <1>4, <3>1, <3>2 DEF Client
  <2> QED
    BY <2>1, <2>2, SinksKept DEF setupVars, SinksPassed
<1>5. CASE UNCHANGED vars
  BY <1>5, SinksKept DEF vars, setupVars, SinksPassed
<1> QED
  BY <1>1, <1>2, <1>3, <1>4, <1>5 DEF Next

(* There are no sinks to begin with.                                       *)
LEMMA InitSinksPassed == Init => SinksPassed
BY DEF Init, RegistryInit, SinksPassed, SinksFollowLines, NoJob

-----------------------------------------------------------------------------
(***************************************************************************)
(* The theorems.                                                           *)
(***************************************************************************)

(* The registry, its clients, the configuration and its reloading keep the *)
(* invariant, whatever the files hold.                                     *)
THEOREM Inductive == Spec => []IInv
BY InitIInv, StepIInv, PTL DEF Spec

(* The out-of-order initialization of LoggerRegistry::registerLoggerFunc:  *)
(* whatever clients ask for and however often a default is registered, the *)
(* loggers that were created before have the level and the sink of the     *)
(* last default when no registration is under way.                         *)
THEOREM EarlyLoggersFollow == Spec => []EarlyFollowDefault
<1>1. IInv => EarlyFollowDefault
  BY DEF IInv, Following, EarlyFollowDefault
<1> QED
  BY <1>1, Inductive, PTL

(* No event that Logger::log lets pass is lost in the NoopSink of a logger *)
(* that waits for its default, although log reads the level and the sink   *)
(* one after the other and without the mutex: the registration sets the    *)
(* sink of a logger before its level.                                      *)
THEOREM EventsReachSinks == Spec => []NoEventWasted
<1>1. IInv => NoEventWasted
  BY DEF IInv
<1> QED
  BY <1>1, Inductive, PTL

(* The loggers that a registration updates or a reload leaves without a    *)
(* sink are loggers of the instantiator, and they are off until a default  *)
(* gives them a sink; nobody is logging to them.                           *)
THEOREM SilentUntilDefault == Spec => []SilentWithoutSink
<1>1. IInv => SilentWithoutSink
  BY DEF IInv
<1> QED
  BY <1>1, Inductive, PTL

(* After a first configuration whose file has no two default loggers, and  *)
(* until the file is reloaded, a name that LoggerRegistry had not answered *)
(* before, nor a fragment of it, gets the level and the sinks that the     *)
(* hierarchy in the file gives it: findParent and prepareLoggers, the      *)
(* order in which the loggers are registered, and the search of get among  *)
(* loggers and factories agree, in whatever order clients ask.             *)
THEOREM HierarchyAnswers == Spec => []AnswersAsConfigured
<1>1. Init => FirstSetup /\ Answered
  BY InitAnswered
<1>2. IInv /\ (FirstSetup /\ Answered) /\ [Next]_vars => (FirstSetup /\ Answered)'
  BY StepFirstSetup, StepAnswered DEF IInv
<1>3. Answered => AnswersAsConfigured
  BY DEF Answered, AnswersAsConfigured
<1> QED
  BY <1>1, <1>2, <1>3, Inductive, PTL DEF Spec

(* configureSinks goes by the lines of the file: once the first            *)
(* configuration has passed its sinks, whether it succeeded, the registry  *)
(* has those on the lines before the first that fails, whatever they are   *)
(* called, in every file that has one sink at most on a line.              *)
THEOREM SinksInOrder == Spec => []SinksFollowLines
<1>1. Init => FirstSetup /\ SinksPassed
  BY InitAnswered, InitSinksPassed
<1>2. IInv /\ (FirstSetup /\ SinksPassed) /\ [Next]_vars => (FirstSetup /\ SinksPassed)'
  BY StepFirstSetup, StepSinksPassed DEF IInv
<1>3. SinksPassed => SinksFollowLines
  BY DEF SinksPassed
<1> QED
  BY <1>1, <1>2, <1>3, Inductive, PTL DEF Spec

=============================================================================
