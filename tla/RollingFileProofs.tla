-------------------------- MODULE RollingFileProofs --------------------------
(***************************************************************************)
(* Proofs about RollingFile: the inductive invariant, and the theorems     *)
(* that follow from it, for every threshold, interval, division of time    *)
(* into units, time zone, and number and size of events, and for files     *)
(* that are opened for appending as for those that are truncated.          *)
(*                                                                         *)
(* Sizes and roll points are right whatever calls fail, as long as none    *)
(* has.  That every event is in one file and that the names tell the order *)
(* of the files needs the archives to make room for the next: these two    *)
(* theorems assume that the rename of an archive does not fail, any other  *)
(* call may.                                                               *)
(***************************************************************************)
EXTENDS RollingFile, SequenceTheorems, FiniteSetTheorems, WellFoundedInduction, TLAPS

-----------------------------------------------------------------------------
(***************************************************************************)
(* Why the properties hold: the invariant that the steps keep.             *)
(***************************************************************************)

(* An archive in progress has closed the file, and its stamp is the last.  *)
(* A log file that got a stamp is gone from its place.                     *)
Archiving ==
  /\ pc \in {"shift", "rename"} =>
       /\ ~ opened
       /\ config.archive \in {"incremental", "timestamp"}
       /\ IF config.archive = "incremental"
          THEN pc = "shift" /\ archiving.path = Base
          ELSE /\ Len(archiving.path) = 1
               /\ archiving.path[1] <= Stamp
               /\ \A name \in DOMAIN fs \ {Base} : name[1] <= archiving.path[1]
  /\ pc = "reopen" => config.archive = "incremental" \/ Base \notin DOMAIN fs

(* No archive has failed to move out of the way of the next.               *)
ArchivesMove == "rename_archive" \in Faults => ~ faulted

(* Every rename of an archive finds a file, and replaces none.             *)
NamesFree ==
  /\ pc = "shift" =>
       /\ config.archive = "timestamp" => archiving.path \in DOMAIN fs
       /\ Append(archiving.path, archiving.index) \notin DOMAIN fs
       /\ \A n \in 0 .. archiving.index - 1 : Append(archiving.path, n) \in DOMAIN fs
  /\ pc = "rename" => archiving.path \notin DOMAIN fs

(* As long as no call fails, the stream works and the log file is closed   *)
(* or gone only within an archive.                                         *)
StreamWorks ==
  ~ faulted =>
    /\ stream = "good"
    /\ pc \in {"idle", "roll", "append"} => opened
    /\ pc # "reopen" => Base \in DOMAIN fs
    /\ pc = "reopen" => Base \notin DOMAIN fs

(* A file is full when an event arrives, or has room when it is written.   *)
RoomToAppend ==
  config.rolling = "size" /\ config.archive # "unnamed" /\ ~ faulted /\ pc = "append" =>
    fs[Base] = <<>> \/ Position < Threshold

(* A file is truncated when it was not renamed before it was opened.       *)
TruncatedByOpen ==
  truncated # {} =>
    config.open = "out" /\ (crashed \/ (faulted /\ config.archive = "incremental"))

(* The event that is being written is in no file yet; every other that was *)
(* not lost is in one file, and in one only.                               *)
InOneFile ==
  /\ pc # "idle" => Holding(events) = {}
  /\ \A e \in Written : Holding(e) # {}
  /\ \A e \in 1 .. events : \A x, y \in Holding(e) : x = y

(* The roll point is set with the first event, and at every roll: it is    *)
(* the one of the oldest event in the file, or of the one to be written.   *)
RollPoint ==
  config.mode = "automatic" /\ config.rolling # "size" /\ config.archive # "unnamed"
      /\ ~ faulted /\ ~ crashed =>
    IF next = Unset THEN pc = "idle" /\ events = 0
    ELSE /\ events > 0 /\ pc # "roll"
         /\ pc = "idle" => fs[Base] # <<>>
         /\ \E e \in 1 .. events :
              /\ e = IF pc \in {"idle", "append"} /\ fs[Base] # <<>> THEN Head(fs[Base]) ELSE events
              /\ \E t \in Nat : t = when[e] /\ next = NextPoint(t)

IInv ==
  /\ TypeOK
  /\ Archiving
  /\ StreamWorks
  /\ RoomToAppend
  /\ SizeBounded
  /\ RollPoint
  /\ TruncatedByOpen
  /\ ArchivesMove => NamesFree /\ InOneFile /\ FilesInOrder
  /\ lost # {} => faulted \/ crashed
  /\ faulted => Faults # {}

-----------------------------------------------------------------------------
(***************************************************************************)
(* Numbers.                                                                *)
(***************************************************************************)

(* Rounding down to a multiple.                                            *)
LEMMA Quotient ==
  ASSUME NEW a \in Nat, NEW p \in Nat \ {0}
  PROVE  /\ a \div p \in Nat
         /\ (a \div p) * p <= a
         /\ a < (a \div p) * p + p
OBVIOUS

LEMMA QuotientGrows ==
  ASSUME NEW a \in Nat, NEW b \in Nat, a <= b, NEW p \in Nat \ {0}
  PROVE  a \div p <= b \div p
OBVIOUS

(* Every set of numbers has a least one: of the intervals from 0 to its    *)
(* members, one is contained in all of them.                               *)
LEMMA LeastNumber ==
  ASSUME NEW S \in SUBSET Nat, S # {}
  PROVE  /\ Min(S) \in S
         /\ \A n \in S : Min(S) <= n
<1> DEFINE Up(n) == 0 .. n
           T == { Up(n) : n \in S }
<1>1. T \subseteq FiniteSubsetsOf(Nat) /\ T # {}
  <2>1. \A n \in Nat : IsFiniteSet(Up(n)) /\ Up(n) \in SUBSET Nat
    BY FS_Interval
  <2>2. \A n \in S : Up(n) \in FiniteSubsetsOf(Nat)
    BY <2>1, Zenon DEF FiniteSubsetsOf
  <2> HIDE DEF Up
  <2> QED
    BY <2>2
<1>2. \E x \in T : \A y \in T : ~ (<<y, x>> \in StrictSubsetOrdering(Nat))
  <2> HIDE DEF T
  <2> QED
    BY <1>1, WFMin, FS_StrictSubsetOrderingWellFounded, Zenon
<1>3. PICK m \in S : \A n \in S : ~ (<<Up(n), Up(m)>> \in StrictSubsetOrdering(Nat))
  BY <1>2
<1>4. \A n \in S : m <= n
  <2> SUFFICES ASSUME NEW n \in S, n < m
               PROVE  FALSE
    OBVIOUS
  <2>1. Up(n) \in SUBSET Nat /\ Up(m) \in SUBSET Nat /\ Up(n) \subseteq Up(m)
    OBVIOUS
  <2>2. m \in Up(m) /\ m \notin Up(n)
    OBVIOUS
  <2> QED
    BY <1>3, <2>1, <2>2, Zenon DEF StrictSubsetOrdering
<1> QED
  BY <1>4 DEF Min

(* One that is bounded has a greatest: what is missing to the bound has a  *)
(* least.                                                                  *)
LEMMA GreatestNumber ==
  ASSUME NEW n \in Nat, NEW S, S \subseteq 0 .. n, S # {}
  PROVE  /\ Max(S) \in S
         /\ \A k \in S : k <= Max(S)
<1> DEFINE T == { x \in 0 .. n : n - x \in S }
<1>1. ASSUME NEW k \in S
      PROVE  n - k \in T /\ k \in 0 .. n
  <2>1. k \in 0 .. n /\ n - k \in 0 .. n /\ n - (n - k) = k
    OBVIOUS
  <2> QED
    BY <2>1
<1> HIDE DEF T
<1>2. T \in SUBSET Nat /\ T # {}
  <2>1. PICK k \in S : TRUE
    OBVIOUS
  <2>2. n - k \in T
    BY <1>1
  <2>3. T \subseteq 0 .. n
    BY DEF T
  <2> QED
    BY <2>2, <2>3
<1>3. PICK x \in T : \A y \in T : x <= y
  BY <1>2, LeastNumber
<1>4. n - x \in S /\ x \in 0 .. n
  BY DEF T
<1>5. \A k \in S : k <= n - x
  <2> TAKE k \in S
  <2>1. x <= n - k /\ k \in 0 .. n
    BY <1>1, <1>3
  <2> QED
    BY <1>4, <2>1
<1> QED
  BY <1>4, <1>5 DEF Max

-----------------------------------------------------------------------------
(***************************************************************************)
(* The names of the files.                                                 *)
(***************************************************************************)

(* A suffix makes another name, and another suffix yet another.            *)
LEMMA Suffixed ==
  ASSUME NEW path \in Seq(Nat), NEW n \in Nat
  PROVE  /\ Append(path, n) \in Seq(Nat)
         /\ Len(Append(path, n)) = Len(path) + 1
         /\ Append(path, n)[Len(path) + 1] = n
         /\ \A i \in 1 .. Len(path) : Append(path, n)[i] = path[i]
         /\ Append(path, n) # path
         /\ Append(path, n) # Base
BY AppendProperties, HeadTailAppend DEF Base

LEMMA OtherSuffix ==
  ASSUME NEW path \in Seq(Nat), NEW m \in Nat, NEW n \in Nat, m # n
  PROVE  Append(path, m) # Append(path, n)
BY Suffixed

(* Names that agree in all their parts are the same.                       *)
LEMMA SameName ==
  ASSUME NEW x \in Seq(Nat), NEW y \in Seq(Nat), Len(x) = Len(y),
         \A i \in 1 .. Len(x) : x[i] = y[i]
  PROVE  x = y
BY SeqEqual

LEMMA PartOfName ==
  ASSUME NEW x \in Seq(Nat), NEW i \in Nat, 1 <= i, i <= Len(x)
  PROVE  x[i] \in Nat
<1>1. i \in 1 .. Len(x)
  BY LenProperties
<1> QED
  BY <1>1, ElementOfSeq

LEMMA OnePartOrTwo ==
  ASSUME NEW x \in Seq(Nat), Len(x) # 0, Len(x) <= 2
  PROVE  /\ Len(x) = 1 \/ Len(x) = 2
         /\ x[1] \in Nat
<1> DEFINE n == Len(x)
<1>1. n \in Nat /\ n # 0 /\ n <= 2
  BY LenProperties
<1>2. x[1] \in Nat
  BY <1>1, PartOfName
<1> HIDE DEF n
<1>3. n = 1 \/ n = 2
  BY <1>1
<1> QED
  BY <1>2, <1>3 DEF n

LEMMA BaseIsName ==
  /\ Base \in Seq(Nat)
  /\ Len(Base) = 0
  /\ IsName(Base)
  /\ \A x \in Seq(Nat) : x # Base => Len(x) \in Nat \ {0}
<1>1. Base \in Seq(Nat) /\ Len(Base) = 0
  BY DEF Base
<1>2. \A x \in Seq(Nat) : x # Base => Len(x) \in Nat \ {0}
  BY EmptySeq, LenProperties DEF Base
<1> QED
  BY <1>1, <1>2 DEF IsName

LEMMA StampType ==
  ASSUME TypeOK
  PROVE  Stamp \in Nat
<1>1. now + Zone \in Nat /\ StampUnit \in Nat \ {0}
  BY NumbersAssumption DEF TypeOK
<1> QED
  BY <1>1, Quotient DEF Stamp

(* The search for a free index ends, and finds the first.                  *)
LEMMA FirstFree ==
  ASSUME IsFiniteSet(DOMAIN fs), NEW path \in Seq(Nat)
  PROVE  /\ FreeIndex(path) \in Nat
         /\ Append(path, FreeIndex(path)) \notin DOMAIN fs
         /\ \A n \in 0 .. FreeIndex(path) - 1 : Append(path, n) \in DOMAIN fs
<1> DEFINE D == DOMAIN fs
           free == { n \in Indices : Append(path, n) \notin DOMAIN fs }
           f == [n \in Indices |-> Append(path, n)]
<1>1. Cardinality(D) \in Nat
  BY FS_CardinalityType
<1>2. free # {}
  <2> SUFFICES ASSUME \A n \in Indices : Append(path, n) \in D
               PROVE  FALSE
    OBVIOUS
  <2>1. IsFiniteSet(Indices) /\ Cardinality(Indices) = Cardinality(D) + 1
    BY <1>1, FS_Interval DEF Indices
  <2>2. f \in [Indices -> D]
    OBVIOUS
  <2>3. \A m, n \in Indices : f[m] = f[n] => m = n
    BY <1>1, OtherSuffix DEF Indices
  <2>4. Cardinality(D) < Cardinality(Indices)
    BY <1>1, <2>1
  <2> HIDE DEF f, D
  <2>5. \E m, n \in Indices : m # n /\ f[m] = f[n]
    BY <2>1, <2>2, <2>4, FS_PigeonHole DEF D
  <2> QED
    BY <2>3, <2>5
<1>3. free \in SUBSET Nat
  BY <1>1 DEF Indices
<1>4. FreeIndex(path) \in free /\ \A n \in free : FreeIndex(path) <= n
  BY <1>2, <1>3, LeastNumber DEF FreeIndex
<1> QED
  BY <1>1, <1>4 DEF Indices

-----------------------------------------------------------------------------
(***************************************************************************)
(* The rolling policy.                                                     *)
(***************************************************************************)

(* The unit that is running at t has begun, and no later one has.          *)
LEMMA UnitRunning ==
  ASSUME NEW t \in Nat
  PROVE  /\ Floor(t) \in Nat /\ Floor(t) <= t
         /\ \A b \in UnitStarts : b <= t => b <= Floor(t)
<1> DEFINE S == { b \in UnitStarts : b <= t }
<1>1. S \subseteq 0 .. t /\ S # {}
  <2>1. 0 \in S
    BY NumbersAssumption
  <2>2. \A b \in S : b \in 0 .. t
    BY NumbersAssumption
  <2> QED
    BY <2>1, <2>2
<1>2. Floor(t) \in S /\ \A b \in S : b <= Floor(t)
  BY <1>1, GreatestNumber DEF Floor
<1> QED
  BY <1>1, <1>2

(* The next roll point is at most an interval away, and it is to come when *)
(* a unit begins before.                                                   *)
LEMMA RollPointIsNear ==
  ASSUME NEW tp \in Nat
  PROVE  /\ NextPoint(tp) \in Int
         /\ NextPoint(tp) <= tp + Period
         /\ UnitAhead(tp) => NextPoint(tp) > tp
<1>1. Period \in Nat /\ Offset \in Nat /\ UnitStarts \subseteq Nat
  BY NumbersAssumption DEF Offset
<1> DEFINE t == tp + Offset + Period
           b == Floor(t)
<1>2. t \in Nat
  BY <1>1
<1> HIDE DEF t
<1>3. b \in Nat /\ b <= t /\ \A c \in UnitStarts : c <= t => c <= b
  BY <1>2, UnitRunning
<1>4. NextPoint(tp) = IF config.rolling \in {"round", "round_local"} THEN b - Offset ELSE tp + Period
  BY DEF NextPoint, t
<1> HIDE DEF b
<1>5. b - Offset \in Int /\ b - Offset <= tp + Period
  BY <1>1, <1>2, <1>3 DEF t
<1>6. ASSUME UnitAhead(tp)
      PROVE  NextPoint(tp) > tp
  <2>1. CASE config.rolling = "precise"
    BY <1>1, <1>4, <1>6, <2>1 DEF UnitAhead
  <2>2. CASE config.rolling # "precise"
    <3>1. PICK c \in UnitStarts : c \in tp + Offset + 1 .. t
      BY <1>6, <2>2 DEF UnitAhead, t
    <3>2. c \in Nat /\ c > tp + Offset /\ c <= t
      BY <1>1, <1>2, <3>1
    <3>3. b - Offset > tp
      BY <1>1, <1>3, <3>1, <3>2
    <3>4. Period > 0
      BY <1>1, <3>2 DEF t
    <3> QED
      BY <1>1, <1>4, <3>3, <3>4
  <2> QED
    BY <2>1, <2>2
<1> QED
  BY <1>1, <1>4, <1>5, <1>6

(* Neither depends on anything but the configuration.                      *)
LEMMA SameRollPoint ==
  ASSUME UNCHANGED config
  PROVE  \A t : NextPoint(t)' = NextPoint(t)
BY DEF NextPoint, Floor, Offset

LEMMA RollPointType ==
  ASSUME TypeOK, ApplyRolling
  PROVE  next' \in IF config.rolling = "size" THEN {Unset} ELSE Int \cup {Unset}
<1>1. now \in Nat /\ next \in Int \cup {Unset}
  BY NumbersAssumption DEF TypeOK
<1>2. NextPoint(now) \in Int
  BY <1>1, RollPointIsNear
<1> QED
  BY <1>1, <1>2 DEF ApplyRolling, TypeOK

LEMMA PositionType ==
  ASSUME TypeOK, Base \in DOMAIN fs
  PROVE  Position \in Nat
<1> SUFFICES ASSUME fs[Base] # <<>>
             PROVE  ends[fs[Base][Len(fs[Base])]] \in Nat
  BY DEF Position
<1>1. fs[Base] \in Seq(1 .. events) /\ events \in 0 .. MaxEvents
  BY DEF TypeOK
<1>2. Len(fs[Base]) \in 1 .. Len(fs[Base])
  <2>1. Len(fs[Base]) \in Nat /\ Len(fs[Base]) # 0
    BY <1>1, EmptySeq, LenProperties
  <2> QED
    BY <2>1
<1>3. fs[Base][Len(fs[Base])] \in 1 .. events
  BY <1>1, <1>2, ElementOfSeq
<1>4. fs[Base][Len(fs[Base])] \in 1 .. MaxEvents
  BY <1>1, <1>3, NumbersAssumption
<1> QED
  BY <1>4 DEF TypeOK

(* A file that is not full has room, an empty one in any case.             *)
LEMMA NotFullHasRoom ==
  ASSUME TypeOK, opened, ~ FileIsFull
  PROVE  fs[Base] = <<>> \/ Position < Threshold
<1>1. Position \in Nat
  BY PositionType DEF TypeOK
<1> QED
  BY <1>1, NumbersAssumption DEF FileIsFull

(* The roll point stays that of the same event.                            *)
LEMMA RollPointKept ==
  ASSUME RollPoint, UNCHANGED <<config, next, events, when, crashed>>, faulted => faulted',
         \/ pc \notin {"idle", "roll", "append"} /\ pc' \in {"shift", "rename", "reopen"}
         \/ pc' = pc /\ fs' = fs
  PROVE  RollPoint'
<1> SUFFICES ASSUME config.mode = "automatic", config.rolling # "size",
                    config.archive # "unnamed", ~ faulted', ~ crashed
             PROVE  RollPoint'
  BY DEF RollPoint
<1>1. CASE next = Unset
  BY <1>1 DEF RollPoint
<1>2. CASE next # Unset
  <2>1. PICK e \in 1 .. events :
          /\ e = IF pc \in {"idle", "append"} /\ fs[Base] # <<>> THEN Head(fs[Base]) ELSE events
          /\ \E t \in Nat : t = when[e] /\ next = NextPoint(t)
    BY <1>2 DEF RollPoint
  <2>2. e = IF pc' \in {"idle", "append"} /\ fs'[Base] # <<>> THEN Head(fs'[Base]) ELSE events
    BY <2>1
  <2>3. \E t \in Nat : t = when'[e] /\ next' = NextPoint(t)'
    BY <2>1, SameRollPoint
  <2>4. events > 0 /\ pc' # "roll" /\ (pc' = "idle" => fs'[Base] # <<>>)
    BY <1>2 DEF RollPoint
  <2> QED
    BY <1>2, <2>2, <2>3, <2>4 DEF RollPoint
<1> QED
  BY <1>1, <1>2

-----------------------------------------------------------------------------
(***************************************************************************)
(* The operations on files.                                                *)
(***************************************************************************)

LEMMA Grown ==
  ASSUME NEW m \in Nat, NEW n \in Nat, m <= n,
         NEW f, f \in [DOMAIN f -> Seq(1 .. m)]
  PROVE  f \in [DOMAIN f -> Seq(1 .. n)]
<1>1. \A z \in DOMAIN f : f[z] \in Seq(1 .. n)
  <2> TAKE z \in DOMAIN f
  <2>1. f[z] \in Seq(1 .. m)
    OBVIOUS
  <2>2. \A i \in 1 .. Len(f[z]) : f[z][i] \in 1 .. n
    BY <2>1, ElementOfSeq
  <2> QED
    BY <2>1, <2>2, SeqDef, LenProperties
<1> QED
  BY <1>1

(* Renaming: one name goes, one comes, and no file changes.                *)
LEMMA RenamedFiles ==
  ASSUME TypeOK, NEW from, NEW to, Renamed(from, to)
  PROVE  /\ from \in DOMAIN fs
         /\ DOMAIN fs' = (DOMAIN fs \ {from}) \cup {to}
         /\ fs'[to] = fs[from]
         /\ \A z \in DOMAIN fs \ {from} : z # to => fs'[z] = fs[z]
         /\ IsFiniteSet(DOMAIN fs')
         /\ fs' \in [DOMAIN fs' -> Seq(1 .. events)]
         /\ faulted' = faulted
<1> DEFINE D == (DOMAIN fs \ {from}) \cup {to}
<1>1. /\ from \in DOMAIN fs
      /\ fs' = [name \in D |-> IF name = to THEN fs[from] ELSE fs[name]]
      /\ faulted' = faulted
  BY DEF Renamed
<1>2. IsFiniteSet(D)
  <2>1. IsFiniteSet(DOMAIN fs \ {from})
    BY FS_RemoveElement DEF TypeOK
  <2> QED
    BY <2>1, FS_AddElement
<1>3. \A z \in DOMAIN fs : fs[z] \in Seq(1 .. events)
  BY DEF TypeOK
<1>4. fs' \in [D -> Seq(1 .. events)]
  BY <1>1, <1>3
<1> QED
  BY <1>1, <1>2, <1>4

LEMMA OpenedFiles ==
  ASSUME TypeOK
  PROVE  /\ DOMAIN Opened = DOMAIN fs \cup {Base}
         /\ \A z \in DOMAIN fs \ {Base} : Opened[z] = fs[z]
         /\ Opened[Base] = IF Base \in DOMAIN fs /\ config.open = "app" THEN fs[Base] ELSE <<>>
         /\ IsFiniteSet(DOMAIN Opened)
         /\ Opened \in [DOMAIN Opened -> Seq(1 .. events)]
<1>1. DOMAIN Opened = DOMAIN fs \cup {Base}
  BY DEF Opened
<1>2. IsFiniteSet(DOMAIN fs \cup {Base})
  BY FS_AddElement DEF TypeOK
<1>3. \A z \in DOMAIN fs : fs[z] \in Seq(1 .. events)
  BY DEF TypeOK
<1>4. \A z \in DOMAIN fs \cup {Base} :
        Opened[z] = IF z \in DOMAIN fs /\ (z # Base \/ config.open = "app") THEN fs[z] ELSE <<>>
  BY DEF Opened
<1>5. Opened \in [DOMAIN fs \cup {Base} -> Seq(1 .. events)]
  <2>1. <<>> \in Seq(1 .. events)
    OBVIOUS
  <2> QED
    BY <1>3, <2>1 DEF Opened
<1> QED
  BY <1>1, <1>2, <1>4, <1>5

(* Writing an event puts it behind the others of the log file.             *)
LEMMA WrittenFiles ==
  ASSUME TypeOK, Base \in DOMAIN fs, events > 0,
         fs' = [fs EXCEPT ![Base] = Append(@, events)]
  PROVE  /\ DOMAIN fs' = DOMAIN fs
         /\ fs'[Base] = Append(fs[Base], events)
         /\ \A z \in DOMAIN fs \ {Base} : fs'[z] = fs[z]
         /\ fs' \in [DOMAIN fs' -> Seq(1 .. events)]
         /\ fs[Base] \in Seq(1 .. events)
         /\ fs'[Base] \in Seq(1 .. events)
         /\ Len(fs'[Base]) = Len(fs[Base]) + 1
         /\ fs'[Base][Len(fs[Base]) + 1] = events
         /\ \A i \in 1 .. Len(fs[Base]) : fs'[Base][i] = fs[Base][i]
         /\ fs'[Base] # <<>>
         /\ Head(fs'[Base]) = IF fs[Base] = <<>> THEN events ELSE Head(fs[Base])
<1>1. fs[Base] \in Seq(1 .. events) /\ events \in 1 .. events
  BY DEF TypeOK
<1>2. /\ DOMAIN fs' = DOMAIN fs
      /\ fs'[Base] = Append(fs[Base], events)
      /\ \A z \in DOMAIN fs \ {Base} : fs'[z] = fs[z]
  OBVIOUS
<1>3. /\ Append(fs[Base], events) \in Seq(1 .. events)
      /\ Len(Append(fs[Base], events)) = Len(fs[Base]) + 1
      /\ Append(fs[Base], events)[Len(fs[Base]) + 1] = events
      /\ \A i \in 1 .. Len(fs[Base]) : Append(fs[Base], events)[i] = fs[Base][i]
      /\ Append(fs[Base], events) # <<>>
      /\ fs[Base] # <<>> => Head(Append(fs[Base], events)) = Head(fs[Base])
  BY <1>1, AppendProperties, HeadTailAppend
<1>4. fs' \in [DOMAIN fs' -> Seq(1 .. events)]
  <2>1. fs \in [DOMAIN fs -> Seq(1 .. events)]
    BY DEF TypeOK
  <2> QED
    BY <1>2, <1>3, <2>1
<1>5. fs[Base] = <<>> => Head(Append(fs[Base], events)) = events
  <2> SUFFICES ASSUME fs[Base] = <<>>
               PROVE  Head(Append(fs[Base], events)) = events
    OBVIOUS
  <2>1. Len(fs[Base]) = 0
    OBVIOUS
  <2>2. Head(Append(fs[Base], events)) = Append(fs[Base], events)[1]
    BY <1>3, HeadTailProperties
  <2> QED
    BY <1>3, <2>1, <2>2
<1> QED
  BY <1>1, <1>2, <1>3, <1>4, <1>5

(* What a file holds is an event that was logged.                          *)
LEMMA HeldAreLogged ==
  ASSUME TypeOK
  PROVE  /\ \A z \in DOMAIN fs : /\ fs[z] \in Seq(1 .. events)
                                 /\ Len(fs[z]) \in Nat
                                 /\ DOMAIN fs[z] = 1 .. Len(fs[z])
                                 /\ \A i \in DOMAIN fs[z] : fs[z][i] \in 1 .. events
         /\ \A e : e \notin 1 .. events => Holding(e) = {}
<1>1. \A z \in DOMAIN fs : fs[z] \in Seq(1 .. events)
  BY DEF TypeOK
<1>2. \A z \in DOMAIN fs : /\ Len(fs[z]) \in Nat
                           /\ DOMAIN fs[z] = 1 .. Len(fs[z])
                           /\ \A i \in DOMAIN fs[z] : fs[z][i] \in 1 .. events
  BY <1>1, LenProperties, ElementOfSeq
<1> QED
  BY <1>1, <1>2 DEF Holding

-----------------------------------------------------------------------------
(***************************************************************************)
(* What the operations on files keep.                                      *)
(***************************************************************************)

(* The events stay where they are but for the file that is renamed.        *)
LEMMA RenameMovesEvents ==
  ASSUME TypeOK, NEW from, NEW to, Renamed(from, to), to \notin DOMAIN fs
  PROVE  \A e : Holding(e)' = (Holding(e) \ {from}) \cup (IF from \in Holding(e) THEN {to} ELSE {})
<1>1. /\ from \in DOMAIN fs
      /\ DOMAIN fs' = (DOMAIN fs \ {from}) \cup {to}
      /\ fs'[to] = fs[from]
      /\ \A z \in DOMAIN fs \ {from} : fs'[z] = fs[z]
  BY RenamedFiles, Zenon
<1> TAKE e
<1>2. \A z : z \in Holding(e) <=> z \in DOMAIN fs /\ \E i \in DOMAIN fs[z] : fs[z][i] = e
  BY DEF Holding
<1>3. \A z : z \in Holding(e)' <=> z \in DOMAIN fs' /\ \E i \in DOMAIN fs'[z] : fs'[z][i] = e
  BY DEF Holding
<1>4. to \in Holding(e)' <=> from \in Holding(e)
  BY <1>1, <1>2, <1>3
<1>5. \A z : z # to => (z \in Holding(e)' <=> z \in Holding(e) /\ z # from)
  BY <1>1, <1>2, <1>3
<1>6. to \notin Holding(e)
  BY <1>2
<1> QED
  BY <1>4, <1>5, <1>6, Zenon

LEMMA RenameKeepsInOneFile ==
  ASSUME TypeOK, NEW from, NEW to, Renamed(from, to), to \notin DOMAIN fs, InOneFile,
         pc # "idle", pc' # "idle", events' = events, lost' = lost, truncated' = truncated
  PROVE  InOneFile'
<1>1. \A e : Holding(e)' = (Holding(e) \ {from}) \cup (IF from \in Holding(e) THEN {to} ELSE {})
  BY RenameMovesEvents
<1>2. Written' = Written
  BY Zenon DEF Written, Gone
<1> QED
  BY <1>1, <1>2 DEF InOneFile

(* The order of the files is kept when the new name is between the same    *)
(* names as the old one.                                                   *)
LEMMA RenameKeepsOrder ==
  ASSUME TypeOK, NEW from, NEW to, Renamed(from, to), to \notin DOMAIN fs, FilesInOrder,
         config' = config,
         ~ Newer(to, to),
         \A z \in DOMAIN fs \ {from} : Newer(to, z) => Newer(from, z),
         \A z \in DOMAIN fs \ {from} : Newer(z, to) => Newer(z, from)
  PROVE  FilesInOrder'
<1>1. /\ from \in DOMAIN fs
      /\ DOMAIN fs' = (DOMAIN fs \ {from}) \cup {to}
      /\ fs'[to] = fs[from]
      /\ \A z \in DOMAIN fs \ {from} : fs'[z] = fs[z]
  BY RenamedFiles, Zenon
<1>2. \A x, y : Newer(x, y)' <=> Newer(x, y)
  BY DEF Newer
<1>3. /\ \A z \in DOMAIN fs : \A i, j \in DOMAIN fs[z] : i < j => fs[z][i] < fs[z][j]
      /\ \A x, y \in DOMAIN fs :
           Newer(x, y) => \A i \in DOMAIN fs[x], j \in DOMAIN fs[y] : fs[x][i] > fs[y][j]
  BY DEF FilesInOrder
<1>4. \A z \in DOMAIN fs' : \A i, j \in DOMAIN fs'[z] : i < j => fs'[z][i] < fs'[z][j]
  BY <1>1, <1>3
<1>5. ASSUME NEW x \in DOMAIN fs', NEW y \in DOMAIN fs', Newer(x, y)'
      PROVE  \A i \in DOMAIN fs'[x], j \in DOMAIN fs'[y] : fs'[x][i] > fs'[y][j]
  <2>0. Newer(x, y)
    BY <1>2, <1>5
  <2>1. CASE x = to /\ y = to
    BY <2>0, <2>1
  <2>2. CASE x = to /\ y # to
    <3>1. y \in DOMAIN fs \ {from} /\ Newer(from, y)
      BY <1>1, <2>0, <2>2
    <3> QED
      BY <1>1, <1>3, <2>2, <3>1
  <2>3. CASE x # to /\ y = to
    <3>1. x \in DOMAIN fs \ {from} /\ Newer(x, from)
      BY <1>1, <2>0, <2>3
    <3> QED
      BY <1>1, <1>3, <2>3, <3>1
  <2>4. CASE x # to /\ y # to
    BY <1>1, <1>3, <2>0, <2>4
  <2> QED
    BY <2>1, <2>2, <2>3, <2>4
<1> QED
  BY <1>4, <1>5 DEF FilesInOrder

-----------------------------------------------------------------------------
(***************************************************************************)
(* The order of the names.                                                 *)
(***************************************************************************)

(* What an archive policy gives a suffix to: the log file, or the archive  *)
(* that has the stamp.                                                     *)
Archived(path) ==
  /\ path \in Seq(Nat)
  /\ config.archive \in {"incremental", "timestamp"}
  /\ IF config.archive = "incremental"
     THEN path = Base
     ELSE path # Base /\ Len(path) = 1

LEMMA Policies ==
  ASSUME TypeOK
  PROVE  /\ config.archive \in {"incremental", "timestamp", "unnamed"}
         /\ config.open \in {"app", "out"}
         /\ config.mode \in {"manual", "automatic"}
         /\ config.rolling \in {"size", "precise", "round", "round_local"}
BY ConfigAssumption DEF TypeOK, ConfigType

(* The next index is between the same names as an index, when the index    *)
(* itself is gone.                                                         *)
LEMMA IndexKeepsOrder ==
  ASSUME TypeOK, NEW path, Archived(path), NEW n \in Nat \ {0},
         NEW z, IsName(z), z # Append(path, n - 1)
  PROVE  /\ ~ Newer(Append(path, n), Append(path, n))
         /\ Newer(Append(path, n), z) => Newer(Append(path, n - 1), z)
         /\ Newer(z, Append(path, n)) => Newer(z, Append(path, n - 1))
<1> DEFINE from == Append(path, n - 1)
           to == Append(path, n)
<1>1. /\ path \in Seq(Nat) /\ n - 1 \in Nat
      /\ z \in Seq(Nat) /\ Len(z) \in Nat /\ \A i \in 1 .. Len(z) : z[i] \in Nat
      /\ z # Base => Len(z) > 0
  BY BaseIsName, LenProperties, ElementOfSeq DEF Archived, IsName
<1>2. /\ to # Base /\ from # Base
      /\ from \in Seq(Nat)
      /\ Len(to) = Len(path) + 1 /\ Len(from) = Len(path) + 1
      /\ to[Len(path) + 1] = n /\ from[Len(path) + 1] = n - 1
      /\ \A i \in 1 .. Len(path) : to[i] = path[i] /\ from[i] = path[i]
  BY <1>1, Suffixed
<1>3. CASE config.archive = "incremental"
  <2>1. Len(path) = 0 /\ Len(z) <= 1
    BY <1>3, BaseIsName DEF Archived, IsName
  <2>2. Len(from) = 1 /\ to[1] = n /\ from[1] = n - 1
    BY <1>2, <2>1
  <2>3. z # Base => Len(z) = 1 /\ z[1] \in Nat /\ z[1] # n - 1
    <3> SUFFICES ASSUME z # Base
                 PROVE  Len(z) = 1 /\ z[1] \in Nat /\ z[1] # n - 1
      OBVIOUS
    <3>1. Len(z) = 1 /\ z[1] \in Nat
      BY <1>1, <2>1
    <3>2. z[1] # n - 1
      BY <1>1, <1>2, <2>2, <3>1, SameName
    <3> QED
      BY <3>1, <3>2
  <2> HIDE DEF from, to
  <2>4. ~ Newer(to, to)
    BY <1>3, <2>2 DEF Newer
  <2>5. Newer(to, z) => Newer(from, z)
    BY <1>2, <1>3, <2>2, <2>3 DEF Newer
  <2>6. Newer(z, to) => Newer(z, from)
    BY <1>2, <1>3, <2>2, <2>3 DEF Newer
  <2> QED
    BY <2>4, <2>5, <2>6 DEF from, to
<1>4. CASE config.archive = "timestamp"
  <2>1. Len(path) = 1 /\ Len(z) <= 2 /\ path[1] \in Nat
    <3>1. path \in Seq(Nat) /\ Len(path) = 1 /\ Len(z) <= 2
      BY <1>4 DEF Archived, IsName
    <3>2. path[1] \in Nat
      BY <3>1, PartOfName
    <3> QED
      BY <3>1, <3>2
  <2>2. /\ Len(from) = 2 /\ from[1] = path[1] /\ from[2] = n - 1
        /\ Len(to) = 2 /\ to[1] = path[1] /\ to[2] = n
    BY <1>2, <2>1
  <2>3. z # Base => /\ (Len(z) = 1 \/ Len(z) = 2) /\ z[1] \in Nat
                    /\ Len(z) = 2 => z[2] \in Nat
                    /\ Len(z) = 2 /\ z[1] = path[1] => z[2] # n - 1
    <3> SUFFICES ASSUME z # Base
                 PROVE  /\ (Len(z) = 1 \/ Len(z) = 2) /\ z[1] \in Nat
                        /\ Len(z) = 2 => z[2] \in Nat
                        /\ Len(z) = 2 /\ z[1] = path[1] => z[2] # n - 1
      OBVIOUS
    <3>1. (Len(z) = 1 \/ Len(z) = 2) /\ z[1] \in Nat
      <4>1. Len(z) \in Nat /\ Len(z) > 0 /\ Len(z) <= 2 /\ z \in Seq(Nat)
        BY <1>1, <2>1
      <4>2. Len(z) # 0
        BY <4>1
      <4> QED
        BY <4>1, <4>2, OnePartOrTwo
    <3>2. Len(z) = 2 => z[2] \in Nat
      BY <1>1, <2>1
    <3>3. Len(z) = 2 /\ z[1] = path[1] => z[2] # n - 1
      BY <1>1, <1>2, <2>2, <3>1, SameName
    <3> QED
      BY <3>1, <3>2, <3>3
  <2> HIDE DEF from, to
  <2>4. ~ Newer(to, to)
    BY <1>4, <2>1, <2>2 DEF Newer
  <2>5. Newer(to, z) => Newer(from, z)
    BY <1>2, <1>4, <2>1, <2>2, <2>3 DEF Newer
  <2>6. Newer(z, to) => Newer(z, from)
    BY <1>2, <1>4, <2>1, <2>2, <2>3 DEF Newer
  <2> QED
    BY <2>4, <2>5, <2>6 DEF from, to
<1> QED
  BY <1>3, <1>4 DEF Archived

(* Index 0 is between the same names as what it is given to.               *)
LEMMA FirstKeepsOrder ==
  ASSUME TypeOK, NEW path, Archived(path),
         NEW z, IsName(z), z # path
  PROVE  /\ ~ Newer(Append(path, 0), Append(path, 0))
         /\ Newer(Append(path, 0), z) => Newer(path, z)
         /\ Newer(z, Append(path, 0)) => Newer(z, path)
<1> DEFINE to == Append(path, 0)
<1>1. /\ path \in Seq(Nat)
      /\ z \in Seq(Nat) /\ Len(z) \in Nat /\ \A i \in 1 .. Len(z) : z[i] \in Nat
      /\ z # Base => Len(z) > 0
  BY BaseIsName, LenProperties, ElementOfSeq DEF Archived, IsName
<1>2. /\ to # Base
      /\ Len(to) = Len(path) + 1 /\ to[Len(path) + 1] = 0
      /\ \A i \in 1 .. Len(path) : to[i] = path[i]
  BY <1>1, Suffixed
<1>3. CASE config.archive = "incremental"
  <2>1. Len(path) = 0 /\ Len(z) <= 1 /\ path = Base
    BY <1>3, BaseIsName DEF Archived, IsName
  <2>2. to[1] = 0
    BY <1>2, <2>1
  <2>3. z # Base /\ z[1] \in Nat
    BY <1>1, <2>1
  <2> HIDE DEF to
  <2>4. ~ Newer(to, to)
    BY <1>3, <2>2 DEF Newer
  <2>5. Newer(path, z)
    BY <2>1, <2>3 DEF Newer
  <2>6. ~ Newer(z, to)
    BY <1>2, <1>3, <2>2, <2>3 DEF Newer
  <2> QED
    BY <2>4, <2>5, <2>6 DEF to
<1>4. CASE config.archive = "timestamp"
  <2>1. Len(path) = 1 /\ Len(z) <= 2 /\ path[1] \in Nat /\ path # Base
    <3>1. path \in Seq(Nat) /\ Len(path) = 1 /\ Len(z) <= 2 /\ path # Base
      BY <1>4 DEF Archived, IsName
    <3>2. path[1] \in Nat
      BY <3>1, PartOfName
    <3> QED
      BY <3>1, <3>2
  <2>2. Len(to) = 2 /\ to[1] = path[1] /\ to[2] = 0
    BY <1>2, <2>1
  <2>3. z # Base => /\ (Len(z) = 1 \/ Len(z) = 2) /\ z[1] \in Nat
                    /\ Len(z) = 2 => z[2] \in Nat
                    /\ z[1] = path[1] => Len(z) = 2
    <3> SUFFICES ASSUME z # Base
                 PROVE  /\ (Len(z) = 1 \/ Len(z) = 2) /\ z[1] \in Nat
                        /\ Len(z) = 2 => z[2] \in Nat
                        /\ z[1] = path[1] => Len(z) = 2
      OBVIOUS
    <3>1. (Len(z) = 1 \/ Len(z) = 2) /\ z[1] \in Nat
      <4>1. Len(z) \in Nat /\ Len(z) > 0 /\ Len(z) <= 2 /\ z \in Seq(Nat)
        BY <1>1, <2>1
      <4>2. Len(z) # 0
        BY <4>1
      <4> QED
        BY <4>1, <4>2, OnePartOrTwo
    <3>2. Len(z) = 2 => z[2] \in Nat
      BY <1>1, <2>1
    <3>3. z[1] = path[1] => Len(z) = 2
      BY <1>1, <2>1, <3>1, SameName
    <3> QED
      BY <3>1, <3>2, <3>3
  <2> HIDE DEF to
  <2>4. ~ Newer(to, to)
    BY <1>4, <2>1, <2>2 DEF Newer
  <2>5. Newer(to, z) => Newer(path, z)
    BY <1>2, <1>4, <2>1, <2>2, <2>3 DEF Newer
  <2>6. Newer(z, to) => Newer(z, path)
    BY <1>2, <1>4, <2>1, <2>2, <2>3 DEF Newer
  <2> QED
    BY <2>4, <2>5, <2>6 DEF to
<1> QED
  BY <1>3, <1>4 DEF Archived

(* A stamp that is the last one is between the same names as the log file. *)
LEMMA StampKeepsOrder ==
  ASSUME TypeOK, config.archive = "timestamp",
         NEW path, Archived(path),
         NEW z, IsName(z), z # path, z # Base, z[1] <= path[1]
  PROVE  /\ ~ Newer(path, path)
         /\ Newer(Base, z)
         /\ ~ Newer(z, path)
<1>1. path \in Seq(Nat) /\ path # Base /\ Len(path) = 1
  BY Policies DEF Archived
<1>2. path[1] \in Nat
  BY <1>1, PartOfName
<1>3. z \in Seq(Nat) /\ (Len(z) = 1 \/ Len(z) = 2) /\ z[1] \in Nat
  <2>1. z \in Seq(Nat) /\ Len(z) \in Nat /\ Len(z) <= 2 /\ Len(z) # 0
    BY BaseIsName, LenProperties DEF IsName
  <2> QED
    BY <2>1, OnePartOrTwo
<1>4. ~ Newer(path, path)
  BY <1>1, <1>2 DEF Newer
<1>5. ~ Newer(z, path)
  BY <1>1, <1>2, <1>3 DEF Newer
<1> QED
  BY <1>4, <1>5 DEF Newer

-----------------------------------------------------------------------------
(***************************************************************************)
(* The steps of the stream.                                                *)
(***************************************************************************)

(* The files of a program that is about to log its first event.            *)
LEMMA Initially ==
  ASSUME Init
  PROVE  IInv
<1>1. DOMAIN fs = {Base} /\ fs[Base] = <<>>
  BY DEF Init
<1>2. TypeOK
  <2>1. IsFiniteSet(DOMAIN fs)
    BY <1>1, FS_Singleton
  <2>2. fs \in [DOMAIN fs -> Seq(1 .. events)]
    <3>1. <<>> \in Seq(1 .. events)
      OBVIOUS
    <3> QED
      BY <3>1 DEF Init
  <2>3. \A name \in DOMAIN fs : IsName(name)
    BY <1>1, BaseIsName
  <2>4. when \in Seq(0 .. now) /\ Len(when) = events
    BY DEF Init
  <2>5. archiving \in [path : Seq(Nat), index : Nat]
    BY BaseIsName DEF Init, NoPath
  <2>6. Base \in DOMAIN fs
    BY <1>1
  <2>7. /\ config \in Configs /\ opened = TRUE /\ stream = "good" /\ next = Unset /\ now = 0
        /\ pc = "idle" /\ events = 0 /\ lost = {} /\ truncated = {} /\ crashed = FALSE /\ faulted = FALSE
    BY Zenon DEF Init
  <2>8. now \in 0 .. MaxTime /\ events \in 0 .. MaxEvents
    BY <2>7, NumbersAssumption
  <2>9. ends \in [1 .. MaxEvents -> Nat]
    BY DEF Init
  <2> QED
    BY <2>1, <2>2, <2>3, <2>4, <2>5, <2>6, <2>7, <2>8, <2>9 DEF TypeOK
<1>3. Archiving /\ StreamWorks /\ RoomToAppend /\ NamesFree /\ RollPoint /\ TruncatedByOpen
  BY <1>1 DEF Init, Archiving, StreamWorks, RoomToAppend, NamesFree, RollPoint, TruncatedByOpen
<1>4. SizeBounded
  <2>1. \A name \in DOMAIN fs : 1 .. Len(fs[name]) - 1 = {}
    BY <1>1
  <2> QED
    BY <2>1 DEF SizeBounded
<1>5. InOneFile
  <2>1. \A e : Holding(e) = {}
    BY <1>1 DEF Holding
  <2>2. Written = {}
    BY DEF Init, Written
  <2> QED
    BY <2>1, <2>2 DEF InOneFile
<1>6. FilesInOrder
  BY <1>1 DEF FilesInOrder
<1>7. (lost # {} => faulted \/ crashed) /\ (faulted => Faults # {})
  BY DEF Init
<1> QED
  BY <1>2, <1>3, <1>4, <1>5, <1>6, <1>7 DEF IInv

(* An event arrives: it is in no file yet.                                 *)
LEMMA EventArrives ==
  ASSUME TypeOK, NewEvent, pc' # "idle",
         UNCHANGED <<config, fs, stream, now, ends, lost, truncated, crashed, faulted>>
  PROVE  /\ events' = events + 1 /\ events \in Nat /\ events' \in 1 .. MaxEvents
         /\ fs' \in [DOMAIN fs' -> Seq(1 .. events')]
         /\ \A name \in DOMAIN fs' : IsName(name)'
         /\ when' \in Seq(0 .. now') /\ Len(when') = events'
         /\ when'[events'] = now
         /\ \A e \in 1 .. events : when'[e] = when[e]
         /\ lost' \subseteq 1 .. events' /\ truncated' \subseteq 1 .. events'
         /\ InOneFile => InOneFile'
         /\ FilesInOrder => FilesInOrder'
         /\ SizeBounded => SizeBounded'
<1>1. /\ pc = "idle" /\ events' = events + 1 /\ when' = Append(when, now)
      /\ events \in Nat /\ events' \in 1 .. MaxEvents
  BY NumbersAssumption DEF NewEvent, TypeOK
<1>2. fs' \in [DOMAIN fs' -> Seq(1 .. events')]
  <2>1. fs \in [DOMAIN fs -> Seq(1 .. events)]
    BY DEF TypeOK
  <2>2. fs \in [DOMAIN fs -> Seq(1 .. events')]
    BY <1>1, <2>1, Grown
  <2> QED
    BY <2>2
<1>3. \A name \in DOMAIN fs' : IsName(name)'
  BY DEF TypeOK, IsName, Stamp
<1>4. /\ when' \in Seq(0 .. now') /\ Len(when') = events'
      /\ when'[events'] = now
      /\ \A e \in 1 .. events : when'[e] = when[e]
  <2>1. when \in Seq(0 .. now) /\ now \in 0 .. now /\ Len(when) = events
    BY NumbersAssumption DEF TypeOK
  <2>2. /\ Append(when, now) \in Seq(0 .. now)
        /\ Len(Append(when, now)) = Len(when) + 1
        /\ \A i \in 1 .. Len(when) : Append(when, now)[i] = when[i]
        /\ Append(when, now)[Len(when) + 1] = now
    BY <2>1, AppendProperties, HeadTailAppend
  <2> QED
    BY <1>1, <2>1, <2>2
<1>5. lost' \subseteq 1 .. events' /\ truncated' \subseteq 1 .. events'
  BY <1>1 DEF TypeOK
<1>6. ASSUME InOneFile
      PROVE  InOneFile'
  <2>1. \A e : Holding(e)' = Holding(e)
    BY DEF Holding
  <2>2. Holding(events') = {}
    BY <1>1, HeldAreLogged
  <2>3. Written' = Written
    BY <1>1 DEF Written, Gone
  <2>4. \A e \in 1 .. events' : e \in 1 .. events \/ e = events'
    BY <1>1
  <2> QED
    BY <1>6, <2>1, <2>2, <2>3, <2>4 DEF InOneFile
<1>7. FilesInOrder => FilesInOrder'
  BY DEF FilesInOrder, Newer
<1>8. SizeBounded => SizeBounded'
  BY DEF SizeBounded
<1> QED
  BY <1>1, <1>2, <1>3, <1>4, <1>5, <1>6, <1>7, <1>8

(* An archive begins: its names are free.                                  *)
LEMMA ArchiveBegins ==
  ASSUME TypeOK, BeginArchive, config.archive # "unnamed", UNCHANGED <<config, fs, now>>
  PROVE  /\ opened' = FALSE
         /\ pc' \in {"shift", "rename"}
         /\ archiving' \in [path : Seq(Nat), index : Nat]
         /\ Archiving'
         /\ NamesFree'
<1>1. config.archive \in {"incremental", "timestamp"}
  BY Policies DEF BeginArchive
<1>2. Target \in Seq(Nat) /\ Stamp \in Nat
  BY BaseIsName, StampType, Suffixed DEF Target
<1>3. config.archive = "timestamp" => Len(Target) = 1 /\ Target[1] = Stamp
  BY BaseIsName, StampType, Suffixed DEF Target
<1>4. /\ FreeIndex(Target) \in Nat
      /\ Append(Target, FreeIndex(Target)) \notin DOMAIN fs
      /\ \A n \in 0 .. FreeIndex(Target) - 1 : Append(Target, n) \in DOMAIN fs
  BY <1>2, FirstFree DEF TypeOK
<1>5. CASE config.archive = "incremental" \/ Target \in DOMAIN fs
  <2>1. /\ opened' = FALSE /\ pc' = "shift"
        /\ archiving' = [path |-> Target, index |-> FreeIndex(Target)]
    BY <1>1, <1>5 DEF BeginArchive
  <2>2. archiving'.path = Target /\ archiving'.index = FreeIndex(Target)
    BY <2>1
  <2>3. NamesFree'
    BY <1>4, <1>5, <2>1, <2>2 DEF NamesFree
  <2>4. config.archive = "incremental" => archiving'.path = Base
    BY <2>2 DEF Target
  <2>5. config.archive = "timestamp" =>
          /\ Len(archiving'.path) = 1
          /\ archiving'.path[1] <= Stamp
          /\ \A name \in DOMAIN fs \ {Base} : name[1] <= archiving'.path[1]
    BY <1>2, <1>3, <2>2 DEF TypeOK, IsName
  <2>6. Archiving'
    BY <1>1, <2>1, <2>4, <2>5 DEF Archiving, Stamp
  <2> QED
    BY <1>2, <1>4, <2>1, <2>3, <2>6
<1>6. CASE config.archive # "incremental" /\ Target \notin DOMAIN fs
  <2>1. /\ opened' = FALSE /\ pc' = "rename"
        /\ archiving' = [path |-> Target, index |-> 0]
    BY <1>1, <1>6 DEF BeginArchive
  <2>2. archiving'.path = Target
    BY <2>1
  <2>3. NamesFree'
    BY <1>6, <2>1, <2>2 DEF NamesFree
  <2>4. /\ Len(archiving'.path) = 1
        /\ archiving'.path[1] <= Stamp
        /\ \A name \in DOMAIN fs \ {Base} : name[1] <= archiving'.path[1]
    BY <1>1, <1>2, <1>3, <1>6, <2>2 DEF TypeOK, IsName
  <2>5. Archiving'
    BY <1>1, <1>6, <2>1, <2>4 DEF Archiving, Stamp
  <2> QED
    BY <1>2, <2>1, <2>3, <2>5
<1> QED
  BY <1>5, <1>6

LEMMA NothingBegins ==
  ASSUME TypeOK, BeginArchive, config.archive = "unnamed"
  PROVE  pc' = "append" /\ opened' = opened /\ archiving' = archiving
BY DEF BeginArchive

LEMMA SinkStep ==
  ASSUME IInv, Sink
  PROVE  IInv'
<1>1. /\ config.mode = "manual" /\ NewEvent
      /\ pc' = IF stream # "absent" /\ CanRoll THEN "roll" ELSE "append"
      /\ config' = config /\ fs' = fs /\ opened' = opened /\ stream' = stream /\ next' = next
      /\ now' = now /\ archiving' = archiving /\ ends' = ends
      /\ lost' = lost /\ truncated' = truncated /\ crashed' = crashed /\ faulted' = faulted
  BY Zenon DEF Sink
<1>2. TypeOK /\ pc = "idle" /\ pc' \in {"roll", "append"}
  BY <1>1 DEF IInv, NewEvent
<1>3. /\ events' = events + 1 /\ events \in Nat /\ events' \in 1 .. MaxEvents
      /\ fs' \in [DOMAIN fs' -> Seq(1 .. events')]
      /\ \A name \in DOMAIN fs' : IsName(name)'
      /\ when' \in Seq(0 .. now') /\ Len(when') = events'
      /\ lost' \subseteq 1 .. events' /\ truncated' \subseteq 1 .. events'
      /\ InOneFile => InOneFile'
      /\ FilesInOrder => FilesInOrder'
      /\ SizeBounded => SizeBounded'
  BY <1>1, <1>2, EventArrives
<1>4. TypeOK'
  BY <1>1, <1>2, <1>3 DEF TypeOK
<1>5. Archiving' /\ NamesFree'
  BY <1>2 DEF Archiving, NamesFree
<1>6. StreamWorks'
  BY <1>1, <1>2 DEF IInv, StreamWorks
<1>7. RoomToAppend'
  <2> SUFFICES ASSUME config.rolling = "size", ~ faulted, pc' = "append"
               PROVE  fs[Base] = <<>> \/ Position < Threshold
    BY <1>1 DEF RoomToAppend, Position
  <2>1. opened /\ stream = "good"
    BY <1>2 DEF IInv, StreamWorks
  <2>2. ~ FileIsFull
    BY <1>1, <2>1 DEF CanRoll
  <2> QED
    BY <1>2, <2>1, <2>2, NotFullHasRoom
<1>8. RollPoint'
  BY <1>1 DEF RollPoint
<1>9. /\ SizeBounded' /\ TruncatedByOpen'
      /\ ArchivesMove' => NamesFree' /\ InOneFile' /\ FilesInOrder'
      /\ lost' # {} => faulted' \/ crashed'
      /\ faulted' => Faults # {}
  BY <1>1, <1>3, <1>5 DEF IInv, ArchivesMove, TruncatedByOpen
<1> QED
  BY <1>4, <1>5, <1>6, <1>7, <1>8, <1>9 DEF IInv

LEMMA RollStep ==
  ASSUME IInv, Roll
  PROVE  IInv'
<1>1. /\ pc = "roll" /\ ApplyRolling /\ BeginArchive
      /\ config' = config /\ fs' = fs /\ stream' = stream /\ now' = now /\ events' = events
      /\ ends' = ends /\ when' = when /\ lost' = lost /\ truncated' = truncated
      /\ crashed' = crashed /\ faulted' = faulted
  BY Zenon DEF Roll, history
<1>2. TypeOK
  BY DEF IInv
<1>3. /\ opened' \in BOOLEAN /\ (opened' => opened)
      /\ pc' \in {"shift", "rename", "append"}
      /\ pc' # "append" => opened' = FALSE
      /\ pc' = "append" => config.archive = "unnamed" /\ opened' = opened
      /\ archiving' \in [path : Seq(Nat), index : Nat]
      /\ Archiving'
      /\ NamesFree'
  <2>1. CASE config.archive # "unnamed"
    BY <1>1, <1>2, <2>1, ArchiveBegins
  <2>2. CASE config.archive = "unnamed"
    BY <1>1, <1>2, <2>2, NothingBegins DEF TypeOK, Archiving, NamesFree
  <2> QED
    BY <2>1, <2>2
<1>4. next' \in IF config.rolling = "size" THEN {Unset} ELSE Int \cup {Unset}
  BY <1>1, <1>2, RollPointType
<1>5. \A name \in DOMAIN fs' : IsName(name)'
  BY <1>1, <1>2 DEF TypeOK, IsName, Stamp
<1>6. TypeOK'
  BY <1>1, <1>2, <1>3, <1>4, <1>5 DEF TypeOK
<1>7. StreamWorks' /\ RoomToAppend' /\ TruncatedByOpen'
  BY <1>1, <1>3 DEF IInv, StreamWorks, RoomToAppend, TruncatedByOpen
<1>8. RollPoint'
  BY <1>1, <1>2 DEF IInv, RollPoint
<1>9. ASSUME InOneFile
      PROVE  InOneFile'
  <2>1. \A e : Holding(e)' = Holding(e)
    BY <1>1 DEF Holding
  <2>2. Written' = Written
    BY <1>1, <1>3 DEF Written, Gone
  <2> QED
    BY <1>1, <1>9, <2>1, <2>2 DEF InOneFile
<1>10. FilesInOrder => FilesInOrder'
  BY <1>1 DEF FilesInOrder, Newer
<1>11. /\ SizeBounded'
       /\ ArchivesMove' => NamesFree' /\ InOneFile' /\ FilesInOrder'
       /\ lost' # {} => faulted' \/ crashed'
       /\ faulted' => Faults # {}
  BY <1>1, <1>3, <1>9, <1>10 DEF IInv, ArchivesMove, SizeBounded
<1> QED
  BY <1>3, <1>6, <1>7, <1>8, <1>11 DEF IInv

LEMMA PutStep ==
  ASSUME IInv, Put
  PROVE  IInv'
<1>1. /\ config.mode = "automatic" /\ NewEvent
      /\ config' = config /\ fs' = fs /\ stream' = stream /\ now' = now
      /\ ends' = ends /\ lost' = lost /\ truncated' = truncated /\ crashed' = crashed /\ faulted' = faulted
  BY Zenon DEF Put
<1>2. TypeOK /\ pc = "idle"
  BY <1>1 DEF IInv, NewEvent
<1>3. \/ stream = "good" /\ ApplyRolling /\ IsDue /\ BeginArchive
      \/ /\ stream = "good" /\ ApplyRolling /\ ~ IsDue
         /\ pc' = "append" /\ opened' = opened /\ archiving' = archiving
      \/ /\ stream # "good" /\ pc' = "append"
         /\ next' = next /\ opened' = opened /\ archiving' = archiving
  BY Zenon DEF Put
<1>4. /\ pc' \in {"shift", "rename", "append"}
      /\ archiving' \in [path : Seq(Nat), index : Nat]
      /\ opened' \in BOOLEAN /\ (opened' => opened)
      /\ pc' = "append" => opened' = opened
      /\ BeginArchive /\ config.archive # "unnamed" => pc' # "append"
      /\ Archiving' /\ NamesFree'
  <2>1. CASE BeginArchive /\ config.archive # "unnamed"
    BY <1>1, <1>2, <2>1, ArchiveBegins
  <2>2. CASE \/ BeginArchive /\ config.archive = "unnamed"
             \/ ~ BeginArchive /\ pc' = "append" /\ opened' = opened /\ archiving' = archiving
    <3>1. pc' = "append" /\ opened' = opened /\ archiving' = archiving
      BY <1>2, <2>2, NothingBegins
    <3> QED
      BY <1>2, <2>2, <3>1 DEF TypeOK, Archiving, NamesFree
  <2> QED
    BY <1>3, <2>1, <2>2
<1>5. next' \in IF config.rolling = "size" THEN {Unset} ELSE Int \cup {Unset}
  <2>1. CASE ApplyRolling
    BY <1>2, <2>1, RollPointType
  <2>2. CASE next' = next
    BY <1>2, <2>2 DEF TypeOK
  <2> QED
    BY <1>3, <2>1, <2>2
<1>6. /\ events' = events + 1 /\ events \in Nat /\ events' \in 1 .. MaxEvents
      /\ fs' \in [DOMAIN fs' -> Seq(1 .. events')]
      /\ \A name \in DOMAIN fs' : IsName(name)'
      /\ when' \in Seq(0 .. now') /\ Len(when') = events'
      /\ when'[events'] = now
      /\ \A e \in 1 .. events : when'[e] = when[e]
      /\ lost' \subseteq 1 .. events' /\ truncated' \subseteq 1 .. events'
      /\ InOneFile => InOneFile'
      /\ FilesInOrder => FilesInOrder'
      /\ SizeBounded => SizeBounded'
  BY <1>1, <1>2, <1>4, EventArrives
<1>7. TypeOK'
  BY <1>1, <1>2, <1>4, <1>5, <1>6 DEF TypeOK
<1>8. ASSUME ~ faulted
      PROVE  opened /\ stream = "good" /\ Base \in DOMAIN fs
  BY <1>2, <1>8 DEF IInv, StreamWorks
<1>9. StreamWorks'
  <2> SUFFICES ASSUME ~ faulted
               PROVE  pc' = "append" => opened'
    BY <1>1, <1>4, <1>8 DEF StreamWorks
  <2> QED
    BY <1>4, <1>8
<1>10. RoomToAppend'
  <2> SUFFICES ASSUME config.rolling = "size", config.archive # "unnamed", ~ faulted, pc' = "append"
               PROVE  fs[Base] = <<>> \/ Position < Threshold
    BY <1>1 DEF RoomToAppend, Position
  <2>1. opened /\ stream = "good"
    BY <1>8
  <2>2. ~ FileIsFull
    BY <1>3, <1>4, <2>1 DEF IsDue
  <2> QED
    BY <1>2, <2>1, <2>2, NotFullHasRoom
<1>11. RollPoint'
  <2> SUFFICES ASSUME config.rolling # "size", config.archive # "unnamed", ~ faulted, ~ crashed
               PROVE  /\ next' # Unset
                      /\ \E e \in 1 .. events' :
                           /\ e = IF pc' = "append" /\ fs[Base] # <<>> THEN Head(fs[Base]) ELSE events'
                           /\ \E t \in Nat : t = when'[e] /\ next' = NextPoint(t)
    BY <1>1, <1>4, <1>6, SameRollPoint DEF RollPoint
  <2>1. ApplyRolling /\ stream = "good" /\ Base \in DOMAIN fs
    BY <1>3, <1>8
  <2>2. now \in Nat /\ Unset \notin Int
    BY <1>2, NumbersAssumption DEF TypeOK
  <2>3. NextPoint(now) \in Int
    BY <2>2, RollPointIsNear
  <2>4. CASE next = Unset
    <3>1. events = 0 /\ next' = NextPoint(now)
      BY <1>1, <2>1, <2>4 DEF IInv, RollPoint, ApplyRolling
    <3>2. fs[Base] = <<>>
      <4>1. fs[Base] \in Seq(1 .. 0)
        BY <1>2, <2>1, <3>1, HeldAreLogged
      <4> QED
        BY <4>1, EmptySeq, LenProperties, ElementOfSeq
    <3> QED
      BY <1>6, <2>2, <2>3, <3>1, <3>2
  <2>5. CASE next # Unset
    <3>1. /\ fs[Base] # <<>>
          /\ \E t \in Nat : t = when[Head(fs[Base])] /\ next = NextPoint(t)
      BY <1>1, <1>2, <2>5 DEF IInv, RollPoint
    <3>2. Head(fs[Base]) \in 1 .. events
      <4>1. fs[Base] \in Seq(1 .. events)
        BY <1>2, <2>1, HeldAreLogged
      <4> QED
        BY <3>1, <4>1, HeadTailProperties
    <3>3. CASE IsDue
      <4>1. next' = NextPoint(now)
        BY <2>1, <2>5, <3>3 DEF ApplyRolling, IsDue
      <4>2. pc' # "append"
        BY <1>3, <1>4, <2>1, <3>3
      <4> QED
        BY <1>6, <2>2, <2>3, <4>1, <4>2
    <3>4. CASE ~ IsDue
      <4>1. next' = next
        BY <2>1, <2>5, <3>4 DEF ApplyRolling, IsDue
      <4>2. pc' = "append"
        BY <1>3, <3>4, <2>1
      <4>3. when'[Head(fs[Base])] = when[Head(fs[Base])] /\ Head(fs[Base]) \in 1 .. events'
        BY <1>6, <3>2
      <4> QED
        BY <2>5, <3>1, <4>1, <4>2, <4>3
    <3> QED
      BY <3>3, <3>4
  <2> QED
    BY <2>4, <2>5
<1>12. /\ SizeBounded' /\ TruncatedByOpen'
       /\ ArchivesMove' => NamesFree' /\ InOneFile' /\ FilesInOrder'
       /\ lost' # {} => faulted' \/ crashed'
       /\ faulted' => Faults # {}
  BY <1>1, <1>4, <1>6 DEF IInv, ArchivesMove, TruncatedByOpen
<1> QED
  BY <1>4, <1>7, <1>9, <1>10, <1>11, <1>12 DEF IInv

(* The name that is archived, and the names it may get.                    *)
LEMMA ArchivingName ==
  ASSUME TypeOK, Archiving, pc \in {"shift", "rename"}
  PROVE  /\ archiving.path \in Seq(Nat) /\ archiving.index \in Nat
         /\ Archived(archiving.path)
         /\ IsName(archiving.path)
         /\ \A k \in Nat : IsName(Append(archiving.path, k))
         /\ config.archive = "timestamp" =>
              /\ archiving.path # Base
              /\ archiving.path[1] \in Nat
              /\ \A k \in Nat : Append(archiving.path, k)[1] = archiving.path[1]
<1> DEFINE path == archiving.path
<1>1. /\ path \in Seq(Nat) /\ archiving.index \in Nat
      /\ \A k \in Nat : /\ Append(path, k) \in Seq(Nat)
                        /\ Len(Append(path, k)) = Len(path) + 1
                        /\ Append(path, k) # Base
                        /\ \A i \in 1 .. Len(path) : Append(path, k)[i] = path[i]
  BY Suffixed DEF TypeOK
<1>2. CASE config.archive = "incremental"
  <2>1. path = Base
    BY <1>2 DEF Archiving
  <2>2. \A k \in Nat : IsName(Append(path, k))
    BY <1>1, <1>2, <2>1, BaseIsName DEF IsName
  <2> QED
    BY <1>1, <1>2, <2>1, <2>2, BaseIsName DEF Archived
<1>3. CASE config.archive = "timestamp"
  <2>1. Len(path) = 1 /\ path[1] <= Stamp
    BY <1>3 DEF Archiving
  <2>2. path # Base
    BY <2>1, BaseIsName
  <2>3. IsName(path)
    BY <1>1, <1>3, <2>1 DEF IsName
  <2>4. \A k \in Nat : Append(path, k)[1] = path[1]
    BY <1>1, <2>1
  <2>5. \A k \in Nat : IsName(Append(path, k))
    BY <1>1, <1>3, <2>1, <2>4 DEF IsName
  <2>6. path[1] \in Nat
    BY <1>1, <2>1, PartOfName
  <2> QED
    BY <1>1, <1>3, <2>1, <2>2, <2>3, <2>4, <2>5, <2>6 DEF Archived
<1> QED
  BY <1>2, <1>3 DEF Archiving

(* A rename gives every file a right name, and no file a new length.       *)
LEMMA RenameKeepsTypes ==
  ASSUME TypeOK, SizeBounded, NEW from, NEW to, Renamed(from, to), IsName(to),
         UNCHANGED <<config, now, events, ends>>
  PROVE  /\ IsFiniteSet(DOMAIN fs')
         /\ fs' \in [DOMAIN fs' -> Seq(1 .. events')]
         /\ \A name \in DOMAIN fs' : IsName(name)'
         /\ SizeBounded'
<1>1. /\ from \in DOMAIN fs
      /\ DOMAIN fs' = (DOMAIN fs \ {from}) \cup {to}
      /\ fs'[to] = fs[from]
      /\ \A z \in DOMAIN fs \ {from} : z # to => fs'[z] = fs[z]
      /\ IsFiniteSet(DOMAIN fs')
      /\ fs' \in [DOMAIN fs' -> Seq(1 .. events)]
      /\ faulted' = faulted
  BY RenamedFiles, Zenon
<1>2. \A name : IsName(name)' <=> IsName(name)
  BY DEF IsName, Stamp
<1>3. \A name \in DOMAIN fs' : IsName(name)
  BY <1>1 DEF TypeOK
<1>4. \A z \in DOMAIN fs' : \E y \in DOMAIN fs : fs'[z] = fs[y]
  BY <1>1, Zenon
<1>5. SizeBounded'
  <2> SUFFICES ASSUME config.rolling = "size", config.archive # "unnamed", ~ faulted,
                      NEW z \in DOMAIN fs', NEW i \in 1 .. Len(fs'[z]) - 1
               PROVE  ends[fs'[z][i]] < Threshold
    BY <1>1 DEF SizeBounded
  <2>1. PICK y \in DOMAIN fs : fs'[z] = fs[y]
    BY <1>4
  <2> QED
    BY <2>1 DEF SizeBounded
<1> QED
  BY <1>1, <1>2, <1>3, <1>5

(* What the rename of an archive, or of the file that is archived, does.   *)
LEMMA ArchiveRenamed ==
  ASSUME IInv, pc = "shift", NEW from, NEW to, Renamed(from, to),
         \/ /\ archiving.index = 0
            /\ from = archiving.path /\ to = Append(archiving.path, 0)
         \/ /\ archiving.index > 0
            /\ from = Append(archiving.path, archiving.index - 1)
            /\ to = Append(archiving.path, archiving.index),
         UNCHANGED <<config, now, events, ends, lost, truncated>>, pc' # "idle"
  PROVE  /\ from # to /\ to # Base
         /\ from \in DOMAIN fs
         /\ DOMAIN fs' = (DOMAIN fs \ {from}) \cup {to}
         /\ faulted' = faulted
         /\ IsFiniteSet(DOMAIN fs')
         /\ fs' \in [DOMAIN fs' -> Seq(1 .. events')]
         /\ \A name \in DOMAIN fs' : IsName(name)'
         /\ SizeBounded'
         /\ config.archive = "timestamp" => to[1] = archiving.path[1]
         /\ ArchivesMove => InOneFile' /\ FilesInOrder'
<1> DEFINE path == archiving.path
           n == archiving.index
<1>1. TypeOK /\ Archiving /\ SizeBounded
  BY DEF IInv
<1>2. /\ path \in Seq(Nat) /\ n \in Nat
      /\ Archived(path)
      /\ IsName(path)
      /\ \A k \in Nat : IsName(Append(path, k))
      /\ config.archive = "timestamp" => \A k \in Nat : Append(path, k)[1] = path[1]
  BY <1>1, ArchivingName
<1>3. from # to /\ to # Base
  <2>1. CASE n = 0
    BY <1>2, <2>1, Suffixed
  <2>2. CASE n > 0
    <3>1. from = Append(path, n - 1) /\ to = Append(path, n)
      BY <1>2, <2>2
    <3>2. n - 1 \in Nat /\ n - 1 # n
      BY <1>2, <2>2
    <3>3. Append(path, n - 1) # Append(path, n)
      BY <1>2, <3>2, OtherSuffix
    <3>4. Append(path, n) # Base
      BY <1>2, Suffixed
    <3> QED
      BY <3>1, <3>3, <3>4
  <2> QED
    BY <2>1, <2>2
<1>4. IsName(to) /\ (config.archive = "timestamp" => to[1] = path[1])
  <2>1. PICK k \in Nat : to = Append(path, k)
    <3>1. to = Append(path, 0) \/ to = Append(path, n)
      OBVIOUS
    <3> QED
      BY <1>2, <3>1
  <2> QED
    BY <1>2, <2>1
<1>5. /\ from \in DOMAIN fs
      /\ DOMAIN fs' = (DOMAIN fs \ {from}) \cup {to}
      /\ faulted' = faulted
  BY <1>1, RenamedFiles, Zenon
<1>6. /\ IsFiniteSet(DOMAIN fs')
      /\ fs' \in [DOMAIN fs' -> Seq(1 .. events')]
      /\ \A name \in DOMAIN fs' : IsName(name)'
      /\ SizeBounded'
  BY <1>1, <1>4, RenameKeepsTypes
<1>7. ASSUME ArchivesMove
      PROVE  InOneFile' /\ FilesInOrder'
  <2>1. NamesFree /\ InOneFile /\ FilesInOrder
    BY <1>7 DEF IInv
  <2>2. to \notin DOMAIN fs
    BY <2>1 DEF NamesFree
  <2>3. InOneFile'
    BY <1>1, <2>1, <2>2, RenameKeepsInOneFile
  <2>4. /\ ~ Newer(to, to)
        /\ \A z \in DOMAIN fs \ {from} : Newer(to, z) => Newer(from, z)
        /\ \A z \in DOMAIN fs \ {from} : Newer(z, to) => Newer(z, from)
    <3>1. \A z \in DOMAIN fs : IsName(z)
      BY <1>1 DEF TypeOK
    <3>2. \E z : IsName(z) /\ z # from
      BY <1>3, <1>4
    <3>3. CASE n = 0
      <4>1. from = path /\ to = Append(path, 0)
        BY <3>3
      <4>2. \A z : IsName(z) /\ z # path =>
              /\ ~ Newer(Append(path, 0), Append(path, 0))
              /\ Newer(Append(path, 0), z) => Newer(path, z)
              /\ Newer(z, Append(path, 0)) => Newer(z, path)
        BY <1>1, <1>2, FirstKeepsOrder
      <4> QED
        BY <3>1, <3>2, <4>1, <4>2
    <3>4. CASE n > 0
      <4>1. n \in Nat \ {0} /\ from = Append(path, n - 1) /\ to = Append(path, n)
        BY <1>2, <3>4
      <4>2. \A z : IsName(z) /\ z # Append(path, n - 1) =>
              /\ ~ Newer(Append(path, n), Append(path, n))
              /\ Newer(Append(path, n), z) => Newer(Append(path, n - 1), z)
              /\ Newer(z, Append(path, n)) => Newer(z, Append(path, n - 1))
        BY <1>1, <1>2, <4>1, IndexKeepsOrder
      <4> QED
        BY <3>1, <3>2, <4>1, <4>2
    <3> QED
      BY <1>2, <3>3, <3>4
  <2>5. FilesInOrder'
    BY <1>1, <2>1, <2>2, <2>4, RenameKeepsOrder
  <2> QED
    BY <2>3, <2>5
<1> QED
  BY <1>3, <1>4, <1>5, <1>6, <1>7

(* A rename that fails leaves the files as they are.                       *)
LEMMA FilesStay ==
  ASSUME UNCHANGED <<config, fs, events, lost, truncated>>, pc # "idle", pc' # "idle"
  PROVE  /\ InOneFile => InOneFile'
         /\ FilesInOrder => FilesInOrder'
<1>1. \A e : Holding(e)' = Holding(e)
  BY DEF Holding
<1>2. Written' = Written
  BY DEF Written, Gone
<1>3. InOneFile => InOneFile'
  BY <1>1, <1>2 DEF InOneFile
<1>4. FilesInOrder => FilesInOrder'
  BY DEF FilesInOrder, Newer
<1> QED
  BY <1>3, <1>4

LEMMA ShiftOneStep ==
  ASSUME IInv, ShiftOne
  PROVE  IInv'
<1> DEFINE path == archiving.path
           n == archiving.index
           from == IF n = 0 THEN path ELSE Append(path, n - 1)
           to == Append(path, n)
           fault == IF n = 0 /\ path = Base THEN "rename_base" ELSE "rename_archive"
<1>1. /\ pc = "shift"
      /\ config' = config /\ opened' = opened /\ stream' = stream /\ next' = next /\ now' = now
      /\ events' = events /\ ends' = ends /\ when' = when /\ lost' = lost
      /\ truncated' = truncated /\ crashed' = crashed
  BY Zenon DEF ShiftOne
<1>2. \/ /\ n = 0 /\ Rename(path, to, fault)
         /\ pc' = (IF path = Base THEN "reopen" ELSE "rename") /\ archiving' = archiving
      \/ /\ n # 0 /\ Rename(Append(path, n - 1), to, fault)
         /\ pc' = "shift" /\ archiving' = [archiving EXCEPT !.index = n - 1]
  BY DEF ShiftOne
<1>3. Renamed(from, to) \/ NotRenamed(from, fault)
  BY <1>2 DEF Rename
<1>4. TypeOK /\ Archiving
  BY DEF IInv
<1>5. /\ path \in Seq(Nat) /\ n \in Nat
      /\ IsName(path)
      /\ config.archive = "incremental" => path = Base
      /\ config.archive = "timestamp" => path # Base /\ path[1] \in Nat /\ Len(path) = 1
      /\ config.archive \in {"incremental", "timestamp"}
      /\ ~ opened
  BY <1>1, <1>4, ArchivingName DEF Archiving
<1>6. /\ archiving' \in [path : Seq(Nat), index : Nat]
      /\ archiving'.path = path
      /\ n # 0 => archiving'.index = n - 1
      /\ n = 0 => archiving'.index = n
  <2>1. archiving = [path |-> path, index |-> n]
    BY <1>4 DEF TypeOK
  <2>2. CASE n = 0
    BY <1>2, <1>4, <2>2 DEF TypeOK
  <2>3. CASE n # 0
    <3>1. archiving' = [path |-> path, index |-> n - 1]
      BY <1>2, <2>1, <2>3
    <3> QED
      BY <1>5, <2>3, <3>1
  <2> QED
    BY <2>2, <2>3
<1>7. /\ pc' \in {"shift", "rename", "reopen"}
      /\ pc' = "shift" => n # 0
      /\ pc' = "rename" => n = 0 /\ path # Base
      /\ pc' = "reopen" => n = 0 /\ path = Base
  BY <1>2
<1>8. CASE Renamed(from, to)
  <2>1. /\ from # to /\ to # Base
        /\ from \in DOMAIN fs
        /\ DOMAIN fs' = (DOMAIN fs \ {from}) \cup {to}
        /\ faulted' = faulted
        /\ IsFiniteSet(DOMAIN fs')
        /\ fs' \in [DOMAIN fs' -> Seq(1 .. events')]
        /\ \A name \in DOMAIN fs' : IsName(name)'
        /\ SizeBounded'
        /\ config.archive = "timestamp" => to[1] = archiving.path[1]
        /\ ArchivesMove => InOneFile' /\ FilesInOrder'
    <3>1. \/ /\ archiving.index = 0
             /\ from = archiving.path /\ to = Append(archiving.path, 0)
          \/ /\ archiving.index > 0
             /\ from = Append(archiving.path, archiving.index - 1)
             /\ to = Append(archiving.path, archiving.index)
      BY <1>5
    <3>2. pc' # "idle"
      BY <1>7
    <3> HIDE DEF from, to
    <3> QED
      BY <1>1, <1>8, <3>1, <3>2, ArchiveRenamed
  <2>2. TypeOK'
    <3>1. opened' = FALSE
      BY <1>1, <1>4, <1>5 DEF TypeOK
    <3> QED
      BY <1>1, <1>4, <1>6, <1>7, <2>1, <3>1 DEF TypeOK
  <2>3. Archiving'
    <3>1. \A name \in DOMAIN fs' \ {Base} : config.archive = "timestamp" => name[1] <= path[1]
      BY <1>1, <1>4, <1>5, <2>1 DEF Archiving
    <3> HIDE DEF from, to
    <3> QED
      BY <1>1, <1>4, <1>5, <1>6, <1>7, <3>1 DEF Archiving, Stamp
  <2>4. ASSUME ~ faulted
        PROVE  /\ Base \in DOMAIN fs
               /\ pc' # "reopen" => from # Base
               /\ pc' = "reopen" => from = Base
    <3>1. Base \in DOMAIN fs
      BY <1>1, <2>4 DEF IInv, StreamWorks
    <3>2. pc' # "reopen" => from # Base
      <4>1. n # 0 => Append(path, n - 1) # Base
        BY <1>5, Suffixed
      <4> QED
        BY <1>7, <4>1
    <3> QED
      BY <1>7, <3>1, <3>2
  <2>5. StreamWorks'
    <3> SUFFICES ASSUME ~ faulted'
                 PROVE  /\ stream = "good"
                        /\ pc' # "reopen" => Base \in DOMAIN fs'
                        /\ pc' = "reopen" => Base \notin DOMAIN fs'
      BY <1>1, <1>7 DEF StreamWorks
    <3>1. stream = "good"
      BY <2>1 DEF IInv, StreamWorks
    <3> HIDE DEF from, to
    <3> QED
      BY <2>1, <2>4, <3>1
  <2>6. RoomToAppend' /\ RollPoint' /\ TruncatedByOpen'
    <3>1. RollPoint'
      BY <1>1, <1>7, <2>1, RollPointKept DEF IInv
    <3> QED
      BY <1>1, <1>7, <2>1, <3>1 DEF IInv, RoomToAppend, TruncatedByOpen
  <2>7. ASSUME ArchivesMove
        PROVE  NamesFree'
    <3>1. NamesFree
      BY <2>7 DEF IInv
    <3>2. CASE n = 0
      <4>1. from = path
        BY <3>2
      <4> HIDE DEF from, to
      <4> QED
        BY <1>6, <1>7, <2>1, <3>2, <4>1 DEF NamesFree
    <3>3. CASE n # 0
      <4>1. from = Append(path, n - 1) /\ n - 1 \in Nat /\ archiving'.index = n - 1
        BY <1>5, <1>6, <3>3
      <4>2. Append(path, n - 1) \notin DOMAIN fs'
        BY <2>1, <4>1
      <4>3. config.archive = "timestamp" => path \in DOMAIN fs'
        <5>1. config.archive = "timestamp" => path \in DOMAIN fs
          BY <1>1, <3>1 DEF NamesFree
        <5>2. path # from
          BY <1>5, <4>1, Suffixed
        <5> HIDE DEF from, to
        <5> QED
          BY <2>1, <5>1, <5>2
      <4>4. \A k \in 0 .. (n - 1) - 1 : Append(path, k) \in DOMAIN fs'
        <5> TAKE k \in 0 .. (n - 1) - 1
        <5>1. k \in Nat /\ k # n - 1 /\ k \in 0 .. n - 1
          BY <1>5
        <5>2. Append(path, k) \in DOMAIN fs
          BY <1>1, <3>1, <5>1 DEF NamesFree
        <5>3. Append(path, k) # Append(path, n - 1)
          BY <1>5, <4>1, <5>1, OtherSuffix
        <5> HIDE DEF from, to
        <5> QED
          BY <2>1, <4>1, <5>2, <5>3
      <4> HIDE DEF from, to
      <4> QED
        BY <1>1, <1>6, <1>7, <3>3, <4>1, <4>2, <4>3, <4>4 DEF NamesFree
    <3> QED
      BY <3>2, <3>3
  <2>8. /\ ArchivesMove' => NamesFree' /\ InOneFile' /\ FilesInOrder'
        /\ lost' # {} => faulted' \/ crashed'
        /\ faulted' => Faults # {}
    BY <1>1, <2>1, <2>7 DEF IInv, ArchivesMove
  <2> QED
    BY <2>1, <2>2, <2>3, <2>5, <2>6, <2>8 DEF IInv
<1>9. CASE NotRenamed(from, fault)
  <2>1. /\ fault \in Faults \/ from \notin DOMAIN fs
        /\ faulted' = TRUE /\ fs' = fs
    BY <1>9, Zenon DEF NotRenamed
  <2>2. TypeOK'
    <3>1. \A name \in DOMAIN fs' : IsName(name)'
      BY <1>1, <1>4, <2>1 DEF TypeOK, IsName, Stamp
    <3> QED
      BY <1>1, <1>4, <1>6, <1>7, <2>1, <3>1 DEF TypeOK
  <2>3. Archiving'
    BY <1>1, <1>4, <1>5, <1>6, <1>7, <2>1 DEF Archiving, Stamp
  <2>4. /\ StreamWorks' /\ RoomToAppend' /\ RollPoint' /\ SizeBounded'
        /\ TruncatedByOpen'
    BY <1>1, <2>1 DEF IInv, StreamWorks, RoomToAppend, RollPoint, SizeBounded, TruncatedByOpen
  <2>5. ASSUME NamesFree, fault = "rename_archive"
        PROVE  from \in DOMAIN fs
    <3>1. CASE n = 0
      BY <1>1, <1>5, <2>5, <3>1 DEF NamesFree
    <3>2. CASE n # 0
      <4>1. n - 1 \in 0 .. n - 1
        BY <1>5, <3>2
      <4> QED
        BY <1>1, <2>5, <3>2, <4>1 DEF NamesFree
    <3> QED
      BY <3>1, <3>2
  <2>6. faulted' => Faults # {}
    <3>1. CASE faulted
      BY <3>1 DEF IInv
    <3>2. CASE ~ faulted
      <4>1. NamesFree /\ Base \in DOMAIN fs
        BY <1>1, <3>2 DEF IInv, ArchivesMove, StreamWorks
      <4>2. fault # "rename_archive" => from = Base
        OBVIOUS
      <4> HIDE DEF from, fault
      <4> QED
        BY <2>1, <2>5, <4>1, <4>2
    <3> QED
      BY <3>1, <3>2
  <2>7. ASSUME ArchivesMove'
        PROVE  NamesFree' /\ InOneFile' /\ FilesInOrder'
    <3>1. "rename_archive" \notin Faults
      BY <2>1, <2>7 DEF ArchivesMove
    <3>2. NamesFree /\ InOneFile /\ FilesInOrder
      BY <3>1 DEF IInv, ArchivesMove
    <3>3. fault # "rename_archive"
      BY <2>1, <2>5, <3>1, <3>2
    <3>4. pc' = "reopen"
      BY <1>2, <3>3
    <3>5. NamesFree'
      BY <3>4 DEF NamesFree
    <3>6. InOneFile' /\ FilesInOrder'
      BY <1>1, <1>7, <2>1, <3>2, FilesStay
    <3> QED
      BY <3>5, <3>6
  <2>8. lost' # {} => faulted' \/ crashed'
    BY <2>1
  <2> QED
    BY <2>2, <2>3, <2>4, <2>6, <2>7, <2>8 DEF IInv
<1> QED
  BY <1>3, <1>8, <1>9

LEMMA RenameToStampStep ==
  ASSUME IInv, RenameToStamp
  PROVE  IInv'
<1> DEFINE path == archiving.path
<1>1. /\ pc = "rename"
      /\ config' = config /\ opened' = opened /\ stream' = stream /\ next' = next /\ now' = now
      /\ archiving' = archiving /\ events' = events /\ ends' = ends /\ when' = when
      /\ lost' = lost /\ truncated' = truncated /\ crashed' = crashed
  BY Zenon DEF RenameToStamp
<1>2. \/ Renamed(Base, path) /\ pc' = "reopen"
      \/ NotRenamed(Base, "rename_base") /\ pc' = "append"
  BY DEF RenameToStamp
<1>3. TypeOK /\ Archiving /\ SizeBounded
  BY DEF IInv
<1>4. /\ config.archive = "timestamp" /\ ~ opened
      /\ \A z \in DOMAIN fs \ {Base} : z[1] <= path[1]
  BY <1>1, <1>3, Policies DEF Archiving
<1>5. IsName(path) /\ Archived(path) /\ path # Base
  BY <1>1, <1>3, <1>4, ArchivingName
<1>6. CASE Renamed(Base, path) /\ pc' = "reopen"
  <2>1. /\ Base \in DOMAIN fs
        /\ DOMAIN fs' = (DOMAIN fs \ {Base}) \cup {path}
        /\ faulted' = faulted
    BY <1>3, <1>6, RenamedFiles, Zenon
  <2>2. /\ IsFiniteSet(DOMAIN fs')
        /\ fs' \in [DOMAIN fs' -> Seq(1 .. events')]
        /\ \A name \in DOMAIN fs' : IsName(name)'
        /\ SizeBounded'
    BY <1>1, <1>3, <1>5, <1>6, RenameKeepsTypes
  <2>3. TypeOK'
    <3>1. opened' = FALSE
      BY <1>1, <1>3, <1>4 DEF TypeOK
    <3> QED
      BY <1>1, <1>3, <1>6, <2>1, <2>2, <3>1 DEF TypeOK
  <2>4. Archiving' /\ RoomToAppend' /\ NamesFree'
    BY <1>5, <1>6, <2>1 DEF Archiving, RoomToAppend, NamesFree
  <2>5. StreamWorks'
    BY <1>1, <1>5, <1>6, <2>1 DEF IInv, StreamWorks
  <2>6. RollPoint' /\ TruncatedByOpen'
    <3>1. RollPoint'
      BY <1>1, <1>6, <2>1, RollPointKept DEF IInv
    <3> QED
      BY <1>1, <2>1, <3>1 DEF IInv, TruncatedByOpen
  <2>7. ASSUME ArchivesMove
        PROVE  InOneFile' /\ FilesInOrder'
    <3>1. InOneFile /\ FilesInOrder /\ path \notin DOMAIN fs
      BY <1>1, <2>7 DEF IInv, NamesFree
    <3>2. InOneFile'
      BY <1>1, <1>3, <1>6, <3>1, RenameKeepsInOneFile
    <3>3. ASSUME NEW z \in DOMAIN fs \ {Base}
          PROVE  /\ Newer(path, z) => Newer(Base, z)
                 /\ Newer(z, path) => Newer(z, Base)
      <4>1. IsName(z) /\ z # path /\ z # Base /\ z[1] <= path[1]
        BY <1>3, <1>4, <3>1, <3>3 DEF TypeOK
      <4> QED
        BY <1>3, <1>4, <1>5, <4>1, StampKeepsOrder
    <3>4. ~ Newer(path, path)
      <4>1. path \in Seq(Nat) /\ Len(path) = 1 /\ path[1] \in Nat
        BY <1>1, <1>3, <1>4, ArchivingName DEF Archived
      <4> QED
        BY <1>4, <4>1 DEF Newer
    <3>5. FilesInOrder'
      BY <1>1, <1>3, <1>6, <3>1, <3>3, <3>4, RenameKeepsOrder
    <3> QED
      BY <3>2, <3>5
  <2>8. /\ ArchivesMove' => NamesFree' /\ InOneFile' /\ FilesInOrder'
        /\ lost' # {} => faulted' \/ crashed'
        /\ faulted' => Faults # {}
    BY <1>1, <2>1, <2>4, <2>7 DEF IInv, ArchivesMove
  <2> QED
    BY <2>2, <2>3, <2>4, <2>5, <2>6, <2>8 DEF IInv
<1>7. CASE NotRenamed(Base, "rename_base") /\ pc' = "append"
  <2>1. /\ "rename_base" \in Faults \/ Base \notin DOMAIN fs
        /\ faulted' = TRUE /\ fs' = fs
    BY <1>7, Zenon DEF NotRenamed
  <2>2. TypeOK'
    <3>1. \A name \in DOMAIN fs' : IsName(name)'
      BY <1>1, <1>3, <2>1 DEF TypeOK, IsName, Stamp
    <3> QED
      BY <1>1, <1>3, <1>7, <2>1, <3>1 DEF TypeOK
  <2>3. /\ Archiving' /\ NamesFree'
        /\ StreamWorks' /\ RoomToAppend' /\ RollPoint' /\ SizeBounded'
        /\ TruncatedByOpen'
    BY <1>1, <1>7, <2>1
       DEF IInv, Archiving, NamesFree, StreamWorks, RoomToAppend, RollPoint, SizeBounded,
           TruncatedByOpen
  <2>4. faulted' => Faults # {}
    BY <1>1, <2>1 DEF IInv, StreamWorks
  <2>5. ASSUME ArchivesMove'
        PROVE  InOneFile' /\ FilesInOrder'
    <3>1. InOneFile /\ FilesInOrder
      BY <2>1, <2>5 DEF IInv, ArchivesMove
    <3> QED
      BY <1>1, <1>7, <2>1, <3>1, FilesStay
  <2>6. lost' # {} => faulted' \/ crashed'
    BY <2>1
  <2> QED
    BY <2>2, <2>3, <2>4, <2>5, <2>6 DEF IInv
<1> QED
  BY <1>2, <1>6, <1>7

(* Opening leaves the log file as it is, or empty: then its events count   *)
(* as truncated.                                                           *)
LEMMA OpeningKeeps ==
  ASSUME TypeOK, UNCHANGED <<config, now, events, ends>>, Open \/ NotOpened
  PROVE  /\ IsFiniteSet(DOMAIN fs')
         /\ fs' \in [DOMAIN fs' -> Seq(1 .. events')]
         /\ \A name \in DOMAIN fs' : IsName(name)'
         /\ truncated \subseteq truncated' /\ truncated' \subseteq 1 .. events'
         /\ truncated' # truncated => config.open = "out" /\ Base \in DOMAIN fs
         /\ faulted' \in BOOLEAN /\ (faulted => faulted') /\ (faulted' => faulted \/ Faults # {})
         /\ Open => Base \in DOMAIN fs'
         /\ \A e : Holding(e)' \subseteq Holding(e)
         /\ \A e : e \notin truncated' => Holding(e)' = Holding(e)
         /\ FilesInOrder => FilesInOrder'
         /\ SizeBounded => SizeBounded'
<1>1. \/ fs' = fs /\ truncated' = truncated /\ faulted' = TRUE /\ "open" \in Faults
      \/ /\ fs' = Opened /\ faulted' = faulted
         /\ truncated' = IF config.open = "out" /\ Base \in DOMAIN fs
                         THEN truncated \cup Range(fs[Base]) ELSE truncated
  BY DEF Open, NotOpened
<1>2. /\ DOMAIN Opened = DOMAIN fs \cup {Base}
      /\ \A z \in DOMAIN fs \ {Base} : Opened[z] = fs[z]
      /\ Opened[Base] = IF Base \in DOMAIN fs /\ config.open = "app" THEN fs[Base] ELSE <<>>
      /\ IsFiniteSet(DOMAIN Opened)
      /\ Opened \in [DOMAIN Opened -> Seq(1 .. events)]
  BY OpenedFiles
<1>3. /\ DOMAIN fs' = DOMAIN fs \/ DOMAIN fs' = DOMAIN fs \cup {Base}
      /\ \A z \in DOMAIN fs \ {Base} : fs'[z] = fs[z]
      /\ Base \in DOMAIN fs' => fs'[Base] = <<>> \/ (Base \in DOMAIN fs /\ fs'[Base] = fs[Base])
      /\ IsFiniteSet(DOMAIN fs')
      /\ fs' \in [DOMAIN fs' -> Seq(1 .. events')]
  <2> HIDE DEF Opened
  <2>1. CASE fs' = fs
    BY <2>1 DEF TypeOK
  <2>2. CASE fs' = Opened
    BY <1>2, <2>2
  <2> QED
    BY <1>1, <2>1, <2>2
<1>4. \A z \in DOMAIN fs' : \/ z \in DOMAIN fs /\ fs'[z] = fs[z]
                            \/ z = Base /\ DOMAIN fs'[z] = {} /\ Len(fs'[z]) = 0
  <2>1. Len(<<>>) = 0 /\ DOMAIN <<>> = {}
    OBVIOUS
  <2>2. \A z \in DOMAIN fs' : (z \in DOMAIN fs /\ fs'[z] = fs[z]) \/ (z = Base /\ fs'[z] = <<>>)
    BY <1>3
  <2> QED
    BY <2>1, <2>2, Zenon
<1>5. \A name \in DOMAIN fs' : IsName(name)'
  <2>1. \A name : IsName(name)' <=> IsName(name)
    BY DEF IsName, Stamp
  <2>2. \A name \in DOMAIN fs' : IsName(name)
    BY <1>3, BaseIsName DEF TypeOK
  <2> QED
    BY <2>1, <2>2
<1>6. /\ truncated \subseteq truncated' /\ truncated' \subseteq 1 .. events'
      /\ truncated' # truncated => config.open = "out" /\ Base \in DOMAIN fs
  <2>1. Base \in DOMAIN fs => Range(fs[Base]) \subseteq 1 .. events
    BY HeldAreLogged DEF Range
  <2>2. truncated \subseteq 1 .. events
    BY DEF TypeOK
  <2> HIDE DEF Opened
  <2> QED
    BY <1>1, <2>1, <2>2
<1>7. /\ faulted' \in BOOLEAN /\ (faulted => faulted') /\ (faulted' => faulted \/ Faults # {})
      /\ Open => Base \in DOMAIN fs'
  <2>1. faulted \in BOOLEAN
    BY DEF TypeOK
  <2>2. Open => Base \in DOMAIN fs'
    BY <1>2 DEF Open
  <2>3. faulted' = faulted \/ (faulted' = TRUE /\ Faults # {})
    <3> HIDE DEF Opened
    <3> QED
      BY <1>1
  <2>4. CASE faulted' = faulted
    BY <2>1, <2>2, <2>4
  <2>5. CASE faulted' = TRUE /\ Faults # {}
    BY <2>2, <2>5
  <2> HIDE DEF Open
  <2> QED
    BY <2>3, <2>4, <2>5, Zenon
<1>8. \A e, z : z \in Holding(e) <=> z \in DOMAIN fs /\ \E i \in DOMAIN fs[z] : fs[z][i] = e
  BY DEF Holding
<1>9. \A e, z : z \in Holding(e)' <=> z \in DOMAIN fs' /\ \E i \in DOMAIN fs'[z] : fs'[z][i] = e
  BY DEF Holding
<1>10. \A e : Holding(e)' \subseteq Holding(e)
  <2> TAKE e
  <2>1. \A z : z \in Holding(e)' => z \in Holding(e)
    BY <1>4, <1>8, <1>9
  <2> QED
    BY <2>1
<1>11. ASSUME NEW e, e \notin truncated'
       PROVE  Holding(e)' = Holding(e)
  <2>1. ASSUME NEW z, z \in Holding(e)
        PROVE  z \in Holding(e)'
    <3>1. z \in DOMAIN fs /\ \E i \in DOMAIN fs[z] : fs[z][i] = e
      BY <1>8, <2>1
    <3>2. z \in DOMAIN fs'
      BY <1>3, <3>1
    <3>3. CASE fs'[z] = fs[z]
      BY <1>9, <3>1, <3>2, <3>3
    <3>4. CASE fs'[z] # fs[z]
      <4>1. z = Base /\ fs' = Opened
        BY <1>1, <1>3, <3>1, <3>4
      <4>2. config.open = "out"
        BY <1>2, <3>1, <3>4, <4>1, Policies
      <4>3. fs' # fs
        BY <3>4
      <4>4. truncated' = truncated \cup Range(fs[Base])
        BY <1>1, <3>1, <4>1, <4>2, <4>3
      <4>5. e \in Range(fs[Base])
        BY <3>1, <4>1 DEF Range
      <4> QED
        BY <1>11, <4>4, <4>5
    <3> QED
      BY <3>3, <3>4
  <2> QED
    BY <1>10, <2>1
<1>12. ASSUME FilesInOrder
       PROVE  FilesInOrder'
  <2>1. \A x, y : Newer(x, y)' <=> Newer(x, y)
    BY DEF Newer
  <2>2. \A z \in DOMAIN fs' : \A i, j \in DOMAIN fs'[z] : i < j => fs'[z][i] < fs'[z][j]
    BY <1>4, <1>12 DEF FilesInOrder
  <2>3. ASSUME NEW x \in DOMAIN fs', NEW y \in DOMAIN fs', Newer(x, y)
        PROVE  \A i \in DOMAIN fs'[x], j \in DOMAIN fs'[y] : fs'[x][i] > fs'[y][j]
    <3>1. CASE x \in DOMAIN fs /\ y \in DOMAIN fs /\ fs'[x] = fs[x] /\ fs'[y] = fs[y]
      BY <1>12, <2>3, <3>1 DEF FilesInOrder
    <3>2. CASE DOMAIN fs'[x] = {} \/ DOMAIN fs'[y] = {}
      BY <3>2
    <3> QED
      BY <1>4, <3>1, <3>2
  <2> QED
    BY <2>1, <2>2, <2>3 DEF FilesInOrder
<1>13. ASSUME SizeBounded
       PROVE  SizeBounded'
  <2> SUFFICES ASSUME config.rolling = "size", config.archive # "unnamed", ~ faulted',
                      NEW z \in DOMAIN fs', NEW i \in 1 .. Len(fs'[z]) - 1
               PROVE  ends[fs'[z][i]] < Threshold
    BY DEF SizeBounded
  <2>1. Len(fs'[z]) # 0
    OBVIOUS
  <2>2. z \in DOMAIN fs /\ fs'[z] = fs[z]
    BY <1>4, <2>1
  <2>3. ~ faulted
    BY <1>7
  <2> QED
    BY <1>13, <2>2, <2>3 DEF SizeBounded
<1> QED
  BY <1>3, <1>5, <1>6, <1>7, <1>10, <1>11, <1>12, <1>13

(* The events that are in a file are those that were there before, but for *)
(* the truncated ones.                                                     *)
LEMMA OpeningKeepsInOneFile ==
  ASSUME TypeOK, InOneFile, events' = events, pc # "idle" \/ pc' = "idle",
         lost' = lost \/ lost' = lost \cup {events}, truncated \subseteq truncated',
         pc' = "idle" /\ pc # "idle" => events \in lost',
         \A e : Holding(e)' \subseteq Holding(e),
         \A e : e \notin truncated' => Holding(e)' = Holding(e)
  PROVE  InOneFile'
<1>1. Written' \subseteq Written /\ Written' \cap truncated' = {}
  <2> SUFFICES ASSUME NEW e \in Written'
               PROVE  e \in Written /\ e \notin truncated'
    OBVIOUS
  <2>1. /\ e \in 1 .. events /\ e \notin lost' /\ e \notin truncated'
        /\ e < events \/ pc' = "idle"
    BY DEF Written, Gone
  <2>2. e \notin lost /\ e \notin truncated
    BY <2>1
  <2>3. e < events \/ pc = "idle"
    <3>1. CASE e = events
      <4>1. pc' = "idle" /\ events \notin lost'
        BY <2>1, <3>1 DEF TypeOK
      <4> QED
        BY <4>1
    <3>2. CASE e # events
      BY <2>1, <3>2 DEF TypeOK
    <3> QED
      BY <3>1, <3>2
  <2> QED
    BY <2>1, <2>2, <2>3 DEF Written, Gone
<1>2. \A e \in Written' : Holding(e)' # {}
  BY <1>1 DEF InOneFile
<1>3. \A e \in 1 .. events : \A x, y \in Holding(e)' : x = y
  BY DEF InOneFile
<1>4. pc' # "idle" => Holding(events)' = {}
  BY DEF InOneFile
<1> QED
  BY <1>2, <1>3, <1>4 DEF InOneFile

LEMMA ReopenStep ==
  ASSUME IInv, Reopen
  PROVE  IInv'
<1>1. /\ pc = "reopen" /\ pc' = "append"
      /\ config' = config /\ stream' = stream /\ next' = next /\ now' = now
      /\ archiving' = archiving /\ events' = events /\ ends' = ends /\ when' = when
      /\ lost' = lost /\ crashed' = crashed
  BY Zenon DEF Reopen
<1>2. Open \/ (NotOpened /\ opened' = opened)
  BY DEF Reopen
<1>3. TypeOK
  BY DEF IInv
<1>4. /\ IsFiniteSet(DOMAIN fs')
      /\ fs' \in [DOMAIN fs' -> Seq(1 .. events')]
      /\ \A name \in DOMAIN fs' : IsName(name)'
      /\ truncated \subseteq truncated' /\ truncated' \subseteq 1 .. events'
      /\ truncated' # truncated => config.open = "out" /\ Base \in DOMAIN fs
      /\ faulted' \in BOOLEAN /\ (faulted => faulted') /\ (faulted' => faulted \/ Faults # {})
      /\ Open => Base \in DOMAIN fs'
      /\ \A e : Holding(e)' \subseteq Holding(e)
      /\ \A e : e \notin truncated' => Holding(e)' = Holding(e)
      /\ FilesInOrder => FilesInOrder'
      /\ SizeBounded => SizeBounded'
  BY <1>1, <1>2, <1>3, OpeningKeeps
<1>5. opened' \in BOOLEAN /\ (opened' => Base \in DOMAIN fs')
  <2>1. CASE Open
    BY <1>4, <2>1 DEF Open
  <2>2. CASE NotOpened /\ opened' = opened
    BY <1>3, <2>2 DEF TypeOK, NotOpened
  <2> QED
    BY <1>2, <2>1, <2>2
<1>6. TypeOK'
  BY <1>1, <1>3, <1>4, <1>5 DEF TypeOK
<1>7. Archiving' /\ NamesFree'
  BY <1>1 DEF Archiving, NamesFree
<1>8. ASSUME ~ faulted'
      PROVE  /\ ~ faulted /\ opened' = TRUE /\ stream = "good"
             /\ Base \in DOMAIN fs' /\ fs'[Base] = <<>>
  <2>1. ~ faulted /\ Open
    BY <1>2, <1>4, <1>8 DEF NotOpened
  <2>2. stream = "good" /\ Base \notin DOMAIN fs
    BY <1>1, <2>1 DEF IInv, StreamWorks
  <2>3. opened' = TRUE /\ fs' = Opened
    BY <2>1, Zenon DEF Open
  <2>4. DOMAIN Opened = DOMAIN fs \cup {Base} /\ (Base \notin DOMAIN fs => Opened[Base] = <<>>)
    BY <1>3, OpenedFiles
  <2> HIDE DEF Opened
  <2> QED
    BY <2>1, <2>2, <2>3, <2>4
<1>9. StreamWorks'
  BY <1>1, <1>8 DEF StreamWorks
<1>10. RoomToAppend'
  BY <1>8 DEF RoomToAppend
<1>11. RollPoint'
  <2> SUFFICES ASSUME config.mode = "automatic", config.rolling # "size",
                      config.archive # "unnamed", ~ faulted', ~ crashed
               PROVE  RollPoint'
    BY <1>1 DEF RollPoint
  <2>1. ~ faulted /\ fs'[Base] = <<>>
    BY <1>8
  <2>2. next # Unset /\ events > 0 /\ events \in 1 .. events
        /\ \E t \in Nat : t = when[events] /\ next = NextPoint(t)
    BY <1>1, <2>1 DEF IInv, RollPoint
  <2> QED
    BY <1>1, <2>1, <2>2, SameRollPoint DEF RollPoint
<1>12. SizeBounded'
  BY <1>4 DEF IInv
<1>13. TruncatedByOpen'
  <2>1. ASSUME truncated' # truncated
        PROVE  config.open = "out" /\ faulted' /\ config.archive = "incremental"
    BY <1>1, <1>4, <2>1 DEF IInv, Archiving, StreamWorks
  <2> QED
    BY <1>1, <1>4, <2>1 DEF IInv, TruncatedByOpen
<1>14. InOneFile => InOneFile'
  BY <1>1, <1>3, <1>4, OpeningKeepsInOneFile
<1>15. ArchivesMove' => NamesFree' /\ InOneFile' /\ FilesInOrder'
  BY <1>4, <1>7, <1>14 DEF IInv, ArchivesMove
<1>16. (lost' # {} => faulted' \/ crashed') /\ (faulted' => Faults # {})
  BY <1>1, <1>4 DEF IInv
<1> QED
  BY <1>6, <1>7, <1>9, <1>10, <1>11, <1>12, <1>13, <1>15, <1>16 DEF IInv

LEMMA AppendEventStep ==
  ASSUME IInv, AppendEvent
  PROVE  IInv'
<1>1. /\ pc = "append" /\ pc' = "idle" /\ archiving' = NoPath
      /\ config' = config /\ opened' = opened /\ now' = now /\ events' = events
      /\ when' = when /\ truncated' = truncated /\ crashed' = crashed /\ faulted' = faulted
  BY Zenon DEF AppendEvent
<1>2. \/ /\ stream = "good" /\ opened
         /\ fs' = [fs EXCEPT ![Base] = Append(@, events)] /\ stream' = stream /\ lost' = lost
         /\ \E bytes \in EventSizes : ends' = [ends EXCEPT ![events] = Position + bytes]
      \/ /\ ~ (stream = "good" /\ opened)
         /\ stream' \in {stream, "bad"} /\ lost' = lost \cup {events} /\ fs' = fs
         /\ ends' = ends
  BY DEF AppendEvent
<1>3. (ApplyRolling /\ config.mode = "manual") \/ next' = next
  BY DEF AppendEvent
<1>4. TypeOK /\ events > 0 /\ events \in Nat
  BY <1>1, NumbersAssumption DEF IInv, TypeOK
<1>5. next' \in IF config.rolling = "size" THEN {Unset} ELSE Int \cup {Unset}
  BY <1>3, <1>4, RollPointType DEF TypeOK
<1>6. archiving' \in [path : Seq(Nat), index : Nat]
  BY <1>1, BaseIsName DEF NoPath
<1>7. Archiving' /\ NamesFree' /\ RoomToAppend' /\ TruncatedByOpen'
  BY <1>1 DEF IInv, Archiving, NamesFree, RoomToAppend, TruncatedByOpen
<1>8. \A name : IsName(name)' <=> IsName(name)
  BY <1>1 DEF IsName, Stamp
<1>9. ASSUME ~ faulted
      PROVE  opened /\ stream = "good" /\ Base \in DOMAIN fs
  BY <1>1, <1>4, <1>9 DEF IInv, StreamWorks
<1>10. CASE /\ stream = "good" /\ opened
            /\ fs' = [fs EXCEPT ![Base] = Append(@, events)] /\ stream' = stream /\ lost' = lost
             /\ \E bytes \in EventSizes : ends' = [ends EXCEPT ![events] = Position + bytes]
  <2>1. Base \in DOMAIN fs
    BY <1>4, <1>10 DEF TypeOK
  <2>2. /\ DOMAIN fs' = DOMAIN fs
        /\ \A z \in DOMAIN fs \ {Base} : fs'[z] = fs[z]
        /\ fs' \in [DOMAIN fs' -> Seq(1 .. events)]
        /\ fs[Base] \in Seq(1 .. events)
        /\ fs'[Base] \in Seq(1 .. events)
        /\ Len(fs'[Base]) = Len(fs[Base]) + 1
        /\ fs'[Base][Len(fs[Base]) + 1] = events
        /\ \A i \in 1 .. Len(fs[Base]) : fs'[Base][i] = fs[Base][i]
        /\ fs'[Base] # <<>>
        /\ Head(fs'[Base]) = IF fs[Base] = <<>> THEN events ELSE Head(fs[Base])
    BY <1>4, <1>10, <2>1, WrittenFiles
  <2>3. TypeOK'
    <3>1. IsFiniteSet(DOMAIN fs') /\ \A name \in DOMAIN fs' : IsName(name)'
      BY <1>4, <1>8, <2>2 DEF TypeOK
    <3>2. opened' => Base \in DOMAIN fs'
      BY <2>1, <2>2
    <3>3. ends' \in [1 .. MaxEvents -> Nat]
      <4>1. Position \in Nat /\ ends \in [1 .. MaxEvents -> Nat]
        BY <1>4, <2>1, PositionType DEF TypeOK
      <4>2. \A bytes \in EventSizes : Position + bytes \in Nat
        BY <4>1, NumbersAssumption
      <4> QED
        BY <1>10, <4>1, <4>2
    <3> QED
      BY <1>1, <1>4, <1>5, <1>6, <1>10, <2>2, <3>1, <3>2, <3>3 DEF TypeOK
  <2>4. StreamWorks'
    BY <1>1, <1>9, <1>10, <2>2 DEF StreamWorks
  <2>5. SizeBounded'
    <3> SUFFICES ASSUME config.rolling = "size", config.archive # "unnamed", ~ faulted,
                        NEW z \in DOMAIN fs, NEW i \in 1 .. Len(fs'[z]) - 1
                 PROVE  ends'[fs'[z][i]] < Threshold
      BY <1>1, <2>2 DEF SizeBounded
    <3>1. z \in DOMAIN fs /\ Len(fs[z]) \in Nat /\ DOMAIN fs[z] = 1 .. Len(fs[z])
      BY <1>4, HeldAreLogged
    <3>2. i \in 1 .. Len(fs[z]) /\ fs'[z][i] = fs[z][i] /\ (z # Base => i \in 1 .. Len(fs[z]) - 1)
      <4>1. CASE z = Base
        BY <2>2, <3>1, <4>1
      <4>2. CASE z # Base
        BY <2>2, <3>1, <4>2
      <4> QED
        BY <4>1, <4>2
    <3>3. fs[z][i] \in 1 .. events /\ fs[z][i] # events
      <4>1. Holding(events) = {}
        BY <1>1 DEF IInv, ArchivesMove, InOneFile
      <4>2. fs[z][i] # events
        BY <3>1, <3>2, <4>1 DEF Holding
      <4>3. fs[z][i] \in 1 .. events
        BY <1>4, <3>1, <3>2, HeldAreLogged
      <4> QED
        BY <4>2, <4>3
    <3>4. ends'[fs'[z][i]] = ends[fs[z][i]]
      <4>1. ends \in [1 .. MaxEvents -> Nat] /\ fs[z][i] \in 1 .. MaxEvents
        BY <1>4, <3>3, NumbersAssumption DEF TypeOK
      <4> QED
        BY <1>10, <3>2, <3>3, <4>1
    <3>5. CASE i \in 1 .. Len(fs[z]) - 1
      BY <3>1, <3>4, <3>5 DEF IInv, SizeBounded
    <3>6. CASE z = Base /\ i = Len(fs[Base])
      <4>1. fs[Base] # <<>>
        BY <2>2, <3>2, <3>6, EmptySeq
      <4>2. Position < Threshold
        BY <1>1, <4>1 DEF IInv, RoomToAppend
      <4> QED
        BY <3>4, <3>6, <4>1, <4>2 DEF Position
    <3> QED
      BY <3>1, <3>2, <3>5, <3>6
  <2>6. RollPoint'
    <3> SUFFICES ASSUME config.mode = "automatic", config.rolling # "size",
                        config.archive # "unnamed", ~ faulted, ~ crashed
                 PROVE  RollPoint'
      BY <1>1 DEF RollPoint
    <3>1. next' = next /\ next # Unset
      BY <1>1, <1>3 DEF IInv, RollPoint
    <3>2. PICK e \in 1 .. events :
            /\ e = IF fs[Base] # <<>> THEN Head(fs[Base]) ELSE events
            /\ \E t \in Nat : t = when[e] /\ next = NextPoint(t)
      BY <1>1, <3>1 DEF IInv, RollPoint
    <3>3. e = Head(fs'[Base])
      BY <2>2, <3>2
    <3>4. \E t \in Nat : t = when'[e] /\ next' = NextPoint(t)'
      BY <1>1, <3>1, <3>2, SameRollPoint
    <3> QED
      BY <1>1, <1>4, <2>2, <3>1, <3>3, <3>4 DEF RollPoint
  <2>7. /\ DOMAIN fs[Base] = 1 .. Len(fs[Base]) /\ Len(fs[Base]) \in Nat
        /\ DOMAIN fs'[Base] = 1 .. Len(fs[Base]) + 1
    BY <2>2, LenProperties
  <2>8. ASSUME ArchivesMove
        PROVE  InOneFile'
    <3>0. PICK last \in Nat : last = events
      BY <1>4
    <3>1. InOneFile /\ Holding(last) = {}
      BY <1>1, <2>8, <3>0 DEF IInv, InOneFile
    <3>2. \A e, z : z \in Holding(e) <=> z \in DOMAIN fs /\ \E i \in DOMAIN fs[z] : fs[z][i] = e
      BY DEF Holding
    <3>3. \A e, z : z \in Holding(e)' <=> z \in DOMAIN fs' /\ \E i \in DOMAIN fs'[z] : fs'[z][i] = e
      BY DEF Holding
    <3>4. \A e : e # last => (Base \in Holding(e)' <=> Base \in Holding(e))
      <4> TAKE e
      <4> SUFFICES ASSUME e # last
                   PROVE  Base \in Holding(e)' <=> Base \in Holding(e)
        OBVIOUS
      <4>1. (\E i \in DOMAIN fs'[Base] : fs'[Base][i] = e) <=> \E i \in DOMAIN fs[Base] : fs[Base][i] = e
        <5>1. \A i \in DOMAIN fs[Base] : i \in DOMAIN fs'[Base] /\ fs'[Base][i] = fs[Base][i]
          BY <2>2, <2>7
        <5>2. \A i \in DOMAIN fs'[Base] : i \in DOMAIN fs[Base] \/ fs'[Base][i] = last
          BY <2>2, <2>7, <3>0
        <5> QED
          BY <5>1, <5>2, Zenon
      <4> QED
        BY <2>1, <2>2, <3>2, <3>3, <4>1
    <3>5. \A e, z : z # Base => (z \in Holding(e)' <=> z \in Holding(e))
      BY <2>2, <3>2, <3>3
    <3>6. \A e : e # last => Holding(e)' = Holding(e)
      <4> TAKE e
      <4>1. e # last => \A z : z \in Holding(e)' <=> z \in Holding(e)
        BY <3>4, <3>5, Zenon
      <4> QED
        BY <4>1
    <3>7. Base \in Holding(last)'
      <4>1. Len(fs[Base]) + 1 \in DOMAIN fs'[Base]
        BY <2>7
      <4> QED
        BY <2>1, <2>2, <3>0, <3>3, <4>1
    <3>8. \A z \in Holding(last)' : z = Base
      BY <3>1, <3>5
    <3>9. Written' \subseteq Written \cup {last}
      BY <1>1, <1>4, <1>10, <3>0 DEF Written, Gone
    <3>10. \A e \in Written' : Holding(e)' # {}
      BY <3>0, <3>1, <3>6, <3>7, <3>9 DEF InOneFile
    <3>11. \A e \in 1 .. events : \A x, y \in Holding(e)' : x = y
      <4> TAKE e \in 1 .. events
      <4>1. CASE e = last
        BY <3>8, <4>1
      <4>2. CASE e # last
        BY <3>1, <3>6, <4>2 DEF InOneFile
      <4> QED
        BY <4>1, <4>2
    <3> QED
      BY <1>1, <3>10, <3>11 DEF InOneFile
  <2>9. ASSUME ArchivesMove
        PROVE  FilesInOrder'
    <3>1. /\ FilesInOrder /\ Holding(events) = {}
      BY <1>1, <2>9 DEF IInv, InOneFile
    <3>2. \A z \in DOMAIN fs : \A i \in DOMAIN fs[z] : fs[z][i] \in Nat /\ fs[z][i] < events
      <4> TAKE z \in DOMAIN fs
      <4> TAKE i \in DOMAIN fs[z]
      <4>1. fs[z][i] \in 1 .. events
        BY <1>4, HeldAreLogged
      <4>2. fs[z][i] # events
        BY <3>1 DEF Holding
      <4> QED
        BY <1>4, <4>1, <4>2
    <3>3. \A x, y : Newer(x, y)' <=> Newer(x, y)
      BY <1>1 DEF Newer
    <3>4. \A x : ~ Newer(x, Base)
      BY Policies DEF Newer
    <3>5. \A i \in DOMAIN fs'[Base] : i \in DOMAIN fs[Base] \/ i = Len(fs[Base]) + 1
      BY <2>7
    <3>6. \A z \in DOMAIN fs' : \A i, j \in DOMAIN fs'[z] : i < j => fs'[z][i] < fs'[z][j]
      <4> TAKE z \in DOMAIN fs'
      <4>1. CASE z # Base
        BY <2>2, <3>1, <4>1 DEF FilesInOrder
      <4>2. CASE z = Base
        <5> SUFFICES ASSUME NEW i \in DOMAIN fs'[Base], NEW j \in DOMAIN fs'[Base], i < j
                     PROVE  fs'[Base][i] < fs'[Base][j]
          BY <4>2
        <5>1. i \in 1 .. Len(fs[Base]) /\ fs'[Base][i] = fs[Base][i]
          BY <2>2, <2>7
        <5>2. CASE j \in 1 .. Len(fs[Base])
          BY <2>1, <2>2, <2>7, <3>1, <5>1, <5>2 DEF FilesInOrder
        <5>3. CASE j = Len(fs[Base]) + 1
          BY <2>1, <2>2, <2>7, <3>2, <5>1, <5>3
        <5> QED
          BY <2>7, <5>2, <5>3
      <4> QED
        BY <4>1, <4>2
    <3>7. ASSUME NEW x \in DOMAIN fs', NEW y \in DOMAIN fs', Newer(x, y),
                 NEW i \in DOMAIN fs'[x], NEW j \in DOMAIN fs'[y]
          PROVE  fs'[x][i] > fs'[y][j]
      <4>1. y # Base /\ fs'[y] = fs[y] /\ x \in DOMAIN fs /\ y \in DOMAIN fs
        BY <2>2, <3>4, <3>7
      <4>2. CASE x # Base \/ i \in 1 .. Len(fs[Base])
        <5>1. i \in DOMAIN fs[x] /\ fs'[x][i] = fs[x][i]
          BY <2>2, <2>7, <4>1, <4>2
        <5> QED
          BY <3>1, <3>7, <4>1, <5>1 DEF FilesInOrder
      <4>3. CASE x = Base /\ i = Len(fs[Base]) + 1
        <5>1. fs'[x][i] = events
          BY <2>2, <4>3
        <5>2. fs[y][j] \in Nat /\ fs[y][j] < events
          BY <3>2, <4>1
        <5> QED
          BY <1>4, <4>1, <5>1, <5>2
      <4> QED
        BY <2>7, <4>2, <4>3
    <3> QED
      BY <3>3, <3>6, <3>7 DEF FilesInOrder
  <2>10. /\ ArchivesMove' => NamesFree' /\ InOneFile' /\ FilesInOrder'
         /\ lost' # {} => faulted' \/ crashed'
         /\ faulted' => Faults # {}
    BY <1>1, <1>7, <1>10, <2>8, <2>9 DEF IInv, ArchivesMove
  <2> QED
    BY <1>7, <2>3, <2>4, <2>5, <2>6, <2>10 DEF IInv
<1>11. CASE /\ ~ (stream = "good" /\ opened)
            /\ stream' \in {stream, "bad"} /\ lost' = lost \cup {events} /\ fs' = fs
            /\ ends' = ends
  <2>1. faulted
    BY <1>9, <1>11
  <2>2. TypeOK'
    BY <1>1, <1>4, <1>5, <1>6, <1>8, <1>11 DEF TypeOK
  <2>3. StreamWorks' /\ SizeBounded' /\ RollPoint'
    BY <1>1, <2>1 DEF StreamWorks, SizeBounded, RollPoint
  <2>4. ASSUME ArchivesMove
        PROVE  InOneFile' /\ FilesInOrder'
    <3>1. InOneFile /\ FilesInOrder
      BY <2>4 DEF IInv
    <3>2. \A e : Holding(e)' = Holding(e)
      BY <1>11 DEF Holding
    <3>3. Written' \subseteq Written
      BY <1>1, <1>4, <1>11 DEF Written, Gone
    <3>4. InOneFile'
      BY <1>1, <3>1, <3>2, <3>3 DEF InOneFile
    <3>5. FilesInOrder'
      BY <1>1, <1>11, <3>1 DEF FilesInOrder, Newer
    <3> QED
      BY <3>4, <3>5
  <2>5. /\ ArchivesMove' => NamesFree' /\ InOneFile' /\ FilesInOrder'
        /\ lost' # {} => faulted' \/ crashed'
        /\ faulted' => Faults # {}
    BY <1>1, <1>7, <2>1, <2>4 DEF IInv, ArchivesMove
  <2> QED
    BY <1>7, <2>2, <2>3, <2>5 DEF IInv
<1> QED
  BY <1>2, <1>10, <1>11

LEMMA TickStep ==
  ASSUME IInv, Tick
  PROVE  IInv'
<1>1. /\ now < MaxTime /\ now' = now + 1
      /\ config' = config /\ fs' = fs /\ opened' = opened /\ stream' = stream /\ next' = next
      /\ pc' = pc /\ archiving' = archiving /\ events' = events /\ ends' = ends
      /\ when' = when /\ lost' = lost /\ truncated' = truncated /\ crashed' = crashed /\ faulted' = faulted
  BY Zenon DEF Tick, history
<1>2. TypeOK /\ now \in Nat /\ Zone \in Nat /\ StampUnit \in Nat \ {0} /\ MaxTime \in Nat
  BY NumbersAssumption DEF IInv, TypeOK
<1>3. Stamp \in Nat /\ Stamp' \in Nat /\ Stamp <= Stamp'
  <2>1. now + Zone \in Nat /\ now' + Zone \in Nat /\ now + Zone <= now' + Zone
    BY <1>1, <1>2
  <2> QED
    BY <1>2, <2>1, Quotient, QuotientGrows DEF Stamp
<1>4. \A name : IsName(name) => IsName(name)'
  <2> TAKE name
  <2> SUFFICES ASSUME IsName(name)
               PROVE  IsName(name)'
    OBVIOUS
  <2>1. config.archive = "timestamp" /\ name # Base => name[1] <= Stamp'
    <3> SUFFICES ASSUME config.archive = "timestamp", name # Base
                 PROVE  name[1] <= Stamp'
      OBVIOUS
    <3>1. name \in Seq(Nat) /\ Len(name) # 0 /\ Len(name) <= 2 /\ name[1] <= Stamp
      BY BaseIsName DEF IsName
    <3>2. name[1] \in Nat
      BY <3>1, OnePartOrTwo
    <3> QED
      BY <1>3, <3>1, <3>2
  <2> QED
    BY <1>1, <2>1 DEF IsName
<1>5. TypeOK'
  <2>1. \A name \in DOMAIN fs' : IsName(name)'
    BY <1>1, <1>2, <1>4 DEF TypeOK
  <2>2. now' \in 0 .. MaxTime
    BY <1>1, <1>2
  <2>3. when' \in Seq(0 .. now')
    <3>1. when \in Seq(0 .. now)
      BY <1>2 DEF TypeOK
    <3>2. \A i \in 1 .. Len(when) : when[i] \in 0 .. now'
      BY <1>1, <1>2, <3>1, ElementOfSeq
    <3> QED
      BY <1>1, <3>1, <3>2, SeqDef, LenProperties
  <2> QED
    BY <1>1, <1>2, <2>1, <2>2, <2>3 DEF TypeOK
<1>6. Archiving'
  <2> SUFFICES ASSUME pc \in {"shift", "rename"}
               PROVE  Archiving'
    BY <1>1 DEF Archiving, IInv
  <2>1. Archiving
    BY DEF IInv
  <2>2. config.archive # "incremental" =>
          config.archive = "timestamp" /\ archiving.path[1] \in Nat
    <3>1. config.archive # "incremental" => config.archive = "timestamp"
      BY <2>1 DEF Archiving
    <3> QED
      BY <1>2, <2>1, <3>1, ArchivingName
  <2>3. config.archive # "incremental" => archiving.path[1] <= Stamp'
    BY <1>3, <2>1, <2>2 DEF Archiving
  <2> QED
    BY <1>1, <2>1, <2>3 DEF Archiving
<1>7. StreamWorks' /\ RoomToAppend' /\ SizeBounded' /\ RollPoint' /\ TruncatedByOpen'
  <2>1. RollPoint'
    BY <1>1, RollPointKept DEF IInv
  <2> QED
    BY <1>1, <2>1
       DEF IInv, StreamWorks, RoomToAppend, Position, SizeBounded, TruncatedByOpen
<1>8. ASSUME ArchivesMove
      PROVE  NamesFree' /\ InOneFile' /\ FilesInOrder'
  <2>1. NamesFree /\ InOneFile /\ FilesInOrder
    BY <1>8 DEF IInv
  <2>2. \A e : Holding(e)' = Holding(e)
    BY <1>1 DEF Holding
  <2>3. Written' = Written
    BY <1>1 DEF Written, Gone
  <2>4. InOneFile'
    BY <1>1, <2>1, <2>2, <2>3 DEF InOneFile
  <2>5. NamesFree' /\ FilesInOrder'
    BY <1>1, <2>1 DEF NamesFree, FilesInOrder, Newer
  <2> QED
    BY <2>4, <2>5
<1>9. /\ ArchivesMove' => NamesFree' /\ InOneFile' /\ FilesInOrder'
      /\ lost' # {} => faulted' \/ crashed'
      /\ faulted' => Faults # {}
  BY <1>1, <1>8 DEF IInv, ArchivesMove
<1> QED
  BY <1>5, <1>6, <1>7, <1>9 DEF IInv

LEMMA RestartStep ==
  ASSUME IInv, Restart
  PROVE  IInv'
<1>1. /\ pc' = "idle" /\ archiving' = NoPath /\ next' = Unset /\ crashed' = TRUE
      /\ lost' = (IF pc = "idle" THEN lost ELSE lost \cup {events})
      /\ config' = config /\ now' = now /\ events' = events /\ ends' = ends /\ when' = when
  BY Zenon DEF Restart
<1>2. \/ Open /\ stream' = "good"
      \/ NotOpened /\ opened' = FALSE /\ stream' = "absent"
  BY DEF Restart
<1>3. TypeOK
  BY DEF IInv
<1>4. /\ IsFiniteSet(DOMAIN fs')
      /\ fs' \in [DOMAIN fs' -> Seq(1 .. events')]
      /\ \A name \in DOMAIN fs' : IsName(name)'
      /\ truncated \subseteq truncated' /\ truncated' \subseteq 1 .. events'
      /\ truncated' # truncated => config.open = "out" /\ Base \in DOMAIN fs
      /\ faulted' \in BOOLEAN /\ (faulted => faulted') /\ (faulted' => faulted \/ Faults # {})
      /\ Open => Base \in DOMAIN fs'
      /\ \A e : Holding(e)' \subseteq Holding(e)
      /\ \A e : e \notin truncated' => Holding(e)' = Holding(e)
      /\ FilesInOrder => FilesInOrder'
      /\ SizeBounded => SizeBounded'
  BY <1>1, <1>2, <1>3, OpeningKeeps
<1>5. /\ opened' \in BOOLEAN /\ (opened' => Base \in DOMAIN fs')
      /\ stream' \in {"absent", "good", "bad"}
      /\ ~ faulted' => opened' /\ stream' = "good" /\ Base \in DOMAIN fs'
  <2>1. Open => opened' = TRUE
    BY DEF Open
  <2>2. NotOpened => faulted' = TRUE
    BY DEF NotOpened
  <2> QED
    BY <1>2, <1>4, <2>1, <2>2
<1>6. TypeOK'
  <2>1. lost' \subseteq 1 .. events'
    BY <1>1, <1>3 DEF TypeOK
  <2>2. archiving' \in [path : Seq(Nat), index : Nat]
    BY <1>1, BaseIsName DEF NoPath
  <2> QED
    BY <1>1, <1>3, <1>4, <1>5, <2>1, <2>2 DEF TypeOK
<1>7. Archiving' /\ NamesFree' /\ RoomToAppend' /\ RollPoint'
  BY <1>1 DEF Archiving, NamesFree, RoomToAppend, RollPoint
<1>8. StreamWorks'
  BY <1>1, <1>5 DEF StreamWorks
<1>9. TruncatedByOpen'
  BY <1>1, <1>4 DEF IInv, TruncatedByOpen
<1>10. InOneFile => InOneFile'
  BY <1>1, <1>3, <1>4, OpeningKeepsInOneFile
<1>11. /\ SizeBounded'
       /\ ArchivesMove' => NamesFree' /\ InOneFile' /\ FilesInOrder'
       /\ lost' # {} => faulted' \/ crashed'
       /\ faulted' => Faults # {}
  BY <1>1, <1>4, <1>7, <1>10 DEF IInv, ArchivesMove
<1> QED
  BY <1>6, <1>7, <1>8, <1>9, <1>11 DEF IInv

(* A step that changes nothing.                                            *)
LEMMA StutterStep ==
  ASSUME IInv, UNCHANGED vars
  PROVE  IInv'
<1>1. /\ config' = config /\ fs' = fs /\ opened' = opened /\ stream' = stream /\ next' = next
      /\ now' = now /\ pc' = pc /\ archiving' = archiving /\ events' = events /\ ends' = ends
      /\ when' = when /\ lost' = lost /\ truncated' = truncated /\ crashed' = crashed /\ faulted' = faulted
  BY Zenon DEF vars, history
<1>2. Stamp' = Stamp
  BY <1>1 DEF Stamp
<1>3. \A name : IsName(name)' <=> IsName(name)
  BY <1>1, <1>2 DEF IsName
<1>4. TypeOK'
  BY <1>1, <1>3 DEF IInv, TypeOK
<1>5. /\ Archiving' /\ StreamWorks' /\ RoomToAppend' /\ SizeBounded' /\ RollPoint'
      /\ TruncatedByOpen'
  <2>1. RollPoint'
    BY <1>1, RollPointKept DEF IInv
  <2> QED
    BY <1>1, <1>2, <2>1
       DEF IInv, Archiving, StreamWorks, RoomToAppend, Position, SizeBounded, TruncatedByOpen
<1>6. ArchivesMove' => NamesFree' /\ InOneFile' /\ FilesInOrder'
  <2>1. \A e : Holding(e)' = Holding(e)
    BY <1>1 DEF Holding
  <2>2. Written' = Written
    BY <1>1 DEF Written, Gone
  <2>3. InOneFile => InOneFile'
    BY <1>1, <2>1, <2>2 DEF InOneFile
  <2>4. FilesInOrder => FilesInOrder'
    BY <1>1 DEF FilesInOrder, Newer
  <2>5. NamesFree => NamesFree'
    BY <1>1 DEF NamesFree
  <2> QED
    BY <1>1, <2>3, <2>4, <2>5 DEF IInv, ArchivesMove
<1>7. (lost' # {} => faulted' \/ crashed') /\ (faulted' => Faults # {})
  BY <1>1 DEF IInv
<1> QED
  BY <1>4, <1>5, <1>6, <1>7 DEF IInv

-----------------------------------------------------------------------------
(***************************************************************************)
(* The theorems.                                                           *)
(***************************************************************************)

(* The inductive invariant: whatever is logged, whatever calls fail and    *)
(* whenever the program is stopped.                                        *)
THEOREM Inductive == Spec => []IInv
<1>1. Init => IInv
  BY Initially
<1>2. IInv /\ [Next]_vars => IInv'
  <2> SUFFICES ASSUME IInv, [Next]_vars
               PROVE  IInv'
    OBVIOUS
  <2>1. CASE Sink
    BY <2>1, SinkStep
  <2>2. CASE Roll
    BY <2>2, RollStep
  <2>3. CASE Put
    BY <2>3, PutStep
  <2>4. CASE ShiftOne
    BY <2>4, ShiftOneStep
  <2>5. CASE RenameToStamp
    BY <2>5, RenameToStampStep
  <2>6. CASE Reopen
    BY <2>6, ReopenStep
  <2>7. CASE AppendEvent
    BY <2>7, AppendEventStep
  <2>8. CASE Tick
    BY <2>8, TickStep
  <2>9. CASE Restart
    BY <2>9, RestartStep
  <2>10. CASE UNCHANGED vars
    BY <2>10, StutterStep
  <2> QED
    BY <2>1, <2>2, <2>3, <2>4, <2>5, <2>6, <2>7, <2>8, <2>9, <2>10 DEF Next
<1> QED
  BY <1>1, <1>2, PTL DEF Spec

(* RollBySize: only the last event of a file reaches the threshold or goes *)
(* beyond it, however long the events are and whenever the program is      *)
(* stopped, as long as no call fails and the archive has a name.           *)
THEOREM Sizes == Spec => []SizeBounded
<1>1. IInv => SizeBounded
  BY DEF IInv
<1> QED
  BY <1>1, Inductive, PTL

(* RollEvery in automatic mode: no interval passes without a roll, in      *)
(* every time zone and for units of any lengths; and no roll point is in   *)
(* the past when a unit begins within the interval.                        *)
THEOREM RollsInTime == Spec => []AutomaticRollsInTime
<1>1. IInv => AutomaticRollsInTime
  <2> SUFFICES ASSUME IInv, config.mode = "automatic", opened, pc = "idle",
                      config.archive # "unnamed",
                      ~ faulted, ~ crashed, next # Unset, fs[Base] # <<>>,
                      NEW first, first = when[Head(fs[Base])]
               PROVE  next <= first + Period /\ (UnitAhead(first) => next > first)
    BY DEF AutomaticRollsInTime
  <2>1. config.rolling # "size"
    BY DEF IInv, TypeOK
  <2>2. first \in Nat /\ next = NextPoint(first)
    BY <2>1 DEF IInv, RollPoint
  <2> QED
    BY <2>2, RollPointIsNear
<1> QED
  BY <1>1, Inductive, PTL

(* Rolling never leaves the stream broken by itself: when no call fails,   *)
(* every rename of an archive finds its file, the log file is opened       *)
(* again, and an event is lost only in a crash.                            *)
THEOREM RollingIsSafe ==
  ASSUME Faults = {}
  PROVE  Spec => [](~ faulted /\ (lost # {} => crashed))
<1>1. IInv => ~ faulted /\ (lost # {} => crashed)
  BY DEF IInv
<1> QED
  BY <1>1, Inductive, PTL

(* Every event that was written is in one file, and in one only, across    *)
(* rolls, failed calls and restarts, unless the rename of an archive       *)
(* fails, or the file was opened anew with out and not app.                *)
THEOREM Kept ==
  ASSUME "rename_archive" \notin Faults
  PROVE  Spec => []NothingLost
<1>1. IInv => NothingLost
  <2> SUFFICES ASSUME IInv
               PROVE  NothingLost
    OBVIOUS
  <2>1. TypeOK /\ InOneFile
    BY DEF IInv, ArchivesMove
  <2>2. ASSUME NEW e \in Written
        PROVE  Cardinality(Holding(e)) = 1
    <3>1. e \in 1 .. events
      BY DEF Written
    <3>2. PICK x : x \in Holding(e)
      BY <2>1 DEF InOneFile
    <3>3. Holding(e) = {x}
      BY <2>1, <3>1, <3>2 DEF InOneFile
    <3> QED
      BY <3>3, FS_Singleton
  <2> QED
    BY <2>1, <2>2 DEF NothingLost, IInv, TruncatedByOpen
<1> QED
  BY <1>1, Inductive, PTL

(* The names of the archives tell their order, and every file holds the    *)
(* events in the order in which they were logged, unless the rename of an  *)
(* archive fails.                                                          *)
THEOREM InOrder ==
  ASSUME "rename_archive" \notin Faults
  PROVE  Spec => []FilesInOrder
<1>1. IInv => FilesInOrder
  BY DEF IInv, ArchivesMove
<1> QED
  BY <1>1, Inductive, PTL

=============================================================================
