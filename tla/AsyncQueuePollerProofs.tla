----------------------- MODULE AsyncQueuePollerProofs -----------------------
(***************************************************************************)
(* Proofs about AsyncQueuePoller, for any number of queues, clients, calls *)
(* and entries.                                                            *)
(***************************************************************************)
EXTENDS AsyncQueuePoller, SequenceTheorems, TLAPS

USE NoneAssumption, BoundsAssumption

-----------------------------------------------------------------------------
(***************************************************************************)
(* Why the properties hold: the invariant that the steps keep.             *)
(***************************************************************************)

(* A published ticket was reserved.  The polling thread is the only        *)
(* consumer: it has delivered just the tickets that it has claimed.        *)
PolledInOrder ==
  \A q \in Queues, t \in Tickets :
    /\ IsPublished(fifo[q], t) => t < fifo[q].reserved
    /\ IsDelivered(fifo[q], t) <=> t < fifo[q].claimed

(* A round starts at the first queue, and the signal is set only between   *)
(* the draining of the control queue and the end of that round.            *)
Rounds ==
  /\ worker # "poll" => cursor = 1
  /\ worker \in {"none", "control"} => ~ stopSignal
  /\ worker = "done" => stopSignal
  /\ worker = "last_poll" =>
       control # <<>> /\ Head(control).action = "remove" /\ Contains(queues, Requested)

(* A promise belongs to one control entry, and to a client that waits.     *)
Promises ==
  \A c \in Clients :
    /\ at[c] \in {"removing", "waiting"} \/ future[c] # "none" => target[c] \in Queues
    /\ at[c] = "removing" => future[c] = "none"
    /\ \A i \in 1 .. Len(control) : control[i].promise = c =>
         /\ at[c] = "waiting" /\ future[c] = "pending"
         /\ control[i] = RemoveEntry(target[c], c)
         /\ \A j \in 1 .. Len(control) : control[j].promise = c => j = i

(* No add of the queue follows a removal that still has to be answered, or *)
(* waits after the answer, unless the history says so.                     *)
NoLaterAdd ==
  \A c \in Clients : ~ addedSince[c] =>
    /\ \A i \in 1 .. Len(control) : control[i].promise = c =>
         \A j \in i + 1 .. Len(control) : control[j] # AddEntry(target[c])
    /\ future[c] = "value" => ~ Contains(control, AddEntry(target[c]))

(* Whether an add of q is among the first n control entries.               *)
AddedBefore(n, q) == \E i \in 1 .. n - 1 : control[i] = AddEntry(q)

(* What a removal has to flush is flushed, or the queue is one that its    *)
(* control entry will find.                                                *)
RemovalsFlush ==
  \A c \in Clients :
    /\ future[c] \in {"pending", "value"} =>
         \A t \in before[c] : IsPublished(fifo[target[c]], t)
    /\ \A i \in 1 .. Len(control) : control[i].promise = c =>
         \/ Flushed(target[c], before[c])
         \/ Contains(queues, target[c])
         \/ AddedBefore(i, target[c])

(* What a stop has to flush is flushed, or the queue is one that the last  *)
(* round has, or will have, still before it.                               *)
StopsFlush ==
  \A q \in Queues :
    /\ \A t \in stopBefore[q] : IsPublished(fifo[q], t)
    /\ ~ stopSignal =>
         \A i \in 1 .. Len(control) : control[i] = StopEntry =>
           Flushed(q, stopBefore[q]) \/ Contains(queues, q) \/ AddedBefore(i, q)
    /\ stopSignal =>
         \/ Flushed(q, stopBefore[q])
         \/ worker # "done" /\ \E i \in cursor .. Len(queues) : queues[i] = q

IInv ==
  /\ TypeOK
  /\ PolledInOrder
  /\ Rounds
  /\ Promises
  /\ RequestsApplied
  /\ RemovedMeansSilent
  /\ NoLaterAdd
  /\ RemovalsFlush
  /\ RemoveFlushes
  /\ StopsFlush

-----------------------------------------------------------------------------
(***************************************************************************)
(* Sequences.                                                              *)
(***************************************************************************)

(* The members of a sequence.                                              *)
LEMMA Members ==
  ASSUME NEW S, NEW s \in Seq(S)
  PROVE  \A x : x \in ToSet(s) <=> Contains(s, x)
<1>1. DOMAIN s = 1 .. Len(s)
  BY LenProperties
<1> QED
  BY <1>1 DEF ToSet, Contains

(* Appending puts the element behind the others.                           *)
LEMMA Appended ==
  ASSUME NEW S, NEW s \in Seq(S), NEW e \in S
  PROVE  /\ Append(s, e) \in Seq(S)
         /\ Len(Append(s, e)) = Len(s) + 1
         /\ \A i \in 1 .. Len(s) : Append(s, e)[i] = s[i]
         /\ Append(s, e)[Len(s) + 1] = e
         /\ Append(s, e) # <<>>
         /\ s # <<>> => Head(Append(s, e)) = Head(s)
         /\ \A x : Contains(Append(s, e), x) <=> Contains(s, x) \/ x = e
         /\ ToSet(Append(s, e)) = ToSet(s) \cup {e}
<1>1. /\ Append(s, e) \in Seq(S)
      /\ Len(Append(s, e)) = Len(s) + 1
      /\ \A i \in 1 .. Len(s) : Append(s, e)[i] = s[i]
      /\ Append(s, e)[Len(s) + 1] = e
      /\ Append(s, e) # <<>>
      /\ s # <<>> => Head(Append(s, e)) = Head(s)
  BY AppendProperties, HeadTailAppend
<1>2. Len(s) \in Nat
  OBVIOUS
<1>3. \A x : Contains(Append(s, e), x) <=> Contains(s, x) \/ x = e
  BY <1>1, <1>2 DEF Contains
<1>4. ToSet(Append(s, e)) = ToSet(s) \cup {e}
  BY <1>1, <1>3, Members
<1> QED
  BY <1>1, <1>3, <1>4

(* Taking the first element away.                                          *)
LEMMA Popped ==
  ASSUME NEW S, NEW s \in Seq(S), s # <<>>
  PROVE  /\ Tail(s) \in Seq(S)
         /\ Len(s) \in Nat \ {0}
         /\ Len(Tail(s)) = Len(s) - 1
         /\ \A i \in 1 .. Len(Tail(s)) : Tail(s)[i] = s[i + 1]
         /\ Head(s) = s[1]
         /\ \A x : Contains(s, x) <=> Head(s) = x \/ Contains(Tail(s), x)
         /\ ToSet(s) = ToSet(Tail(s)) \cup {Head(s)}
<1>1. /\ Tail(s) \in Seq(S)
      /\ Len(s) \in Nat \ {0}
      /\ Len(Tail(s)) = Len(s) - 1
      /\ \A i \in 1 .. Len(Tail(s)) : Tail(s)[i] = s[i + 1]
      /\ Head(s) = s[1]
  BY HeadTailProperties, EmptySeq
<1>2. ASSUME NEW x, NEW i \in 1 .. Len(s), s[i] = x
      PROVE  Head(s) = x \/ Contains(Tail(s), x)
  <2>1. CASE i = 1
    BY <1>1, <1>2, <2>1
  <2>2. CASE i # 1
    <3>1. i - 1 \in 1 .. Len(Tail(s)) /\ Tail(s)[i - 1] = s[i]
      BY <1>1, <2>2
    <3> QED
      BY <3>1, <1>2 DEF Contains
  <2> QED
    BY <2>1, <2>2
<1>3. ASSUME NEW x, Head(s) = x \/ Contains(Tail(s), x)
      PROVE  Contains(s, x)
  BY <1>1, <1>3 DEF Contains
<1>4. \A x : Contains(s, x) <=> Head(s) = x \/ Contains(Tail(s), x)
  BY <1>1, <1>2, <1>3 DEF Contains
<1>5. ToSet(s) = ToSet(Tail(s)) \cup {Head(s)}
  BY <1>1, <1>4, Members
<1> QED
  BY <1>1, <1>4, <1>5

(* A part of a sequence.                                                   *)
LEMMA Part ==
  ASSUME NEW S, NEW s, NEW m \in Nat, NEW n \in Nat, m <= n + 1, \A i \in m .. n : s[i] \in S
  PROVE  /\ SubSeq(s, m, n) \in Seq(S)
         /\ Len(SubSeq(s, m, n)) = n - m + 1
         /\ \A i \in 1 .. n - m + 1 : SubSeq(s, m, n)[i] = s[m + i - 1]
BY SubSeqProperties

LEMMA Suffix ==
  ASSUME NEW S, NEW s \in Seq(S), NEW k \in 1 .. Len(s)
  PROVE  /\ SubSeq(s, k + 1, Len(s)) \in Seq(S)
         /\ Len(SubSeq(s, k + 1, Len(s))) = Len(s) - k
         /\ \A i \in 1 .. Len(s) - k : SubSeq(s, k + 1, Len(s))[i] = s[k + i]
<1>1. Len(s) \in Nat /\ k + 1 <= Len(s) + 1 /\ \A i \in 1 .. Len(s) : s[i] \in S
  OBVIOUS
<1>2. /\ SubSeq(s, k + 1, Len(s)) \in Seq(S)
      /\ Len(SubSeq(s, k + 1, Len(s))) = Len(s) - (k + 1) + 1
      /\ \A i \in 1 .. Len(s) - (k + 1) + 1 : SubSeq(s, k + 1, Len(s))[i] = s[k + 1 + i - 1]
  BY <1>1, Part
<1> QED
  BY <1>1, <1>2

(* One sequence behind another.                                            *)
LEMMA Joined ==
  ASSUME NEW S, NEW s \in Seq(S), NEW t \in Seq(S)
  PROVE  /\ s \o t \in Seq(S)
         /\ Len(s \o t) = Len(s) + Len(t)
         /\ \A i \in 1 .. Len(s) + Len(t) :
              (s \o t)[i] = IF i <= Len(s) THEN s[i] ELSE t[i - Len(s)]
BY ConcatProperties

(* Erasing takes one element out, and keeps the others, each of them once. *)
LEMMA Erased ==
  ASSUME NEW S, NEW s \in Seq(S), IsInjective(s), NEW e, Contains(s, e)
  PROVE  /\ RemoveFirst(s, e) \in Seq(S)
         /\ IsInjective(RemoveFirst(s, e))
         /\ \A x : Contains(RemoveFirst(s, e), x) <=> Contains(s, x) /\ x # e
<1>1. PICK k \in 1 .. Len(s) : s[k] = e
  BY DEF Contains
<1>2. Len(s) \in Nat /\ DOMAIN s = 1 .. Len(s)
  BY LenProperties
<1>3. { i \in 1 .. Len(s) : s[i] = e } = {k}
  BY <1>1, <1>2 DEF IsInjective
<1>4. Min({k}) = k
  BY <1>1 DEF Min
<1>5. SelectInSeq(s, LAMBDA v : v = e) = k
  BY <1>3, <1>4 DEF SelectInSeq
<1> DEFINE left == SubSeq(s, 1, k - 1)
           right == SubSeq(s, k + 1, Len(s))
           r == RemoveFirst(s, e)
<1>6. r = left \o right
  BY <1>1, <1>5 DEF RemoveFirst, RemoveAt
<1>3x. \A i \in 1 .. Len(s) : s[i] \in S
  BY ElementOfSeq
<1>7. /\ left \in Seq(S) /\ Len(left) = k - 1
      /\ \A i \in 1 .. k - 1 : left[i] = s[i]
  BY <1>1, <1>2, <1>3x, Part
<1>8. /\ right \in Seq(S) /\ Len(right) = Len(s) - k
      /\ \A i \in 1 .. Len(s) - k : right[i] = s[k + i]
  BY <1>1, <1>2, Suffix
<1>9. /\ r \in Seq(S) /\ Len(r) = Len(s) - 1
      /\ \A i \in 1 .. Len(s) - 1 : r[i] = IF i < k THEN s[i] ELSE s[i + 1]
  <2> HIDE DEF left, right, r
  <2>1. /\ r \in Seq(S) /\ Len(r) = Len(left) + Len(right)
        /\ \A i \in 1 .. Len(left) + Len(right) :
             r[i] = IF i <= Len(left) THEN left[i] ELSE right[i - Len(left)]
    BY <1>6, <1>7, <1>8, Joined
  <2>2. Len(left) + Len(right) = Len(s) - 1 /\ Len(s) \in Nat /\ k \in Nat
    BY <1>1, <1>2, <1>7, <1>8
  <2>3. ASSUME NEW i \in 1 .. Len(s) - 1
        PROVE  r[i] = IF i < k THEN s[i] ELSE s[i + 1]
    <3>1. r[i] = IF i <= k - 1 THEN left[i] ELSE right[i - (k - 1)]
      BY <1>7, <2>1, <2>2
    <3>2. CASE i < k
      <4>1. i \in 1 .. k - 1
        BY <1>1, <2>2, <3>2
      <4> QED
        BY <1>7, <2>2, <3>1, <3>2, <4>1
    <3>3. CASE ~ (i < k)
      <4>1. i - (k - 1) \in 1 .. Len(s) - k /\ k + (i - (k - 1)) = i + 1 /\ ~ (i <= k - 1)
        BY <1>1, <2>2, <3>3
      <4> QED
        BY <1>8, <3>1, <3>3, <4>1
    <3> QED
      BY <3>2, <3>3
  <2> QED
    BY <2>1, <2>2, <2>3
<1> HIDE DEF left, right, r
<1>10. DOMAIN r = 1 .. Len(s) - 1
  BY <1>9, LenProperties
<1>11. IsInjective(r)
  <2>1. ASSUME NEW i \in DOMAIN r, NEW j \in DOMAIN r, r[i] = r[j]
        PROVE  i = j
    <3> DEFINE old(n) == IF n < k THEN n ELSE n + 1
    <3>1. /\ i \in Nat /\ j \in Nat /\ k \in Nat /\ old(i) \in DOMAIN s /\ old(j) \in DOMAIN s
          /\ r[i] = s[old(i)] /\ r[j] = s[old(j)]
      BY <1>1, <1>2, <1>9, <1>10
    <3>2. old(i) = old(j)
      BY <2>1, <3>1 DEF IsInjective
    <3> QED
      BY <3>1, <3>2
  <2> QED
    BY <2>1 DEF IsInjective
<1>12. ASSUME NEW i \in 1 .. Len(s), s[i] # e
       PROVE  \E j \in 1 .. Len(r) : r[j] = s[i]
  <2>1. CASE i < k
    BY <1>1, <1>2, <1>9, <2>1
  <2>2. CASE i > k
    <3>1. i - 1 \in 1 .. Len(r) /\ r[i - 1] = s[i]
      BY <1>1, <1>2, <1>9, <2>2
    <3> QED
      BY <3>1
  <2> QED
    BY <1>1, <1>2, <1>12, <2>1, <2>2
<1>13. ASSUME NEW j \in 1 .. Len(r)
       PROVE  r[j] # e /\ \E i \in 1 .. Len(s) : s[i] = r[j]
  <2> DEFINE i == IF j < k THEN j ELSE j + 1
  <2>1. i \in 1 .. Len(s) /\ i # k /\ r[j] = s[i]
    BY <1>1, <1>2, <1>9
  <2>2. s[i] # s[k]
    BY <1>1, <1>2, <2>1 DEF IsInjective
  <2> QED
    BY <1>1, <2>1, <2>2
<1>14. \A x : Contains(r, x) <=> Contains(s, x) /\ x # e
  BY <1>12, <1>13 DEF Contains
<1> QED
  BY <1>9, <1>11, <1>14 DEF r

(***************************************************************************)
(* Control entries.                                                        *)
(***************************************************************************)

(* The three kinds of control entries.                                     *)
LEMMA Kinds ==
  ASSUME NEW e \in ControlEntries
  PROVE  /\ e.action \in {"add", "remove", "stop"}
         /\ e.action = "add" => e.queue \in Queues /\ e = AddEntry(e.queue)
         /\ e.action = "remove" => /\ e.queue \in Queues
                                   /\ e.promise \in Clients \cup {NoClient}
                                   /\ e = RemoveEntry(e.queue, e.promise)
         /\ e.action = "stop" => e = StopEntry
         /\ e.promise \in Clients => e.action = "remove"
BY DEF ControlEntries, AddEntry, RemoveEntry, StopEntry

LEMMA Distinct ==
  ASSUME NEW q, NEW r, NEW c
  PROVE  /\ AddEntry(q) # RemoveEntry(r, c)
         /\ AddEntry(q) # StopEntry
         /\ StopEntry # RemoveEntry(r, c)
         /\ AddEntry(q) = AddEntry(r) => q = r
         /\ AddEntry(q).promise = NoClient
         /\ StopEntry.promise = NoClient
         /\ RemoveEntry(r, c).promise = c
         /\ RemoveEntry(r, c).queue = r
         /\ ~ Removes(AddEntry(q), r) /\ ~ Removes(StopEntry, r)
         /\ Removes(RemoveEntry(r, c), q) <=> r = q
BY DEF AddEntry, RemoveEntry, StopEntry, Removes

-----------------------------------------------------------------------------
(***************************************************************************)
(* Queues.                                                                 *)
(***************************************************************************)

(* Tickets stay published, and stay delivered.                             *)
LEMMA QueueOperations ==
  ASSUME NEW f \in QueueType
  PROVE  /\ MayReserve(f) => /\ AfterReserve(f) \in QueueType
                             /\ AfterReserve(f) = [f EXCEPT !.reserved = f.reserved + 1]
         /\ \A t \in Tickets, v \in Items :
              /\ AfterPublish(f, t, v) \in QueueType
              /\ AfterPublish(f, t, v).reserved = f.reserved
              /\ AfterPublish(f, t, v).claimed = f.claimed
              /\ AfterPublish(f, t, v).delivered = f.delivered
              /\ \A u \in Tickets :
                   IsPublished(AfterPublish(f, t, v), u) <=> u = t \/ IsPublished(f, u)
         /\ MayClaim(f) /\ IsPublished(f, f.claimed) =>
              /\ AfterDeliver(AfterClaim(f), f.claimed) \in QueueType
              /\ AfterDeliver(AfterClaim(f), f.claimed).reserved = f.reserved
              /\ AfterDeliver(AfterClaim(f), f.claimed).claimed = f.claimed + 1
              /\ AfterDeliver(AfterClaim(f), f.claimed).published = f.published
              /\ \A u \in Tickets :
                   IsDelivered(AfterDeliver(AfterClaim(f), f.claimed), u)
                     <=> u = f.claimed \/ IsDelivered(f, u)
<1> USE DEF QueueType, Tickets, MayReserve, AfterReserve, AfterPublish, IsPublished, IsDelivered,
            MayClaim, AfterClaim, AfterDeliver
<1>1. MayReserve(f) => /\ AfterReserve(f) \in QueueType
                       /\ AfterReserve(f) = [f EXCEPT !.reserved = f.reserved + 1]
  OBVIOUS
<1>2. ASSUME NEW t \in Tickets, NEW v \in Items
      PROVE  /\ AfterPublish(f, t, v) \in QueueType
             /\ AfterPublish(f, t, v).reserved = f.reserved
             /\ AfterPublish(f, t, v).claimed = f.claimed
             /\ AfterPublish(f, t, v).delivered = f.delivered
             /\ \A u \in Tickets :
                  IsPublished(AfterPublish(f, t, v), u) <=> u = t \/ IsPublished(f, u)
  <2>1. f.published \in [Tickets -> Items \cup {Nothing}]
    OBVIOUS
  <2>2. AfterPublish(f, t, v) = [f EXCEPT !.published = [f.published EXCEPT ![t] = v]]
    OBVIOUS
  <2>3. [f.published EXCEPT ![t] = v] \in [Tickets -> Items \cup {Nothing}]
    BY <2>1
  <2> QED
    BY <2>1, <2>2, <2>3
<1>3. ASSUME MayClaim(f), IsPublished(f, f.claimed)
      PROVE  /\ AfterDeliver(AfterClaim(f), f.claimed) \in QueueType
             /\ AfterDeliver(AfterClaim(f), f.claimed).reserved = f.reserved
             /\ AfterDeliver(AfterClaim(f), f.claimed).claimed = f.claimed + 1
             /\ AfterDeliver(AfterClaim(f), f.claimed).published = f.published
             /\ \A u \in Tickets :
                  IsDelivered(AfterDeliver(AfterClaim(f), f.claimed), u)
                    <=> u = f.claimed \/ IsDelivered(f, u)
  <2> DEFINE c == f.claimed
             g == AfterDeliver(AfterClaim(f), c)
  <2>1. /\ c \in Tickets /\ c + 1 \in 0 .. MaxTickets
        /\ f.delivered \in [Tickets -> Items \cup {Nothing}]
        /\ f.published[c] \in Items \cup {Nothing} /\ f.published[c] # Nothing
    BY <1>3
  <2>2. [f.delivered EXCEPT ![c] = f.published[c]] \in [Tickets -> Items \cup {Nothing}]
    BY <2>1
  <2>3. g = [f EXCEPT !.claimed = c + 1, !.delivered = [f.delivered EXCEPT ![c] = f.published[c]]]
    OBVIOUS
  <2> HIDE DEF c
  <2> QED
    BY <2>1, <2>2, <2>3 DEF c
<1> QED
  BY <1>1, <1>2, <1>3, Zenon

(* When a poll of q ends, it has delivered whatever was published up to    *)
(* the first push in progress.                                             *)
LEMMA PolledOut ==
  ASSUME TypeOK, PolledInOrder, NEW q \in Queues, ~ MayPoll(q),
         NEW tickets \in SUBSET Tickets, \A t \in tickets : IsPublished(fifo[q], t)
  PROVE  Flushed(q, tickets)
<1> SUFFICES ASSUME NEW t \in tickets, 0 .. t \subseteq tickets
             PROVE  t < fifo[q].claimed
  BY DEF Flushed, PolledInOrder
<1>1. fifo[q].claimed \in 0 .. MaxTickets /\ t \in 0 .. MaxTickets - 1
  BY DEF TypeOK, QueueType, Tickets
<1>2. CASE fifo[q].claimed = MaxTickets
  BY <1>1, <1>2
<1>3. CASE ~ IsPublished(fifo[q], fifo[q].claimed)
  <2>1. fifo[q].claimed \notin 0 .. t
    BY <1>3
  <2> QED
    BY <1>1, <2>1
<1> QED
  BY <1>1, <1>2, <1>3 DEF MayPoll, MayClaim

(* What the queue steps of clients and of the polling thread have in       *)
(* common: nothing that was published or delivered is taken back.          *)
Kept == \A q \in Queues, t \in Tickets :
          /\ IsPublished(fifo[q], t) => IsPublished(fifo[q], t)'
          /\ IsDelivered(fifo[q], t) => IsDelivered(fifo[q], t)'

LEMMA PushStep ==
  ASSUME TypeOK, PolledInOrder, NEW q \in Queues,
         BeginPush(q) \/ \E t \in Tickets : FinishPush(q, t)
  PROVE  /\ fifo' \in [Queues -> QueueType]
         /\ \A r \in Queues : fifo'[r].claimed <= fifo'[r].reserved
         /\ PolledInOrder' /\ Kept
<1>0. /\ fifo \in [Queues -> QueueType] /\ fifo[q] \in QueueType
      /\ \A r \in Queues : /\ fifo[r].claimed <= fifo[r].reserved
                           /\ fifo[r].claimed \in Nat /\ fifo[r].reserved \in Nat
  BY DEF TypeOK, QueueType
<1>1. CASE BeginPush(q)
  <2>1. fifo' = [fifo EXCEPT ![q] = [fifo[q] EXCEPT !.reserved = fifo[q].reserved + 1]]
        /\ fifo' \in [Queues -> QueueType]
    BY <1>0, <1>1, QueueOperations DEF BeginPush
  <2>2. ASSUME NEW r \in Queues
        PROVE  /\ fifo'[r].claimed = fifo[r].claimed /\ fifo'[r].published = fifo[r].published
               /\ fifo'[r].delivered = fifo[r].delivered
               /\ fifo'[r].reserved \in {fifo[r].reserved, fifo[r].reserved + 1}
    BY <1>0, <2>1 DEF QueueType
  <2>3. ASSUME NEW r \in Queues, NEW u \in Tickets
        PROVE  /\ IsPublished(fifo'[r], u) <=> IsPublished(fifo[r], u)
               /\ IsDelivered(fifo'[r], u) <=> IsDelivered(fifo[r], u)
               /\ u < fifo[r].reserved => u < fifo'[r].reserved
    BY <1>0, <2>2 DEF IsPublished, IsDelivered, Tickets
  <2> QED
    BY <1>0, <2>1, <2>2, <2>3 DEF PolledInOrder, Kept
<1>2. ASSUME NEW t \in Tickets, FinishPush(q, t)
      PROVE  /\ fifo' \in [Queues -> QueueType]
             /\ \A r \in Queues : fifo'[r].claimed <= fifo'[r].reserved
             /\ PolledInOrder' /\ Kept
  <2>1. PICK v \in Items : fifo' = [fifo EXCEPT ![q] = AfterPublish(fifo[q], t, v)]
    BY <1>0, <1>2 DEF FinishPush
  <2> DEFINE f == AfterPublish(fifo[q], t, v)
  <2>2. /\ f \in QueueType /\ f.reserved = fifo[q].reserved /\ f.claimed = fifo[q].claimed
        /\ f.delivered = fifo[q].delivered
        /\ \A u \in Tickets : IsPublished(f, u) <=> u = t \/ IsPublished(fifo[q], u)
    BY <1>0, <2>1, QueueOperations
  <2>3. fifo' = [fifo EXCEPT ![q] = f]
    BY <2>1
  <2>4. t < fifo[q].reserved
    BY <1>2 DEF FinishPush, MayPublish
  <2> HIDE DEF f
  <2>5. /\ fifo' \in [Queues -> QueueType]
        /\ \A r \in Queues : fifo'[r].claimed <= fifo'[r].reserved
    BY <1>0, <2>2, <2>3
  <2>6. ASSUME NEW r \in Queues, NEW u \in Tickets
        PROVE  /\ IsPublished(fifo'[r], u) <=> IsPublished(fifo[r], u) \/ (r = q /\ u = t)
               /\ IsDelivered(fifo'[r], u) <=> IsDelivered(fifo[r], u)
               /\ fifo'[r].reserved = fifo[r].reserved /\ fifo'[r].claimed = fifo[r].claimed
    BY <1>0, <2>2, <2>3 DEF IsDelivered
  <2> QED
    BY <2>4, <2>5, <2>6 DEF PolledInOrder, Kept
<1> QED
  BY <1>1, <1>2

LEMMA PollStep ==
  ASSUME TypeOK, PolledInOrder, NEW q \in Queues, PollEntry(q)
  PROVE  /\ fifo' \in [Queues -> QueueType]
         /\ \A r \in Queues : fifo'[r].claimed <= fifo'[r].reserved
         /\ PolledInOrder' /\ Kept
<1>0. /\ fifo \in [Queues -> QueueType] /\ fifo[q] \in QueueType
      /\ \A r \in Queues : /\ fifo[r].claimed <= fifo[r].reserved
                           /\ fifo[r].claimed \in Nat /\ fifo[r].reserved \in Nat
      /\ fifo[q].claimed \in Tickets
  BY DEF TypeOK, QueueType, PollEntry, MayPoll, MayClaim, Tickets
<1> DEFINE f == AfterDeliver(AfterClaim(fifo[q]), fifo[q].claimed)
<1>1. /\ f \in QueueType /\ f.reserved = fifo[q].reserved /\ f.claimed = fifo[q].claimed + 1
      /\ f.published = fifo[q].published
      /\ \A u \in Tickets : IsDelivered(f, u) <=> u = fifo[q].claimed \/ IsDelivered(fifo[q], u)
  BY <1>0, QueueOperations DEF PollEntry, MayPoll
<1>2. fifo' = [fifo EXCEPT ![q] = f]
  BY <1>0 DEF PollEntry
<1>3. fifo[q].claimed < fifo[q].reserved
  BY <1>0 DEF PollEntry, MayPoll, PolledInOrder
<1>4. \A u \in Tickets : u < fifo[q].claimed + 1 <=> u = fifo[q].claimed \/ u < fifo[q].claimed
  BY <1>0 DEF Tickets
<1> HIDE DEF f
<1> QED
  BY <1>0, <1>1, <1>2, <1>3, <1>4 DEF PolledInOrder, Kept, IsPublished, IsDelivered

-----------------------------------------------------------------------------
(***************************************************************************)
(* The type invariant, and the first parts of the inductive invariant.     *)
(***************************************************************************)
TypeParts == TypeOK /\ PolledInOrder /\ Rounds /\ Promises

(* What a client sends is a control entry of its kind.                     *)
LEMMA EntryTypes ==
  /\ StopEntry \in ControlEntries
  /\ \A q \in Queues : AddEntry(q) \in ControlEntries
  /\ \A q \in Queues, c \in Clients \cup {NoClient} : RemoveEntry(q, c) \in ControlEntries
BY DEF ControlEntries

(* The requested queue of the entry that is handled.                       *)
LEMMA RequestedQueue ==
  ASSUME TypeOK, control # <<>>, Head(control).action # "stop"
  PROVE  Requested \in Queues
<1>1. Head(control) \in ControlEntries
  BY Popped DEF TypeOK
<1> QED
  BY <1>1, Kinds DEF Requested

LEMMA TypeStep ==
  ASSUME TypeParts, [Next]_vars
  PROVE  TypeOK'
<1> USE DEF TypeOK, dataVars, flags, workerVars, clientVars, history, Call, Goto, TypeParts
<1>0. /\ control \in Seq(ControlEntries) /\ queues \in Seq(Queues) /\ Len(queues) \in Nat
      /\ fifo \in [Queues -> QueueType]
  OBVIOUS
<1>1. ASSUME NEW q \in Queues, BeginPush(q) \/ \E t \in Tickets : FinishPush(q, t)
      PROVE  TypeOK'
  <2>1. /\ fifo' \in [Queues -> QueueType]
        /\ \A r \in Queues : fifo'[r].claimed <= fifo'[r].reserved
    BY <1>1, PushStep
  <2>2. UNCHANGED <<flags, control, workerVars, terminated, clientVars, future, history>>
    BY <1>1 DEF BeginPush, FinishPush
  <2> QED
    BY <2>1, <2>2
<1>2. ASSUME NEW c \in Clients, Start(c) \/ Stop(c) \/ StartThread(c) \/ GetResult(c)
      PROVE  TypeOK'
  <2>1. CASE Start(c)
    BY <2>1 DEF Start
  <2>2. CASE Stop(c)
    <3>1. /\ calls < MaxCalls /\ calls' = calls + 1
          /\ at' = [at EXCEPT ![c] = "stopping"]
          /\ running' = FALSE
          /\ UNCHANGED <<dataVars, stopSignal, control, workerVars, terminated, target, future,
                         history>>
      BY <2>2, Zenon DEF Stop
    <3>2. calls' \in 0 .. MaxCalls
      BY <3>1
    <3>3. running' \in BOOLEAN
      BY <3>1, Zenon
    <3> QED
      BY <3>1, <3>2, <3>3
  <2>3. CASE StartThread(c) \/ GetResult(c)
    BY <2>3 DEF StartThread, GetResult
  <2> QED
    BY <1>2, <2>1, <2>2, <2>3
<1>3. ASSUME NEW c \in Clients, SendStop(c)
      PROVE  TypeOK'
  <2>1. control' \in Seq(ControlEntries)
    BY <1>3, EntryTypes, Appended DEF SendStop, Send
  <2>2. \A q \in Queues : DueTickets(q) \in SUBSET Tickets
    BY DEF DueTickets
  <2>3. stopBefore' \in [Queues -> SUBSET Tickets]
    BY <1>3, <2>2 DEF SendStop
  <2> QED
    BY <1>3, <2>1, <2>3 DEF SendStop
<1>4. ASSUME NEW c \in Clients, NEW q \in Queues, AddQueue(c, q)
      PROVE  TypeOK'
  <2>1. control' \in Seq(ControlEntries)
    BY <1>4, EntryTypes, Appended DEF AddQueue, Send
  <2>2. addedSince' \in [Clients -> BOOLEAN]
    BY <1>4 DEF AddQueue
  <2> QED
    BY <1>4, <2>1, <2>2 DEF AddQueue
<1>5. ASSUME NEW c \in Clients, NEW q \in Queues, RemoveQueue(c, q)
      PROVE  TypeOK'
  <2>1. /\ calls < MaxCalls /\ calls' = calls + 1
        /\ \/ at' = [at EXCEPT ![c] = "removing"] /\ future' = [future EXCEPT ![c] = "none"]
           \/ at' = [at EXCEPT ![c] = "idle"] /\ future' = [future EXCEPT ![c] = "error"]
        /\ target' = [target EXCEPT ![c] = q]
        /\ UNCHANGED <<dataVars, flags, control, workerVars, terminated, history>>
    BY <1>5, Zenon DEF RemoveQueue
  <2>2. calls' \in 0 .. MaxCalls /\ target' \in [Clients -> Queues \cup {NoQueue}]
    BY <2>1
  <2>3. /\ at' \in [Clients -> {"idle", "starting", "stopping", "removing", "waiting"}]
        /\ future' \in [Clients -> {"none", "error", "pending", "value"}]
    BY <2>1
  <2> QED
    BY <2>1, <2>2, <2>3
<1>6. ASSUME NEW c \in Clients, SendRemove(c)
      PROVE  TypeOK'
  <2>1. target[c] \in Queues
    BY <1>6 DEF SendRemove, Promises
  <2>2. \A d \in Clients \cup {NoClient} :
          Append(control, RemoveEntry(target[c], d)) \in Seq(ControlEntries)
    BY <2>1, EntryTypes, Appended
  <2>3. DueTickets(target[c]) \in SUBSET Tickets
    BY DEF DueTickets
  <2>4. CASE /\ control' = Append(control, RemoveEntry(target[c], c))
             /\ at' = [at EXCEPT ![c] = "waiting"]
             /\ future' = [future EXCEPT ![c] = "pending"]
             /\ before' = [before EXCEPT ![c] = DueTickets(target[c])]
             /\ addedSince' = [addedSince EXCEPT ![c] = FALSE]
    BY <1>6, <2>1, <2>2, <2>3, <2>4 DEF SendRemove
  <2>5. CASE /\ control' = Append(control, RemoveEntry(target[c], NoClient))
             /\ at' = [at EXCEPT ![c] = "idle"]
             /\ UNCHANGED <<future, before, addedSince>>
    BY <1>6, <2>1, <2>2, <2>5 DEF SendRemove
  <2> QED
    BY <1>6, <2>4, <2>5, Zenon DEF SendRemove, Send
<1>7. CASE LockControl \/ BeginLastPoll \/ UnlockControl \/ NextQueue \/ CheckStop
  BY <1>0, <1>7 DEF LockControl, BeginLastPoll, UnlockControl, NextQueue, CheckStop
<1>8. CASE HandleAdd
  <2>1. control' \in Seq(ControlEntries)
    BY <1>8, Popped DEF HandleAdd, Handling
  <2>2. Requested \in Queues
    BY <1>8, RequestedQueue DEF HandleAdd, Handling
  <2>3. CASE Contains(queues, Requested)
    BY <1>8, <2>1, <2>3 DEF HandleAdd
  <2>4. CASE ~ Contains(queues, Requested)
    <3>1. /\ queues' \in Seq(Queues) /\ Len(queues') = Len(queues) + 1
          /\ \A i \in 1 .. Len(queues) : queues'[i] = queues[i]
          /\ queues'[Len(queues) + 1] = Requested
      BY <1>0, <1>8, <2>2, <2>4, Appended DEF HandleAdd
    <3>2. /\ DOMAIN queues = 1 .. Len(queues) /\ DOMAIN queues' = 1 .. Len(queues')
          /\ \A i \in 1 .. Len(queues) : queues[i] # Requested
      BY <1>0, <3>1, <2>4, LenProperties DEF Contains
    <3>3. IsInjective(queues')
      BY <1>0, <3>1, <3>2 DEF IsInjective
    <3> QED
      BY <1>0, <1>8, <2>1, <3>1, <3>3 DEF HandleAdd
  <2> QED
    BY <2>3, <2>4
<1>9. CASE HandleStop
  <2>1. control' \in Seq(ControlEntries)
    BY <1>9, Popped DEF HandleStop, Handling
  <2> QED
    BY <1>9, <2>1 DEF HandleStop
<1>10. CASE HandleAbsent
  <2>1. control' \in Seq(ControlEntries)
    BY <1>10, Popped DEF HandleAbsent, Handling
  <2> QED
    BY <1>10, <2>1 DEF HandleAbsent, Answer
<1>11. CASE EraseQueue
  <2>1. control # <<>> /\ Contains(queues, Requested) /\ cursor = 1
    BY <1>11 DEF EraseQueue, Rounds
  <2>2. control' \in Seq(ControlEntries)
    BY <1>11, <2>1, Popped DEF EraseQueue, Forget
  <2>3. queues' \in Seq(Queues) /\ IsInjective(queues')
    BY <1>0, <1>11, <2>1, Erased DEF EraseQueue, Forget
  <2>4. cursor' \in 1 .. Len(queues') + 1
    BY <1>11, <2>1, <2>3 DEF EraseQueue, Forget
  <2>5. future' \in [Clients -> {"none", "error", "pending", "value"}]
    BY <1>11 DEF EraseQueue, Forget, Answer
  <2> QED
    BY <1>11, <2>2, <2>3, <2>4, <2>5 DEF EraseQueue, Forget
<1>12. ASSUME NEW q \in Queues, PollEntry(q), UNCHANGED worker
       PROVE  TypeOK'
  <2>1. /\ fifo' \in [Queues -> QueueType]
        /\ \A r \in Queues : fifo'[r].claimed <= fifo'[r].reserved
    BY <1>12, PollStep
  <2> QED
    BY <1>12, <2>1 DEF PollEntry
<1>13. CASE LastPoll
  <2>1. Requested \in Queues
    BY <1>13, RequestedQueue DEF LastPoll, Rounds
  <2> QED
    BY <1>13, <2>1, <1>12 DEF LastPoll, PollEntry
<1>14. CASE PollQueue
  <2>1. queues[cursor] \in Queues
    BY <1>0, <1>14 DEF PollQueue
  <2> QED
    BY <1>14, <2>1, <1>12 DEF PollQueue, PollEntry
<1>15. CASE UNCHANGED vars
  BY <1>15 DEF vars
<1> QED
  BY <1>1, <1>2, <1>3, <1>4, <1>5, <1>6, <1>7, <1>8, <1>9, <1>10, <1>11, <1>13, <1>14, <1>15
     DEF Next, Work, Continue, NewCall, Produce

-----------------------------------------------------------------------------
(***************************************************************************)
(* What a step does to the control queue, by position.                     *)
(***************************************************************************)
Sent(entry) ==
  /\ Len(control') = Len(control) + 1
  /\ \A i \in 1 .. Len(control) : control'[i] = control[i]
  /\ control'[Len(control) + 1] = entry
  /\ control' # <<>>
  /\ control # <<>> => Head(control') = Head(control)
  /\ \A x : Contains(control', x) <=> Contains(control, x) \/ x = entry

LEMMA SendStep ==
  ASSUME TypeOK, NEW entry \in ControlEntries, Send(entry)
  PROVE  Sent(entry)
BY Appended DEF TypeOK, Send, Sent

Handled ==
  /\ Len(control) \in Nat \ {0}
  /\ Len(control') = Len(control) - 1
  /\ \A i \in 1 .. Len(control') : control'[i] = control[i + 1]
  /\ Head(control) = control[1]
  /\ Head(control) \in ControlEntries
  /\ \A x : Contains(control, x) <=> Head(control) = x \/ Contains(control', x)

LEMMA HandleStep ==
  ASSUME TypeOK, control # <<>>, control' = Tail(control)
  PROVE  Handled
BY Popped DEF TypeOK, Handled

(* The entry that a removal sends.                                         *)
LEMMA SendRemoveStep ==
  ASSUME TypeParts, NEW c \in Clients, SendRemove(c)
  PROVE  /\ target[c] \in Queues
         /\ \E d \in {c, NoClient} : Sent(RemoveEntry(target[c], d))
         /\ \/ /\ Sent(RemoveEntry(target[c], c))
               /\ at' = [at EXCEPT ![c] = "waiting"]
               /\ future' = [future EXCEPT ![c] = "pending"]
               /\ before' = [before EXCEPT ![c] = DueTickets(target[c])]
               /\ addedSince' = [addedSince EXCEPT ![c] = FALSE]
            \/ /\ Sent(RemoveEntry(target[c], NoClient))
               /\ at' = [at EXCEPT ![c] = "idle"]
               /\ UNCHANGED <<future, before, addedSince>>
<1>1. target[c] \in Queues
  BY DEF TypeParts, SendRemove, Promises
<1>2. \A d \in {c, NoClient} : Send(RemoveEntry(target[c], d)) => Sent(RemoveEntry(target[c], d))
  BY <1>1, SendStep, EntryTypes DEF TypeParts
<1>3. CASE /\ Send(RemoveEntry(target[c], c))
           /\ Goto(c, "waiting")
           /\ future' = [future EXCEPT ![c] = "pending"]
           /\ before' = [before EXCEPT ![c] = DueTickets(target[c])]
           /\ addedSince' = [addedSince EXCEPT ![c] = FALSE]
  BY <1>1, <1>2, <1>3 DEF Goto
<1>4. CASE /\ Send(RemoveEntry(target[c], NoClient))
           /\ Goto(c, "idle")
           /\ UNCHANGED <<future, before, addedSince>>
  BY <1>1, <1>2, <1>4 DEF Goto
<1> QED
  BY <1>3, <1>4, Zenon DEF SendRemove

-----------------------------------------------------------------------------
LEMMA RoundsStep ==
  ASSUME TypeParts, [Next]_vars
  PROVE  Rounds'
<1> USE DEF Rounds, dataVars, flags, workerVars, clientVars, history, Call, Goto, Requested
<1>0. TypeOK /\ control \in Seq(ControlEntries) /\ queues \in Seq(Queues) /\ Rounds
  BY DEF TypeParts, TypeOK
<1>1. ASSUME NEW e \in ControlEntries, Send(e), UNCHANGED <<flags, workerVars>>
      PROVE  Rounds'
  <2>1. Sent(e)
    BY <1>0, <1>1, SendStep
  <2> QED
    BY <1>0, <1>1, <2>1 DEF Send, MutexHeld, Sent
<1>2. ASSUME UNCHANGED <<stopSignal, control, workerVars>>
      PROVE  Rounds'
  BY <1>0, <1>2
<1>3. ASSUME NEW q \in Queues, BeginPush(q) \/ \E t \in Tickets : FinishPush(q, t)
      PROVE  Rounds'
  BY <1>2, <1>3 DEF BeginPush, FinishPush
<1>4. ASSUME NEW c \in Clients, Start(c) \/ Stop(c) \/ GetResult(c)
      PROVE  Rounds'
  BY <1>2, <1>4 DEF Start, Stop, GetResult
<1>5. ASSUME NEW c \in Clients, StartThread(c)
      PROVE  Rounds'
  BY <1>0, <1>5 DEF StartThread
<1>6. ASSUME NEW c \in Clients, SendStop(c)
      PROVE  Rounds'
  BY <1>1, <1>6, EntryTypes DEF SendStop
<1>7. ASSUME NEW c \in Clients, NEW q \in Queues, AddQueue(c, q)
      PROVE  Rounds'
  BY <1>1, <1>7, EntryTypes DEF AddQueue
<1>8. ASSUME NEW c \in Clients, NEW q \in Queues, RemoveQueue(c, q)
      PROVE  Rounds'
  BY <1>2, <1>8 DEF RemoveQueue
<1>9. ASSUME NEW c \in Clients, SendRemove(c)
      PROVE  Rounds'
  <2>1. target[c] \in Queues
    BY <1>9, SendRemoveStep
  <2> QED
    BY <1>1, <1>9, <2>1, EntryTypes DEF SendRemove
<1>10. CASE LockControl \/ BeginLastPoll \/ UnlockControl \/ NextQueue \/ CheckStop
  BY <1>0, <1>10 DEF LockControl, BeginLastPoll, UnlockControl, NextQueue, CheckStop, Handling
<1>11. CASE HandleAdd \/ HandleStop \/ HandleAbsent
  BY <1>0, <1>11 DEF HandleAdd, HandleStop, HandleAbsent, Handling
<1>12. CASE EraseQueue
  BY <1>0, <1>12 DEF EraseQueue, Forget
<1>13. CASE LastPoll \/ PollQueue
  BY <1>2, <1>13 DEF LastPoll, PollQueue, PollEntry
<1>14. CASE UNCHANGED vars
  BY <1>2, <1>14 DEF vars
<1> QED
  BY <1>3, <1>4, <1>5, <1>6, <1>7, <1>8, <1>9, <1>10, <1>11, <1>12, <1>13, <1>14
     DEF Next, Work, Continue, NewCall, Produce

-----------------------------------------------------------------------------
LEMMA PromisesStep ==
  ASSUME TypeParts, [Next]_vars
  PROVE  Promises'
<1> USE DEF Promises, dataVars, flags, workerVars, clientVars, history, Call, Goto
<1>0. /\ TypeOK /\ Promises /\ Len(control) \in Nat
      /\ at \in [Clients -> {"idle", "starting", "stopping", "removing", "waiting"}]
      /\ target \in [Clients -> Queues \cup {NoQueue}]
      /\ future \in [Clients -> {"none", "error", "pending", "value"}]
      /\ \A i \in 1 .. Len(control) : control[i] \in ControlEntries
  BY DEF TypeParts, TypeOK
<1>1. ASSUME UNCHANGED <<control, at, target, future>>
      PROVE  Promises'
  BY <1>0, <1>1
<1>2. ASSUME NEW q \in Queues, BeginPush(q) \/ \E t \in Tickets : FinishPush(q, t)
      PROVE  Promises'
  BY <1>1, <1>2 DEF BeginPush, FinishPush
<1>3. ASSUME NEW c \in Clients, NEW l \in {"idle", "starting", "stopping"},
             at' = [at EXCEPT ![c] = l],
             at[c] \in {"idle", "starting"} \/ (at[c] = "waiting" /\ future[c] # "pending"),
             UNCHANGED <<control, target, future>>
      PROVE  Promises'
  BY <1>0, <1>3
<1>4. ASSUME NEW c \in Clients, Start(c) \/ Stop(c) \/ StartThread(c) \/ GetResult(c)
      PROVE  Promises'
  BY <1>3, <1>4 DEF Start, Stop, StartThread, GetResult
<1>5. ASSUME NEW c \in Clients, NEW e \in ControlEntries, Sent(e), e.promise = NoClient,
             at' = [at EXCEPT ![c] = "idle"], at[c] # "waiting",
             UNCHANGED <<target, future>>
      PROVE  Promises'
  BY <1>0, <1>5 DEF Sent
<1>6. ASSUME NEW c \in Clients, SendStop(c)
      PROVE  Promises'
  BY <1>0, <1>5, <1>6, EntryTypes, SendStep, Distinct DEF SendStop
<1>7. ASSUME NEW c \in Clients, NEW q \in Queues, AddQueue(c, q)
      PROVE  Promises'
  <2>1. /\ at[c] = "idle" /\ at' = [at EXCEPT ![c] = "idle"] /\ Send(AddEntry(q))
        /\ UNCHANGED <<target, future>>
    BY <1>7, Zenon DEF AddQueue
  <2>2. AddEntry(q) \in ControlEntries /\ AddEntry(q).promise = NoClient
    BY EntryTypes, Distinct
  <2>3. Sent(AddEntry(q))
    BY <1>0, <2>1, <2>2, SendStep
  <2> QED
    BY <1>5, <2>1, <2>2, <2>3
<1>8. ASSUME NEW c \in Clients, NEW q \in Queues, RemoveQueue(c, q)
      PROVE  Promises'
  <2>1. /\ at[c] = "idle" /\ control' = control /\ target' = [target EXCEPT ![c] = q]
        /\ \/ at' = [at EXCEPT ![c] = "removing"] /\ future' = [future EXCEPT ![c] = "none"]
           \/ at' = [at EXCEPT ![c] = "idle"] /\ future' = [future EXCEPT ![c] = "error"]
    BY <1>8, Zenon DEF RemoveQueue
  <2> QED
    BY <1>0, <2>1
<1>9. ASSUME NEW c \in Clients, SendRemove(c)
      PROVE  Promises'
  <2>1. at[c] = "removing" /\ target' = target /\ target[c] \in Queues /\ future[c] = "none"
    BY <1>0, <1>9 DEF SendRemove
  <2>2. CASE /\ Sent(RemoveEntry(target[c], NoClient))
             /\ at' = [at EXCEPT ![c] = "idle"]
             /\ future' = future
    <3>1. /\ RemoveEntry(target[c], NoClient) \in ControlEntries
          /\ RemoveEntry(target[c], NoClient).promise = NoClient
      <4>1. RemoveEntry(target[c], NoClient) \in ControlEntries
        BY <2>1, EntryTypes
      <4>2. RemoveEntry(target[c], NoClient).promise = NoClient
        BY Distinct
      <4> QED
        BY <4>1, <4>2
    <3> QED
      BY <1>5, <2>1, <2>2, <3>1
  <2>3. CASE /\ Sent(RemoveEntry(target[c], c))
             /\ at' = [at EXCEPT ![c] = "waiting"]
             /\ future' = [future EXCEPT ![c] = "pending"]
    <3> DEFINE e == RemoveEntry(target[c], c)
    <3>1. e.promise = c
      BY Distinct
    <3>2. /\ Len(control') = Len(control) + 1 /\ control'[Len(control) + 1] = e
          /\ \A i \in 1 .. Len(control) : control'[i] = control[i]
      BY <2>3 DEF Sent
    <3>3. \A i \in 1 .. Len(control) : control[i].promise # c
      BY <1>0, <2>1
    <3> HIDE DEF e
    <3>4. ASSUME NEW i \in 1 .. Len(control'), control'[i].promise = c
          PROVE  i = Len(control) + 1
      BY <1>0, <3>2, <3>3, <3>4
    <3>5. ASSUME NEW d \in Clients, d # c
          PROVE  /\ at'[d] = at[d] /\ future'[d] = future[d] /\ target'[d] = target[d]
                 /\ \A i \in 1 .. Len(control') :
                      control'[i].promise = d => i \in 1 .. Len(control) /\ control'[i] = control[i]
      BY <1>0, <2>1, <2>3, <3>1, <3>2, <3>5
    <3>6. at'[c] = "waiting" /\ future'[c] = "pending" /\ target'[c] = target[c]
      BY <1>0, <2>1, <2>3
    <3>7. ASSUME NEW d \in Clients
          PROVE  /\ at'[d] \in {"removing", "waiting"} \/ future'[d] # "none" => target'[d] \in Queues
                 /\ at'[d] = "removing" => future'[d] = "none"
                 /\ \A i \in 1 .. Len(control') : control'[i].promise = d =>
                      /\ at'[d] = "waiting" /\ future'[d] = "pending"
                      /\ control'[i] = RemoveEntry(target'[d], d)
                      /\ \A j \in 1 .. Len(control') : control'[j].promise = d => j = i
      <4>1. CASE d = c
        BY <2>1, <3>2, <3>4, <3>6, <4>1 DEF e
      <4>2. CASE d # c
        BY <1>0, <3>5, <4>2
      <4> QED
        BY <4>1, <4>2
    <3> QED
      BY <3>7
  <2> QED
    BY <1>9, <2>2, <2>3, SendRemoveStep
<1>10. ASSUME Handled, future' = future \/ Answer(Head(control).promise),
              UNCHANGED <<at, target>>
       PROVE  Promises'
  <2>1. ASSUME NEW c \in Clients, NEW i \in 1 .. Len(control'), control'[i].promise = c
        PROVE  /\ control[i + 1].promise = c /\ control[1].promise # c /\ i + 1 \in 1 .. Len(control)
               /\ future'[c] = future[c]
    BY <1>0, <1>10, <2>1 DEF Handled, Answer
  <2>2. ASSUME NEW c \in Clients
        PROVE  future'[c] # future[c] => Head(control).promise = c /\ at[c] = "waiting"
    BY <1>0, <1>10, <2>2 DEF Handled, Answer
  <2>3. ASSUME NEW c \in Clients
        PROVE  /\ at[c] \in {"removing", "waiting"} \/ future'[c] # "none" => target[c] \in Queues
               /\ at[c] = "removing" => future'[c] = "none"
    BY <1>0, <2>2
  <2>4. ASSUME NEW c \in Clients, NEW i \in 1 .. Len(control'), control'[i].promise = c
        PROVE  /\ at[c] = "waiting" /\ future'[c] = "pending"
               /\ control'[i] = RemoveEntry(target[c], c)
               /\ \A j \in 1 .. Len(control') : control'[j].promise = c => j = i
    <3>1. /\ at[c] = "waiting" /\ future'[c] = "pending"
          /\ control'[i] = RemoveEntry(target[c], c)
      BY <1>0, <1>10, <2>1, <2>4 DEF Handled
    <3>2. ASSUME NEW j \in 1 .. Len(control'), control'[j].promise = c
          PROVE  j = i
      <4>1. j + 1 = i + 1
        BY <1>0, <1>10, <2>1, <2>4, <3>2
      <4> QED
        BY <1>10, <4>1 DEF Handled
    <3> QED
      BY <3>1, <3>2
  <2> QED
    BY <1>10, <2>3, <2>4
<1>11. CASE HandleAdd \/ HandleStop \/ HandleAbsent
  BY <1>0, <1>10, <1>11, HandleStep DEF HandleAdd, HandleStop, HandleAbsent, Handling
<1>12. CASE EraseQueue
  <2>1. control # <<>>
    BY <1>12 DEF TypeParts, Rounds, EraseQueue
  <2> QED
    BY <1>0, <1>10, <1>12, <2>1, HandleStep DEF EraseQueue, Forget
<1>13. CASE \/ LockControl \/ BeginLastPoll \/ UnlockControl \/ NextQueue \/ CheckStop
            \/ LastPoll \/ PollQueue
  BY <1>1, <1>13 DEF LockControl, BeginLastPoll, UnlockControl, NextQueue, CheckStop,
     LastPoll, PollQueue, PollEntry
<1>14. CASE UNCHANGED vars
  BY <1>1, <1>14 DEF vars
<1> QED
  BY <1>2, <1>4, <1>6, <1>7, <1>8, <1>9, <1>11, <1>12, <1>13, <1>14
     DEF Next, Work, Continue, NewCall, Produce

-----------------------------------------------------------------------------
(***************************************************************************)
(* The steps of the polling thread that take an entry from the control     *)
(* queue, put in one form.                                                 *)
(***************************************************************************)
Handles ==
  /\ Handled
  /\ \A q \in Queues : Contains(queues', q) <=> \/ Head(control) = AddEntry(q)
                                                \/ Contains(queues, q) /\ ~ Removes(Head(control), q)
  /\ \A q \in Queues : Contains(queues, q) /\ Removes(Head(control), q) => ~ MayPoll(q)
  /\ future' = [c \in Clients |-> IF c = Head(control).promise THEN "value" ELSE future[c]]
  /\ stopSignal' <=> stopSignal \/ Head(control) = StopEntry
  /\ worker # "done" /\ worker' # "done" /\ cursor = 1 /\ cursor' = 1
  /\ UNCHANGED <<fifo, at, target, history>>

LEMMA HandlesStep ==
  ASSUME TypeParts, HandleAdd \/ HandleStop \/ HandleAbsent \/ EraseQueue
  PROVE  Handles
<1> USE DEF dataVars, flags, workerVars, clientVars, Requested
<1>0. /\ TypeOK /\ Rounds /\ queues \in Seq(Queues) /\ control \in Seq(ControlEntries)
      /\ future \in [Clients -> {"none", "error", "pending", "value"}]
      /\ IsInjective(queues)
  BY DEF TypeParts, TypeOK
<1>1. control # <<>> /\ control' = Tail(control)
  BY <1>0 DEF Rounds, HandleAdd, HandleStop, HandleAbsent, EraseQueue, Forget, Handling
<1>2. Handled
  BY <1>0, <1>1, HandleStep
<1> DEFINE e == Head(control)
<1>3. e \in ControlEntries
  BY <1>2 DEF Handled
<1>4. worker # "done" /\ worker' # "done" /\ cursor = 1 /\ cursor' = 1
  BY <1>0 DEF Rounds, HandleAdd, HandleStop, HandleAbsent, EraseQueue, Forget, Handling
<1>5. UNCHANGED <<fifo, at, target, history>>
  BY DEF HandleAdd, HandleStop, HandleAbsent, EraseQueue, Forget
<1>6. ASSUME e.promise \notin Clients
      PROVE  future = [c \in Clients |-> IF c = e.promise THEN "value" ELSE future[c]]
  BY <1>0, <1>6
<1>7. CASE HandleAdd
  <2>1. e.queue \in Queues /\ e = AddEntry(e.queue)
    BY <1>3, <1>7, Kinds DEF HandleAdd, Handling
  <2>2. e.promise = NoClient /\ e # StopEntry
        /\ \A q : /\ ~ Removes(e, q) /\ (e = AddEntry(q) <=> q = e.queue)
    BY <2>1, Distinct
  <2>3. /\ queues' = IF Contains(queues, e.queue) THEN queues ELSE Append(queues, e.queue)
        /\ future' = future /\ stopSignal' = stopSignal
    BY <1>7 DEF HandleAdd
  <2> HIDE DEF e
  <2>4. \A q : Contains(queues', q) <=> Contains(queues, q) \/ q = e.queue
    BY <1>0, <2>1, <2>3, Appended
  <2>5. future' = [c \in Clients |-> IF c = e.promise THEN "value" ELSE future[c]]
    BY <1>6, <2>2, <2>3
  <2>6. stopSignal' <=> stopSignal \/ e = StopEntry
    BY <2>2, <2>3, Zenon
  <2>7. \A q \in Queues : Contains(queues', q) <=> \/ e = AddEntry(q)
                                                   \/ Contains(queues, q) /\ ~ Removes(e, q)
    BY <2>2, <2>4, Zenon
  <2> QED
    BY <1>2, <1>4, <1>5, <2>2, <2>5, <2>6, <2>7, Zenon DEF Handles, e
<1>8. CASE HandleStop
  <2>1. e = StopEntry
    BY <1>3, <1>8, Kinds DEF HandleStop, Handling
  <2>2. e.promise = NoClient /\ \A q : ~ Removes(e, q) /\ e # AddEntry(q)
    BY <2>1, Distinct
  <2>3. queues' = queues /\ future' = future /\ stopSignal' = TRUE
    BY <1>8, Zenon DEF HandleStop
  <2> HIDE DEF e
  <2>4. future' = [c \in Clients |-> IF c = e.promise THEN "value" ELSE future[c]]
    BY <1>6, <2>2, <2>3
  <2>5. stopSignal' <=> stopSignal \/ e = StopEntry
    BY <2>1, <2>3, Zenon
  <2>6. \A q \in Queues : Contains(queues', q) <=> \/ e = AddEntry(q)
                                                   \/ Contains(queues, q) /\ ~ Removes(e, q)
    BY <2>2, <2>3, Zenon
  <2> QED
    BY <1>2, <1>4, <1>5, <2>2, <2>4, <2>5, <2>6, Zenon DEF Handles, e
<1>9. CASE HandleAbsent \/ EraseQueue
  <2>1. e.action = "remove"
    BY <1>0, <1>9 DEF Rounds, HandleAbsent, Handling, EraseQueue
  <2>2. e.queue \in Queues /\ e = RemoveEntry(e.queue, e.promise)
    BY <1>3, <2>1, Kinds
  <2>3. e # StopEntry /\ \A q : e # AddEntry(q) /\ (Removes(e, q) <=> q = e.queue)
    BY <2>1, <2>2, Distinct DEF Removes
  <2>4. /\ future' = [c \in Clients |-> IF c = e.promise THEN "value" ELSE future[c]]
        /\ stopSignal' = stopSignal
    BY <1>9, Zenon DEF HandleAbsent, EraseQueue, Forget, Answer
  <2>5. \A q : Contains(queues', q) <=> Contains(queues, q) /\ q # e.queue
    <3>1. CASE HandleAbsent
      BY <3>1 DEF HandleAbsent
    <3>2. CASE EraseQueue
      BY <1>0, <3>2, Erased DEF Rounds, EraseQueue, Forget
    <3> QED
      BY <1>9, <3>1, <3>2
  <2>6. Contains(queues, e.queue) => ~ MayPoll(e.queue)
    BY <1>9 DEF HandleAbsent, EraseQueue
  <2> HIDE DEF e
  <2>7. stopSignal' <=> stopSignal \/ e = StopEntry
    BY <2>3, <2>4, Zenon
  <2>8. \A q \in Queues : Contains(queues', q) <=> \/ e = AddEntry(q)
                                                   \/ Contains(queues, q) /\ ~ Removes(e, q)
    BY <2>3, <2>5, Zenon
  <2>9. \A q \in Queues : Contains(queues, q) /\ Removes(e, q) => ~ MayPoll(q)
    BY <2>3, <2>6, Zenon
  <2> QED
    BY <1>2, <1>4, <1>5, <2>4, <2>7, <2>8, <2>9, Zenon DEF Handles, e
<1> QED
  BY <1>7, <1>8, <1>9

-----------------------------------------------------------------------------
(***************************************************************************)
(* The requests and what the poller does with them.                        *)
(***************************************************************************)
LEMMA WillPollSent ==
  ASSUME NEW e, Sent(e), Len(control) \in Nat, queues' = queues, NEW q \in Queues
  PROVE  WillPoll(q)' <=> e = AddEntry(q) \/ (WillPoll(q) /\ ~ Removes(e, q))
<1> DEFINE n == Len(control)
<1>0. /\ n \in Nat /\ Len(control') = n + 1 /\ control'[n + 1] = e
      /\ \A i \in 1 .. n : control'[i] = control[i]
      /\ e = AddEntry(q) => ~ Removes(e, q)
  BY Distinct DEF Sent
<1> HIDE DEF n
<1>1. ASSUME e = AddEntry(q)
      PROVE  WillPoll(q)'
  <2>1. n + 1 \in 1 .. Len(control') /\ n + 1 + 1 .. Len(control') = {}
    BY <1>0
  <2> QED
    BY <1>0, <1>1, <2>1 DEF WillPoll
<1>2. ASSUME WillPoll(q), ~ Removes(e, q)
      PROVE  WillPoll(q)'
  <2>1. ASSUME NEW i \in 1 .. n, control[i] = AddEntry(q),
               \A j \in i + 1 .. n : ~ Removes(control[j], q)
        PROVE  WillPoll(q)'
    <3>1. i \in 1 .. Len(control') /\ control'[i] = AddEntry(q)
      BY <1>0, <2>1
    <3>2. \A j \in i + 1 .. Len(control') : ~ Removes(control'[j], q)
      BY <1>0, <1>2, <2>1
    <3> QED
      BY <3>1, <3>2 DEF WillPoll
  <2>2. ASSUME Contains(queues, q), \A j \in 1 .. n : ~ Removes(control[j], q)
        PROVE  WillPoll(q)'
    <3>1. \A j \in 1 .. Len(control') : ~ Removes(control'[j], q)
      BY <1>0, <1>2, <2>2
    <3> QED
      BY <2>2, <3>1 DEF WillPoll
  <2> QED
    BY <1>2, <2>1, <2>2 DEF WillPoll, n
<1>3. ASSUME WillPoll(q)', e # AddEntry(q)
      PROVE  WillPoll(q) /\ ~ Removes(e, q)
  <2>1. ASSUME NEW i \in 1 .. n + 1, control'[i] = AddEntry(q),
               \A j \in i + 1 .. n + 1 : ~ Removes(control'[j], q)
        PROVE  WillPoll(q) /\ ~ Removes(e, q)
    <3>1. i \in 1 .. n /\ control[i] = AddEntry(q)
      BY <1>0, <1>3, <2>1
    <3>2. \A j \in i + 1 .. n : ~ Removes(control[j], q)
      BY <1>0, <2>1
    <3>3. ~ Removes(e, q)
      BY <1>0, <2>1, <3>1
    <3> QED
      BY <3>1, <3>2, <3>3 DEF WillPoll, n
  <2>2. ASSUME Contains(queues, q), \A j \in 1 .. n + 1 : ~ Removes(control'[j], q)
        PROVE  WillPoll(q) /\ ~ Removes(e, q)
    <3>1. \A j \in 1 .. n : ~ Removes(control[j], q)
      BY <1>0, <2>2
    <3>2. ~ Removes(e, q)
      BY <1>0, <2>2
    <3> QED
      BY <2>2, <3>1, <3>2 DEF WillPoll, n
  <2> QED
    BY <1>0, <1>3, <2>1, <2>2 DEF WillPoll
<1>4. WillPoll(q)' => e = AddEntry(q) \/ (WillPoll(q) /\ ~ Removes(e, q))
  BY <1>3, Zenon
<1>5. e = AddEntry(q) \/ (WillPoll(q) /\ ~ Removes(e, q)) => WillPoll(q)'
  BY <1>1, <1>2, Zenon
<1> QED
  BY <1>4, <1>5, Zenon

LEMMA WillPollHandled ==
  ASSUME Handles, NEW q \in Queues
  PROVE  WillPoll(q)' <=> WillPoll(q)
<1> DEFINE n == Len(control)
           e == Head(control)
<1>0. /\ n \in Nat \ {0} /\ Len(control') = n - 1 /\ control[1] = e
      /\ \A i \in 1 .. n - 1 : control'[i] = control[i + 1]
      /\ Contains(queues', q) <=> e = AddEntry(q) \/ (Contains(queues, q) /\ ~ Removes(e, q))
      /\ e = AddEntry(q) => ~ Removes(e, q)
  BY Distinct DEF Handles, Handled
<1> HIDE DEF n, e
<1>1. ASSUME NEW i \in 1 .. n, control[i] = AddEntry(q),
             \A j \in i + 1 .. n : ~ Removes(control[j], q)
      PROVE  WillPoll(q)'
  <2>1. \A j \in i .. n - 1 : ~ Removes(control'[j], q)
    BY <1>0, <1>1
  <2>2. CASE i = 1
    BY <1>0, <1>1, <2>1, <2>2 DEF WillPoll
  <2>3. CASE i # 1
    <3>1. i - 1 \in 1 .. n - 1 /\ control'[i - 1] = AddEntry(q) /\ (i - 1) + 1 = i
      BY <1>0, <1>1, <2>3
    <3> QED
      BY <1>0, <2>1, <3>1 DEF WillPoll
  <2> QED
    BY <2>2, <2>3
<1>2. ASSUME Contains(queues, q), \A j \in 1 .. n : ~ Removes(control[j], q)
      PROVE  WillPoll(q)'
  <2>1. ~ Removes(e, q)
    BY <1>0, <1>2
  <2>2. \A j \in 1 .. n - 1 : ~ Removes(control'[j], q)
    BY <1>0, <1>2
  <2> QED
    BY <1>0, <1>2, <2>1, <2>2 DEF WillPoll
<1>3. ASSUME NEW i \in 1 .. n - 1, control'[i] = AddEntry(q),
             \A j \in i + 1 .. n - 1 : ~ Removes(control'[j], q)
      PROVE  WillPoll(q)
  <2>1. i + 1 \in 1 .. n /\ control[i + 1] = AddEntry(q)
    BY <1>0, <1>3
  <2>2. ASSUME NEW j \in (i + 1) + 1 .. n
        PROVE  ~ Removes(control[j], q)
    <3>1. j - 1 \in i + 1 .. n - 1 /\ control'[j - 1] = control[j]
      BY <1>0, <1>3, <2>2
    <3> QED
      BY <1>3, <3>1
  <2> QED
    BY <2>1, <2>2 DEF WillPoll, n
<1>4. ASSUME Contains(queues', q), \A j \in 1 .. n - 1 : ~ Removes(control'[j], q)
      PROVE  WillPoll(q)
  <2>1. ASSUME NEW j \in 2 .. n
        PROVE  ~ Removes(control[j], q)
    <3>1. j - 1 \in 1 .. n - 1 /\ control'[j - 1] = control[j]
      BY <1>0, <2>1
    <3> QED
      BY <1>4, <3>1
  <2>2. CASE e = AddEntry(q)
    <3>1. 1 \in 1 .. n /\ control[1] = AddEntry(q) /\ \A j \in 1 + 1 .. n : ~ Removes(control[j], q)
      BY <1>0, <2>1, <2>2
    <3> QED
      BY <3>1 DEF WillPoll, n
  <2>3. CASE Contains(queues, q) /\ ~ Removes(e, q)
    <3>1. \A j \in 1 .. n : ~ Removes(control[j], q)
      BY <1>0, <2>1, <2>3
    <3> QED
      BY <2>3, <3>1 DEF WillPoll, n
  <2> QED
    BY <1>0, <1>4, <2>2, <2>3
<1>5. WillPoll(q)' => WillPoll(q)
  BY <1>0, <1>3, <1>4 DEF WillPoll
<1>6. WillPoll(q) => WillPoll(q)'
  BY <1>1, <1>2 DEF WillPoll, n
<1> QED
  BY <1>5, <1>6

-----------------------------------------------------------------------------
(***************************************************************************)
(* The steps that leave the requests alone: pushes and polls, the flags,   *)
(* the mutex, and the answer to a client.                                  *)
(***************************************************************************)
Idles ==
  /\ Kept
  /\ worker' = "done" => worker = "done"
  /\ UNCHANGED <<control, queues, cursor, stopSignal, target, future, history>>

LEMMA StepKinds ==
  ASSUME TypeParts, [Next]_vars
  PROVE  \/ Idles
         \/ Handles
         \/ NextQueue
         \/ CheckStop
         \/ \E c \in Clients : \/ SendStop(c) \/ SendRemove(c)
                             \/ \E q \in Queues : AddQueue(c, q) \/ RemoveQueue(c, q)
<1> USE DEF dataVars, flags, workerVars, clientVars
<1>0. TypeOK /\ PolledInOrder /\ Rounds
  BY DEF TypeParts
<1>1. ASSUME UNCHANGED fifo, worker' = "done" => worker = "done",
             UNCHANGED <<control, queues, cursor, stopSignal, target, future, history>>
      PROVE  Idles
  BY <1>1 DEF Idles, Kept, IsPublished, IsDelivered
<1>2. ASSUME NEW q \in Queues, BeginPush(q) \/ \E t \in Tickets : FinishPush(q, t)
      PROVE  Idles
  <2>1. Kept
    BY <1>0, <1>2, PushStep
  <2>2. UNCHANGED <<worker, control, queues, cursor, stopSignal, target, future, history>>
    BY <1>2 DEF BeginPush, FinishPush
  <2> QED
    BY <2>1, <2>2 DEF Idles
<1>3. ASSUME NEW q \in Queues, PollEntry(q), UNCHANGED worker
      PROVE  Idles
  <2>1. Kept
    BY <1>0, <1>3, PollStep
  <2> QED
    BY <1>3, <2>1 DEF Idles, PollEntry
<1>4. CASE LastPoll
  <2>1. Requested \in Queues
    BY <1>0, <1>4, RequestedQueue DEF LastPoll, Rounds
  <2> QED
    BY <1>3, <1>4, <2>1 DEF LastPoll, PollEntry
<1>5. CASE PollQueue
  <2>1. queues[cursor] \in Queues
    BY <1>0, <1>5 DEF PollQueue, TypeOK
  <2> QED
    BY <1>3, <1>5, <2>1 DEF PollQueue, PollEntry
<1>6. ASSUME NEW c \in Clients, Start(c) \/ Stop(c) \/ StartThread(c) \/ GetResult(c)
      PROVE  Idles
  BY <1>1, <1>6 DEF Start, Stop, StartThread, GetResult
<1>7. CASE LockControl \/ BeginLastPoll \/ UnlockControl
  BY <1>1, <1>7 DEF LockControl, BeginLastPoll, UnlockControl
<1>8. CASE HandleAdd \/ HandleStop \/ HandleAbsent \/ EraseQueue
  BY <1>8, HandlesStep
<1>9. CASE UNCHANGED vars
  BY <1>1, <1>9 DEF vars
<1> QED
  BY <1>2, <1>4, <1>5, <1>6, <1>7, <1>8, <1>9 DEF Next, Work, Continue, NewCall, Produce

LEMMA PolledInOrderStep ==
  ASSUME TypeParts, [Next]_vars
  PROVE  PolledInOrder'
<1>0. TypeOK /\ PolledInOrder /\ Rounds
  BY DEF TypeParts
<1>1. ASSUME UNCHANGED fifo
      PROVE  PolledInOrder'
  BY <1>0, <1>1 DEF PolledInOrder, IsPublished, IsDelivered
<1>2. ASSUME NEW q \in Queues, BeginPush(q) \/ \E t \in Tickets : FinishPush(q, t)
      PROVE  PolledInOrder'
  BY <1>0, <1>2, PushStep
<1>3. CASE LastPoll
  <2>1. Requested \in Queues
    BY <1>0, <1>3, RequestedQueue DEF LastPoll, Rounds
  <2> QED
    BY <1>0, <1>3, <2>1, PollStep DEF LastPoll
<1>4. CASE PollQueue
  <2>1. queues[cursor] \in Queues
    BY <1>0, <1>4 DEF PollQueue, TypeOK
  <2> QED
    BY <1>0, <1>4, <2>1, PollStep DEF PollQueue
<1>5. CASE LockControl \/ BeginLastPoll \/ UnlockControl \/ NextQueue \/ CheckStop
  BY <1>1, <1>5 DEF LockControl, BeginLastPoll, UnlockControl, NextQueue, CheckStop, dataVars
<1>6. CASE HandleAdd \/ HandleStop \/ HandleAbsent \/ EraseQueue
  BY <1>1, <1>6 DEF HandleAdd, HandleStop, HandleAbsent, EraseQueue, Forget, dataVars
<1>7. ASSUME NEW c \in Clients, Continue(c) \/ NewCall(c)
      PROVE  PolledInOrder'
  BY <1>1, <1>7 DEF Continue, NewCall, Start, Stop, StartThread, GetResult, SendStop, SendRemove,
     AddQueue, RemoveQueue, dataVars
<1>8. CASE UNCHANGED vars
  BY <1>1, <1>8 DEF vars, dataVars
<1> QED
  BY <1>2, <1>3, <1>4, <1>5, <1>6, <1>7, <1>8 DEF Next, Work, Produce

(* What the steps of a round that poll nothing leave alone.                *)
LEMMA RoundStep ==
  ASSUME NextQueue \/ CheckStop
  PROVE  UNCHANGED <<fifo, control, queues, stopSignal, target, future, history>>
BY DEF NextQueue, CheckStop, dataVars, flags, clientVars

(* The requests that clients send.                                         *)
LEMMA AddQueueStep ==
  ASSUME TypeParts, NEW c \in Clients, NEW q \in Queues, AddQueue(c, q)
  PROVE  /\ Sent(AddEntry(q))
         /\ wanted' = wanted \cup {q}
         /\ addedSince' = [d \in Clients |-> addedSince[d] \/ target[d] = q]
         /\ UNCHANGED <<fifo, stopSignal, queues, cursor, worker, target, future, before,
                        stopBefore>>
<1>1. Send(AddEntry(q)) /\ AddEntry(q) \in ControlEntries
  BY EntryTypes, Zenon DEF AddQueue
<1>2. Sent(AddEntry(q))
  BY <1>1, SendStep DEF TypeParts
<1> QED
  BY <1>2, Zenon DEF AddQueue, dataVars, flags, workerVars

LEMMA SendStopStep ==
  ASSUME TypeParts, NEW c \in Clients, SendStop(c)
  PROVE  /\ Sent(StopEntry)
         /\ stopBefore' = IF StopSent THEN stopBefore ELSE [q \in Queues |-> DueTickets(q)]
         /\ UNCHANGED <<fifo, stopSignal, queues, cursor, worker, target, future, wanted, before,
                        addedSince>>
<1>1. Send(StopEntry) /\ StopEntry \in ControlEntries
  BY EntryTypes, Zenon DEF SendStop
<1>2. Sent(StopEntry)
  BY <1>1, SendStep DEF TypeParts
<1> QED
  BY <1>2 DEF SendStop, dataVars, flags, workerVars

(* The poller applies the requests in the order in which they were sent.   *)
LEMMA RequestsAppliedStep ==
  ASSUME TypeParts, RequestsApplied, [Next]_vars
  PROVE  RequestsApplied'
<1> USE DEF RequestsApplied, history
<1>0. Len(control) \in Nat /\ wanted \subseteq Queues
  BY DEF TypeParts, TypeOK
<1>1. ASSUME UNCHANGED <<control, queues, wanted>>
      PROVE  RequestsApplied'
  <2>1. \A q \in Queues : WillPoll(q)' <=> WillPoll(q)
    BY <1>1 DEF WillPoll
  <2> QED
    BY <1>1, <2>1, Zenon
<1>2. CASE Idles
  BY <1>1, <1>2 DEF Idles
<1>3. CASE Handles
  <2>1. wanted' = wanted /\ \A q \in Queues : WillPoll(q)' <=> WillPoll(q)
    BY <1>3, WillPollHandled DEF Handles
  <2> QED
    BY <2>1, Zenon
<1>4. CASE NextQueue \/ CheckStop
  BY <1>1, <1>4, RoundStep
<1>5. ASSUME NEW c \in Clients, SendStop(c)
      PROVE  RequestsApplied'
  <2>1. Sent(StopEntry) /\ UNCHANGED <<wanted, queues>>
    BY <1>5, SendStopStep
  <2>2. \A q \in Queues : WillPoll(q)' <=> WillPoll(q)
    BY <1>0, <2>1, WillPollSent, Distinct
  <2> QED
    BY <2>1, <2>2, Zenon
<1>6. ASSUME NEW c \in Clients, NEW r \in Queues, AddQueue(c, r)
      PROVE  RequestsApplied'
  <2>1. Sent(AddEntry(r)) /\ queues' = queues /\ wanted' = wanted \cup {r}
    BY <1>6, AddQueueStep
  <2>2. ASSUME NEW q \in Queues
        PROVE  WillPoll(q)' <=> q = r \/ WillPoll(q)
    <3>1. WillPoll(q)' <=> \/ AddEntry(r) = AddEntry(q)
                           \/ WillPoll(q) /\ ~ Removes(AddEntry(r), q)
      BY <1>0, <2>1, WillPollSent
    <3>2. (AddEntry(r) = AddEntry(q) <=> q = r) /\ ~ Removes(AddEntry(r), q)
      BY Distinct
    <3> QED
      BY <3>1, <3>2, Zenon
  <2> QED
    BY <2>1, <2>2, Zenon
<1>7. ASSUME NEW c \in Clients, SendRemove(c)
      PROVE  RequestsApplied'
  <2>1. PICK d \in {c, NoClient} : Sent(RemoveEntry(target[c], d))
    BY <1>7, SendRemoveStep
  <2>2. queues' = queues /\ wanted' = wanted \ {target[c]}
    BY <1>7 DEF SendRemove, workerVars
  <2>3. ASSUME NEW q \in Queues
        PROVE  WillPoll(q)' <=> WillPoll(q) /\ q # target[c]
    <3> DEFINE e == RemoveEntry(target[c], d)
    <3>1. WillPoll(q)' <=> e = AddEntry(q) \/ (WillPoll(q) /\ ~ Removes(e, q))
      BY <1>0, <2>1, <2>2, WillPollSent
    <3>2. e # AddEntry(q) /\ (Removes(e, q) <=> q = target[c])
      BY Distinct
    <3> QED
      BY <3>1, <3>2, Zenon
  <2> QED
    BY <2>2, <2>3, Zenon
<1>8. ASSUME NEW c \in Clients, NEW q \in Queues, RemoveQueue(c, q)
      PROVE  RequestsApplied'
  BY <1>1, <1>8 DEF RemoveQueue, workerVars
<1> QED
  BY <1>2, <1>3, <1>4, <1>5, <1>6, <1>7, <1>8, StepKinds

-----------------------------------------------------------------------------
(***************************************************************************)
(* After the answer to a removal the poller is silent.                     *)
(***************************************************************************)
Silent(d) ==
  ~ addedSince[d] =>
    /\ \A i \in 1 .. Len(control) : control[i].promise = d =>
         \A j \in i + 1 .. Len(control) : control[j] # AddEntry(target[d])
    /\ future[d] = "value" => /\ ~ Contains(control, AddEntry(target[d]))
                              /\ ~ Contains(queues, target[d])

LEMMA SilentParts == NoLaterAdd /\ RemovedMeansSilent <=> \A d \in Clients : Silent(d)
BY DEF NoLaterAdd, RemovedMeansSilent, Silent

LEMMA SilentSent ==
  ASSUME NEW e, Sent(e), Len(control) \in Nat, NEW d \in Clients, Silent(d),
         target'[d] = target[d], queues' = queues, e # AddEntry(target[d]),
         \A i \in 1 .. Len(control) : control[i].promise = d => ~ addedSince[d],
         future'[d] = "value" => future[d] = "value" /\ ~ addedSince[d]
  PROVE  Silent(d)'
<1> DEFINE n == Len(control)
<1>0. /\ n \in Nat /\ Len(control') = n + 1 /\ control'[n + 1] = e
      /\ \A i \in 1 .. n : control'[i] = control[i]
      /\ \A x : Contains(control', x) <=> Contains(control, x) \/ x = e
  BY DEF Sent
<1> HIDE DEF n
<1>1. ASSUME NEW i \in 1 .. n + 1, control'[i].promise = d, NEW j \in i + 1 .. n + 1
      PROVE  control'[j] # AddEntry(target[d])
  <2>1. CASE j = n + 1
    BY <1>0, <2>1
  <2>2. CASE j # n + 1
    <3>1. i \in 1 .. n /\ j \in i + 1 .. n /\ j \in 1 .. n
      BY <1>0, <1>1, <2>2
    <3>2. control[i].promise = d /\ control'[j] = control[j]
      BY <1>0, <1>1, <3>1
    <3> QED
      BY <3>1, <3>2 DEF Silent, n
  <2> QED
    BY <2>1, <2>2
<1>2. ASSUME future'[d] = "value"
      PROVE  ~ Contains(control', AddEntry(target[d])) /\ ~ Contains(queues', target[d])
  BY <1>0, <1>2 DEF Silent
<1> QED
  BY <1>0, <1>1, <1>2 DEF Silent

LEMMA SilentHandled ==
  ASSUME TypeParts, Handles, NEW d \in Clients, Silent(d)
  PROVE  Silent(d)'
<1> DEFINE n == Len(control)
           e == Head(control)
           a == AddEntry(target[d])
<1>0. /\ n \in Nat \ {0} /\ Len(control') = n - 1 /\ control[1] = e
      /\ \A i \in 1 .. n - 1 : control'[i] = control[i + 1]
      /\ \A x : Contains(control, x) <=> e = x \/ Contains(control', x)
      /\ target' = target /\ addedSince' = addedSince
      /\ e \in ControlEntries
  BY DEF Handles, Handled, history
<1>1. /\ Promises
      /\ future \in [Clients -> {"none", "error", "pending", "value"}]
  BY DEF TypeParts, TypeOK
<1>2. future'[d] = IF d = e.promise THEN "value" ELSE future[d]
  BY DEF Handles
<1>3. \A q \in Queues : Contains(queues', q) <=> \/ e = AddEntry(q)
                                                 \/ Contains(queues, q) /\ ~ Removes(e, q)
  BY DEF Handles
<1> SUFFICES ASSUME ~ addedSince[d]
             PROVE  /\ \A i \in 1 .. n - 1 : control'[i].promise = d =>
                         \A j \in i + 1 .. n - 1 : control'[j] # a
                    /\ future'[d] = "value" => ~ Contains(control', a) /\ ~ Contains(queues', target[d])
  BY <1>0 DEF Silent
<1>4. /\ \A i \in 1 .. n : control[i].promise = d => \A j \in i + 1 .. n : control[j] # a
      /\ future[d] = "value" => ~ Contains(control, a) /\ ~ Contains(queues, target[d])
  BY DEF Silent
<1>5. future[d] # "none" => target[d] \in Queues
  BY <1>1 DEF Promises
<1>6. e.promise = d => /\ e = RemoveEntry(target[d], d) /\ future[d] = "pending"
  BY <1>0, <1>1 DEF Promises
<1>7. /\ Removes(RemoveEntry(target[d], d), target[d]) /\ a # RemoveEntry(target[d], d)
  BY Distinct
<1> HIDE DEF n, e, a
<1>8. ASSUME NEW i \in 1 .. n - 1, control'[i].promise = d, NEW j \in i + 1 .. n - 1
      PROVE  control'[j] # a
  <2>1. /\ i + 1 \in 1 .. n /\ control[i + 1].promise = d
        /\ j + 1 \in (i + 1) + 1 .. n /\ control'[j] = control[j + 1]
    BY <1>0, <1>8
  <2> QED
    BY <1>4, <2>1
<1>9. CASE future[d] = "value"
  <2>1. ~ Contains(control', a) /\ e # a /\ ~ Contains(queues, target[d])
    BY <1>0, <1>4, <1>9
  <2>2. ~ Contains(queues', target[d])
    BY <1>3, <1>5, <1>9, <2>1 DEF a
  <2> QED
    BY <1>8, <2>1, <2>2
<1>10. CASE e.promise = d
  <2>1. e = RemoveEntry(target[d], d) /\ target[d] \in Queues
    BY <1>5, <1>6, <1>10
  <2>2. ~ Contains(queues', target[d])
    BY <1>3, <1>7, <2>1 DEF a
  <2>3. \A j \in 2 .. n : control[j] # a
    BY <1>0, <1>4, <1>10
  <2>4. \A j \in 1 .. n - 1 : control'[j] # a
    BY <1>0, <2>3
  <2>5. ~ Contains(control', a)
    BY <1>0, <2>4 DEF Contains
  <2> QED
    BY <1>8, <2>2, <2>5
<1> QED
  BY <1>2, <1>8, <1>9, <1>10

LEMMA SilentStep ==
  ASSUME TypeParts, NoLaterAdd, RemovedMeansSilent, [Next]_vars
  PROVE  NoLaterAdd' /\ RemovedMeansSilent'
<1>0. /\ Promises /\ Len(control) \in Nat
      /\ at \in [Clients -> {"idle", "starting", "stopping", "removing", "waiting"}]
      /\ target \in [Clients -> Queues \cup {NoQueue}]
      /\ future \in [Clients -> {"none", "error", "pending", "value"}]
      /\ addedSince \in [Clients -> BOOLEAN]
      /\ control \in Seq(ControlEntries)
  BY DEF TypeParts, TypeOK
<1> SUFFICES ASSUME NEW d \in Clients
             PROVE  Silent(d)'
  <2>1. \A d \in Clients : Silent(d)'
    OBVIOUS
  <2> QED
    BY <2>1 DEF NoLaterAdd, RemovedMeansSilent, Silent
<1>1. Silent(d)
  BY SilentParts
<1>2. ASSUME UNCHANGED <<control, queues>>, target'[d] = target[d], future'[d] = future[d],
             addedSince' = addedSince
      PROVE  Silent(d)'
  BY <1>1, <1>2 DEF Silent
<1>3. CASE Idles
  BY <1>2, <1>3 DEF Idles, history
<1>4. CASE Handles
  BY <1>1, <1>4, SilentHandled
<1>5. CASE NextQueue \/ CheckStop
  BY <1>2, <1>5, RoundStep DEF history
<1>6. ASSUME NEW e, Sent(e), e # AddEntry(target[d]), UNCHANGED <<queues, target>>,
             addedSince[d] = FALSE, future'[d] = future[d]
      PROVE  Silent(d)'
  BY <1>0, <1>1, <1>6, SilentSent
<1>7. ASSUME NEW c \in Clients, SendStop(c)
      PROVE  Silent(d)'
  <2>1. Sent(StopEntry) /\ UNCHANGED <<queues, target, future, addedSince>>
    BY <1>7, SendStopStep
  <2>2. StopEntry # AddEntry(target[d])
    BY Distinct
  <2>3. CASE addedSince[d] = FALSE
    BY <1>6, <2>1, <2>2, <2>3
  <2>4. CASE addedSince[d] = TRUE
    BY <2>1, <2>4 DEF Silent
  <2> QED
    BY <1>0, <2>3, <2>4
<1>8. ASSUME NEW c \in Clients, NEW q \in Queues, AddQueue(c, q)
      PROVE  Silent(d)'
  <2>1. /\ Sent(AddEntry(q)) /\ UNCHANGED <<queues, target, future>>
        /\ addedSince' = [x \in Clients |-> addedSince[x] \/ target[x] = q]
    BY <1>8, AddQueueStep
  <2>2. CASE addedSince'[d]
    BY <2>2 DEF Silent
  <2>3. CASE ~ addedSince'[d]
    <3>1. target[d] # q /\ ~ addedSince[d]
      BY <2>1, <2>3, Zenon
    <3>2. addedSince[d] = FALSE
      BY <1>0, <3>1
    <3>3. AddEntry(q) # AddEntry(target[d])
      BY <3>1, Distinct
    <3> QED
      BY <1>6, <2>1, <3>2, <3>3
  <2> QED
    BY <2>2, <2>3
<1>9. ASSUME NEW c \in Clients, NEW q \in Queues, RemoveQueue(c, q)
      PROVE  Silent(d)'
  <2>1. /\ at[c] = "idle" /\ UNCHANGED <<control, queues, addedSince>>
        /\ target' = [target EXCEPT ![c] = q]
        /\ \/ future' = [future EXCEPT ![c] = "none"]
           \/ future' = [future EXCEPT ![c] = "error"]
    BY <1>9, Zenon DEF RemoveQueue, Call, history, workerVars
  <2>2. CASE d # c
    BY <1>0, <1>2, <2>1, <2>2
  <2>3. CASE d = c
    <3>1. \A i \in 1 .. Len(control) : control[i].promise # d
      BY <1>0, <2>1, <2>3 DEF Promises
    <3>2. future'[d] # "value" /\ control' = control
      BY <1>0, <2>1, <2>3
    <3> QED
      BY <3>1, <3>2 DEF Silent
  <2> QED
    BY <2>2, <2>3
<1>10. ASSUME NEW c \in Clients, SendRemove(c)
       PROVE  Silent(d)'
  <2>1. /\ at[c] = "removing" /\ target[c] \in Queues /\ UNCHANGED <<queues, target>>
    BY <1>10, SendRemoveStep DEF SendRemove, workerVars
  <2>2. CASE /\ Sent(RemoveEntry(target[c], NoClient))
             /\ UNCHANGED <<future, before, addedSince>>
    <3>1. RemoveEntry(target[c], NoClient) # AddEntry(target[d])
      BY Distinct
    <3>2. CASE addedSince[d] = FALSE
      BY <1>6, <2>1, <2>2, <3>1, <3>2
    <3>3. CASE addedSince[d] = TRUE
      BY <2>2, <3>3 DEF Silent
    <3> QED
      BY <1>0, <3>2, <3>3
  <2>3. CASE /\ Sent(RemoveEntry(target[c], c))
             /\ future' = [future EXCEPT ![c] = "pending"]
             /\ addedSince' = [addedSince EXCEPT ![c] = FALSE]
    <3>1. RemoveEntry(target[c], c) # AddEntry(target[d])
      BY Distinct
    <3>2. CASE d = c
      <4>1. \A i \in 1 .. Len(control) : control[i].promise # d
        BY <1>0, <2>1, <3>2 DEF Promises
      <4>2. future'[d] # "value"
        BY <1>0, <2>3, <3>2
      <4> QED
        BY <1>0, <1>1, <2>1, <2>3, <3>1, <4>1, <4>2, SilentSent
    <3>3. CASE d # c
      <4>1. future'[d] = future[d] /\ addedSince'[d] = addedSince[d]
        BY <1>0, <2>3, <3>3
      <4>2. CASE addedSince[d] = FALSE
        BY <1>6, <2>1, <2>3, <3>1, <4>1, <4>2
      <4>3. CASE addedSince[d] = TRUE
        BY <4>1, <4>3 DEF Silent
      <4> QED
        BY <1>0, <4>2, <4>3
    <3> QED
      BY <3>2, <3>3
  <2> QED
    BY <1>10, <2>2, <2>3, SendRemoveStep
<1> QED
  BY <1>3, <1>4, <1>5, <1>7, <1>8, <1>9, <1>10, StepKinds

-----------------------------------------------------------------------------
(***************************************************************************)
(* Removals and stops flush what was published when they were requested.   *)
(***************************************************************************)
AllPublished(q, tickets) == \A t \in tickets : IsPublished(fifo[q], t)

LEMMA FlushKept ==
  ASSUME Kept \/ UNCHANGED fifo, NEW q \in Queues, NEW tickets \in SUBSET Tickets
  PROVE  /\ (\A t \in tickets : IsPublished(fifo[q], t)) => \A t \in tickets : IsPublished(fifo'[q], t)
         /\ Flushed(q, tickets) =>
              \A t \in tickets : 0 .. t \subseteq tickets => IsDelivered(fifo'[q], t)
BY DEF Kept, Flushed, IsPublished, IsDelivered

(* What a request has to flush is published, and the poller has the queue  *)
(* or an add of it waits before the request.                               *)
LEMMA Due ==
  ASSUME NEW q \in Queues, NEW e, Sent(e), Len(control) \in Nat
  PROVE  /\ DueTickets(q) \in SUBSET Tickets
         /\ \A t \in DueTickets(q) : IsPublished(fifo[q], t)
         /\ \/ Flushed(q, DueTickets(q))
            \/ Contains(queues, q)
            \/ AddedBefore(Len(control), q)'
<1>1. CASE Contains(control, AddEntry(q))
  <2>1. PICK i \in 1 .. Len(control) : control[i] = AddEntry(q)
    BY <1>1 DEF Contains
  <2>2. i \in 1 .. Len(control') - 1 /\ control'[i] = AddEntry(q)
    BY <2>1 DEF Sent
  <2>3. AddedBefore(Len(control), q)'
    BY <2>2 DEF AddedBefore
  <2> QED
    BY <2>3 DEF DueTickets
<1>2. CASE ~ Contains(control, AddEntry(q))
  BY <1>2 DEF DueTickets, Flushed
<1> QED
  BY <1>1, <1>2

(* The adds before an entry, when another entry is sent ...                *)
LEMMA AddedBeforeSent ==
  ASSUME NEW e, Sent(e), Len(control) \in Nat, NEW q, NEW i \in 1 .. Len(control)
  PROVE  AddedBefore(i, q)' <=> AddedBefore(i, q)
BY DEF AddedBefore, Sent

(* ... and when one is handled.                                            *)
LEMMA AddedBeforeHandled ==
  ASSUME Handles, NEW q \in Queues, NEW i \in 1 .. Len(control'), AddedBefore(i + 1, q)
  PROVE  Contains(queues', q) \/ AddedBefore(i, q)'
<1>1. PICK j \in 1 .. i : control[j] = AddEntry(q)
  <2>1. (i + 1) - 1 = i
    OBVIOUS
  <2> QED
    BY <2>1 DEF AddedBefore
<1>2. CASE j = 1
  BY <1>1, <1>2 DEF Handles, Handled
<1>3. CASE j # 1
  <2>1. j - 1 \in 1 .. i - 1 /\ control'[j - 1] = AddEntry(q)
    BY <1>1, <1>3 DEF Handles, Handled
  <2> QED
    BY <2>1 DEF AddedBefore
<1> QED
  BY <1>2, <1>3

(* A queue that the poller had when an entry was handled is there still,   *)
(* or it was removed, and polled until nothing was left.                   *)
LEMMA HandledQueue ==
  ASSUME TypeOK, PolledInOrder, Handles, NEW q \in Queues, Contains(queues, q),
         NEW tickets \in SUBSET Tickets, \A t \in tickets : IsPublished(fifo[q], t)
  PROVE  Contains(queues', q) \/ Flushed(q, tickets)
<1>1. CASE Removes(Head(control), q)
  BY <1>1, PolledOut DEF Handles
<1>2. CASE ~ Removes(Head(control), q)
  BY <1>2 DEF Handles
<1> QED
  BY <1>1, <1>2

Flushing(d) ==
  /\ future[d] \in {"pending", "value"} => \A t \in before[d] : IsPublished(fifo[target[d]], t)
  /\ \A i \in 1 .. Len(control) : control[i].promise = d =>
       \/ Flushed(target[d], before[d])
       \/ Contains(queues, target[d])
       \/ AddedBefore(i, target[d])
  /\ future[d] = "value" => Flushed(target[d], before[d])

LEMMA FlushingSent ==
  ASSUME TypeParts, NEW e, Sent(e), NEW d \in Clients, Flushing(d), e.promise # d,
         target'[d] = target[d], before'[d] = before[d], future'[d] = future[d],
         UNCHANGED <<fifo, queues>>
  PROVE  Flushing(d)'
<1>0. Len(control) \in Nat
  BY DEF TypeParts, TypeOK
<1>1. Flushed(target[d], before[d])' <=> Flushed(target[d], before[d])
  BY DEF Flushed
<1>2. ASSUME NEW i \in 1 .. Len(control'), control'[i].promise = d
      PROVE  \/ Flushed(target[d], before[d])
             \/ Contains(queues', target[d])
             \/ AddedBefore(i, target[d])'
  <2>1. i \in 1 .. Len(control) /\ control[i].promise = d
    BY <1>0, <1>2 DEF Sent
  <2>2. AddedBefore(i, target[d])' <=> AddedBefore(i, target[d])
    BY <1>0, <2>1 DEF AddedBefore, Sent
  <2> QED
    BY <2>1, <2>2 DEF Flushing
<1> QED
  BY <1>1, <1>2 DEF Flushing

LEMMA FlushingKept ==
  ASSUME TypeParts, NEW d \in Clients, Flushing(d), Kept \/ UNCHANGED fifo,
         target'[d] = target[d], before'[d] = before[d], future'[d] = future[d],
         UNCHANGED <<control, queues>>
  PROVE  Flushing(d)'
<1>0. /\ Promises /\ before[d] \in SUBSET Tickets
  BY DEF TypeParts, TypeOK
<1>1. CASE target[d] \in Queues
  <2>1. Flushed(target[d], before[d]) => Flushed(target[d], before[d])'
    BY <1>0, <1>1, FlushKept DEF Flushed
  <2>2. (\A t \in before[d] : IsPublished(fifo[target[d]], t))
           => \A t \in before'[d] : IsPublished(fifo'[target'[d]], t)
    BY <1>0, <1>1, FlushKept
  <2>3. \A i : AddedBefore(i, target[d])' <=> AddedBefore(i, target[d])
    BY DEF AddedBefore
  <2> QED
    BY <2>1, <2>2, <2>3 DEF Flushing
<1>2. CASE target[d] \notin Queues
  <2>1. future[d] = "none" /\ \A i \in 1 .. Len(control) : control[i].promise # d
    BY <1>0, <1>2 DEF Promises
  <2> QED
    BY <2>1 DEF Flushing
<1> QED
  BY <1>1, <1>2

LEMMA FlushingHandled ==
  ASSUME TypeParts, Handles, NEW d \in Clients, Flushing(d)
  PROVE  Flushing(d)'
<1> DEFINE n == Len(control)
           e == Head(control)
<1>0. /\ n \in Nat \ {0} /\ Len(control') = n - 1 /\ control[1] = e
      /\ \A i \in 1 .. n - 1 : control'[i] = control[i + 1]
      /\ UNCHANGED <<fifo, target, before>>
      /\ e \in ControlEntries
      /\ future'[d] = IF d = e.promise THEN "value" ELSE future[d]
  BY DEF Handles, Handled, history
<1>1. /\ TypeOK /\ PolledInOrder /\ Promises /\ before[d] \in SUBSET Tickets
  BY DEF TypeParts, TypeOK
<1>2. Flushed(target[d], before[d])' <=> Flushed(target[d], before[d])
  BY <1>0 DEF Flushed
<1>3. ASSUME NEW i \in 1 .. n, control[i].promise = d
      PROVE  /\ target[d] \in Queues /\ future[d] = "pending"
             /\ \A t \in before[d] : IsPublished(fifo[target[d]], t)
             /\ control[i] = RemoveEntry(target[d], d)
             /\ \/ Flushed(target[d], before[d])
                \/ Contains(queues, target[d])
                \/ AddedBefore(i, target[d])
  BY <1>1, <1>3 DEF Promises, Flushing
<1>4. ASSUME NEW i \in 1 .. Len(control'), control'[i].promise = d
      PROVE  \/ Flushed(target[d], before[d])
             \/ Contains(queues', target[d])
             \/ AddedBefore(i, target[d])'
  <2>1. i + 1 \in 1 .. n /\ control[i + 1].promise = d
    BY <1>0, <1>4
  <2>2. /\ target[d] \in Queues /\ \A t \in before[d] : IsPublished(fifo[target[d]], t)
        /\ \/ Flushed(target[d], before[d])
           \/ Contains(queues, target[d])
           \/ AddedBefore(i + 1, target[d])
    BY <1>3, <2>1
  <2>3. CASE Contains(queues, target[d])
    BY <1>1, <2>2, <2>3, HandledQueue
  <2>4. CASE AddedBefore(i + 1, target[d])
    <3>1. \A q \in Queues : AddedBefore(i + 1, q) => Contains(queues', q) \/ AddedBefore(i, q)'
      BY <1>4, AddedBeforeHandled
    <3>2. AddedBefore(i, target[d])' <=> \E j \in 1 .. i - 1 : control'[j] = AddEntry(target[d])
      BY <1>0 DEF AddedBefore
    <3> QED
      BY <2>2, <2>4, <3>1, <3>2 DEF AddedBefore
  <2> QED
    BY <2>2, <2>3, <2>4
<1>5. CASE e.promise = d
  <2>1. /\ target[d] \in Queues /\ \A t \in before[d] : IsPublished(fifo[target[d]], t)
        /\ e = RemoveEntry(target[d], d)
        /\ \/ Flushed(target[d], before[d])
           \/ Contains(queues, target[d])
           \/ AddedBefore(1, target[d])
    BY <1>0, <1>3, <1>5
  <2>2. ~ AddedBefore(1, target[d])
    BY DEF AddedBefore
  <2>3. Contains(queues, target[d]) => ~ MayPoll(target[d])
    BY <2>1, Distinct DEF Handles
  <2>4. Flushed(target[d], before[d])
    BY <1>1, <2>1, <2>2, <2>3, PolledOut
  <2> QED
    BY <1>0, <1>2, <1>4, <2>1, <2>4 DEF Flushing
<1>6. CASE e.promise # d
  BY <1>0, <1>2, <1>4, <1>6 DEF Flushing
<1> QED
  BY <1>5, <1>6

LEMMA RemovalsFlushStep ==
  ASSUME TypeParts, RemovalsFlush, RemoveFlushes, [Next]_vars
  PROVE  RemovalsFlush' /\ RemoveFlushes'
<1>0. /\ Promises /\ Len(control) \in Nat
      /\ at \in [Clients -> {"idle", "starting", "stopping", "removing", "waiting"}]
      /\ target \in [Clients -> Queues \cup {NoQueue}]
      /\ future \in [Clients -> {"none", "error", "pending", "value"}]
      /\ before \in [Clients -> SUBSET Tickets]
  BY DEF TypeParts, TypeOK
<1> SUFFICES ASSUME NEW d \in Clients
             PROVE  Flushing(d)'
  <2>1. \A d \in Clients : Flushing(d)'
    OBVIOUS
  <2> QED
    BY <2>1 DEF RemovalsFlush, RemoveFlushes, Flushing
<1>1. Flushing(d)
  BY DEF RemovalsFlush, RemoveFlushes, Flushing
<1>2. CASE Idles
  <2>1. Kept /\ UNCHANGED <<control, queues, target, future, before>>
    BY <1>2 DEF Idles, history
  <2> QED
    BY <1>1, <2>1, FlushingKept
<1>3. CASE Handles
  BY <1>1, <1>3, FlushingHandled
<1>4. CASE NextQueue \/ CheckStop
  <2>1. UNCHANGED <<fifo, control, queues, target, future, before>>
    BY <1>4, RoundStep DEF history
  <2> QED
    BY <1>1, <2>1, FlushingKept
<1>5. ASSUME NEW c \in Clients, SendStop(c)
      PROVE  Flushing(d)'
  <2>1. Sent(StopEntry) /\ UNCHANGED <<fifo, queues, target, future, before>>
    BY <1>5, SendStopStep
  <2>2. StopEntry.promise # d
    BY Distinct
  <2> QED
    BY <1>1, <2>1, <2>2, FlushingSent
<1>6. ASSUME NEW c \in Clients, NEW q \in Queues, AddQueue(c, q)
      PROVE  Flushing(d)'
  <2>1. Sent(AddEntry(q)) /\ UNCHANGED <<fifo, queues, target, future, before>>
    BY <1>6, AddQueueStep
  <2>2. AddEntry(q).promise # d
    BY Distinct
  <2> QED
    BY <1>1, <2>1, <2>2, FlushingSent
<1>7. ASSUME NEW c \in Clients, NEW q \in Queues, RemoveQueue(c, q)
      PROVE  Flushing(d)'
  <2>1. /\ at[c] = "idle" /\ UNCHANGED <<fifo, control, queues, before>>
        /\ target' = [target EXCEPT ![c] = q]
        /\ \/ future' = [future EXCEPT ![c] = "none"]
           \/ future' = [future EXCEPT ![c] = "error"]
    BY <1>7, Zenon DEF RemoveQueue, Call, history, workerVars, dataVars
  <2>2. CASE d # c
    <3>1. target'[d] = target[d] /\ future'[d] = future[d]
      BY <1>0, <2>1, <2>2
    <3> QED
      BY <1>1, <2>1, <3>1, FlushingKept
  <2>3. CASE d = c
    <3>1. \A i \in 1 .. Len(control) : control[i].promise # d
      BY <1>0, <2>1, <2>3 DEF Promises
    <3>2. future'[d] \notin {"pending", "value"} /\ control' = control
      BY <1>0, <2>1, <2>3
    <3> QED
      BY <3>1, <3>2 DEF Flushing
  <2> QED
    BY <2>2, <2>3
<1>8. ASSUME NEW c \in Clients, SendRemove(c)
      PROVE  Flushing(d)'
  <2>1. /\ at[c] = "removing" /\ target[c] \in Queues /\ UNCHANGED <<fifo, queues, target>>
    BY <1>8, SendRemoveStep DEF SendRemove, workerVars, dataVars
  <2>2. CASE /\ Sent(RemoveEntry(target[c], NoClient))
             /\ UNCHANGED <<future, before, addedSince>>
    <3>1. RemoveEntry(target[c], NoClient).promise # d
      BY Distinct
    <3> QED
      BY <1>1, <2>1, <2>2, <3>1, FlushingSent
  <2>3. CASE /\ Sent(RemoveEntry(target[c], c))
             /\ future' = [future EXCEPT ![c] = "pending"]
             /\ before' = [before EXCEPT ![c] = DueTickets(target[c])]
    <3>1. RemoveEntry(target[c], c).promise = c
      BY Distinct
    <3>2. CASE d # c
      <4>1. future'[d] = future[d] /\ before'[d] = before[d]
        BY <1>0, <2>3, <3>2
      <4> QED
        BY <1>1, <2>1, <2>3, <3>1, <3>2, <4>1, FlushingSent
    <3>3. CASE d = c
      <4> DEFINE due == DueTickets(target[c])
                 n == Len(control)
      <4>1. /\ due \in SUBSET Tickets
            /\ \A t \in due : IsPublished(fifo[target[c]], t)
            /\ \/ Flushed(target[c], due)
               \/ Contains(queues, target[c])
               \/ \E j \in 1 .. n : control[j] = AddEntry(target[c])
        BY DEF DueTickets, Contains, Flushed
      <4>2. future'[d] = "pending" /\ before'[d] = due
        BY <1>0, <2>3, <3>3
      <4>3. /\ Len(control') = n + 1 /\ \A i \in 1 .. n : control'[i] = control[i]
            /\ \A i \in 1 .. n : control[i].promise # d
        BY <1>0, <2>1, <2>3, <3>3 DEF Promises, Sent
      <4>4. target' = target /\ fifo' = fifo /\ queues' = queues /\ n \in Nat
        BY <1>0, <2>1
      <4> HIDE DEF due, n
      <4>5. ASSUME NEW i \in 1 .. Len(control'), control'[i].promise = d
            PROVE  i = n + 1
        BY <4>3, <4>4, <4>5
      <4>6. \/ Flushed(target[d], before[d])'
            \/ Contains(queues', target'[d])
            \/ \E j \in 1 .. (n + 1) - 1 : control'[j] = AddEntry(target'[d])
        <5>1. CASE Flushed(target[c], due)
          BY <3>3, <4>2, <4>4, <5>1 DEF Flushed
        <5>2. CASE Contains(queues, target[c])
          BY <3>3, <4>4, <5>2
        <5>3. CASE \E j \in 1 .. n : control[j] = AddEntry(target[c])
          BY <3>3, <4>3, <4>4, <5>3
        <5> QED
          BY <4>1, <5>1, <5>2, <5>3
      <4>7. \A t \in before'[d] : IsPublished(fifo'[target'[d]], t)
        BY <3>3, <4>1, <4>2, <4>4
      <4> QED
        BY <4>2, <4>5, <4>6, <4>7 DEF Flushing, AddedBefore
    <3> QED
      BY <3>2, <3>3
  <2> QED
    BY <1>8, <2>2, <2>3, SendRemoveStep
<1> QED
  BY <1>2, <1>3, <1>4, <1>5, <1>6, <1>7, <1>8, StepKinds

(* What a stop flushes, of one queue.                                      *)
Stopping(q) ==
  /\ \A t \in stopBefore[q] : IsPublished(fifo[q], t)
  /\ ~ stopSignal =>
       \A i \in 1 .. Len(control) : control[i] = StopEntry =>
         Flushed(q, stopBefore[q]) \/ Contains(queues, q) \/ AddedBefore(i, q)
  /\ stopSignal =>
       \/ Flushed(q, stopBefore[q])
       \/ worker # "done" /\ \E i \in cursor .. Len(queues) : queues[i] = q

LEMMA StoppingKept ==
  ASSUME TypeParts, NEW q \in Queues, Stopping(q), Kept \/ UNCHANGED fifo,
         worker' = "done" => worker = "done",
         UNCHANGED <<control, queues, cursor, stopSignal, stopBefore>>
  PROVE  Stopping(q)'
<1>0. stopBefore[q] \in SUBSET Tickets
  BY DEF TypeParts, TypeOK
<1>1. Flushed(q, stopBefore[q]) => Flushed(q, stopBefore[q])'
  BY <1>0, FlushKept DEF Flushed
<1>2. (\A t \in stopBefore[q] : IsPublished(fifo[q], t))
         => \A t \in stopBefore'[q] : IsPublished(fifo'[q], t)
  BY <1>0, FlushKept
<1>3. \A i : AddedBefore(i, q)' <=> AddedBefore(i, q)
  BY DEF AddedBefore
<1> QED
  BY <1>1, <1>2, <1>3 DEF Stopping

LEMMA StoppingSent ==
  ASSUME TypeParts, NEW q \in Queues, Stopping(q), NEW e, Sent(e), e # StopEntry,
         UNCHANGED <<fifo, queues, cursor, worker, stopSignal, stopBefore>>
  PROVE  Stopping(q)'
<1>0. Len(control) \in Nat
  BY DEF TypeParts, TypeOK
<1>1. Flushed(q, stopBefore[q])' <=> Flushed(q, stopBefore[q])
  BY DEF Flushed
<1>2. ASSUME ~ stopSignal, NEW i \in 1 .. Len(control'), control'[i] = StopEntry
      PROVE  Flushed(q, stopBefore[q]) \/ Contains(queues, q) \/ AddedBefore(i, q)'
  <2>1. i \in 1 .. Len(control) /\ control[i] = StopEntry
    BY <1>0, <1>2 DEF Sent
  <2>2. AddedBefore(i, q)' <=> AddedBefore(i, q)
    BY <1>0, <2>1, AddedBeforeSent
  <2> QED
    BY <1>2, <2>1, <2>2 DEF Stopping
<1> QED
  BY <1>1, <1>2 DEF Stopping

LEMMA StoppingHandled ==
  ASSUME TypeParts, NEW q \in Queues, Stopping(q), Handles
  PROVE  Stopping(q)'
<1> DEFINE n == Len(control)
           b == stopBefore[q]
<1>0. /\ n \in Nat \ {0} /\ Len(control') = n - 1 /\ control[1] = Head(control)
      /\ \A i \in 1 .. n - 1 : control'[i] = control[i + 1]
      /\ UNCHANGED <<fifo, stopBefore>>
      /\ worker' # "done" /\ cursor = 1 /\ cursor' = 1
      /\ stopSignal' <=> stopSignal \/ Head(control) = StopEntry
  BY DEF Handles, Handled, history
<1>1. /\ TypeOK /\ PolledInOrder /\ b \in SUBSET Tickets
      /\ \A t \in b : IsPublished(fifo[q], t)
  BY DEF TypeParts, TypeOK, Stopping
<1>2. Flushed(q, stopBefore[q])' <=> Flushed(q, b)
  BY <1>0 DEF Flushed
<1>3. Contains(queues, q) => Contains(queues', q) \/ Flushed(q, b)
  BY <1>1, HandledQueue
<1>4. ASSUME ~ stopSignal', NEW i \in 1 .. Len(control'), control'[i] = StopEntry
      PROVE  Flushed(q, b) \/ Contains(queues', q) \/ AddedBefore(i, q)'
  <2>1. i + 1 \in 1 .. n /\ control[i + 1] = StopEntry /\ ~ stopSignal
    BY <1>0, <1>4
  <2>2. Flushed(q, b) \/ Contains(queues, q) \/ AddedBefore(i + 1, q)
    BY <2>1 DEF Stopping
  <2> QED
    BY <1>3, <1>4, <2>2, AddedBeforeHandled
<1>5. ASSUME stopSignal'
      PROVE  Flushed(q, b) \/ Contains(queues', q)
  <2>1. CASE stopSignal
    <3>1. Flushed(q, b) \/ Contains(queues, q)
      BY <1>0, <2>1 DEF Stopping, Contains
    <3> QED
      BY <1>3, <3>1
  <2>2. CASE ~ stopSignal
    <3>1. 1 \in 1 .. n /\ control[1] = StopEntry
      BY <1>0, <1>5, <2>2
    <3>2. ~ AddedBefore(1, q)
      BY DEF AddedBefore
    <3>3. Flushed(q, b) \/ Contains(queues, q)
      BY <2>2, <3>1, <3>2 DEF Stopping
    <3> QED
      BY <1>3, <3>3
  <2> QED
    BY <2>1, <2>2
<1>6. \A t \in stopBefore'[q] : IsPublished(fifo'[q], t)
  BY <1>0, <1>1
<1>7. Contains(queues', q) => \E i \in cursor' .. Len(queues') : queues'[i] = q
  BY <1>0 DEF Contains
<1> HIDE DEF n, b
<1> QED
  BY <1>0, <1>2, <1>4, <1>5, <1>6, <1>7 DEF Stopping

(* A round ends only when it has polled every queue.                       *)
LEMMA StoppingRound ==
  ASSUME TypeParts, NEW q \in Queues, Stopping(q), NextQueue \/ CheckStop
  PROVE  Stopping(q)'
<1>0. /\ TypeOK /\ PolledInOrder /\ stopBefore[q] \in SUBSET Tickets
      /\ Len(queues) \in Nat /\ cursor \in Nat
  BY DEF TypeParts, TypeOK
<1>1. UNCHANGED <<fifo, control, queues, stopSignal, stopBefore>>
  BY RoundStep DEF history
<1>2. Flushed(q, stopBefore[q])' <=> Flushed(q, stopBefore[q])
  BY <1>1 DEF Flushed
<1>3. \A i : AddedBefore(i, q)' <=> AddedBefore(i, q)
  BY <1>1 DEF AddedBefore
<1>4. ASSUME stopSignal, ~ Flushed(q, stopBefore[q])
      PROVE  worker' # "done" /\ \E i \in cursor' .. Len(queues') : queues'[i] = q
  <2>1. PICK i \in cursor .. Len(queues) : queues[i] = q
    BY <1>4 DEF Stopping
  <2>2. CASE NextQueue
    <3>1. /\ ~ MayPoll(queues[cursor]) /\ cursor' = cursor + 1 /\ worker' = "poll"
      BY <2>2 DEF NextQueue
    <3>2. i # cursor
      <4>1. SUFFICES ASSUME i = cursor
                     PROVE  Flushed(q, stopBefore[q])
        BY <1>4
      <4>2. ~ MayPoll(q) /\ \A t \in stopBefore[q] : IsPublished(fifo[q], t)
        BY <2>1, <3>1, <4>1 DEF Stopping
      <4> QED
        BY <1>0, <4>2, PolledOut
    <3>3. i \in cursor + 1 .. Len(queues)
      BY <1>0, <2>1, <3>2
    <3> QED
      BY <1>1, <2>1, <3>1, <3>3
  <2>3. CASE CheckStop
    BY <1>0, <2>1, <2>3 DEF CheckStop
  <2> QED
    BY <2>2, <2>3
<1> QED
  BY <1>1, <1>2, <1>3, <1>4 DEF Stopping

LEMMA StopsFlushStep ==
  ASSUME TypeParts, StopsFlush, [Next]_vars
  PROVE  StopsFlush'
<1> SUFFICES ASSUME NEW q \in Queues
             PROVE  Stopping(q)'
  <2>1. \A q \in Queues : Stopping(q)'
    OBVIOUS
  <2> QED
    BY <2>1 DEF StopsFlush, Stopping
<1>0. Len(control) \in Nat
  BY DEF TypeParts, TypeOK
<1>1. Stopping(q)
  BY DEF StopsFlush, Stopping
<1>2. CASE Idles
  BY <1>1, <1>2, StoppingKept DEF Idles, history
<1>3. CASE Handles
  BY <1>1, <1>3, StoppingHandled
<1>4. CASE NextQueue \/ CheckStop
  BY <1>1, <1>4, StoppingRound
<1>5. ASSUME NEW c \in Clients, SendStop(c)
      PROVE  Stopping(q)'
  <2>1. /\ Sent(StopEntry)
        /\ stopBefore' = IF StopSent THEN stopBefore ELSE [r \in Queues |-> DueTickets(r)]
        /\ UNCHANGED <<fifo, stopSignal, queues, cursor, worker>>
    BY <1>5, SendStopStep
  <2> DEFINE n == Len(control)
  <2>2. /\ Len(control') = n + 1 /\ n \in Nat /\ n' = n + 1
        /\ \A i \in 1 .. n : control'[i] = control[i]
    BY <1>0, <2>1 DEF Sent
  <2> HIDE DEF n
  <2>3. \A i \in 1 .. n : AddedBefore(i, q) => AddedBefore(n, q)'
    BY <2>2 DEF AddedBefore
  <2>4. \A i \in 1 .. n : AddedBefore(i, q) => AddedBefore(i, q)'
    BY <2>2 DEF AddedBefore
  <2>5. CASE StopSent
    <3>1. stopBefore' = stopBefore
      BY <2>1, <2>5
    <3>2. Flushed(q, stopBefore[q])' <=> Flushed(q, stopBefore[q])
      BY <2>1, <3>1 DEF Flushed
    <3>3. ASSUME ~ stopSignal, NEW i \in 1 .. Len(control'), control'[i] = StopEntry
          PROVE  Flushed(q, stopBefore[q]) \/ Contains(queues, q) \/ AddedBefore(i, q)'
      <4>1. CASE i # n + 1
        <5>1. i \in 1 .. n /\ control[i] = StopEntry
          BY <2>2, <3>3, <4>1
        <5> QED
          BY <1>1, <2>4, <3>3, <5>1 DEF Stopping, n
      <4>2. CASE i = n + 1
        <5>1. PICK j \in 1 .. n : control[j] = StopEntry
          BY <2>5, <3>3 DEF StopSent, Contains, n
        <5>2. Flushed(q, stopBefore[q]) \/ Contains(queues, q) \/ AddedBefore(j, q)
          BY <1>1, <3>3, <5>1 DEF Stopping, n
        <5>3. AddedBefore(i, q)' <=> AddedBefore(n, q)'
          BY <2>2, <4>2 DEF AddedBefore
        <5> QED
          BY <2>3, <5>2, <5>3
      <4> QED
        BY <4>1, <4>2
    <3> QED
      BY <1>1, <2>1, <3>1, <3>2, <3>3 DEF Stopping
  <2>6. CASE ~ StopSent
    <3> DEFINE due == DueTickets(q)
    <3>1. stopBefore'[q] = due /\ ~ stopSignal /\ \A i \in 1 .. n : control[i] # StopEntry
      BY <2>1, <2>6 DEF StopSent, Contains, n
    <3>2. /\ \A t \in due : IsPublished(fifo[q], t)
          /\ \/ Flushed(q, due)
             \/ Contains(queues, q)
             \/ \E j \in 1 .. n : control[j] = AddEntry(q)
      BY DEF DueTickets, Contains, Flushed, n
    <3> HIDE DEF due
    <3>3. ASSUME NEW i \in 1 .. Len(control'), control'[i] = StopEntry
          PROVE  i = n + 1
      BY <2>2, <3>1, <3>3
    <3>4. (\E j \in 1 .. n : control[j] = AddEntry(q)) => AddedBefore(n, q)'
      BY <2>2 DEF AddedBefore
    <3>5. Flushed(q, stopBefore[q])' <=> Flushed(q, due)
      BY <2>1, <3>1 DEF Flushed
    <3>6. ASSUME NEW i \in 1 .. Len(control'), control'[i] = StopEntry
          PROVE  Flushed(q, due) \/ Contains(queues, q) \/ AddedBefore(i, q)'
      <4>1. AddedBefore(i, q)' <=> AddedBefore(n, q)'
        BY <2>2, <3>3, <3>6 DEF AddedBefore
      <4> QED
        BY <3>2, <3>4, <4>1
    <3> QED
      BY <2>1, <3>1, <3>2, <3>5, <3>6 DEF Stopping
  <2> QED
    BY <2>5, <2>6
<1>6. ASSUME NEW c \in Clients, NEW r \in Queues, AddQueue(c, r)
      PROVE  Stopping(q)'
  <2>1. Sent(AddEntry(r)) /\ UNCHANGED <<fifo, queues, cursor, worker, stopSignal, stopBefore>>
    BY <1>6, AddQueueStep
  <2>2. AddEntry(r) # StopEntry
    BY Distinct
  <2> QED
    BY <1>1, <2>1, <2>2, StoppingSent
<1>7. ASSUME NEW c \in Clients, SendRemove(c)
      PROVE  Stopping(q)'
  <2>1. UNCHANGED <<fifo, queues, cursor, worker, stopSignal, stopBefore>>
    BY <1>7, Zenon DEF SendRemove, dataVars, flags, workerVars
  <2>2. PICK d \in {c, NoClient} : Sent(RemoveEntry(target[c], d))
    BY <1>7, SendRemoveStep
  <2>3. RemoveEntry(target[c], d) # StopEntry
    BY Distinct
  <2> QED
    BY <1>1, <2>1, <2>2, <2>3, StoppingSent
<1>8. ASSUME NEW c \in Clients, NEW r \in Queues, RemoveQueue(c, r)
      PROVE  Stopping(q)'
  BY <1>1, <1>8, StoppingKept DEF RemoveQueue, dataVars, flags, workerVars, history
<1> QED
  BY <1>2, <1>3, <1>4, <1>5, <1>6, <1>7, <1>8, StepKinds

-----------------------------------------------------------------------------
(***************************************************************************)
(* The theorems.                                                           *)
(***************************************************************************)
LEMMA InitIInv == Init => IInv
<1> SUFFICES ASSUME Init
             PROVE  IInv
  OBVIOUS
<1>0. /\ control = <<>> /\ queues = <<>> /\ Len(control) = 0 /\ Len(queues) = 0
      /\ future = [c \in Clients |-> "none"] /\ at = [c \in Clients |-> "idle"]
      /\ fifo = [q \in Queues |-> EmptyQueue] /\ wanted = {} /\ stopSignal = FALSE
      /\ worker = "none" /\ cursor = 1 /\ stopBefore = [q \in Queues |-> {}]
  BY DEF Init
<1>1. EmptyQueue \in QueueType
  BY DEF EmptyQueue, QueueType, Tickets
<1>2. TypeOK
  <2>1. running \in BOOLEAN /\ stopSignal \in BOOLEAN /\ terminated \in BOOLEAN
    BY DEF Init
  <2>2. fifo \in [Queues -> QueueType] /\ \A q \in Queues : fifo[q].claimed <= fifo[q].reserved
    BY <1>0, <1>1 DEF EmptyQueue
  <2>3. IsInjective(queues)
    BY <1>0 DEF IsInjective
  <2>4. control \in Seq(ControlEntries) /\ queues \in Seq(Queues) /\ cursor \in 1 .. Len(queues) + 1
    BY <1>0
  <2>5. calls \in 0 .. MaxCalls
    BY DEF Init
  <2>6. /\ before \in [Clients -> SUBSET Tickets] /\ addedSince \in [Clients -> BOOLEAN]
        /\ stopBefore \in [Queues -> SUBSET Tickets] /\ wanted \subseteq Queues
        /\ target \in [Clients -> Queues \cup {NoQueue}]
    BY DEF Init
  <2> QED
    BY <1>0, <2>1, <2>2, <2>3, <2>4, <2>5, <2>6 DEF TypeOK
<1>3. PolledInOrder
  BY <1>0 DEF PolledInOrder, EmptyQueue, IsPublished, IsDelivered, Tickets
<1>4. Rounds /\ Promises
  BY <1>0 DEF Rounds, Promises
<1>5. RequestsApplied
  BY <1>0 DEF RequestsApplied, WillPoll, Contains
<1>6. RemovedMeansSilent /\ NoLaterAdd /\ RemovalsFlush /\ RemoveFlushes
  BY <1>0 DEF RemovedMeansSilent, NoLaterAdd, RemovalsFlush, RemoveFlushes, Contains
<1>7. StopsFlush
  BY <1>0 DEF StopsFlush
<1> QED
  BY <1>2, <1>3, <1>4, <1>5, <1>6, <1>7 DEF IInv

LEMMA StepIInv == IInv /\ [Next]_vars => IInv'
<1> SUFFICES ASSUME IInv, [Next]_vars
             PROVE  IInv'
  OBVIOUS
<1>1. /\ TypeParts /\ RequestsApplied /\ RemovedMeansSilent /\ NoLaterAdd
      /\ RemovalsFlush /\ RemoveFlushes /\ StopsFlush
  BY DEF IInv, TypeParts
<1>2. TypeOK' /\ PolledInOrder' /\ Rounds' /\ Promises'
  BY <1>1, TypeStep, PolledInOrderStep, RoundsStep, PromisesStep
<1>3. RequestsApplied'
  BY <1>1, RequestsAppliedStep
<1>4. RemovedMeansSilent' /\ NoLaterAdd'
  BY <1>1, SilentStep
<1>5. RemovalsFlush' /\ RemoveFlushes'
  BY <1>1, RemovalsFlushStep
<1>6. StopsFlush'
  BY <1>1, StopsFlushStep
<1> QED
  BY <1>2, <1>3, <1>4, <1>5, <1>6 DEF IInv

(* The invariant of the poller holds in every state of every behaviour.    *)
THEOREM Inductive == Spec => []IInv
<1>1. Init => IInv
  BY InitIInv
<1>2. IInv /\ [Next]_vars => IInv'
  BY StepIInv
<1> QED
  BY <1>1, <1>2, PTL DEF Spec

(* The variables keep their types: among them m_queues, in which add never *)
(* puts a queue twice, and the rings, in which the poller is never ahead   *)
(* of the pushes.                                                          *)
THEOREM Types == Spec => []TypeOK
<1>1. IInv => TypeOK
  BY DEF IInv
<1> QED
  BY <1>1, Inductive, PTL

(* Whatever the order in which clients send requests and the thread takes  *)
(* them, m_queues becomes what the requests say.                           *)
THEOREM Requests == Spec => []RequestsApplied
<1>1. IInv => RequestsApplied
  BY DEF IInv
<1> QED
  BY <1>1, Inductive, PTL

(* A client that has the answer to its removeQueue may destroy the queue:  *)
(* the thread does not have it any more.                                   *)
THEOREM Silence == Spec => []RemovedMeansSilent
<1>1. IInv => RemovedMeansSilent
  BY DEF IInv
<1> QED
  BY <1>1, Inductive, PTL

(* The answer to removeQueue comes after the handler has had everything    *)
(* that was published before the call.                                     *)
THEOREM RemovalFlush == Spec => []RemoveFlushes
<1>1. IInv => RemoveFlushes
  BY DEF IInv
<1> QED
  BY <1>1, Inductive, PTL

(* The thread ends after its handlers have had everything that was         *)
(* published before the first stop, in every queue.                        *)
THEOREM StopFlush == Spec => []StopFlushes
<1>1. IInv => StopFlushes
  <2>1. SUFFICES ASSUME IInv, worker = "done", NEW q \in Queues
                 PROVE  Flushed(q, stopBefore[q])
    BY DEF StopFlushes
  <2> QED
    BY <2>1 DEF IInv, Rounds, StopsFlush
<1> QED
  BY <1>1, Inductive, PTL

=============================================================================
