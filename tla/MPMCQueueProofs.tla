--------------------------- MODULE MPMCQueueProofs ---------------------------
(***************************************************************************)
(* Proofs about MPMCQueue, for every number of threads, every capacity and *)
(* every number of pushes.                                                 *)
(***************************************************************************)
EXTENDS MPMCQueue, TLAPS

USE CapacityAssumption, MaxTicketsAssumption, NothingAssumption, RolesAssumption

-----------------------------------------------------------------------------
(***************************************************************************)
(* Why the properties hold: the invariant that the steps keep.             *)
(***************************************************************************)

(* The threads that own the ticket they hold, and those that try to.       *)
OwnsPush(p) == p \in Producers /\ pc[p] \in {"push_wait", "construct", "publish"}
OwnsPop(c)  == c \in Consumers /\ pc[c] \in {"pop_wait", "move", "release"}
Trying(p)   == pc[p] \in {"try_check", "try_cas", "try_reload"}

(* No ticket has two owners, so no entry is pushed or popped twice.        *)
TicketsOwnedOnce ==
  /\ \A p \in Producers : OwnsPush(p) => ticket[p] < head
  /\ \A c \in Consumers : OwnsPop(c) => ticket[c] < tail
  /\ \A p, r \in Producers :
       OwnsPush(p) /\ OwnsPush(r) /\ ticket[p] = ticket[r] => p = r
  /\ \A c, d \in Consumers :
       OwnsPop(c) /\ OwnsPop(d) /\ ticket[c] = ticket[d] => c = d
  /\ \A p \in Producers : Trying(p) => ticket[p] <= head
  /\ \A c \in Consumers : Trying(c) => ticket[c] <= tail

(* A slot's counter has not passed a ticket that nobody has taken yet...   *)
UntakenAhead ==
  \A t \in 0 .. MaxTickets :
    /\ t >= head => turn[Idx(t)] <= EmptyTurn(t)
    /\ t >= tail => turn[Idx(t)] <= FullTurn(t)

(* ... nor one whose owner is still at work...                             *)
OwnedAhead ==
  /\ \A p \in Producers : OwnsPush(p) => turn[Idx(ticket[p])] <= EmptyTurn(ticket[p])
  /\ \A c \in Consumers : OwnsPop(c) => turn[Idx(ticket[c])] <= FullTurn(ticket[c])

(* ... and has passed every other ticket.                                  *)
FinishedBehind ==
  \A t \in Tickets :
    /\ t < head => \/ IsPublished(t)
                   \/ \E p \in Producers : OwnsPush(p) /\ ticket[p] = t
    /\ t < tail => \/ turn[Idx(t)] > FullTurn(t)
                   \/ \E c \in Consumers : OwnsPop(c) /\ ticket[c] = t

(* A thread works in a slot, or is about to claim it, when it is its turn. *)
WorkInTurn ==
  /\ \A p \in Producers : Writing(p) => Writable(ticket[p])
  /\ \A c \in Consumers : Reading(c) => Readable(ticket[c])
  /\ \A p \in Producers :
       pc[p] = "try_cas" /\ ticket[p] = head => Writable(ticket[p])
  /\ \A c \in Consumers :
       pc[c] = "try_cas" /\ ticket[c] = tail => Readable(ticket[c])

TurnsCount ==
  /\ UntakenAhead
  /\ OwnedAhead
  /\ FinishedBehind
  /\ WorkInTurn

(* What is pushed is what the caller passed.                               *)
Arguments ==
  /\ \A p \in Producers : pc[p] # "idle" => arg[p] \in Items
  /\ \A p \in Producers : OwnsPush(p) => sent[ticket[p]] = arg[p]
  /\ \A t \in Tickets : t < head => sent[t] \in Items

(* The slot of a published ticket holds its entry until the pop moves it   *)
(* out; a slot whose push may construct holds nothing until it does.       *)
SlotContents ==
  /\ \A p \in Producers : pc[p] = "publish" => storage[Idx(ticket[p])] = arg[p]
  /\ \A c \in Consumers : pc[c] = "release" => storage[Idx(ticket[c])] = Nothing
  /\ \A t \in Tickets :
       /\ Writable(t) => \/ storage[Idx(t)] = Nothing
                         \/ \E p \in Producers : pc[p] = "publish" /\ ticket[p] = t
       /\ Readable(t) => \/ storage[Idx(t)] = sent[t]
                         \/ \E c \in Consumers : pc[c] = "release" /\ ticket[c] = t

(* What was moved out is what was sent.                                    *)
Receipts ==
  /\ \A c \in Consumers :
       pc[c] = "release" => received[ticket[c]] = sent[ticket[c]]
  /\ \A t \in Tickets :
       /\ turn[Idx(t)] > FullTurn(t) => received[t] = sent[t]
       /\ received[t] # Nothing =>
            \/ turn[Idx(t)] > FullTurn(t)
            \/ \E c \in Consumers : pc[c] = "release" /\ ticket[c] = t

(* A try operation that is about to fail has seen, in its own course, the  *)
(* slot it needs in a state that justifies the failure.                    *)
FailureSeen ==
  /\ \A p \in Producers :
       pc[p] = "try_reload" /\ ticket[p] = head => blocked[p]
  /\ \A c \in Consumers :
       pc[c] = "try_reload" /\ ticket[c] = tail => blocked[c]

IInv ==
  /\ TypeOK
  /\ TicketsOwnedOnce
  /\ TurnsCount
  /\ Arguments
  /\ SlotContents
  /\ Receipts
  /\ FailureSeen

-----------------------------------------------------------------------------
(***************************************************************************)
(* Slots and rounds.                                                       *)
(***************************************************************************)

(* What the producers bring are items.                                     *)
LEMMA Brought == \A p \in Producers : \A v \in Brings[p] : v \in Items
BY BringsAssumption

(* Multiplication by the capacity leaves room for a whole round.           *)
LEMMA Monotone ==
  ASSUME NEW a \in Nat, NEW b \in Nat, a < b
  PROVE  Capacity * a + Capacity <= Capacity * b
<1>1. b - a - 1 \in Nat
  OBVIOUS
<1>2. Capacity * b = Capacity * a + Capacity + Capacity * (b - a - 1)
  OBVIOUS
<1>3. Capacity * (b - a - 1) \in Nat
  BY <1>1
<1> QED
  BY <1>2, <1>3

(* A ticket is determined by its slot and its round.                       *)
LEMMA SlotAndRound ==
  ASSUME NEW t \in Nat
  PROVE  /\ Idx(t) \in Slots
         /\ Turn(t) \in Nat
         /\ t = Capacity * Turn(t) + Idx(t)
BY DEF Idx, Turn, Slots

(* In one slot, a later ticket belongs to a later round.                   *)
LEMMA LaterRound ==
  ASSUME NEW s \in Nat, NEW t \in Nat, Idx(s) = Idx(t), s < t
  PROVE  Turn(s) < Turn(t)
<1>1. /\ Turn(s) \in Nat /\ Turn(t) \in Nat /\ Idx(s) \in Int
      /\ s = Capacity * Turn(s) + Idx(s)
      /\ t = Capacity * Turn(t) + Idx(t)
  BY SlotAndRound DEF Slots
<1>2. Capacity * Turn(s) < Capacity * Turn(t)
  BY <1>1
<1>3. CASE Turn(t) < Turn(s)
  BY <1>1, <1>2, <1>3, Monotone
<1>4. CASE Turn(t) = Turn(s)
  BY <1>2, <1>4, <1>1
<1> QED
  BY <1>1, <1>3, <1>4

(* Two tickets of one slot and one round are the same ticket.              *)
LEMMA SameRound ==
  ASSUME NEW s \in Nat, NEW t \in Nat, Idx(s) = Idx(t), Turn(s) = Turn(t)
  PROVE  s = t
BY SlotAndRound

-----------------------------------------------------------------------------
(***************************************************************************)
(* The type invariant.                                                     *)
(***************************************************************************)

(* The tickets that threads hold are tickets of the run.                   *)
LEMMA OwnedTickets ==
  ASSUME TypeOK, TicketsOwnedOnce
  PROVE  /\ \A p \in Producers : OwnsPush(p) => ticket[p] \in Tickets
         /\ \A c \in Consumers : OwnsPop(c) => ticket[c] \in Tickets
BY DEF TypeOK, TicketsOwnedOnce, Tickets, Threads

(* Every step keeps the types.                                             *)
LEMMA TypeStep ==
  ASSUME TypeOK, TicketsOwnedOnce, [Next]_vars
  PROVE  TypeOK'
<1> USE DEF TypeOK, Threads, Goto, Return, ProducerLabels, ConsumerLabels,
            queueVars, history
<1>slot. \A x \in Threads : Idx(ticket[x]) \in Slots /\ Turn(ticket[x]) \in Nat
  BY SlotAndRound
<1>own. /\ \A p \in Producers : OwnsPush(p) => ticket[p] \in Tickets
        /\ \A c \in Consumers : OwnsPop(c) => ticket[c] \in Tickets
  BY OwnedTickets
<1>1. ASSUME NEW p \in Producers, NEW v \in Items, Push(p, v)
      PROVE  TypeOK'
  BY <1>1 DEF Push, TakeHead, Tickets
<1>2. ASSUME NEW p \in Producers, NEW v \in Items, TryPush(p, v)
      PROVE  TypeOK'
  BY <1>2 DEF TryPush
<1>3. ASSUME NEW p \in Producers, PushWait(p)
      PROVE  TypeOK'
  BY <1>3 DEF PushWait
<1>4. ASSUME NEW p \in Producers, TryPushCheck(p)
      PROVE  TypeOK'
  BY <1>4 DEF TryPushCheck, Writable
<1>5. ASSUME NEW p \in Producers, TryPushCas(p)
      PROVE  TypeOK'
  <2>1. CASE head = ticket[p]
    <3>1. /\ pc' = [pc EXCEPT ![p] = "construct"]
          /\ head' = head + 1 /\ head < MaxTickets
          /\ ticket' = [ticket EXCEPT ![p] = head]
          /\ sent' = [sent EXCEPT ![head] = arg[p]]
      BY <1>5, <2>1 DEF TryPushCas, TakeHead
    <3> QED
      BY <1>5, <3>1, <2>1 DEF TryPushCas, Tickets
  <2>2. CASE head # ticket[p]
    <3>1. /\ pc' = [pc EXCEPT ![p] = "try_check"]
          /\ ticket' = [ticket EXCEPT ![p] = head]
          /\ UNCHANGED <<head, sent>>
      BY <1>5, <2>2 DEF TryPushCas, TakeHead
    <3> QED
      BY <1>5, <3>1 DEF TryPushCas
  <2> QED
    BY <2>1, <2>2
<1>6. ASSUME NEW p \in Producers, TryPushReload(p)
      PROVE  TypeOK'
  <2>1. CASE head = ticket[p]
    <3>1. /\ pc' = [pc EXCEPT ![p] = "idle"]
          /\ ticket' = [ticket EXCEPT ![p] = 0]
          /\ arg' = [arg EXCEPT ![p] = Nothing]
          /\ blocked' = [blocked EXCEPT ![p] = FALSE]
      BY <1>6, <2>1 DEF TryPushReload
    <3> QED
      BY <1>6, <3>1, <2>1 DEF TryPushReload, Tickets
  <2>2. CASE head # ticket[p]
    <3>1. /\ pc' = [pc EXCEPT ![p] = "try_check"]
          /\ ticket' = [ticket EXCEPT ![p] = head]
          /\ UNCHANGED <<arg, blocked>>
      BY <1>6, <2>2 DEF TryPushReload
    <3> QED
      BY <1>6, <3>1 DEF TryPushReload
  <2> QED
    BY <2>1, <2>2
<1>7. ASSUME NEW p \in Producers, Construct(p)
      PROVE  TypeOK'
  BY <1>7, <1>slot DEF Construct
<1>8. ASSUME NEW p \in Producers, Publish(p)
      PROVE  TypeOK'
  BY <1>8, <1>slot DEF Publish, FullTurn
<1>9. ASSUME NEW c \in Consumers, Pop(c)
      PROVE  TypeOK'
  BY <1>9 DEF Pop, TakeTail
<1>10. ASSUME NEW c \in Consumers, TryPop(c)
       PROVE  TypeOK'
  BY <1>10 DEF TryPop
<1>11. ASSUME NEW c \in Consumers, PopWait(c)
       PROVE  TypeOK'
  BY <1>11 DEF PopWait
<1>12. ASSUME NEW c \in Consumers, TryPopCheck(c)
       PROVE  TypeOK'
  BY <1>12 DEF TryPopCheck, IsPublished
<1>13. ASSUME NEW c \in Consumers, TryPopCas(c)
       PROVE  TypeOK'
  BY <1>13 DEF TryPopCas, TakeTail
<1>14. ASSUME NEW c \in Consumers, TryPopReload(c)
       PROVE  TypeOK'
  <2>1. CASE tail = ticket[c]
    <3>1. /\ pc' = [pc EXCEPT ![c] = "idle"]
          /\ ticket' = [ticket EXCEPT ![c] = 0]
          /\ arg' = [arg EXCEPT ![c] = Nothing]
          /\ blocked' = [blocked EXCEPT ![c] = FALSE]
      BY <1>14, <2>1 DEF TryPopReload
    <3> QED
      BY <1>14, <3>1, <2>1 DEF TryPopReload, Tickets
  <2>2. CASE tail # ticket[c]
    <3>1. /\ pc' = [pc EXCEPT ![c] = "try_check"]
          /\ ticket' = [ticket EXCEPT ![c] = tail]
          /\ UNCHANGED <<arg, blocked>>
      BY <1>14, <2>2 DEF TryPopReload
    <3> QED
      BY <1>14, <3>1 DEF TryPopReload
  <2> QED
    BY <2>1, <2>2
<1>15. ASSUME NEW c \in Consumers, Move(c)
       PROVE  TypeOK'
  BY <1>15, <1>slot, <1>own DEF Move, OwnsPop
<1>16. ASSUME NEW c \in Consumers, Release(c)
       PROVE  TypeOK'
  BY <1>16, <1>slot DEF Release, FullTurn
<1>17. CASE UNCHANGED vars
  BY <1>17 DEF vars
<1> QED
  BY <1>1, <1>2, <1>3, <1>4, <1>5, <1>6, <1>7, <1>8, <1>9, <1>10, <1>11, <1>12,
     <1>13, <1>14, <1>15, <1>16, <1>17, Brought DEF Next, ContinuePush, ContinuePop

(* A ticket keeps one owner. *)
LEMMA OwnersStep ==
  ASSUME TypeOK, TicketsOwnedOnce, [Next]_vars
  PROVE  TicketsOwnedOnce'
<1> USE DEF TicketsOwnedOnce, TypeOK, OwnsPush, OwnsPop, Trying, Threads, Goto,
            Return, ProducerLabels, ConsumerLabels, queueVars, history
<1>1. ASSUME NEW p \in Producers, NEW v \in Items, Push(p, v)
      PROVE  TicketsOwnedOnce'
  BY <1>1 DEF Push, TakeHead
<1>2. ASSUME NEW p \in Producers, NEW v \in Items, TryPush(p, v)
      PROVE  TicketsOwnedOnce'
  BY <1>2 DEF TryPush
<1>3. ASSUME NEW p \in Producers, PushWait(p)
      PROVE  TicketsOwnedOnce'
  BY <1>3 DEF PushWait
<1>4. ASSUME NEW p \in Producers, TryPushCheck(p)
      PROVE  TicketsOwnedOnce'
  BY <1>4 DEF TryPushCheck
<1>5. ASSUME NEW p \in Producers, TryPushCas(p)
      PROVE  TicketsOwnedOnce'
  BY <1>5 DEF TryPushCas, TakeHead
<1>6. ASSUME NEW p \in Producers, TryPushReload(p)
      PROVE  TicketsOwnedOnce'
  BY <1>6 DEF TryPushReload
<1>7. ASSUME NEW p \in Producers, Construct(p)
      PROVE  TicketsOwnedOnce'
  BY <1>7 DEF Construct
<1>8. ASSUME NEW p \in Producers, Publish(p)
      PROVE  TicketsOwnedOnce'
  BY <1>8 DEF Publish
<1>9. ASSUME NEW c \in Consumers, Pop(c)
      PROVE  TicketsOwnedOnce'
  BY <1>9 DEF Pop, TakeTail
<1>10. ASSUME NEW c \in Consumers, TryPop(c)
       PROVE  TicketsOwnedOnce'
  BY <1>10 DEF TryPop
<1>11. ASSUME NEW c \in Consumers, PopWait(c)
       PROVE  TicketsOwnedOnce'
  BY <1>11 DEF PopWait
<1>12. ASSUME NEW c \in Consumers, TryPopCheck(c)
       PROVE  TicketsOwnedOnce'
  BY <1>12 DEF TryPopCheck
<1>13. ASSUME NEW c \in Consumers, TryPopCas(c)
       PROVE  TicketsOwnedOnce'
  BY <1>13 DEF TryPopCas, TakeTail
<1>14. ASSUME NEW c \in Consumers, TryPopReload(c)
       PROVE  TicketsOwnedOnce'
  BY <1>14 DEF TryPopReload
<1>15. ASSUME NEW c \in Consumers, Move(c)
       PROVE  TicketsOwnedOnce'
  BY <1>15 DEF Move
<1>16. ASSUME NEW c \in Consumers, Release(c)
       PROVE  TicketsOwnedOnce'
  BY <1>16 DEF Release
<1>17. CASE UNCHANGED vars
  BY <1>17 DEF vars
<1> QED
  BY <1>1, <1>2, <1>3, <1>4, <1>5, <1>6, <1>7, <1>8, <1>9, <1>10, <1>11, <1>12, <1>13,
     <1>14, <1>15, <1>16, <1>17, Brought DEF Next, ContinuePush, ContinuePop

-----------------------------------------------------------------------------
(***************************************************************************)
(* The slots' counters.                                                    *)
(***************************************************************************)

(* A step of thread x leaves the other threads where they are.             *)
Alone(x) ==
  \A y \in Threads \ {x} :
    /\ pc'[y] = pc[y]
    /\ ticket'[y] = ticket[y]
    /\ OwnsPush(y)' <=> OwnsPush(y)
    /\ OwnsPop(y)' <=> OwnsPop(y)
    /\ Writing(y)' <=> Writing(y)
    /\ Reading(y)' <=> Reading(y)

(* A step that moves one thread leaves the others alone.                   *)
LEMMA StepAlone ==
  ASSUME TypeOK, NEW x \in Threads, NEW l, NEW t,
         pc' = [pc EXCEPT ![x] = l],
         ticket' = ticket \/ ticket' = [ticket EXCEPT ![x] = t]
  PROVE  Alone(x)
BY DEF Alone, TypeOK, OwnsPush, OwnsPop, Writing, Reading

(* What a slot's counter says of two of its tickets.                       *)
LEMMA TwoTickets ==
  ASSUME NEW s \in Nat, NEW t \in Nat, Idx(s) = Idx(t)
  PROVE  /\ Turn(s) \in Nat /\ Turn(t) \in Nat
         /\ EmptyTurn(s) = 2 * Turn(s) /\ FullTurn(s) = 2 * Turn(s) + 1
         /\ EmptyTurn(t) = 2 * Turn(t) /\ FullTurn(t) = 2 * Turn(t) + 1
         /\ s < t => Turn(s) < Turn(t)
         /\ s # t => Turn(s) # Turn(t)
BY SlotAndRound, LaterRound, SameRound DEF EmptyTurn, FullTurn

(* Taking a ticket from head_: it was untaken, and is owned now.           *)
LEMMA TakeHeadTurns ==
  ASSUME TypeOK, TicketsOwnedOnce, TurnsCount, NEW p \in Producers, NEW l,
         head < MaxTickets, head' = head + 1, UNCHANGED <<tail, turn>>,
         ~ OwnsPush(p),
         ticket' = [ticket EXCEPT ![p] = head], pc' = [pc EXCEPT ![p] = l],
         \/ l = "push_wait"
         \/ l = "construct" /\ Writable(head)
  PROVE  TurnsCount'
<1>1. Alone(p)
  BY StepAlone DEF Threads
<1>2. /\ pc'[p] = l /\ ticket'[p] = head /\ OwnsPush(p)' /\ ~ OwnsPop(p)' /\ ~ Reading(p)'
      /\ p \notin Consumers /\ p \in Threads
  BY DEF TypeOK, Threads, OwnsPush, OwnsPop, Reading
<1>3. head \in Tickets /\ head \in Nat /\ tail \in Nat
  BY DEF TypeOK, Tickets
<1>4. UntakenAhead'
  BY <1>3 DEF TurnsCount, UntakenAhead, EmptyTurn, FullTurn, Tickets
<1>5. OwnedAhead'
  BY <1>1, <1>2, <1>3 DEF TurnsCount, UntakenAhead, OwnedAhead, Alone, Threads,
                         EmptyTurn, FullTurn
<1>6. FinishedBehind'
  <2> SUFFICES ASSUME NEW t \in Tickets
               PROVE  /\ t < head' => \/ IsPublished(t)'
                                      \/ \E r \in Producers : OwnsPush(r)' /\ ticket'[r] = t
                      /\ t < tail' => \/ turn'[Idx(t)] > FullTurn(t)
                                      \/ \E c \in Consumers : OwnsPop(c)' /\ ticket'[c] = t
    BY DEF FinishedBehind, FullTurn
  <2>1. CASE t = head
    BY <1>1, <1>2, <1>3, <2>1 DEF TurnsCount, FinishedBehind, Alone, Threads
  <2>2. CASE t # head
    BY <1>1, <1>2, <1>3, <2>2
       DEF TurnsCount, FinishedBehind, Alone, Threads, Tickets, IsPublished, FullTurn
  <2> QED
    BY <2>1, <2>2
<1>7. WorkInTurn'
  <2>1. \A r \in Producers : Writing(r)' => Writable(ticket[r])'
    BY <1>1, <1>2 DEF TurnsCount, WorkInTurn, Alone, Threads, Writing, Writable, EmptyTurn
  <2>2. \A r \in Producers : ~ (pc'[r] = "try_cas" /\ ticket'[r] = head')
    BY <1>1, <1>2, <1>3 DEF TicketsOwnedOnce, Alone, Threads, Trying, TypeOK
  <2>3. \A c \in Consumers : /\ Reading(c)' => Readable(ticket[c])'
                             /\ pc'[c] = "try_cas" /\ ticket'[c] = tail' => Readable(ticket[c])'
    BY <1>1, <1>2 DEF TurnsCount, WorkInTurn, Alone, Threads, Readable, FullTurn
  <2> QED
    BY <2>1, <2>2, <2>3 DEF WorkInTurn
<1> QED
  BY <1>4, <1>5, <1>6, <1>7 DEF TurnsCount

(* The same for tail_.                                                     *)
LEMMA TakeTailTurns ==
  ASSUME TypeOK, TicketsOwnedOnce, TurnsCount, NEW c \in Consumers, NEW l,
         tail < MaxTickets, tail' = tail + 1, UNCHANGED <<head, turn>>,
         ~ OwnsPop(c),
         ticket' = [ticket EXCEPT ![c] = tail], pc' = [pc EXCEPT ![c] = l],
         \/ l = "pop_wait"
         \/ l = "move" /\ Readable(tail)
  PROVE  TurnsCount'
<1>1. Alone(c)
  BY StepAlone DEF Threads
<1>2. /\ pc'[c] = l /\ ticket'[c] = tail /\ OwnsPop(c)' /\ ~ OwnsPush(c)' /\ ~ Writing(c)'
      /\ c \notin Producers /\ c \in Threads
  BY DEF TypeOK, Threads, OwnsPush, OwnsPop, Writing
<1>3. tail \in Tickets /\ head \in Nat /\ tail \in Nat
  BY DEF TypeOK, Tickets
<1>4. UntakenAhead'
  BY <1>3 DEF TurnsCount, UntakenAhead, EmptyTurn, FullTurn, Tickets
<1>5. OwnedAhead'
  BY <1>1, <1>2, <1>3 DEF TurnsCount, UntakenAhead, OwnedAhead, Alone, Threads,
                         EmptyTurn, FullTurn
<1>6. FinishedBehind'
  <2> SUFFICES ASSUME NEW t \in Tickets
               PROVE  /\ t < head' => \/ IsPublished(t)'
                                      \/ \E r \in Producers : OwnsPush(r)' /\ ticket'[r] = t
                      /\ t < tail' => \/ turn'[Idx(t)] > FullTurn(t)
                                      \/ \E d \in Consumers : OwnsPop(d)' /\ ticket'[d] = t
    BY DEF FinishedBehind, FullTurn
  <2>1. CASE t = tail
    BY <1>1, <1>2, <1>3, <2>1
       DEF TurnsCount, FinishedBehind, Alone, Threads, IsPublished, FullTurn
  <2>2. CASE t # tail
    BY <1>1, <1>2, <1>3, <2>2
       DEF TurnsCount, FinishedBehind, Alone, Threads, Tickets, IsPublished, FullTurn
  <2> QED
    BY <2>1, <2>2
<1>7. WorkInTurn'
  <2>1. \A d \in Consumers : Reading(d)' => Readable(ticket[d])'
    BY <1>1, <1>2 DEF TurnsCount, WorkInTurn, Alone, Threads, Reading, Readable, FullTurn
  <2>2. \A d \in Consumers : ~ (pc'[d] = "try_cas" /\ ticket'[d] = tail')
    BY <1>1, <1>2, <1>3 DEF TicketsOwnedOnce, Alone, Threads, Trying, TypeOK
  <2>3. \A p \in Producers : /\ Writing(p)' => Writable(ticket[p])'
                             /\ pc'[p] = "try_cas" /\ ticket'[p] = head' => Writable(ticket[p])'
    BY <1>1, <1>2 DEF TurnsCount, WorkInTurn, Alone, Threads, Writable, EmptyTurn
  <2> QED
    BY <2>1, <2>2, <2>3 DEF WorkInTurn
<1> QED
  BY <1>4, <1>5, <1>6, <1>7 DEF TurnsCount

(* The counter passes the ticket of the push, and no other ticket.         *)
LEMMA PublishTurns ==
  ASSUME TypeOK, TicketsOwnedOnce, TurnsCount, NEW p \in Producers, Publish(p)
  PROVE  TurnsCount'
<1> DEFINE s == ticket[p]
<1>1. /\ s \in Tickets /\ s \in Nat /\ s < head /\ Writable(s) /\ OwnsPush(p)
      /\ p \in Threads /\ p \notin Consumers /\ turn \in [Slots -> Nat]
      /\ head \in Nat /\ tail \in Nat
  BY OwnedTickets
     DEF Publish, TypeOK, Threads, OwnsPush, Writing, TicketsOwnedOnce, TurnsCount,
        WorkInTurn
<1>2. /\ pc'[p] = "idle" /\ ~ OwnsPush(p)' /\ ~ OwnsPop(p)' /\ ~ Writing(p)' /\ ~ Reading(p)'
      /\ UNCHANGED <<head, tail>>
      /\ turn' = [turn EXCEPT ![Idx(s)] = FullTurn(s)]
  BY <1>1 DEF Publish, Return, Goto, TypeOK, Threads, OwnsPush, OwnsPop, Writing, Reading
<1>3. Alone(p)
  BY <1>1, StepAlone DEF Publish, Return, Goto
<1>4. \A t \in Nat :
        /\ Idx(t) \in Slots /\ Turn(t) \in Nat
        /\ turn[Idx(t)] \in Nat
        /\ Idx(t) # Idx(s) => turn'[Idx(t)] = turn[Idx(t)]
        /\ Idx(t) = Idx(s) => turn[Idx(t)] = 2 * Turn(s) /\ turn'[Idx(t)] = 2 * Turn(s) + 1
  BY <1>1, <1>2, SlotAndRound DEF Writable, EmptyTurn, FullTurn
<1>5. \A t \in Nat : Idx(t) = Idx(s) => /\ s < t => Turn(s) < Turn(t)
                                        /\ s # t => Turn(s) # Turn(t)
  BY <1>1, TwoTickets
<1> HIDE DEF s
<1>6. UntakenAhead'
  <2> SUFFICES ASSUME NEW t \in 0 .. MaxTickets
               PROVE  /\ t >= head => turn'[Idx(t)] <= 2 * Turn(t)
                      /\ t >= tail => turn'[Idx(t)] <= 2 * Turn(t) + 1
    BY <1>2 DEF UntakenAhead, EmptyTurn, FullTurn
  <2>1. /\ t \in Nat
        /\ t >= head => turn[Idx(t)] <= 2 * Turn(t)
        /\ t >= tail => turn[Idx(t)] <= 2 * Turn(t) + 1
    BY DEF TurnsCount, UntakenAhead, EmptyTurn, FullTurn
  <2> QED
    BY <1>1, <1>4, <1>5, <2>1
<1>7. OwnedAhead'
  <2>1. ASSUME NEW r \in Producers, OwnsPush(r)'
        PROVE  turn'[Idx(ticket'[r])] <= 2 * Turn(ticket'[r])
    <3>1. r # p /\ OwnsPush(r) /\ ticket'[r] = ticket[r] /\ ticket[r] \in Nat /\ ticket[r] # s
      BY <1>1, <1>2, <1>3, <2>1 DEF Alone, Threads, TypeOK, TicketsOwnedOnce, s
    <3>2. turn[Idx(ticket[r])] <= 2 * Turn(ticket[r])
      BY <3>1 DEF TurnsCount, OwnedAhead, EmptyTurn
    <3>3. CASE Idx(ticket[r]) = Idx(s)
      <4>1. /\ turn[Idx(ticket[r])] = 2 * Turn(s) /\ turn'[Idx(ticket[r])] = 2 * Turn(s) + 1
            /\ Turn(s) \in Nat /\ Turn(ticket[r]) \in Nat /\ Turn(s) # Turn(ticket[r])
        BY <1>1, <1>4, <1>5, <3>1, <3>3
      <4> QED
        BY <3>1, <3>2, <4>1
    <3>4. CASE Idx(ticket[r]) # Idx(s)
      BY <1>4, <3>1, <3>2, <3>4
    <3> QED
      BY <3>3, <3>4
  <2>2. ASSUME NEW c \in Consumers, OwnsPop(c)'
        PROVE  turn'[Idx(ticket'[c])] <= 2 * Turn(ticket'[c]) + 1
    <3>1. OwnsPop(c) /\ ticket'[c] = ticket[c] /\ ticket[c] \in Nat
      BY <1>1, <1>3, <2>2 DEF Alone, Threads, TypeOK
    <3>2. turn[Idx(ticket[c])] <= 2 * Turn(ticket[c]) + 1
      BY <3>1 DEF TurnsCount, OwnedAhead, FullTurn
    <3> QED
      BY <1>1, <1>4, <3>1, <3>2, SlotAndRound
  <2> QED
    BY <2>1, <2>2 DEF OwnedAhead, EmptyTurn, FullTurn
<1>8. FinishedBehind'
  <2> SUFFICES ASSUME NEW t \in Tickets
               PROVE  /\ t < head => \/ turn'[Idx(t)] >= 2 * Turn(t) + 1
                                     \/ \E r \in Producers : OwnsPush(r)' /\ ticket'[r] = t
                      /\ t < tail => \/ turn'[Idx(t)] > 2 * Turn(t) + 1
                                     \/ \E c \in Consumers : OwnsPop(c)' /\ ticket'[c] = t
    BY <1>2 DEF FinishedBehind, IsPublished, FullTurn
  <2>1. t \in Nat /\ turn'[Idx(t)] >= turn[Idx(t)] /\ turn'[Idx(t)] \in Nat
    BY <1>4, SlotAndRound, <1>1 DEF Tickets
  <2>2. /\ t < head => \/ turn[Idx(t)] >= 2 * Turn(t) + 1
                       \/ \E r \in Producers : OwnsPush(r) /\ ticket[r] = t
        /\ t < tail => \/ turn[Idx(t)] > 2 * Turn(t) + 1
                       \/ \E c \in Consumers : OwnsPop(c) /\ ticket[c] = t
    BY DEF TurnsCount, FinishedBehind, IsPublished, FullTurn
  <2>3. ASSUME NEW c \in Consumers, OwnsPop(c), ticket[c] = t
        PROVE  OwnsPop(c)' /\ ticket'[c] = t
    BY <1>1, <1>3, <2>3 DEF Alone, Threads
  <2>4. ASSUME NEW r \in Producers, OwnsPush(r), ticket[r] = t, r # p
        PROVE  OwnsPush(r)' /\ ticket'[r] = t
    BY <1>3, <2>4 DEF Alone, Threads
  <2>5. CASE t = s
    BY <1>1, <1>4, <2>1, <2>2, <2>3, <2>5, SlotAndRound
  <2>6. CASE t # s
    BY <1>4, <2>1, <2>2, <2>3, <2>4, <2>6 DEF s
  <2> QED
    BY <2>5, <2>6
<1>9. WorkInTurn'
  <2>1. ASSUME NEW r \in Producers,
               Writing(r)' \/ (pc'[r] = "try_cas" /\ ticket'[r] = head')
        PROVE  turn'[Idx(ticket'[r])] = 2 * Turn(ticket'[r])
    <3>1. /\ r # p /\ ticket'[r] = ticket[r] /\ ticket[r] \in Nat /\ ticket[r] # s
          /\ turn[Idx(ticket[r])] = 2 * Turn(ticket[r])
      BY <1>1, <1>2, <1>3, <2>1
         DEF Alone, Threads, TypeOK, TicketsOwnedOnce, Writing, OwnsPush, TurnsCount,
             WorkInTurn, Writable, EmptyTurn, s
    <3>2. Idx(ticket[r]) # Idx(s)
      BY <1>1, <1>4, <1>5, <3>1
    <3> QED
      BY <1>4, <3>1, <3>2
  <2>2. ASSUME NEW c \in Consumers,
               Reading(c)' \/ (pc'[c] = "try_cas" /\ ticket'[c] = tail')
        PROVE  turn'[Idx(ticket'[c])] = 2 * Turn(ticket'[c]) + 1
    <3>1. /\ ticket'[c] = ticket[c] /\ ticket[c] \in Nat
          /\ turn[Idx(ticket[c])] = 2 * Turn(ticket[c]) + 1
      BY <1>1, <1>2, <1>3, <2>2
         DEF Alone, Threads, TypeOK, TurnsCount, WorkInTurn, Readable, FullTurn
    <3> QED
      BY <1>1, <1>4, <3>1, SlotAndRound
  <2> QED
    BY <2>1, <2>2 DEF WorkInTurn, Writable, Readable, EmptyTurn, FullTurn
<1> QED
  BY <1>6, <1>7, <1>8, <1>9 DEF TurnsCount

(* The counter passes the ticket of the pop, and no other ticket.          *)
LEMMA ReleaseTurns ==
  ASSUME TypeOK, TicketsOwnedOnce, TurnsCount, NEW c \in Consumers, Release(c)
  PROVE  TurnsCount'
<1> DEFINE s == ticket[c]
<1>1. /\ s \in Tickets /\ s \in Nat /\ s < tail /\ Readable(s) /\ OwnsPop(c)
      /\ c \in Threads /\ c \notin Producers /\ turn \in [Slots -> Nat]
      /\ head \in Nat /\ tail \in Nat
  BY OwnedTickets
     DEF Release, TypeOK, Threads, OwnsPop, Reading, TicketsOwnedOnce, TurnsCount,
        WorkInTurn
<1>2. /\ pc'[c] = "idle" /\ ~ OwnsPush(c)' /\ ~ OwnsPop(c)' /\ ~ Writing(c)' /\ ~ Reading(c)'
      /\ UNCHANGED <<head, tail>>
      /\ turn' = [turn EXCEPT ![Idx(s)] = FullTurn(s) + 1]
  BY <1>1 DEF Release, Return, Goto, TypeOK, Threads, OwnsPush, OwnsPop, Writing, Reading
<1>3. Alone(c)
  BY <1>1, StepAlone DEF Release, Return, Goto
<1>4. \A t \in Nat :
        /\ Idx(t) \in Slots /\ Turn(t) \in Nat
        /\ turn[Idx(t)] \in Nat
        /\ Idx(t) # Idx(s) => turn'[Idx(t)] = turn[Idx(t)]
        /\ Idx(t) = Idx(s) => turn[Idx(t)] = 2 * Turn(s) + 1 /\ turn'[Idx(t)] = 2 * Turn(s) + 2
  BY <1>1, <1>2, SlotAndRound DEF Readable, EmptyTurn, FullTurn
<1>5. \A t \in Nat : Idx(t) = Idx(s) => /\ s < t => Turn(s) < Turn(t)
                                        /\ s # t => Turn(s) # Turn(t)
  BY <1>1, TwoTickets
<1> HIDE DEF s
<1>6. UntakenAhead'
  <2> SUFFICES ASSUME NEW t \in 0 .. MaxTickets
               PROVE  /\ t >= head => turn'[Idx(t)] <= 2 * Turn(t)
                      /\ t >= tail => turn'[Idx(t)] <= 2 * Turn(t) + 1
    BY <1>2 DEF UntakenAhead, EmptyTurn, FullTurn
  <2>1. /\ t \in Nat
        /\ t >= head => turn[Idx(t)] <= 2 * Turn(t)
        /\ t >= tail => turn[Idx(t)] <= 2 * Turn(t) + 1
    BY DEF TurnsCount, UntakenAhead, EmptyTurn, FullTurn
  <2> QED
    BY <1>1, <1>4, <1>5, <2>1
<1>7. OwnedAhead'
  <2>1. ASSUME NEW r \in Producers, OwnsPush(r)'
        PROVE  turn'[Idx(ticket'[r])] <= 2 * Turn(ticket'[r])
    <3>1. OwnsPush(r) /\ ticket'[r] = ticket[r] /\ ticket[r] \in Nat
      BY <1>1, <1>3, <2>1 DEF Alone, Threads, TypeOK
    <3>2. turn[Idx(ticket[r])] <= 2 * Turn(ticket[r])
      BY <3>1 DEF TurnsCount, OwnedAhead, EmptyTurn
    <3> QED
      BY <1>1, <1>4, <3>1, <3>2, SlotAndRound
  <2>2. ASSUME NEW d \in Consumers, OwnsPop(d)'
        PROVE  turn'[Idx(ticket'[d])] <= 2 * Turn(ticket'[d]) + 1
    <3>1. d # c /\ OwnsPop(d) /\ ticket'[d] = ticket[d] /\ ticket[d] \in Nat /\ ticket[d] # s
      BY <1>1, <1>2, <1>3, <2>2 DEF Alone, Threads, TypeOK, TicketsOwnedOnce, s
    <3>2. turn[Idx(ticket[d])] <= 2 * Turn(ticket[d]) + 1
      BY <3>1 DEF TurnsCount, OwnedAhead, FullTurn
    <3>3. CASE Idx(ticket[d]) = Idx(s)
      <4>1. /\ turn[Idx(ticket[d])] = 2 * Turn(s) + 1
            /\ turn'[Idx(ticket[d])] = 2 * Turn(s) + 2
            /\ Turn(s) \in Nat /\ Turn(ticket[d]) \in Nat /\ Turn(s) # Turn(ticket[d])
        BY <1>1, <1>4, <1>5, <3>1, <3>3
      <4> QED
        BY <3>1, <3>2, <4>1
    <3>4. CASE Idx(ticket[d]) # Idx(s)
      BY <1>4, <3>1, <3>2, <3>4
    <3> QED
      BY <3>3, <3>4
  <2> QED
    BY <2>1, <2>2 DEF OwnedAhead, EmptyTurn, FullTurn
<1>8. FinishedBehind'
  <2> SUFFICES ASSUME NEW t \in Tickets
               PROVE  /\ t < head => \/ turn'[Idx(t)] >= 2 * Turn(t) + 1
                                     \/ \E r \in Producers : OwnsPush(r)' /\ ticket'[r] = t
                      /\ t < tail => \/ turn'[Idx(t)] > 2 * Turn(t) + 1
                                     \/ \E d \in Consumers : OwnsPop(d)' /\ ticket'[d] = t
    BY <1>2 DEF FinishedBehind, IsPublished, FullTurn
  <2>1. t \in Nat /\ turn'[Idx(t)] >= turn[Idx(t)] /\ turn'[Idx(t)] \in Nat
    BY <1>4, SlotAndRound, <1>1 DEF Tickets
  <2>2. /\ t < head => \/ turn[Idx(t)] >= 2 * Turn(t) + 1
                       \/ \E r \in Producers : OwnsPush(r) /\ ticket[r] = t
        /\ t < tail => \/ turn[Idx(t)] > 2 * Turn(t) + 1
                       \/ \E d \in Consumers : OwnsPop(d) /\ ticket[d] = t
    BY DEF TurnsCount, FinishedBehind, IsPublished, FullTurn
  <2>3. ASSUME NEW r \in Producers, OwnsPush(r), ticket[r] = t
        PROVE  OwnsPush(r)' /\ ticket'[r] = t
    BY <1>1, <1>3, <2>3 DEF Alone, Threads
  <2>4. ASSUME NEW d \in Consumers, OwnsPop(d), ticket[d] = t, d # c
        PROVE  OwnsPop(d)' /\ ticket'[d] = t
    BY <1>3, <2>4 DEF Alone, Threads
  <2>5. CASE t = s
    BY <1>1, <1>4, <2>1, <2>2, <2>3, <2>5, SlotAndRound
  <2>6. CASE t # s
    BY <1>4, <2>1, <2>2, <2>3, <2>4, <2>6 DEF s
  <2> QED
    BY <2>5, <2>6
<1>9. WorkInTurn'
  <2>1. ASSUME NEW r \in Producers,
               Writing(r)' \/ (pc'[r] = "try_cas" /\ ticket'[r] = head')
        PROVE  turn'[Idx(ticket'[r])] = 2 * Turn(ticket'[r])
    <3>1. /\ ticket'[r] = ticket[r] /\ ticket[r] \in Nat
          /\ turn[Idx(ticket[r])] = 2 * Turn(ticket[r])
      BY <1>1, <1>2, <1>3, <2>1
         DEF Alone, Threads, TypeOK, TurnsCount, WorkInTurn, Writable, EmptyTurn
    <3> QED
      BY <1>1, <1>4, <3>1, SlotAndRound
  <2>2. ASSUME NEW d \in Consumers,
               Reading(d)' \/ (pc'[d] = "try_cas" /\ ticket'[d] = tail')
        PROVE  turn'[Idx(ticket'[d])] = 2 * Turn(ticket'[d]) + 1
    <3>1. /\ d # c /\ ticket'[d] = ticket[d] /\ ticket[d] \in Nat /\ ticket[d] # s
          /\ turn[Idx(ticket[d])] = 2 * Turn(ticket[d]) + 1
      BY <1>1, <1>2, <1>3, <2>2
         DEF Alone, Threads, TypeOK, TicketsOwnedOnce, Reading, OwnsPop, TurnsCount,
             WorkInTurn, Readable, FullTurn, s
    <3>2. Idx(ticket[d]) # Idx(s)
      BY <1>1, <1>4, <1>5, <3>1
    <3> QED
      BY <1>4, <3>1, <3>2
  <2> QED
    BY <2>1, <2>2 DEF WorkInTurn, Writable, Readable, EmptyTurn, FullTurn
<1> QED
  BY <1>6, <1>7, <1>8, <1>9 DEF TurnsCount

(* A step that takes no ticket and stores no counter.                      *)
LEMMA QuietTurns ==
  ASSUME TypeOK, TurnsCount, NEW x \in Threads, Alone(x), UNCHANGED <<head, tail, turn>>,
         OwnsPush(x) \/ OwnsPush(x)' =>
           OwnsPush(x) /\ OwnsPush(x)' /\ ticket'[x] = ticket[x],
         OwnsPop(x) \/ OwnsPop(x)' =>
           OwnsPop(x) /\ OwnsPop(x)' /\ ticket'[x] = ticket[x],
         \/ Writing(x)'
         \/ x \in Producers /\ pc'[x] = "try_cas" /\ ticket'[x] = head
         => Writable(ticket'[x]),
         \/ Reading(x)'
         \/ x \in Consumers /\ pc'[x] = "try_cas" /\ ticket'[x] = tail
         => Readable(ticket'[x])
  PROVE  TurnsCount'
<1>1. UntakenAhead'
  BY DEF TurnsCount, UntakenAhead, EmptyTurn, FullTurn
<1>2. OwnedAhead'
  BY DEF TurnsCount, OwnedAhead, EmptyTurn, FullTurn, Alone, Threads
<1>3. FinishedBehind'
  BY DEF TurnsCount, FinishedBehind, IsPublished, FullTurn, Alone, Threads
<1>4. WorkInTurn'
  <2>1. ASSUME NEW r \in Producers,
               Writing(r)' \/ (pc'[r] = "try_cas" /\ ticket'[r] = head')
        PROVE  turn[Idx(ticket'[r])] = EmptyTurn(ticket'[r])
    BY <2>1 DEF TurnsCount, WorkInTurn, Alone, Threads, Writable
  <2>2. ASSUME NEW d \in Consumers,
               Reading(d)' \/ (pc'[d] = "try_cas" /\ ticket'[d] = tail')
        PROVE  turn[Idx(ticket'[d])] = FullTurn(ticket'[d])
    BY <2>2 DEF TurnsCount, WorkInTurn, Alone, Threads, Readable
  <2> QED
    BY <2>1, <2>2 DEF WorkInTurn, Writable, Readable, EmptyTurn, FullTurn
<1> QED
  BY <1>1, <1>2, <1>3, <1>4 DEF TurnsCount

(* Every step keeps what the counters say of the tickets.                  *)
LEMMA TurnsStep ==
  ASSUME TypeOK, TicketsOwnedOnce, TurnsCount, [Next]_vars
  PROVE  TurnsCount'
<1>1. ASSUME NEW p \in Producers, NEW v \in Items, Push(p, v)
      PROVE  TurnsCount'
  BY <1>1, TakeHeadTurns DEF Push, TakeHead, Goto, OwnsPush
<1>2. ASSUME NEW p \in Producers, NEW v \in Items, TryPush(p, v)
      PROVE  TurnsCount'
  <2>1. p \in Threads /\ Alone(p)
    BY <1>2, StepAlone DEF TryPush, Threads, Goto, Return
  <2> QED
    BY <1>2, <2>1, QuietTurns
       DEF TryPush, TypeOK, Threads, Goto, Return, OwnsPush, OwnsPop, Writing, Reading,
       queueVars, history,
       TurnsCount, WorkInTurn, Writable, Readable, TicketsOwnedOnce
<1>3. ASSUME NEW p \in Producers, PushWait(p)
      PROVE  TurnsCount'
  <2>1. p \in Threads /\ Alone(p)
    BY <1>3, StepAlone DEF PushWait, Threads, Goto, Return
  <2> QED
    BY <1>3, <2>1, QuietTurns
       DEF PushWait, TypeOK, Threads, Goto, Return, OwnsPush, OwnsPop, Writing, Reading,
       queueVars, history,
       TurnsCount, WorkInTurn, Writable, Readable, TicketsOwnedOnce
<1>4. ASSUME NEW p \in Producers, TryPushCheck(p)
      PROVE  TurnsCount'
  <2>1. p \in Threads /\ Alone(p)
    BY <1>4, StepAlone DEF TryPushCheck, Threads, Goto, Return
  <2> QED
    BY <1>4, <2>1, QuietTurns
       DEF TryPushCheck, TypeOK, Threads, Goto, Return, OwnsPush, OwnsPop, Writing,
       Reading, queueVars, history,
       TurnsCount, WorkInTurn, Writable, Readable, TicketsOwnedOnce
<1>5. ASSUME NEW p \in Producers, TryPushCas(p)
      PROVE  TurnsCount'
  <2>1. CASE head = ticket[p]
    BY <1>5, <2>1, TakeHeadTurns
       DEF TryPushCas, TakeHead, Goto, OwnsPush, TurnsCount, WorkInTurn
  <2>2. CASE head # ticket[p]
    <3>1. p \in Threads /\ Alone(p)
      BY <1>5, <2>2, StepAlone DEF TryPushCas, TakeHead, Threads, Goto, Return
    <3> QED
      BY <1>5, <2>2, <3>1, QuietTurns
         DEF TryPushCas, TakeHead, TypeOK, Threads, Goto, Return, OwnsPush, OwnsPop,
         Writing, Reading, queueVars, history,
         TurnsCount, WorkInTurn, Writable, Readable, TicketsOwnedOnce
  <2> QED
    BY <2>1, <2>2
<1>6. ASSUME NEW p \in Producers, TryPushReload(p)
      PROVE  TurnsCount'
  <2>1. p \in Threads /\ Alone(p)
    BY <1>6, StepAlone DEF TryPushReload, Threads, Goto, Return
  <2> QED
    BY <1>6, <2>1, QuietTurns
       DEF TryPushReload, TypeOK, Threads, Goto, Return, OwnsPush, OwnsPop, Writing,
       Reading, queueVars, history,
       TurnsCount, WorkInTurn, Writable, Readable, TicketsOwnedOnce
<1>7. ASSUME NEW p \in Producers, Construct(p)
      PROVE  TurnsCount'
  <2>1. p \in Threads /\ Alone(p)
    BY <1>7, StepAlone DEF Construct, Threads, Goto, Return
  <2> QED
    BY <1>7, <2>1, QuietTurns
       DEF Construct, TypeOK, Threads, Goto, Return, OwnsPush, OwnsPop, Writing, Reading,
       queueVars, history,
       TurnsCount, WorkInTurn, Writable, Readable, TicketsOwnedOnce
<1>8. ASSUME NEW p \in Producers, Publish(p)
      PROVE  TurnsCount'
  BY <1>8, PublishTurns
<1>9. ASSUME NEW c \in Consumers, Pop(c)
      PROVE  TurnsCount'
  BY <1>9, TakeTailTurns DEF Pop, TakeTail, Goto, OwnsPop
<1>10. ASSUME NEW c \in Consumers, TryPop(c)
       PROVE  TurnsCount'
  <2>1. c \in Threads /\ Alone(c)
    BY <1>10, StepAlone DEF TryPop, Threads, Goto, Return
  <2> QED
    BY <1>10, <2>1, QuietTurns
       DEF TryPop, TypeOK, Threads, Goto, Return, OwnsPush, OwnsPop, Writing, Reading,
       queueVars, history,
       TurnsCount, WorkInTurn, Writable, Readable, TicketsOwnedOnce
<1>11. ASSUME NEW c \in Consumers, PopWait(c)
       PROVE  TurnsCount'
  <2>1. c \in Threads /\ Alone(c)
    BY <1>11, StepAlone DEF PopWait, Threads, Goto, Return
  <2> QED
    BY <1>11, <2>1, QuietTurns
       DEF PopWait, TypeOK, Threads, Goto, Return, OwnsPush, OwnsPop, Writing, Reading,
       queueVars, history,
       TurnsCount, WorkInTurn, Writable, Readable, TicketsOwnedOnce
<1>12. ASSUME NEW c \in Consumers, TryPopCheck(c)
       PROVE  TurnsCount'
  <2>1. c \in Threads /\ Alone(c)
    BY <1>12, StepAlone DEF TryPopCheck, Threads, Goto, Return
  <2> QED
    BY <1>12, <2>1, QuietTurns
       DEF TryPopCheck, TypeOK, Threads, Goto, Return, OwnsPush, OwnsPop, Writing, Reading,
       queueVars, history,
       TurnsCount, WorkInTurn, Writable, Readable, TicketsOwnedOnce
<1>13. ASSUME NEW c \in Consumers, TryPopCas(c)
       PROVE  TurnsCount'
  <2>1. CASE tail = ticket[c]
    BY <1>13, <2>1, TakeTailTurns
       DEF TryPopCas, TakeTail, Goto, OwnsPop, TurnsCount, WorkInTurn
  <2>2. CASE tail # ticket[c]
    <3>1. c \in Threads /\ Alone(c)
      BY <1>13, <2>2, StepAlone DEF TryPopCas, TakeTail, Threads, Goto, Return
    <3> QED
      BY <1>13, <2>2, <3>1, QuietTurns
         DEF TryPopCas, TakeTail, TypeOK, Threads, Goto, Return, OwnsPush, OwnsPop,
         Writing, Reading, queueVars, history,
         TurnsCount, WorkInTurn, Writable, Readable, TicketsOwnedOnce
  <2> QED
    BY <2>1, <2>2
<1>14. ASSUME NEW c \in Consumers, TryPopReload(c)
       PROVE  TurnsCount'
  <2>1. c \in Threads /\ Alone(c)
    BY <1>14, StepAlone DEF TryPopReload, Threads, Goto, Return
  <2> QED
    BY <1>14, <2>1, QuietTurns
       DEF TryPopReload, TypeOK, Threads, Goto, Return, OwnsPush, OwnsPop, Writing,
       Reading, queueVars, history,
       TurnsCount, WorkInTurn, Writable, Readable, TicketsOwnedOnce
<1>15. ASSUME NEW c \in Consumers, Move(c)
       PROVE  TurnsCount'
  <2>1. c \in Threads /\ Alone(c)
    BY <1>15, StepAlone DEF Move, Threads, Goto, Return
  <2> QED
    BY <1>15, <2>1, QuietTurns
       DEF Move, TypeOK, Threads, Goto, Return, OwnsPush, OwnsPop, Writing, Reading,
       queueVars, history,
       TurnsCount, WorkInTurn, Writable, Readable, TicketsOwnedOnce
<1>16. ASSUME NEW c \in Consumers, Release(c)
       PROVE  TurnsCount'
  BY <1>16, ReleaseTurns
<1>17. CASE UNCHANGED vars
  BY <1>17 DEF vars, queueVars, TurnsCount, UntakenAhead, OwnedAhead, FinishedBehind,
     WorkInTurn,
     OwnsPush, OwnsPop, Writing, Reading, Writable, Readable, IsPublished, EmptyTurn, FullTurn
<1> QED
  BY <1>1, <1>2, <1>3, <1>4, <1>5, <1>6, <1>7, <1>8, <1>9, <1>10, <1>11, <1>12, <1>13,
     <1>14, <1>15, <1>16, <1>17, Brought DEF Next, ContinuePush, ContinuePop

-----------------------------------------------------------------------------
(***************************************************************************)
(* The entries.                                                            *)
(***************************************************************************)

(* Two threads at work in one slot hold the same ticket, so they are one.  *)
LEMMA Exclusion ==
  ASSUME TypeOK, TicketsOwnedOnce, TurnsCount
  PROVE  SlotExclusive
<1> SUFFICES ASSUME NEW x \in Threads, NEW y \in Threads,
                    Writing(x) \/ Reading(x), Writing(y) \/ Reading(y),
                    Idx(ticket[x]) = Idx(ticket[y])
             PROVE  x = y
  BY DEF SlotExclusive
<1>1. ticket[x] \in Nat /\ ticket[y] \in Nat
  BY DEF TypeOK
<1>2. \A z \in {x, y} :
        /\ Writing(z) => z \in Producers /\ OwnsPush(z) /\ turn[Idx(ticket[z])] = EmptyTurn(ticket[z])
        /\ Reading(z) => z \in Consumers /\ OwnsPop(z) /\ turn[Idx(ticket[z])] = FullTurn(ticket[z])
  BY DEF TurnsCount, WorkInTurn, Writable, Readable, Writing, Reading, OwnsPush, OwnsPop
<1>3. ticket[x] = ticket[y] \/ Turn(ticket[x]) # Turn(ticket[y])
  BY <1>1, SameRound
<1>4. /\ Turn(ticket[x]) \in Nat /\ Turn(ticket[y]) \in Nat
      /\ EmptyTurn(ticket[x]) = 2 * Turn(ticket[x]) /\ FullTurn(ticket[x]) = 2 * Turn(ticket[x]) + 1
      /\ EmptyTurn(ticket[y]) = 2 * Turn(ticket[y]) /\ FullTurn(ticket[y]) = 2 * Turn(ticket[y]) + 1
  BY <1>1, SlotAndRound DEF EmptyTurn, FullTurn
<1>5. CASE Writing(x) /\ Writing(y)
  BY <1>2, <1>3, <1>4, <1>5 DEF TicketsOwnedOnce
<1>6. CASE Reading(x) /\ Reading(y)
  BY <1>2, <1>3, <1>4, <1>6 DEF TicketsOwnedOnce
<1>7. CASE Writing(x) /\ Reading(y)
  BY <1>2, <1>4, <1>7
<1>8. CASE Reading(x) /\ Writing(y)
  BY <1>2, <1>4, <1>8
<1> QED
  BY <1>5, <1>6, <1>7, <1>8

(* In one slot, what the counter says of ticket s decides what it says of  *)
(* every other ticket.                                                     *)
LEMMA OneAtATime ==
  ASSUME TypeOK, NEW s \in Nat, NEW t \in Nat, Idx(s) = Idx(t)
  PROVE  /\ Writable(s) /\ Writable(t) => s = t
         /\ Readable(s) /\ Readable(t) => s = t
         /\ ~ (Writable(s) /\ Readable(t))
         /\ Writable(s) \/ Readable(s) =>
              (turn[Idx(t)] > FullTurn(t) <=> Turn(t) < Turn(s))
BY TwoTickets, SameRound DEF Writable, Readable

(* What a push brings is what its caller passed. *)
LEMMA ArgumentsStep ==
  ASSUME TypeOK, TicketsOwnedOnce, Arguments, [Next]_vars
  PROVE  Arguments'
<1> USE DEF Arguments, TypeOK, TicketsOwnedOnce, OwnsPush, Threads, Tickets, Goto, Return,
            queueVars, history
<1>1. ASSUME NEW p \in Producers, NEW v \in Items, Push(p, v)
      PROVE  Arguments'
  BY <1>1 DEF Push, TakeHead
<1>2. ASSUME NEW p \in Producers, NEW v \in Items, TryPush(p, v)
      PROVE  Arguments'
  BY <1>2 DEF TryPush
<1>3. ASSUME NEW p \in Producers, PushWait(p)
      PROVE  Arguments'
  BY <1>3 DEF PushWait
<1>4. ASSUME NEW p \in Producers, TryPushCheck(p)
      PROVE  Arguments'
  BY <1>4 DEF TryPushCheck
<1>5. ASSUME NEW p \in Producers, TryPushCas(p)
      PROVE  Arguments'
  <2>1. CASE head = ticket[p]
    <3>1. /\ pc' = [pc EXCEPT ![p] = "construct"] /\ head' = head + 1 /\ head < MaxTickets
          /\ ticket' = [ticket EXCEPT ![p] = head] /\ sent' = [sent EXCEPT ![head] = arg[p]]
          /\ arg' = arg /\ arg[p] \in Items
      BY <1>5, <2>1 DEF TryPushCas, TakeHead
    <3> QED
      BY <3>1
  <2>2. CASE head # ticket[p]
    BY <1>5, <2>2 DEF TryPushCas, TakeHead
  <2> QED
    BY <2>1, <2>2
<1>6. ASSUME NEW p \in Producers, TryPushReload(p)
      PROVE  Arguments'
  BY <1>6 DEF TryPushReload
<1>7. ASSUME NEW p \in Producers, Construct(p)
      PROVE  Arguments'
  BY <1>7 DEF Construct
<1>8. ASSUME NEW p \in Producers, Publish(p)
      PROVE  Arguments'
  BY <1>8 DEF Publish
<1>9. ASSUME NEW c \in Consumers, Pop(c)
      PROVE  Arguments'
  BY <1>9 DEF Pop, TakeTail
<1>10. ASSUME NEW c \in Consumers, TryPop(c)
       PROVE  Arguments'
  BY <1>10 DEF TryPop
<1>11. ASSUME NEW c \in Consumers, PopWait(c)
       PROVE  Arguments'
  BY <1>11 DEF PopWait
<1>12. ASSUME NEW c \in Consumers, TryPopCheck(c)
       PROVE  Arguments'
  BY <1>12 DEF TryPopCheck
<1>13. ASSUME NEW c \in Consumers, TryPopCas(c)
       PROVE  Arguments'
  BY <1>13 DEF TryPopCas, TakeTail
<1>14. ASSUME NEW c \in Consumers, TryPopReload(c)
       PROVE  Arguments'
  BY <1>14 DEF TryPopReload
<1>15. ASSUME NEW c \in Consumers, Move(c)
       PROVE  Arguments'
  BY <1>15 DEF Move
<1>16. ASSUME NEW c \in Consumers, Release(c)
       PROVE  Arguments'
  BY <1>16 DEF Release
<1>17. CASE UNCHANGED vars
  BY <1>17 DEF vars
<1> QED
  BY <1>1, <1>2, <1>3, <1>4, <1>5, <1>6, <1>7, <1>8, <1>9, <1>10, <1>11, <1>12, <1>13,
     <1>14, <1>15, <1>16, <1>17, Brought DEF Next, ContinuePush, ContinuePop

(* What a failing operation saw is what its slot's counter said. *)
LEMMA FailureSeenStep ==
  ASSUME TypeOK, TicketsOwnedOnce, UntakenAhead, FailureSeen, [Next]_vars
  PROVE  FailureSeen'
<1> USE DEF FailureSeen, TypeOK, TicketsOwnedOnce, Trying, Threads, Goto, Return,
            queueVars, history
<1>1. ASSUME NEW p \in Producers, NEW v \in Items, Push(p, v)
      PROVE  FailureSeen'
  BY <1>1 DEF Push, TakeHead
<1>2. ASSUME NEW p \in Producers, NEW v \in Items, TryPush(p, v)
      PROVE  FailureSeen'
  BY <1>2 DEF TryPush
<1>3. ASSUME NEW p \in Producers, PushWait(p)
      PROVE  FailureSeen'
  BY <1>3 DEF PushWait
<1>4. ASSUME NEW p \in Producers, TryPushCheck(p)
      PROVE  FailureSeen'
  BY <1>4 DEF TryPushCheck
<1>5. ASSUME NEW p \in Producers, TryPushCas(p)
      PROVE  FailureSeen'
  BY <1>5 DEF TryPushCas, TakeHead
<1>6. ASSUME NEW p \in Producers, TryPushReload(p)
      PROVE  FailureSeen'
  BY <1>6 DEF TryPushReload
<1>7. ASSUME NEW p \in Producers, Construct(p)
      PROVE  FailureSeen'
  BY <1>7 DEF Construct
<1>8. ASSUME NEW p \in Producers, Publish(p)
      PROVE  FailureSeen'
  BY <1>8 DEF Publish
<1>9. ASSUME NEW c \in Consumers, Pop(c)
      PROVE  FailureSeen'
  BY <1>9 DEF Pop, TakeTail
<1>10. ASSUME NEW c \in Consumers, TryPop(c)
       PROVE  FailureSeen'
  BY <1>10 DEF TryPop
<1>11. ASSUME NEW c \in Consumers, PopWait(c)
       PROVE  FailureSeen'
  BY <1>11 DEF PopWait
<1>12. ASSUME NEW c \in Consumers, TryPopCheck(c)
       PROVE  FailureSeen'
  <2>1. turn[Idx(tail)] <= FullTurn(tail) /\ Idx(tail) \in Slots /\ FullTurn(tail) \in Nat
    BY SlotAndRound DEF UntakenAhead, FullTurn
  <2>2. tail = ticket[c] /\ ~ Readable(ticket[c]) => ~ IsPublished(tail)
    BY <2>1 DEF Readable, IsPublished
  <2> QED
    BY <1>12, <2>2 DEF TryPopCheck
<1>13. ASSUME NEW c \in Consumers, TryPopCas(c)
       PROVE  FailureSeen'
  BY <1>13 DEF TryPopCas, TakeTail
<1>14. ASSUME NEW c \in Consumers, TryPopReload(c)
       PROVE  FailureSeen'
  BY <1>14 DEF TryPopReload
<1>15. ASSUME NEW c \in Consumers, Move(c)
       PROVE  FailureSeen'
  BY <1>15 DEF Move
<1>16. ASSUME NEW c \in Consumers, Release(c)
       PROVE  FailureSeen'
  BY <1>16 DEF Release
<1>17. CASE UNCHANGED vars
  BY <1>17 DEF vars
<1> QED
  BY <1>1, <1>2, <1>3, <1>4, <1>5, <1>6, <1>7, <1>8, <1>9, <1>10, <1>11, <1>12, <1>13,
     <1>14, <1>15, <1>16, <1>17, Brought DEF Next, ContinuePush, ContinuePop

(* A step that neither writes an entry nor stores a counter.               *)
LEMMA QuietSlots ==
  ASSUME SlotContents, NEW x \in Threads, Alone(x), UNCHANGED <<turn, storage>>,
         pc[x] \notin {"publish", "release"}, pc'[x] \notin {"publish", "release"},
         \A y \in Threads \ {x} : arg'[y] = arg[y],
         \A t \in Tickets : Readable(t) => sent'[t] = sent[t]
  PROVE  SlotContents'
<1>1. /\ \A t : Writable(t)' <=> Writable(t)
      /\ \A t : Readable(t)' <=> Readable(t)
  BY DEF Writable, Readable, EmptyTurn, FullTurn
<1> QED
  BY <1>1 DEF SlotContents, Alone, Threads

(* A ticket is not readable before a push has taken it.                    *)
LEMMA UntakenUnreadable ==
  ASSUME TypeOK, UntakenAhead
  PROVE  ~ Readable(head) /\ ~ (turn[Idx(head)] > FullTurn(head))
BY SlotAndRound DEF TypeOK, UntakenAhead, Readable, EmptyTurn, FullTurn

(* The push writes the entry that its ticket brings.                       *)
LEMMA ConstructSlots ==
  ASSUME TypeOK, TicketsOwnedOnce, TurnsCount, SlotContents, NEW p \in Producers, Construct(p)
  PROVE  SlotContents'
<1> DEFINE s == ticket[p]
<1>1. /\ s \in Nat /\ Writable(s) /\ Writing(p) /\ p \in Threads /\ p \notin Consumers
      /\ \A y \in Threads : ticket[y] \in Nat
  BY DEF Construct, TypeOK, Threads, Writing, TurnsCount, WorkInTurn
<1>2. /\ pc'[p] = "publish" /\ arg' = arg /\ turn' = turn /\ sent' = sent /\ ticket' = ticket
      /\ \A t \in Nat : storage'[Idx(t)] = IF Idx(t) = Idx(s) THEN arg[p] ELSE storage[Idx(t)]
  BY <1>1, SlotAndRound DEF Construct, Goto, TypeOK, Threads, history
<1>3. Alone(p)
  BY <1>1, StepAlone DEF Construct, Goto
<1>4. \A y \in Threads \ {p} : Writing(y) \/ Reading(y) => Idx(ticket[y]) # Idx(s)
  BY <1>1, Exclusion DEF SlotExclusive
<1>5. \A t \in Nat : Idx(t) = Idx(s) => (Writable(t) => t = s) /\ ~ Readable(t)
  BY <1>1, OneAtATime
<1> HIDE DEF s
<1>6. \A r \in Producers : pc'[r] = "publish" => storage'[Idx(ticket'[r])] = arg'[r]
  <2> SUFFICES ASSUME NEW r \in Producers, pc'[r] = "publish"
               PROVE  storage'[Idx(ticket[r])] = arg[r]
    BY <1>2
  <2>1. CASE r = p
    BY <1>1, <1>2, <2>1 DEF s
  <2>2. CASE r # p
    BY <1>1, <1>2, <1>3, <1>4, <2>2 DEF SlotContents, Alone, Threads, Writing
  <2> QED
    BY <2>1, <2>2
<1>7. \A c \in Consumers : pc'[c] = "release" => storage'[Idx(ticket'[c])] = Nothing
  BY <1>1, <1>2, <1>3, <1>4 DEF SlotContents, Alone, Threads, Reading
<1>8. ASSUME NEW t \in Tickets
      PROVE  /\ Writable(t) => \/ storage'[Idx(t)] = Nothing
                               \/ \E r \in Producers : pc'[r] = "publish" /\ ticket'[r] = t
             /\ Readable(t) => \/ storage'[Idx(t)] = sent[t]
                               \/ \E c \in Consumers : pc'[c] = "release" /\ ticket'[c] = t
  <2>1. t \in Nat
    BY DEF Tickets
  <2>2. CASE Idx(t) = Idx(s)
    BY <1>1, <1>2, <1>5, <2>1, <2>2 DEF s
  <2>3. CASE Idx(t) # Idx(s)
    <3>1. \A r \in Producers : pc[r] = "publish" => pc'[r] = "publish" /\ ticket'[r] = ticket[r]
      BY <1>2, <1>3 DEF Alone, Threads
    <3>2. \A c \in Consumers : pc[c] = "release" => pc'[c] = "release" /\ ticket'[c] = ticket[c]
      BY <1>1, <1>3 DEF Alone, Threads
    <3>3. storage'[Idx(t)] = storage[Idx(t)]
      BY <1>2, <2>1, <2>3
    <3> QED
      BY <3>1, <3>2, <3>3 DEF SlotContents
  <2> QED
    BY <2>2, <2>3
<1>9. \A t : (Writable(t)' <=> Writable(t)) /\ (Readable(t)' <=> Readable(t))
  BY <1>2 DEF Writable, Readable, EmptyTurn, FullTurn
<1> QED
  BY <1>2, <1>6, <1>7, <1>8, <1>9 DEF SlotContents

(* The pop empties the slot before the counter says so.                    *)
LEMMA MoveSlots ==
  ASSUME TypeOK, TicketsOwnedOnce, TurnsCount, SlotContents, NEW c \in Consumers, Move(c)
  PROVE  SlotContents'
<1> DEFINE s == ticket[c]
<1>1. /\ s \in Nat /\ Readable(s) /\ Reading(c) /\ c \in Threads /\ c \notin Producers
      /\ \A y \in Threads : ticket[y] \in Nat
  BY DEF Move, TypeOK, Threads, Reading, TurnsCount, WorkInTurn
<1>2. /\ pc'[c] = "release" /\ arg' = arg /\ turn' = turn /\ sent' = sent /\ ticket' = ticket
      /\ \A t \in Nat : storage'[Idx(t)] = IF Idx(t) = Idx(s) THEN Nothing ELSE storage[Idx(t)]
  BY <1>1, SlotAndRound DEF Move, Goto, TypeOK, Threads
<1>3. Alone(c)
  BY <1>1, StepAlone DEF Move, Goto
<1>4. \A y \in Threads \ {c} : Writing(y) \/ Reading(y) => Idx(ticket[y]) # Idx(s)
  BY <1>1, Exclusion DEF SlotExclusive
<1>5. \A t \in Nat : Idx(t) = Idx(s) => (Readable(t) => t = s) /\ ~ Writable(t)
  BY <1>1, OneAtATime
<1> HIDE DEF s
<1>6. \A r \in Producers : pc'[r] = "publish" => storage'[Idx(ticket'[r])] = arg'[r]
  BY <1>1, <1>2, <1>3, <1>4 DEF SlotContents, Alone, Threads, Writing
<1>7. \A d \in Consumers : pc'[d] = "release" => storage'[Idx(ticket'[d])] = Nothing
  <2> SUFFICES ASSUME NEW d \in Consumers, pc'[d] = "release"
               PROVE  storage'[Idx(ticket[d])] = Nothing
    BY <1>2
  <2>1. CASE d = c
    BY <1>1, <1>2, <2>1 DEF s
  <2>2. CASE d # c
    BY <1>1, <1>2, <1>3, <1>4, <2>2 DEF SlotContents, Alone, Threads, Reading
  <2> QED
    BY <2>1, <2>2
<1>8. ASSUME NEW t \in Tickets
      PROVE  /\ Writable(t) => \/ storage'[Idx(t)] = Nothing
                               \/ \E r \in Producers : pc'[r] = "publish" /\ ticket'[r] = t
             /\ Readable(t) => \/ storage'[Idx(t)] = sent[t]
                               \/ \E d \in Consumers : pc'[d] = "release" /\ ticket'[d] = t
  <2>1. t \in Nat
    BY DEF Tickets
  <2>2. CASE Idx(t) = Idx(s)
    BY <1>1, <1>2, <1>5, <2>1, <2>2 DEF s
  <2>3. CASE Idx(t) # Idx(s)
    <3>1. \A r \in Producers : pc[r] = "publish" => pc'[r] = "publish" /\ ticket'[r] = ticket[r]
      BY <1>1, <1>3 DEF Alone, Threads
    <3>2. \A d \in Consumers : pc[d] = "release" => pc'[d] = "release" /\ ticket'[d] = ticket[d]
      BY <1>2, <1>3 DEF Alone, Threads
    <3>3. storage'[Idx(t)] = storage[Idx(t)]
      BY <1>2, <2>1, <2>3
    <3> QED
      BY <3>1, <3>2, <3>3 DEF SlotContents
  <2> QED
    BY <2>2, <2>3
<1>9. \A t : (Writable(t)' <=> Writable(t)) /\ (Readable(t)' <=> Readable(t))
  BY <1>2 DEF Writable, Readable, EmptyTurn, FullTurn
<1> QED
  BY <1>2, <1>6, <1>7, <1>8, <1>9 DEF SlotContents

(* The counter then says that the slot holds the entry.                    *)
LEMMA PublishSlots ==
  ASSUME TypeOK, TicketsOwnedOnce, TurnsCount, Arguments, SlotContents,
         NEW p \in Producers, Publish(p)
  PROVE  SlotContents'
<1> DEFINE s == ticket[p]
<1>1. /\ s \in Nat /\ p \in Threads /\ p \notin Consumers /\ turn \in [Slots -> Nat]
      /\ Writable(s) /\ storage[Idx(s)] = sent[s]
  BY DEF Publish, TypeOK, Threads, OwnsPush, Writing, TurnsCount, WorkInTurn, Arguments,
         SlotContents
<1>2. /\ pc'[p] = "idle" /\ storage' = storage /\ sent' = sent
      /\ \A y \in Threads \ {p} : arg'[y] = arg[y]
      /\ turn' = [turn EXCEPT ![Idx(s)] = FullTurn(s)]
  BY <1>1 DEF Publish, Return, Goto, TypeOK, Threads
<1>3. Alone(p)
  BY <1>1, StepAlone DEF Publish, Return, Goto
<1>4. \A t \in Nat : IF Idx(t) = Idx(s)
                     THEN ~ Writable(t)' /\ (Readable(t)' => t = s)
                     ELSE (Writable(t)' <=> Writable(t)) /\ (Readable(t)' <=> Readable(t))
  <2> SUFFICES ASSUME NEW t \in Nat
               PROVE  IF Idx(t) = Idx(s)
                      THEN ~ Writable(t)' /\ (Readable(t)' => t = s)
                      ELSE (Writable(t)' <=> Writable(t)) /\ (Readable(t)' <=> Readable(t))
    OBVIOUS
  <2>1. CASE Idx(t) = Idx(s)
    <3>1. /\ Turn(s) \in Nat /\ Turn(t) \in Nat
          /\ t # s => Turn(t) # Turn(s)
      BY <1>1, <2>1, TwoTickets
    <3>2. turn'[Idx(t)] = 2 * Turn(s) + 1
      BY <1>1, <1>2, <2>1, <3>1, SlotAndRound DEF FullTurn
    <3>3. 2 * Turn(s) + 1 # 2 * Turn(t) /\ (2 * Turn(s) + 1 = 2 * Turn(t) + 1 => t = s)
      BY <3>1
    <3>4. /\ Writable(t)' <=> turn'[Idx(t)] = 2 * Turn(t)
          /\ Readable(t)' <=> turn'[Idx(t)] = 2 * Turn(t) + 1
      BY DEF Writable, Readable, EmptyTurn, FullTurn
    <3> QED
      BY <2>1, <3>2, <3>3, <3>4
  <2>2. CASE Idx(t) # Idx(s)
    BY <1>1, <1>2, <2>2, SlotAndRound DEF Writable, Readable, EmptyTurn, FullTurn
  <2> QED
    BY <2>1, <2>2
<1> HIDE DEF s
<1>5. /\ \A r \in Producers : pc'[r] = "publish" => storage'[Idx(ticket'[r])] = arg'[r]
      /\ \A c \in Consumers : pc'[c] = "release" => storage'[Idx(ticket'[c])] = Nothing
  BY <1>1, <1>2, <1>3 DEF SlotContents, Alone, Threads
<1>6. ASSUME NEW t \in Tickets
      PROVE  /\ Writable(t)' => \/ storage[Idx(t)] = Nothing
                                \/ \E r \in Producers : pc'[r] = "publish" /\ ticket'[r] = t
             /\ Readable(t)' => \/ storage[Idx(t)] = sent[t]
                                \/ \E c \in Consumers : pc'[c] = "release" /\ ticket'[c] = t
  <2>1. t \in Nat
    BY DEF Tickets
  <2>2. CASE Idx(t) = Idx(s)
    BY <1>1, <1>4, <2>1, <2>2
  <2>3. CASE Idx(t) # Idx(s)
    <3>1. \A r \in Producers : pc[r] = "publish" /\ ticket[r] = t => pc'[r] = "publish" /\ ticket'[r] = t
      BY <1>3, <2>3 DEF Alone, Threads, s
    <3>2. \A c \in Consumers : pc[c] = "release" => pc'[c] = "release" /\ ticket'[c] = ticket[c]
      BY <1>1, <1>3 DEF Alone, Threads
    <3> QED
      BY <1>4, <2>1, <2>3, <3>1, <3>2 DEF SlotContents
  <2> QED
    BY <2>2, <2>3
<1> QED
  BY <1>2, <1>5, <1>6 DEF SlotContents

(* The counter then says that the slot is empty.                           *)
LEMMA ReleaseSlots ==
  ASSUME TypeOK, TurnsCount, SlotContents, NEW c \in Consumers, Release(c)
  PROVE  SlotContents'
<1> DEFINE s == ticket[c]
<1>1. /\ s \in Nat /\ c \in Threads /\ c \notin Producers /\ turn \in [Slots -> Nat]
      /\ Readable(s) /\ storage[Idx(s)] = Nothing
  BY DEF Release, TypeOK, Threads, Reading, TurnsCount, WorkInTurn, SlotContents
<1>2. /\ pc'[c] = "idle" /\ storage' = storage /\ sent' = sent
      /\ \A y \in Threads \ {c} : arg'[y] = arg[y]
      /\ turn' = [turn EXCEPT ![Idx(s)] = FullTurn(s) + 1]
  BY <1>1 DEF Release, Return, Goto, TypeOK, Threads
<1>3. Alone(c)
  BY <1>1, StepAlone DEF Release, Return, Goto
<1>4. \A t \in Nat : IF Idx(t) = Idx(s)
                     THEN ~ Readable(t)'
                     ELSE (Writable(t)' <=> Writable(t)) /\ (Readable(t)' <=> Readable(t))
  <2> SUFFICES ASSUME NEW t \in Nat
               PROVE  IF Idx(t) = Idx(s)
                      THEN ~ Readable(t)'
                      ELSE (Writable(t)' <=> Writable(t)) /\ (Readable(t)' <=> Readable(t))
    OBVIOUS
  <2>1. CASE Idx(t) = Idx(s)
    <3>1. /\ Turn(s) \in Nat /\ Turn(t) \in Nat
          /\ t # s => Turn(t) # Turn(s)
      BY <1>1, <2>1, TwoTickets
    <3>2. turn'[Idx(t)] = 2 * Turn(s) + 2
      BY <1>1, <1>2, <2>1, <3>1, SlotAndRound DEF FullTurn
    <3>3. 2 * Turn(s) + 2 # 2 * Turn(t) + 1
      BY <3>1
    <3>4. Readable(t)' <=> turn'[Idx(t)] = 2 * Turn(t) + 1
      BY DEF Readable, FullTurn
    <3> QED
      BY <2>1, <3>2, <3>3, <3>4
  <2>2. CASE Idx(t) # Idx(s)
    BY <1>1, <1>2, <2>2, SlotAndRound DEF Writable, Readable, EmptyTurn, FullTurn
  <2> QED
    BY <2>1, <2>2
<1> HIDE DEF s
<1>5. /\ \A r \in Producers : pc'[r] = "publish" => storage'[Idx(ticket'[r])] = arg'[r]
      /\ \A d \in Consumers : pc'[d] = "release" => storage'[Idx(ticket'[d])] = Nothing
  BY <1>1, <1>2, <1>3 DEF SlotContents, Alone, Threads
<1>6. ASSUME NEW t \in Tickets
      PROVE  /\ Writable(t)' => \/ storage[Idx(t)] = Nothing
                                \/ \E r \in Producers : pc'[r] = "publish" /\ ticket'[r] = t
             /\ Readable(t)' => \/ storage[Idx(t)] = sent[t]
                                \/ \E d \in Consumers : pc'[d] = "release" /\ ticket'[d] = t
  <2>1. t \in Nat
    BY DEF Tickets
  <2>2. CASE Idx(t) = Idx(s)
    BY <1>1, <1>4, <2>1, <2>2
  <2>3. CASE Idx(t) # Idx(s)
    <3>1. \A d \in Consumers : pc[d] = "release" /\ ticket[d] = t => pc'[d] = "release" /\ ticket'[d] = t
      BY <1>3, <2>3 DEF Alone, Threads, s
    <3>2. \A r \in Producers : pc[r] = "publish" => pc'[r] = "publish" /\ ticket'[r] = ticket[r]
      BY <1>1, <1>3 DEF Alone, Threads
    <3> QED
      BY <1>4, <2>1, <2>3, <3>1, <3>2 DEF SlotContents
  <2> QED
    BY <2>2, <2>3
<1> QED
  BY <1>2, <1>5, <1>6 DEF SlotContents

(* Slots hold what their counters say. *)
LEMMA SlotContentsStep ==
  ASSUME TypeOK, TicketsOwnedOnce, TurnsCount, Arguments, SlotContents, [Next]_vars
  PROVE  SlotContents'
<1> USE DEF TurnsCount
<1>1. ASSUME NEW p \in Producers, NEW v \in Items, Push(p, v)
      PROVE  SlotContents'
  <2>1. p \in Threads /\ Alone(p)
    BY <1>1, StepAlone DEF Push, TakeHead, Threads, Goto, Return
  <2> QED
    BY <1>1, <2>1, QuietSlots, UntakenUnreadable
       DEF Push, TakeHead, TypeOK, Threads, Goto, Return, queueVars, history
<1>2. ASSUME NEW p \in Producers, NEW v \in Items, TryPush(p, v)
      PROVE  SlotContents'
  <2>1. p \in Threads /\ Alone(p)
    BY <1>2, StepAlone DEF TryPush, Threads, Goto, Return
  <2> QED
    BY <1>2, <2>1, QuietSlots
       DEF TryPush, TypeOK, Threads, Goto, Return, queueVars, history
<1>3. ASSUME NEW p \in Producers, PushWait(p)
      PROVE  SlotContents'
  <2>1. p \in Threads /\ Alone(p)
    BY <1>3, StepAlone DEF PushWait, Threads, Goto, Return
  <2> QED
    BY <1>3, <2>1, QuietSlots
       DEF PushWait, TypeOK, Threads, Goto, Return, queueVars, history
<1>4. ASSUME NEW p \in Producers, TryPushCheck(p)
      PROVE  SlotContents'
  <2>1. p \in Threads /\ Alone(p)
    BY <1>4, StepAlone DEF TryPushCheck, Threads, Goto, Return
  <2> QED
    BY <1>4, <2>1, QuietSlots
       DEF TryPushCheck, TypeOK, Threads, Goto, Return, queueVars, history
<1>5. ASSUME NEW p \in Producers, TryPushCas(p)
      PROVE  SlotContents'
  <2>1. CASE head = ticket[p]
    <3>1. p \in Threads /\ Alone(p)
      BY <1>5, <2>1, StepAlone DEF TryPushCas, TakeHead, Threads, Goto, Return
    <3> QED
      BY <1>5, <2>1, <3>1, QuietSlots, UntakenUnreadable
         DEF TryPushCas, TakeHead, TypeOK, Threads, Goto, Return, queueVars, history
  <2>2. CASE head # ticket[p]
    <3>1. p \in Threads /\ Alone(p)
      BY <1>5, <2>2, StepAlone DEF TryPushCas, TakeHead, Threads, Goto, Return
    <3> QED
      BY <1>5, <2>2, <3>1, QuietSlots
         DEF TryPushCas, TakeHead, TypeOK, Threads, Goto, Return, queueVars, history
  <2> QED
    BY <2>1, <2>2
<1>6. ASSUME NEW p \in Producers, TryPushReload(p)
      PROVE  SlotContents'
  <2>1. CASE head = ticket[p]
    <3>1. p \in Threads /\ Alone(p)
      BY <1>6, <2>1, StepAlone DEF TryPushReload, Threads, Goto, Return
    <3> QED
      BY <1>6, <2>1, <3>1, QuietSlots
         DEF TryPushReload, TypeOK, Threads, Goto, Return, queueVars, history
  <2>2. CASE head # ticket[p]
    <3>1. p \in Threads /\ Alone(p)
      BY <1>6, <2>2, StepAlone DEF TryPushReload, Threads, Goto, Return
    <3> QED
      BY <1>6, <2>2, <3>1, QuietSlots
         DEF TryPushReload, TypeOK, Threads, Goto, Return, queueVars, history
  <2> QED
    BY <2>1, <2>2
<1>7. ASSUME NEW p \in Producers, Construct(p)
      PROVE  SlotContents'
  BY <1>7, ConstructSlots
<1>8. ASSUME NEW p \in Producers, Publish(p)
      PROVE  SlotContents'
  BY <1>8, PublishSlots
<1>9. ASSUME NEW c \in Consumers, Pop(c)
      PROVE  SlotContents'
  <2>1. c \in Threads /\ Alone(c)
    BY <1>9, StepAlone DEF Pop, TakeTail, Threads, Goto, Return
  <2> QED
    BY <1>9, <2>1, QuietSlots
       DEF Pop, TakeTail, TypeOK, Threads, Goto, Return, queueVars, history
<1>10. ASSUME NEW c \in Consumers, TryPop(c)
       PROVE  SlotContents'
  <2>1. c \in Threads /\ Alone(c)
    BY <1>10, StepAlone DEF TryPop, Threads, Goto, Return
  <2> QED
    BY <1>10, <2>1, QuietSlots
       DEF TryPop, TypeOK, Threads, Goto, Return, queueVars, history
<1>11. ASSUME NEW c \in Consumers, PopWait(c)
       PROVE  SlotContents'
  <2>1. c \in Threads /\ Alone(c)
    BY <1>11, StepAlone DEF PopWait, Threads, Goto, Return
  <2> QED
    BY <1>11, <2>1, QuietSlots
       DEF PopWait, TypeOK, Threads, Goto, Return, queueVars, history
<1>12. ASSUME NEW c \in Consumers, TryPopCheck(c)
       PROVE  SlotContents'
  <2>1. c \in Threads /\ Alone(c)
    BY <1>12, StepAlone DEF TryPopCheck, Threads, Goto, Return
  <2> QED
    BY <1>12, <2>1, QuietSlots
       DEF TryPopCheck, TypeOK, Threads, Goto, Return, queueVars, history
<1>13. ASSUME NEW c \in Consumers, TryPopCas(c)
       PROVE  SlotContents'
  <2>1. CASE tail = ticket[c]
    <3>1. c \in Threads /\ Alone(c)
      BY <1>13, <2>1, StepAlone DEF TryPopCas, TakeTail, Threads, Goto, Return
    <3> QED
      BY <1>13, <2>1, <3>1, QuietSlots
         DEF TryPopCas, TakeTail, TypeOK, Threads, Goto, Return, queueVars, history
  <2>2. CASE tail # ticket[c]
    <3>1. c \in Threads /\ Alone(c)
      BY <1>13, <2>2, StepAlone DEF TryPopCas, TakeTail, Threads, Goto, Return
    <3> QED
      BY <1>13, <2>2, <3>1, QuietSlots
         DEF TryPopCas, TakeTail, TypeOK, Threads, Goto, Return, queueVars, history
  <2> QED
    BY <2>1, <2>2
<1>14. ASSUME NEW c \in Consumers, TryPopReload(c)
       PROVE  SlotContents'
  <2>1. CASE tail = ticket[c]
    <3>1. c \in Threads /\ Alone(c)
      BY <1>14, <2>1, StepAlone DEF TryPopReload, Threads, Goto, Return
    <3> QED
      BY <1>14, <2>1, <3>1, QuietSlots
         DEF TryPopReload, TypeOK, Threads, Goto, Return, queueVars, history
  <2>2. CASE tail # ticket[c]
    <3>1. c \in Threads /\ Alone(c)
      BY <1>14, <2>2, StepAlone DEF TryPopReload, Threads, Goto, Return
    <3> QED
      BY <1>14, <2>2, <3>1, QuietSlots
         DEF TryPopReload, TypeOK, Threads, Goto, Return, queueVars, history
  <2> QED
    BY <2>1, <2>2
<1>15. ASSUME NEW c \in Consumers, Move(c)
       PROVE  SlotContents'
  BY <1>15, MoveSlots
<1>16. ASSUME NEW c \in Consumers, Release(c)
       PROVE  SlotContents'
  BY <1>16, ReleaseSlots
<1>17. CASE UNCHANGED vars
  BY <1>17 DEF vars, queueVars, history, SlotContents, Writable, Readable, EmptyTurn,
     FullTurn
<1> QED
  BY <1>1, <1>2, <1>3, <1>4, <1>5, <1>6, <1>7, <1>8, <1>9, <1>10, <1>11, <1>12, <1>13,
     <1>14, <1>15, <1>16, <1>17, Brought DEF Next, ContinuePush, ContinuePop


(* A step that moves no entry out and stores no counter.                   *)
LEMMA QuietReceipts ==
  ASSUME TypeOK, Receipts, NEW x \in Threads, Alone(x), UNCHANGED <<turn, received>>,
         pc[x] # "release", pc'[x] # "release",
         \A t \in Tickets : t # head => sent'[t] = sent[t],
         ~ (turn[Idx(head)] > FullTurn(head)),
         \A c \in Consumers : pc[c] = "release" => ticket[c] \in Tickets /\ ticket[c] # head
  PROVE  Receipts'
BY DEF Receipts, Alone, Threads, FullTurn

(* The pop receives the entry of its ticket.                               *)
LEMMA MoveReceipts ==
  ASSUME TypeOK, TicketsOwnedOnce, TurnsCount, SlotContents, Receipts,
         NEW c \in Consumers, Move(c)
  PROVE  Receipts'
<1> DEFINE s == ticket[c]
<1>1. /\ s \in Tickets /\ Readable(s) /\ OwnsPop(c) /\ c \in Threads
      /\ received \in [Tickets -> Items \cup {Nothing}]
  BY OwnedTickets DEF Move, TypeOK, Threads, OwnsPop, Reading, TurnsCount, WorkInTurn
<1>2. storage[Idx(s)] = sent[s]
  BY <1>1 DEF SlotContents, TicketsOwnedOnce, OwnsPop, Move
<1>3. /\ pc'[c] = "release" /\ turn' = turn /\ sent' = sent /\ ticket' = ticket
      /\ received' = [received EXCEPT ![s] = sent[s]]
  BY <1>1, <1>2 DEF Move, Goto, TypeOK, Threads
<1>4. Alone(c)
  BY <1>1, StepAlone DEF Move, Goto
<1>5. \A d \in Consumers \ {c} : pc[d] = "release" => ticket[d] # s
  BY <1>1 DEF TicketsOwnedOnce, OwnsPop
<1>6. ~ (turn[Idx(s)] > FullTurn(s))
  <2>1. s \in Nat
    BY <1>1 DEF Tickets
  <2>2. Turn(s) \in Nat
    BY <2>1, SlotAndRound
  <2> QED
    BY <1>1, <2>2 DEF Readable, FullTurn
<1> HIDE DEF s
<1>7. \A d \in Consumers : pc'[d] = "release" => received'[ticket'[d]] = sent'[ticket'[d]]
  <2> SUFFICES ASSUME NEW d \in Consumers, pc'[d] = "release"
               PROVE  received'[ticket[d]] = sent[ticket[d]]
    BY <1>3
  <2>1. CASE d = c
    BY <1>1, <1>3, <2>1 DEF s
  <2>2. CASE d # c
    BY <1>1, <1>3, <1>4, <1>5, <2>2 DEF Receipts, Alone, Threads
  <2> QED
    BY <2>1, <2>2
<1>8. ASSUME NEW t \in Tickets
      PROVE  /\ turn[Idx(t)] > FullTurn(t) => received'[t] = sent[t]
             /\ received'[t] # Nothing =>
                  \/ turn[Idx(t)] > FullTurn(t)
                  \/ \E d \in Consumers : pc'[d] = "release" /\ ticket'[d] = t
  <2>1. CASE t = s
    BY <1>3, <1>6, <2>1 DEF s
  <2>2. CASE t # s
    <3>1. received'[t] = received[t]
      BY <1>1, <1>3, <2>2
    <3>2. \A d \in Consumers : pc[d] = "release" => pc'[d] = "release" /\ ticket'[d] = ticket[d]
      BY <1>3, <1>4 DEF Alone, Threads
    <3> QED
      BY <3>1, <3>2 DEF Receipts
  <2> QED
    BY <2>1, <2>2
<1> QED
  BY <1>3, <1>7, <1>8 DEF Receipts, FullTurn

(* A published ticket has not been received yet.                           *)
LEMMA PublishReceipts ==
  ASSUME TypeOK, TurnsCount, Receipts, NEW p \in Producers, Publish(p)
  PROVE  Receipts'
<1> DEFINE s == ticket[p]
<1>1. /\ s \in Nat /\ p \in Threads /\ p \notin Consumers /\ Writable(s) /\ turn \in [Slots -> Nat]
  BY DEF Publish, TypeOK, Threads, Writing, TurnsCount, WorkInTurn
<1>2. /\ sent' = sent /\ received' = received /\ turn' = [turn EXCEPT ![Idx(s)] = FullTurn(s)]
  BY DEF Publish
<1>3. Alone(p)
  BY <1>1, StepAlone DEF Publish, Return, Goto
<1> HIDE DEF s
<1>4. ASSUME NEW t \in Nat
      PROVE  turn'[Idx(t)] > FullTurn(t) <=> turn[Idx(t)] > FullTurn(t)
  <2>1. CASE Idx(t) = Idx(s)
    <3>1. Turn(s) \in Nat /\ Turn(t) \in Nat
      BY <1>1, <2>1, TwoTickets
    <3>2. turn[Idx(t)] = 2 * Turn(s) /\ turn'[Idx(t)] = 2 * Turn(s) + 1
      BY <1>1, <1>2, <2>1, SlotAndRound DEF Writable, EmptyTurn, FullTurn
    <3> QED
      BY <3>1, <3>2 DEF FullTurn
  <2>2. CASE Idx(t) # Idx(s)
    BY <1>1, <1>2, <2>2, SlotAndRound
  <2> QED
    BY <2>1, <2>2
<1>5. \A t \in Tickets : t \in Nat
  BY DEF Tickets
<1>6. \A d \in Consumers : pc'[d] = pc[d] /\ ticket'[d] = ticket[d]
  BY <1>1, <1>3 DEF Alone, Threads
<1> QED
  BY <1>2, <1>4, <1>5, <1>6 DEF Receipts, FullTurn

(* A released ticket has been received.                                    *)
LEMMA ReleaseReceipts ==
  ASSUME TypeOK, TurnsCount, Receipts, NEW c \in Consumers, Release(c)
  PROVE  Receipts'
<1> DEFINE s == ticket[c]
<1>1. /\ s \in Nat /\ c \in Threads /\ Readable(s) /\ turn \in [Slots -> Nat]
      /\ received[s] = sent[s]
  BY DEF Release, TypeOK, Threads, Reading, TurnsCount, WorkInTurn, Receipts
<1>2. /\ sent' = sent /\ received' = received /\ pc'[c] = "idle"
      /\ turn' = [turn EXCEPT ![Idx(s)] = FullTurn(s) + 1]
  BY <1>1 DEF Release, Return, Goto, TypeOK, Threads
<1>3. Alone(c)
  BY <1>1, StepAlone DEF Release, Return, Goto
<1> HIDE DEF s
<1>4. ASSUME NEW t \in Nat
      PROVE  turn'[Idx(t)] > FullTurn(t) <=> turn[Idx(t)] > FullTurn(t) \/ t = s
  <2>1. CASE Idx(t) = Idx(s)
    <3>1. Turn(s) \in Nat /\ Turn(t) \in Nat /\ (t # s => Turn(s) # Turn(t))
      BY <1>1, <2>1, TwoTickets
    <3>2. turn[Idx(t)] = 2 * Turn(s) + 1 /\ turn'[Idx(t)] = 2 * Turn(s) + 2
      BY <1>1, <1>2, <2>1, <3>1, SlotAndRound DEF Readable, FullTurn
    <3> QED
      BY <3>1, <3>2 DEF FullTurn
  <2>2. CASE Idx(t) # Idx(s)
    BY <1>1, <1>2, <2>2, SlotAndRound
  <2> QED
    BY <2>1, <2>2
<1>5. \A t \in Tickets : t \in Nat
  BY DEF Tickets
<1>6. \A d \in Consumers : /\ pc'[d] = "release" => d # c /\ pc[d] = "release" /\ ticket'[d] = ticket[d]
                           /\ pc[d] = "release" /\ ticket[d] # s =>
                                pc'[d] = "release" /\ ticket'[d] = ticket[d]
  BY <1>2, <1>3 DEF Alone, Threads, s
<1> QED
  BY <1>1, <1>2, <1>4, <1>5, <1>6 DEF Receipts, FullTurn

(* What was moved out stays what was sent. *)
LEMMA ReceiptsStep ==
  ASSUME TypeOK, TicketsOwnedOnce, TurnsCount, SlotContents, Receipts, [Next]_vars
  PROVE  Receipts'
<1> USE DEF TurnsCount
<1>a. /\ ~ (turn[Idx(head)] > FullTurn(head))
      /\ \A c \in Consumers : pc[c] = "release" => ticket[c] \in Tickets /\ ticket[c] # head
  BY UntakenUnreadable, OwnedTickets DEF WorkInTurn, Reading, OwnsPop
<1>1. ASSUME NEW p \in Producers, NEW v \in Items, Push(p, v)
      PROVE  Receipts'
  <2>1. p \in Threads /\ Alone(p)
    BY <1>1, StepAlone DEF Push, TakeHead, Threads, Goto, Return
  <2> QED
    BY <1>1, <2>1, <1>a, QuietReceipts
       DEF Push, TakeHead, TypeOK, Threads, Tickets, Goto, Return, queueVars, history
<1>2. ASSUME NEW p \in Producers, NEW v \in Items, TryPush(p, v)
      PROVE  Receipts'
  <2>1. p \in Threads /\ Alone(p)
    BY <1>2, StepAlone DEF TryPush, Threads, Goto, Return
  <2> QED
    BY <1>2, <2>1, <1>a, QuietReceipts
       DEF TryPush, TypeOK, Threads, Tickets, Goto, Return, queueVars, history
<1>3. ASSUME NEW p \in Producers, PushWait(p)
      PROVE  Receipts'
  <2>1. p \in Threads /\ Alone(p)
    BY <1>3, StepAlone DEF PushWait, Threads, Goto, Return
  <2> QED
    BY <1>3, <2>1, <1>a, QuietReceipts
       DEF PushWait, TypeOK, Threads, Tickets, Goto, Return, queueVars, history
<1>4. ASSUME NEW p \in Producers, TryPushCheck(p)
      PROVE  Receipts'
  <2>1. p \in Threads /\ Alone(p)
    BY <1>4, StepAlone DEF TryPushCheck, Threads, Goto, Return
  <2> QED
    BY <1>4, <2>1, <1>a, QuietReceipts
       DEF TryPushCheck, TypeOK, Threads, Tickets, Goto, Return, queueVars, history
<1>5. ASSUME NEW p \in Producers, TryPushCas(p)
      PROVE  Receipts'
  <2>1. CASE head = ticket[p]
    <3>1. p \in Threads /\ Alone(p)
      BY <1>5, <2>1, StepAlone DEF TryPushCas, TakeHead, Threads, Goto, Return
    <3> QED
      BY <1>5, <2>1, <3>1, <1>a, QuietReceipts
         DEF TryPushCas, TakeHead, TypeOK, Threads, Tickets, Goto, Return, queueVars,
            history
  <2>2. CASE head # ticket[p]
    <3>1. p \in Threads /\ Alone(p)
      BY <1>5, <2>2, StepAlone DEF TryPushCas, TakeHead, Threads, Goto, Return
    <3> QED
      BY <1>5, <2>2, <3>1, <1>a, QuietReceipts
         DEF TryPushCas, TakeHead, TypeOK, Threads, Tickets, Goto, Return, queueVars,
            history
  <2> QED
    BY <2>1, <2>2
<1>6. ASSUME NEW p \in Producers, TryPushReload(p)
      PROVE  Receipts'
  <2>1. CASE head = ticket[p]
    <3>1. p \in Threads /\ Alone(p)
      BY <1>6, <2>1, StepAlone DEF TryPushReload, Threads, Goto, Return
    <3> QED
      BY <1>6, <2>1, <3>1, <1>a, QuietReceipts
         DEF TryPushReload, TypeOK, Threads, Tickets, Goto, Return, queueVars, history
  <2>2. CASE head # ticket[p]
    <3>1. p \in Threads /\ Alone(p)
      BY <1>6, <2>2, StepAlone DEF TryPushReload, Threads, Goto, Return
    <3> QED
      BY <1>6, <2>2, <3>1, <1>a, QuietReceipts
         DEF TryPushReload, TypeOK, Threads, Tickets, Goto, Return, queueVars, history
  <2> QED
    BY <2>1, <2>2
<1>7. ASSUME NEW p \in Producers, Construct(p)
      PROVE  Receipts'
  <2>1. p \in Threads /\ Alone(p)
    BY <1>7, StepAlone DEF Construct, Threads, Goto, Return
  <2> QED
    BY <1>7, <2>1, <1>a, QuietReceipts
       DEF Construct, TypeOK, Threads, Tickets, Goto, Return, queueVars, history
<1>8. ASSUME NEW p \in Producers, Publish(p)
      PROVE  Receipts'
  BY <1>8, PublishReceipts
<1>9. ASSUME NEW c \in Consumers, Pop(c)
      PROVE  Receipts'
  <2>1. c \in Threads /\ Alone(c)
    BY <1>9, StepAlone DEF Pop, TakeTail, Threads, Goto, Return
  <2> QED
    BY <1>9, <2>1, <1>a, QuietReceipts
       DEF Pop, TakeTail, TypeOK, Threads, Tickets, Goto, Return, queueVars, history
<1>10. ASSUME NEW c \in Consumers, TryPop(c)
       PROVE  Receipts'
  <2>1. c \in Threads /\ Alone(c)
    BY <1>10, StepAlone DEF TryPop, Threads, Goto, Return
  <2> QED
    BY <1>10, <2>1, <1>a, QuietReceipts
       DEF TryPop, TypeOK, Threads, Tickets, Goto, Return, queueVars, history
<1>11. ASSUME NEW c \in Consumers, PopWait(c)
       PROVE  Receipts'
  <2>1. c \in Threads /\ Alone(c)
    BY <1>11, StepAlone DEF PopWait, Threads, Goto, Return
  <2> QED
    BY <1>11, <2>1, <1>a, QuietReceipts
       DEF PopWait, TypeOK, Threads, Tickets, Goto, Return, queueVars, history
<1>12. ASSUME NEW c \in Consumers, TryPopCheck(c)
       PROVE  Receipts'
  <2>1. c \in Threads /\ Alone(c)
    BY <1>12, StepAlone DEF TryPopCheck, Threads, Goto, Return
  <2> QED
    BY <1>12, <2>1, <1>a, QuietReceipts
       DEF TryPopCheck, TypeOK, Threads, Tickets, Goto, Return, queueVars, history
<1>13. ASSUME NEW c \in Consumers, TryPopCas(c)
       PROVE  Receipts'
  <2>1. CASE tail = ticket[c]
    <3>1. c \in Threads /\ Alone(c)
      BY <1>13, <2>1, StepAlone DEF TryPopCas, TakeTail, Threads, Goto, Return
    <3> QED
      BY <1>13, <2>1, <3>1, <1>a, QuietReceipts
         DEF TryPopCas, TakeTail, TypeOK, Threads, Tickets, Goto, Return, queueVars, history
  <2>2. CASE tail # ticket[c]
    <3>1. c \in Threads /\ Alone(c)
      BY <1>13, <2>2, StepAlone DEF TryPopCas, TakeTail, Threads, Goto, Return
    <3> QED
      BY <1>13, <2>2, <3>1, <1>a, QuietReceipts
         DEF TryPopCas, TakeTail, TypeOK, Threads, Tickets, Goto, Return, queueVars, history
  <2> QED
    BY <2>1, <2>2
<1>14. ASSUME NEW c \in Consumers, TryPopReload(c)
       PROVE  Receipts'
  <2>1. CASE tail = ticket[c]
    <3>1. c \in Threads /\ Alone(c)
      BY <1>14, <2>1, StepAlone DEF TryPopReload, Threads, Goto, Return
    <3> QED
      BY <1>14, <2>1, <3>1, <1>a, QuietReceipts
         DEF TryPopReload, TypeOK, Threads, Tickets, Goto, Return, queueVars, history
  <2>2. CASE tail # ticket[c]
    <3>1. c \in Threads /\ Alone(c)
      BY <1>14, <2>2, StepAlone DEF TryPopReload, Threads, Goto, Return
    <3> QED
      BY <1>14, <2>2, <3>1, <1>a, QuietReceipts
         DEF TryPopReload, TypeOK, Threads, Tickets, Goto, Return, queueVars, history
  <2> QED
    BY <2>1, <2>2
<1>15. ASSUME NEW c \in Consumers, Move(c)
       PROVE  Receipts'
  BY <1>15, MoveReceipts
<1>16. ASSUME NEW c \in Consumers, Release(c)
       PROVE  Receipts'
  BY <1>16, ReleaseReceipts
<1>17. CASE UNCHANGED vars
  BY <1>17 DEF vars, queueVars, history, Receipts, FullTurn
<1> QED
  BY <1>1, <1>2, <1>3, <1>4, <1>5, <1>6, <1>7, <1>8, <1>9, <1>10, <1>11, <1>12, <1>13,
     <1>14, <1>15, <1>16, <1>17, Brought DEF Next, ContinuePush, ContinuePop

-----------------------------------------------------------------------------
(***************************************************************************)
(* The theorems.                                                           *)
(***************************************************************************)

(* The ring starts in the invariant...                                     *)
LEMMA InitIInv ==
  ASSUME Init
  PROVE  IInv
<1> USE DEF Init, Threads, Tickets
<1>0. \A t \in Nat : Idx(t) \in Slots /\ Turn(t) \in Nat
  BY SlotAndRound
<1>1. TypeOK
  BY DEF TypeOK, ProducerLabels, ConsumerLabels
<1>2. TicketsOwnedOnce /\ Arguments /\ FailureSeen
  BY DEF TicketsOwnedOnce, Arguments, FailureSeen, OwnsPush, OwnsPop, Trying
<1>3. TurnsCount
  <2>1. UntakenAhead
    BY <1>0 DEF UntakenAhead, EmptyTurn, FullTurn
  <2>2. OwnedAhead /\ FinishedBehind /\ WorkInTurn
    BY DEF OwnedAhead, FinishedBehind, WorkInTurn, OwnsPush, OwnsPop, Writing, Reading
  <2> QED
    BY <2>1, <2>2 DEF TurnsCount
<1>4. \A t \in Tickets : turn[Idx(t)] = 0 /\ 0 < FullTurn(t) /\ storage[Idx(t)] = Nothing
  BY <1>0 DEF FullTurn
<1>5. SlotContents
  BY <1>0, <1>4 DEF SlotContents, Readable
<1>6. Receipts
  BY <1>0, <1>4 DEF Receipts, FullTurn
<1> QED
  BY <1>1, <1>2, <1>3, <1>5, <1>6 DEF IInv

(* ... and every step keeps it.                                            *)
LEMMA StepIInv ==
  ASSUME IInv, [Next]_vars
  PROVE  IInv'
BY TypeStep, OwnersStep, TurnsStep, ArgumentsStep, SlotContentsStep, ReceiptsStep,
   FailureSeenStep DEF IInv, TurnsCount

(* The inductive invariant holds in every reachable state, whatever the    *)
(* number of threads, the capacity and the number of pushes.               *)
THEOREM Inductive == Spec => []IInv
<1>1. Init => IInv
  BY InitIInv
<1>2. IInv /\ [Next]_vars => IInv'
  BY StepIInv
<1> QED
  BY <1>1, <1>2, PTL DEF Spec

(* Every variable keeps its type; in particular no counter goes below 0.   *)
THEOREM TypeCorrect == Spec => []TypeOK
<1>1. IInv => TypeOK
  BY DEF IInv
<1> QED
  BY <1>1, Inductive, PTL

(* No two threads are ever at work in one slot.                            *)
THEOREM NoRaceOnASlot == Spec => []SlotExclusive
<1>1. IInv => SlotExclusive
  BY Exclusion DEF IInv
<1> QED
  BY <1>1, Inductive, PTL

(* Entries are constructed in empty slots and moved out of full ones.      *)
LEMMA LifetimesHold ==
  ASSUME IInv
  PROVE  Lifetimes
<1> USE DEF IInv
<1>1. ASSUME NEW p \in Producers, pc[p] = "construct"
      PROVE  storage[Idx(ticket[p])] = Nothing
  <2>1. ticket[p] \in Tickets /\ Writable(ticket[p]) /\ OwnsPush(p)
    BY <1>1, OwnedTickets DEF OwnsPush, Writing, TurnsCount, WorkInTurn
  <2>2. \A r \in Producers : ~ (pc[r] = "publish" /\ ticket[r] = ticket[p])
    BY <1>1, <2>1 DEF TicketsOwnedOnce, OwnsPush
  <2> QED
    BY <2>1, <2>2 DEF SlotContents
<1>2. ASSUME NEW c \in Consumers, pc[c] = "move"
      PROVE  storage[Idx(ticket[c])] # Nothing
  <2>1. ticket[c] \in Tickets /\ Readable(ticket[c]) /\ OwnsPop(c)
    BY <1>2, OwnedTickets DEF OwnsPop, Reading, TurnsCount, WorkInTurn
  <2>2. \A d \in Consumers : ~ (pc[d] = "release" /\ ticket[d] = ticket[c])
    BY <1>2, <2>1 DEF TicketsOwnedOnce, OwnsPop
  <2>3. storage[Idx(ticket[c])] = sent[ticket[c]]
    BY <2>1, <2>2 DEF SlotContents
  <2>4. ticket[c] < head
    <3>0. ticket[c] \in Nat /\ ticket[c] \in 0 .. MaxTickets
      BY <2>1 DEF Tickets
    <3>1. /\ Turn(ticket[c]) \in Nat /\ head \in Nat
          /\ turn[Idx(ticket[c])] = FullTurn(ticket[c])
      BY <2>1, <3>0, SlotAndRound DEF TypeOK, Readable
    <3>2. ~ (turn[Idx(ticket[c])] <= EmptyTurn(ticket[c]))
      BY <3>1 DEF EmptyTurn, FullTurn
    <3> QED
      BY <3>0, <3>1, <3>2 DEF TurnsCount, UntakenAhead
  <2> QED
    BY <2>1, <2>3, <2>4 DEF Arguments
<1> QED
  BY <1>1, <1>2 DEF Lifetimes

(* No entry is constructed over a live one or moved out of an empty slot.  *)
THEOREM EntriesLiveOnce == Spec => []Lifetimes
BY Inductive, LifetimesHold, PTL

(* The order of delivery follows from the receipts.                        *)
LEMMA DeliveredHolds ==
  ASSUME IInv
  PROVE  DeliveredInTicketOrder
BY DEF IInv, Receipts, DeliveredInTicketOrder

(* The pop with ticket t returns what the push with ticket t brought.      *)
THEOREM FirstInFirstOut == Spec => []DeliveredInTicketOrder
BY Inductive, DeliveredHolds, PTL

(* A try operation that returns false is one that saw why.                 *)
LEMMA FailureStep ==
  ASSUME IInv, [Next]_vars
  PROVE  \A p \in Threads : pc[p] = "try_reload" /\ pc'[p] = "idle" => blocked[p]
<1> SUFFICES ASSUME NEW p \in Threads, pc[p] = "try_reload", pc'[p] = "idle"
             PROVE  blocked[p]
  OBVIOUS
<1>0. TypeOK /\ FailureSeen
  BY DEF IInv
<1>1. ASSUME NEW q \in Producers, NEW v \in Items, Push(q, v) \/ TryPush(q, v)
      PROVE  blocked[p]
  BY <1>0, <1>1 DEF Push, TryPush, Goto, TypeOK, Threads
<1>2. ASSUME NEW q \in Producers, PushWait(q) \/ TryPushCheck(q) \/ TryPushCas(q) \/ Construct(q)
                                  \/ Publish(q)
      PROVE  blocked[p]
  BY <1>0, <1>2
     DEF PushWait, TryPushCheck, TryPushCas, Construct, Publish, Goto, Return, TypeOK,
        Threads
<1>3. ASSUME NEW q \in Producers, TryPushReload(q)
      PROVE  blocked[p]
  BY <1>0, <1>3 DEF TryPushReload, FailureSeen, Goto, Return, TypeOK, Threads
<1>4. ASSUME NEW c \in Consumers, Pop(c) \/ TryPop(c) \/ PopWait(c) \/ TryPopCheck(c)
                                  \/ TryPopCas(c) \/ Move(c) \/ Release(c)
      PROVE  blocked[p]
  BY <1>0, <1>4
     DEF Pop, TryPop, PopWait, TryPopCheck, TryPopCas, Move, Release, Goto, Return, TypeOK,
        Threads
<1>5. ASSUME NEW c \in Consumers, TryPopReload(c)
      PROVE  blocked[p]
  BY <1>0, <1>5 DEF TryPopReload, FailureSeen, Goto, Return, TypeOK, Threads
<1>6. CASE UNCHANGED vars
  BY <1>6 DEF vars
<1> QED
  BY <1>1, <1>2, <1>3, <1>4, <1>5, <1>6, Brought DEF Next, ContinuePush, ContinuePop

(* try_push and try_pop fail only for a reason they saw in their course.   *)
THEOREM FailuresJustified == Spec => FailureIsJustified
<1>1. IInv /\ [Next]_vars =>
        [ \A p \in Threads : pc[p] = "try_reload" /\ pc'[p] = "idle" => blocked[p] ]_vars
  BY FailureStep
<1> QED
  BY <1>1, Inductive, PTL DEF Spec, FailureIsJustified

-----------------------------------------------------------------------------
(***************************************************************************)
(* The refinement.                                                         *)
(***************************************************************************)

Published == [t \in Tickets |-> IF IsPublished(t) THEN sent[t] ELSE Nothing]

(* The fields of the abstract queue.                                       *)
LEMMA AbstractRecord ==
  /\ AbstractQueue = [ reserved |-> head, published |-> Published,
                       claimed |-> tail, delivered |-> received ]
  /\ AbstractQueue' = [ reserved |-> head', published |-> Published',
                        claimed |-> tail', delivered |-> received' ]
BY DEF AbstractQueue, Published

(* A step that changes what is published at no ticket.                     *)
LEMMA SamePublished ==
  ASSUME \A t \in Tickets : IsPublished(t)' <=> IsPublished(t),
         \A t \in Tickets : IsPublished(t) => sent'[t] = sent[t]
  PROVE  Published' = Published
BY DEF Published, Tickets

(* Taking a ticket from head_ reserves it.                                 *)
LEMMA TakeHeadRefines ==
  ASSUME TypeOK, UntakenAhead, head < MaxTickets, head' = head + 1,
         UNCHANGED <<tail, turn, received>>,
         \A t \in Tickets : t # head => sent'[t] = sent[t]
  PROVE  Abstract!Reserve
<1>1. \A t \in Tickets : IsPublished(t)' <=> IsPublished(t)
  BY DEF IsPublished, FullTurn
<1>2. head \in Tickets /\ ~ IsPublished(head)
  <2>1. head \in Nat /\ head \in 0 .. MaxTickets /\ head \in Tickets
    BY DEF TypeOK, Tickets
  <2>2. Idx(head) \in Slots /\ Turn(head) \in Nat /\ turn[Idx(head)] \in Nat
    BY <2>1, SlotAndRound DEF TypeOK
  <2> QED
    BY <2>1, <2>2 DEF UntakenAhead, IsPublished, EmptyTurn, FullTurn
<1>3. Published' = Published
  BY <1>1, <1>2, SamePublished
<1>4. Abstract!MayReserve(AbstractQueue)
  BY AbstractRecord DEF Abstract!MayReserve
<1>5. AbstractQueue' = Abstract!AfterReserve(AbstractQueue)
  BY <1>3, AbstractRecord DEF Abstract!AfterReserve
<1> QED
  BY <1>4, <1>5 DEF Abstract!Reserve

(* Taking a ticket from tail_ claims it.                                   *)
LEMMA TakeTailRefines ==
  ASSUME tail < MaxTickets, tail' = tail + 1, UNCHANGED <<head, turn, sent, received>>
  PROVE  Abstract!Claim
<1>1. Published' = Published
  BY DEF Published, Tickets, IsPublished, FullTurn
<1>2. Abstract!MayClaim(AbstractQueue)
  BY AbstractRecord DEF Abstract!MayClaim
<1>3. AbstractQueue' = Abstract!AfterClaim(AbstractQueue)
  BY <1>1, AbstractRecord DEF Abstract!AfterClaim
<1> QED
  BY <1>2, <1>3 DEF Abstract!Claim

(* The store of a push publishes its ticket.                               *)
LEMMA PublishRefines ==
  ASSUME IInv, NEW p \in Producers, Publish(p)
  PROVE  \E t \in Tickets, v \in Items : Abstract!Publish(t, v)
<1> DEFINE s == ticket[p]
<1> USE DEF IInv
<1>1. /\ s \in Tickets /\ s \in Nat /\ s < head /\ Writable(s) /\ turn \in [Slots -> Nat]
      /\ sent[s] \in Items
  BY OwnedTickets
     DEF Publish, TypeOK, Threads, OwnsPush, Writing, TicketsOwnedOnce, TurnsCount,
                      WorkInTurn, Arguments, Tickets
<1>2. UNCHANGED <<head, tail, sent, received>> /\ turn' = [turn EXCEPT ![Idx(s)] = FullTurn(s)]
  BY DEF Publish
<1> HIDE DEF s
<1>3. ASSUME NEW t \in Tickets, t = s
      PROVE  ~ IsPublished(t) /\ IsPublished(t)'
  <2>1. Idx(s) \in Slots /\ Turn(s) \in Nat
    BY <1>1, SlotAndRound
  <2> QED
    BY <1>1, <1>2, <1>3, <2>1 DEF Writable, IsPublished, EmptyTurn, FullTurn
<1>4. ASSUME NEW t \in Tickets, t # s
      PROVE  IsPublished(t)' <=> IsPublished(t)
  <2>1. t \in Nat
    BY DEF Tickets
  <2>2. CASE Idx(t) = Idx(s)
    <3>1. Turn(s) \in Nat /\ Turn(t) \in Nat /\ Turn(s) # Turn(t)
      BY <1>1, <1>4, <2>1, <2>2, TwoTickets
    <3>2. turn[Idx(t)] = 2 * Turn(s) /\ turn'[Idx(t)] = 2 * Turn(s) + 1
      BY <1>1, <1>2, <2>2, SlotAndRound DEF Writable, EmptyTurn, FullTurn
    <3> QED
      BY <3>1, <3>2 DEF IsPublished, FullTurn
  <2>3. CASE Idx(t) # Idx(s)
    BY <1>1, <1>2, <2>1, <2>3, SlotAndRound DEF IsPublished, FullTurn
  <2> QED
    BY <2>2, <2>3
<1>5. Published' = [Published EXCEPT ![s] = sent[s]]
  <2> SUFFICES ASSUME NEW t \in Tickets
               PROVE  Published'[t] = IF t = s THEN sent[s] ELSE Published[t]
    BY <1>1 DEF Published, Tickets
  <2>1. /\ Published[t] = IF IsPublished(t) THEN sent[t] ELSE Nothing
        /\ Published'[t] = IF IsPublished(t)' THEN sent'[t] ELSE Nothing
    BY DEF Published, Tickets
  <2> QED
    BY <1>2, <1>3, <1>4, <2>1
<1>6. ASSUME s >= Capacity
      PROVE  received[s - Capacity] # Nothing
  <2> DEFINE r == s - Capacity
  <2>1. r \in Nat /\ r \in Tickets /\ r < head /\ head \in Nat
    BY <1>1, <1>6 DEF Tickets, TypeOK
  <2>2. Idx(r) = Idx(s) /\ Turn(r) = Turn(s) - 1 /\ Turn(s) \in Nat
    BY <1>1, <1>6 DEF Idx, Turn
  <2> HIDE DEF r
  <2>3. turn[Idx(r)] > FullTurn(r)
    BY <1>1, <2>2 DEF Writable, EmptyTurn, FullTurn
  <2>4. received[r] = sent[r] /\ sent[r] \in Items
    BY <2>1, <2>3 DEF Receipts, Arguments
  <2> QED
    BY <2>4 DEF r
<1>7. Abstract!Publish(s, sent[s])
  <2>1. Abstract!MayPublish(AbstractQueue, s)
    BY <1>1, <1>3, <1>6
       DEF Abstract!MayPublish, Abstract!IsPublished, Abstract!IsDelivered, AbstractQueue
  <2>2. AbstractQueue' = Abstract!AfterPublish(AbstractQueue, s, sent[s])
    BY <1>2, <1>5, AbstractRecord DEF Abstract!AfterPublish
  <2> QED
    BY <2>1, <2>2 DEF Abstract!Publish
<1> QED
  BY <1>1, <1>7

(* Moving an entry out delivers its ticket.                                *)
LEMMA MoveRefines ==
  ASSUME IInv, NEW c \in Consumers, Move(c)
  PROVE  \E t \in Tickets : Abstract!Deliver(t)
<1> DEFINE s == ticket[c]
<1> USE DEF IInv
<1>1. /\ s \in Tickets /\ s \in Nat /\ s < tail /\ Readable(s) /\ OwnsPop(c)
      /\ received \in [Tickets -> Items \cup {Nothing}]
  BY OwnedTickets DEF Move, TypeOK, Threads, OwnsPop, Reading, TicketsOwnedOnce, TurnsCount,
                      WorkInTurn, Tickets
<1>2. storage[Idx(s)] = sent[s] /\ storage[Idx(s)] # Nothing
  BY <1>1, LifetimesHold DEF SlotContents, TicketsOwnedOnce, OwnsPop, Move, Lifetimes
<1>3. received[s] = Nothing
  <2>1. ~ (turn[Idx(s)] > FullTurn(s))
    BY <1>1, SlotAndRound DEF Readable, FullTurn
  <2>2. \A d \in Consumers : ~ (pc[d] = "release" /\ ticket[d] = s)
    BY <1>1 DEF TicketsOwnedOnce, OwnsPop, Move
  <2> QED
    BY <1>1, <2>1, <2>2 DEF Receipts
<1>4. UNCHANGED <<head, tail, turn, sent>> /\ received' = [received EXCEPT ![s] = sent[s]]
  BY <1>2 DEF Move
<1> HIDE DEF s
<1>5. IsPublished(s)
  BY <1>1, SlotAndRound DEF Readable, IsPublished, FullTurn
<1>6. Published' = Published
  BY <1>4 DEF Published, Tickets, IsPublished, FullTurn
<1>7. Abstract!MayDeliver(AbstractQueue, s)
  BY <1>1, <1>2, <1>3, <1>5
     DEF Abstract!MayDeliver, Abstract!IsPublished, Abstract!IsDelivered, AbstractQueue
<1>8. AbstractQueue' = Abstract!AfterDeliver(AbstractQueue, s)
  <2>1. Published[s] = sent[s]
    BY <1>1, <1>5 DEF Published
  <2> QED
    BY <1>4, <1>6, <2>1, AbstractRecord DEF Abstract!AfterDeliver
<1> QED
  BY <1>1, <1>7, <1>8 DEF Abstract!Deliver

(* The store of a pop publishes nothing and hides nothing.                 *)
LEMMA ReleaseRefines ==
  ASSUME IInv, NEW c \in Consumers, Release(c)
  PROVE  UNCHANGED AbstractQueue
<1> DEFINE s == ticket[c]
<1> USE DEF IInv
<1>1. s \in Nat /\ Readable(s) /\ turn \in [Slots -> Nat]
  BY DEF Release, TypeOK, Threads, Reading, TurnsCount, WorkInTurn
<1>2. UNCHANGED <<head, tail, sent, received>> /\ turn' = [turn EXCEPT ![Idx(s)] = FullTurn(s) + 1]
  BY DEF Release
<1> HIDE DEF s
<1>3. ASSUME NEW t \in Tickets
      PROVE  IsPublished(t)' <=> IsPublished(t)
  <2>1. t \in Nat
    BY DEF Tickets
  <2>2. CASE Idx(t) = Idx(s)
    <3>1. Turn(s) \in Nat /\ Turn(t) \in Nat
      BY <1>1, <2>1, SlotAndRound
    <3>2. turn[Idx(t)] = 2 * Turn(s) + 1 /\ turn'[Idx(t)] = 2 * Turn(s) + 2
      BY <1>1, <1>2, <2>2, <3>1, SlotAndRound DEF Readable, FullTurn
    <3> QED
      BY <3>1, <3>2 DEF IsPublished, FullTurn
  <2>3. CASE Idx(t) # Idx(s)
    BY <1>1, <1>2, <2>1, <2>3, SlotAndRound DEF IsPublished, FullTurn
  <2> QED
    BY <2>2, <2>3
<1>4. Published' = Published
  BY <1>2, <1>3, SamePublished
<1> QED
  BY <1>2, <1>4 DEF AbstractQueue, Published

(* A step that changes nothing the abstract queue is made of.              *)
LEMMA QuietRefines ==
  ASSUME UNCHANGED <<head, tail, turn, sent, received>>
  PROVE  UNCHANGED AbstractQueue
BY DEF AbstractQueue, Tickets, IsPublished, FullTurn

(* An empty ring is an empty queue.                                        *)
LEMMA InitRefines ==
  ASSUME Init
  PROVE  Abstract!Init
<1>1. \A t \in Tickets : ~ IsPublished(t)
  BY SlotAndRound DEF Init, Tickets, IsPublished, FullTurn
<1> QED
  BY <1>1 DEF Init, Abstract!Init, Abstract!EmptyQueue, AbstractQueue, Tickets,
     Abstract!Tickets

(* Every step of the ring is a step of TicketQueue, or none.               *)
LEMMA StepRefines ==
  ASSUME IInv, [Next]_vars
  PROVE  [Abstract!Next]_AbstractQueue
<1> USE DEF queueVars, history
<1>0. TypeOK /\ UntakenAhead
  BY DEF IInv, TurnsCount
<1>1. ASSUME NEW p \in Producers, NEW v \in Items, Push(p, v)
      PROVE  Abstract!Next
  BY <1>0, <1>1, TakeHeadRefines DEF Push, TakeHead, TypeOK, Abstract!Next
<1>2. ASSUME NEW p \in Producers, NEW v \in Items, TryPush(p, v)
      PROVE  UNCHANGED AbstractQueue
  BY <1>2, QuietRefines DEF TryPush
<1>3. ASSUME NEW p \in Producers, PushWait(p) \/ TryPushCheck(p) \/ TryPushReload(p) \/ Construct(p)
      PROVE  UNCHANGED AbstractQueue
  BY <1>3, QuietRefines DEF PushWait, TryPushCheck, TryPushReload, Construct
<1>4. ASSUME NEW p \in Producers, TryPushCas(p)
      PROVE  [Abstract!Next]_AbstractQueue
  <2>1. CASE head = ticket[p]
    BY <1>0, <1>4, <2>1, TakeHeadRefines DEF TryPushCas, TakeHead, TypeOK, Abstract!Next
  <2>2. CASE head # ticket[p]
    BY <1>4, <2>2, QuietRefines DEF TryPushCas
  <2> QED
    BY <2>1, <2>2
<1>5. ASSUME NEW p \in Producers, Publish(p)
      PROVE  Abstract!Next
  BY <1>5, PublishRefines DEF Abstract!Next, Abstract!Tickets, Tickets
<1>6. ASSUME NEW c \in Consumers, Pop(c)
      PROVE  Abstract!Next
  BY <1>6, TakeTailRefines DEF Pop, TakeTail, Abstract!Next
<1>7. ASSUME NEW c \in Consumers, TryPop(c) \/ PopWait(c) \/ TryPopCheck(c) \/ TryPopReload(c)
      PROVE  UNCHANGED AbstractQueue
  BY <1>7, QuietRefines DEF TryPop, PopWait, TryPopCheck, TryPopReload
<1>8. ASSUME NEW c \in Consumers, TryPopCas(c)
      PROVE  [Abstract!Next]_AbstractQueue
  <2>1. CASE tail = ticket[c]
    BY <1>8, <2>1, TakeTailRefines DEF TryPopCas, TakeTail, Abstract!Next
  <2>2. CASE tail # ticket[c]
    BY <1>8, <2>2, QuietRefines DEF TryPopCas
  <2> QED
    BY <2>1, <2>2
<1>9. ASSUME NEW c \in Consumers, Move(c)
      PROVE  Abstract!Next
  BY <1>9, MoveRefines DEF Abstract!Next, Abstract!Tickets, Tickets
<1>10. ASSUME NEW c \in Consumers, Release(c)
       PROVE  UNCHANGED AbstractQueue
  BY <1>10, ReleaseRefines
<1>11. CASE UNCHANGED vars
  BY <1>11, QuietRefines DEF vars
<1> QED
  BY <1>1, <1>2, <1>3, <1>4, <1>5, <1>6, <1>7, <1>8, <1>9, <1>10, <1>11,
     Brought DEF Next, ContinuePush, ContinuePop

(* The ring buffer implements the bounded queue of TicketQueue, for every  *)
(* number of threads, every capacity and every number of pushes.           *)
THEOREM Refinement == Spec => ImplementsTicketQueue
<1>1. Init => Abstract!Init
  BY InitRefines
<1>2. IInv /\ [Next]_vars => [Abstract!Next]_AbstractQueue
  BY StepRefines
<1> QED
  BY <1>1, <1>2, Inductive, PTL DEF Spec, ImplementsTicketQueue, Abstract!Spec

=============================================================================
