------------------------------ MODULE MPMCQueue ------------------------------
(***************************************************************************)
(* The lock-free ring buffer under every asynchronous sink                 *)
(* (include/logpp/queue/impl/MPMCQueue.h).                                 *)
(*                                                                         *)
(* A push takes a ticket from head_, a pop one from tail_.  Ticket t uses  *)
(* slot idx(t) in round turn(t).  The slot's own counter says whose turn   *)
(* it is: 2*turn(t) lets the push of ticket t construct the entry, and the *)
(* push then stores 2*turn(t)+1, which lets the pop of ticket t move the   *)
(* entry out and destroy it, and the pop then stores 2*turn(t)+2.          *)
(*                                                                         *)
(* One action is one access to a variable that threads share.  Loads and   *)
(* stores are sequentially consistent here: the code orders the accesses   *)
(* to an entry by the acquire loads and release stores of the slot's       *)
(* counter, and head_ and tail_ are only changed by sequentially           *)
(* consistent read-modify-write operations.                                *)
(***************************************************************************)
EXTENDS Integers

CONSTANTS
  Producers,   (* threads that push                                        *)
  Consumers,   (* threads that pop                                         *)
  Items,       (* what is pushed                                           *)
  Brings,      (* which of it each producer pushes                         *)
  Nothing,     (* the content of a slot that holds no entry                *)
  Capacity,    (* capacity_                                                *)
  MaxTickets   (* the bound on head_ and tail_; below 2^64 they never wrap *)

(* The constructor throws for a capacity below 1.                          *)
ASSUME CapacityAssumption == Capacity \in Nat \ {0}

ASSUME MaxTicketsAssumption == MaxTickets \in Nat

ASSUME NothingAssumption == Nothing \notin Items

ASSUME BringsAssumption == Brings \in [Producers -> SUBSET Items]

(* A thread that pushes and pops does one thing at a time, so it behaves   *)
(* like a producer and a consumer that take turns.                         *)
ASSUME RolesAssumption == Producers \cap Consumers = {}

VARIABLES
  head,       (* head_: the next ticket of a push                          *)
  tail,       (* tail_: the next ticket of a pop                           *)
  turn,       (* each slot's turn                                          *)
  storage,    (* each slot's storage: an entry, or Nothing                 *)
  pc,         (* where each thread is                                      *)
  ticket,     (* each thread's local copy of head_ or tail_                *)
  arg,        (* the entry each thread is pushing, or Nothing              *)
  blocked,    (* history: what a try operation's look at its slot found    *)
  sent,       (* history: the entry each admitted push brings              *)
  received    (* history: the entry each pop moved out                     *)

queueVars == <<head, tail, turn, storage>>
history   == <<blocked, sent, received>>
vars      == <<queueVars, pc, ticket, arg, history>>

Tickets == 0 .. MaxTickets - 1
Slots   == 0 .. Capacity - 1
Threads == Producers \cup Consumers

Idx(t)  == t % Capacity
Turn(t) == t \div Capacity

EmptyTurn(t) == 2 * Turn(t)
FullTurn(t)  == 2 * Turn(t) + 1

(* Two faulty tests of a slot: they look at the parity of its counter and  *)
(* so forget the round the ticket belongs to.                              *)
WritableInAnyRound(t) == turn[Idx(t)] % 2 = 0
ReadableInAnyRound(t) == turn[Idx(t)] % 2 = 1

Writable(t) == turn[Idx(t)] = EmptyTurn(t)
Readable(t) == turn[Idx(t)] = FullTurn(t)

IsPublished(t) == turn[Idx(t)] >= FullTurn(t)

Goto(p, label) == pc' = [pc EXCEPT ![p] = label]

(* The operation returns, and its local variables end their life.          *)
Return(p) ==
  /\ Goto(p, "idle")
  /\ ticket' = [ticket EXCEPT ![p] = 0]
  /\ arg' = [arg EXCEPT ![p] = Nothing]
  /\ blocked' = [blocked EXCEPT ![p] = FALSE]

Init ==
  /\ head = 0
  /\ tail = 0
  /\ turn = [i \in Slots |-> 0]
  /\ storage = [i \in Slots |-> Nothing]
  /\ pc = [p \in Threads |-> "idle"]
  /\ ticket = [p \in Threads |-> 0]
  /\ arg = [p \in Threads |-> Nothing]
  /\ blocked = [p \in Threads |-> FALSE]
  /\ sent = [t \in Tickets |-> Nothing]
  /\ received = [t \in Tickets |-> Nothing]

-----------------------------------------------------------------------------
(***************************************************************************)
(* Pushing: emplace and try_emplace.                                       *)
(***************************************************************************)

(* The ticket is taken from head_, and with it the place in the order.     *)
TakeHead(p, v) ==
  /\ head < MaxTickets
  /\ head' = head + 1
  /\ ticket' = [ticket EXCEPT ![p] = head]
  /\ sent' = [sent EXCEPT ![head] = v]

(* emplace: the ticket is taken without looking at the slot.               *)
Push(p, v) ==
  /\ pc[p] = "idle"
  /\ TakeHead(p, v)
  /\ arg' = [arg EXCEPT ![p] = v]
  /\ Goto(p, "push_wait")
  /\ UNCHANGED <<tail, turn, storage, blocked, received>>

(* The loop that spins until the slot's turn has come.                     *)
PushWait(p) ==
  /\ pc[p] = "push_wait"
  /\ Writable(ticket[p])
  /\ Goto(p, "construct")
  /\ UNCHANGED <<queueVars, ticket, arg, history>>

(* try_emplace: head_ is only read.                                        *)
TryPush(p, v) ==
  /\ pc[p] = "idle"
  /\ ticket' = [ticket EXCEPT ![p] = head]
  /\ arg' = [arg EXCEPT ![p] = v]
  /\ Goto(p, "try_check")
  /\ UNCHANGED <<queueVars, history>>

TryPushCheck(p) ==
  /\ p \in Producers
  /\ pc[p] = "try_check"
  /\ Goto(p, IF Writable(ticket[p]) THEN "try_cas" ELSE "try_reload")
  /\ blocked' = [blocked EXCEPT ![p] = (head = ticket[p] /\ ~ Writable(ticket[p]))]
  /\ UNCHANGED <<queueVars, ticket, arg, sent, received>>

(* compare_exchange_strong writes the current head_ back when it fails.    *)
TryPushCas(p) ==
  /\ p \in Producers
  /\ pc[p] = "try_cas"
  /\ \/ /\ head = ticket[p]
        /\ TakeHead(p, arg[p])
        /\ Goto(p, "construct")
     \/ /\ head # ticket[p]
        /\ ticket' = [ticket EXCEPT ![p] = head]
        /\ Goto(p, "try_check")
        /\ UNCHANGED <<head, sent>>
  /\ UNCHANGED <<tail, turn, storage, arg, blocked, received>>

(* The slot was taken: fail, unless head_ has moved in the meantime.       *)
TryPushReload(p) ==
  /\ p \in Producers
  /\ pc[p] = "try_reload"
  /\ \/ /\ head = ticket[p]
        /\ Return(p)
     \/ /\ head # ticket[p]
        /\ ticket' = [ticket EXCEPT ![p] = head]
        /\ Goto(p, "try_check")
        /\ UNCHANGED <<arg, blocked>>
  /\ UNCHANGED <<queueVars, sent, received>>

Construct(p) ==
  /\ pc[p] = "construct"
  /\ storage' = [storage EXCEPT ![Idx(ticket[p])] = arg[p]]
  /\ Goto(p, "publish")
  /\ UNCHANGED <<head, tail, turn, ticket, arg, history>>

(* A faulty store of the counter, two steps behind.                        *)
PublishBehind(p) ==
  /\ pc[p] = "publish"
  /\ turn' = [turn EXCEPT ![Idx(ticket[p])] = FullTurn(ticket[p]) - 2]
  /\ Return(p)
  /\ UNCHANGED <<head, tail, storage, sent, received>>

Publish(p) ==
  /\ pc[p] = "publish"
  /\ turn' = [turn EXCEPT ![Idx(ticket[p])] = FullTurn(ticket[p])]
  /\ Return(p)
  /\ UNCHANGED <<head, tail, storage, sent, received>>

-----------------------------------------------------------------------------
(***************************************************************************)
(* Popping: pop and try_pop.                                               *)
(***************************************************************************)

TakeTail(c) ==
  /\ tail < MaxTickets
  /\ tail' = tail + 1
  /\ ticket' = [ticket EXCEPT ![c] = tail]

Pop(c) ==
  /\ pc[c] = "idle"
  /\ TakeTail(c)
  /\ Goto(c, "pop_wait")
  /\ UNCHANGED <<head, turn, storage, arg, history>>

PopWait(c) ==
  /\ pc[c] = "pop_wait"
  /\ Readable(ticket[c])
  /\ Goto(c, "move")
  /\ UNCHANGED <<queueVars, ticket, arg, history>>

TryPop(c) ==
  /\ pc[c] = "idle"
  /\ ticket' = [ticket EXCEPT ![c] = tail]
  /\ Goto(c, "try_check")
  /\ UNCHANGED <<queueVars, arg, history>>

TryPopCheck(c) ==
  /\ c \in Consumers
  /\ pc[c] = "try_check"
  /\ Goto(c, IF Readable(ticket[c]) THEN "try_cas" ELSE "try_reload")
  /\ blocked' = [blocked EXCEPT ![c] = (tail = ticket[c] /\ ~ IsPublished(tail))]
  /\ UNCHANGED <<queueVars, ticket, arg, sent, received>>

(* A faulty claim: tail_ is stored, whatever its value has become since it *)
(* was read.                                                               *)
TryPopStore(c) ==
  /\ c \in Consumers
  /\ pc[c] = "try_cas"
  /\ ticket[c] < MaxTickets
  /\ tail' = ticket[c] + 1
  /\ Goto(c, "move")
  /\ UNCHANGED <<head, turn, storage, ticket, arg, history>>

TryPopCas(c) ==
  /\ c \in Consumers
  /\ pc[c] = "try_cas"
  /\ \/ /\ tail = ticket[c]
        /\ TakeTail(c)
        /\ Goto(c, "move")
     \/ /\ tail # ticket[c]
        /\ ticket' = [ticket EXCEPT ![c] = tail]
        /\ Goto(c, "try_check")
        /\ UNCHANGED tail
  /\ UNCHANGED <<head, turn, storage, arg, history>>

(* A faulty failure: tail_ is not read again before giving up.             *)
TryPopGiveUp(c) ==
  /\ c \in Consumers
  /\ pc[c] = "try_reload"
  /\ Return(c)
  /\ UNCHANGED <<queueVars, sent, received>>

TryPopReload(c) ==
  /\ c \in Consumers
  /\ pc[c] = "try_reload"
  /\ \/ /\ tail = ticket[c]
        /\ Return(c)
     \/ /\ tail # ticket[c]
        /\ ticket' = [ticket EXCEPT ![c] = tail]
        /\ Goto(c, "try_check")
        /\ UNCHANGED <<arg, blocked>>
  /\ UNCHANGED <<queueVars, sent, received>>

(* The entry is moved out and what is left of it destroyed.                *)
Move(c) ==
  /\ pc[c] = "move"
  /\ received' = [received EXCEPT ![ticket[c]] = storage[Idx(ticket[c])]]
  /\ storage' = [storage EXCEPT ![Idx(ticket[c])] = Nothing]
  /\ Goto(c, "release")
  /\ UNCHANGED <<head, tail, turn, ticket, arg, blocked, sent>>

(* A faulty hand-over: the slot stays in its round.                        *)
ReleaseSameRound(c) ==
  /\ pc[c] = "release"
  /\ turn' = [turn EXCEPT ![Idx(ticket[c])] = EmptyTurn(ticket[c])]
  /\ Return(c)
  /\ UNCHANGED <<head, tail, storage, sent, received>>

(* The slot is given to the push of the next round.                        *)
Release(c) ==
  /\ pc[c] = "release"
  /\ turn' = [turn EXCEPT ![Idx(ticket[c])] = FullTurn(ticket[c]) + 1]
  /\ Return(c)
  /\ UNCHANGED <<head, tail, storage, sent, received>>

-----------------------------------------------------------------------------
(***************************************************************************)
(* The specification.                                                      *)
(***************************************************************************)

(* A thread inside an operation goes on; it does not choose to.            *)
ContinuePush(p) ==
  \/ PushWait(p)
  \/ TryPushCheck(p)
  \/ TryPushCas(p)
  \/ TryPushReload(p)
  \/ Construct(p)
  \/ Publish(p)

ContinuePop(c) ==
  \/ PopWait(c)
  \/ TryPopCheck(c)
  \/ TryPopCas(c)
  \/ TryPopReload(c)
  \/ Move(c)
  \/ Release(c)

Next ==
  \/ \E p \in Producers :
       \/ ContinuePush(p)
       \/ \E v \in Brings[p] : Push(p, v) \/ TryPush(p, v)
  \/ \E c \in Consumers :
       \/ ContinuePop(c)
       \/ Pop(c)
       \/ TryPop(c)

Spec == Init /\ [][Next]_vars

(* The scheduler runs every thread.  No producer has to push.  A consumer  *)
(* is the polling loop of AsyncQueuePoller::run, which calls try_pop for   *)
(* ever.                                                                   *)
Fairness ==
  /\ \A p \in Producers : WF_vars(ContinuePush(p))
  /\ \A c \in Consumers : WF_vars(ContinuePop(c)) /\ WF_vars(TryPop(c))

FairSpec == Spec /\ Fairness

-----------------------------------------------------------------------------
(***************************************************************************)
(* Properties.                                                             *)
(***************************************************************************)
ProducerLabels == {"idle", "push_wait", "try_check", "try_cas", "try_reload",
                   "construct", "publish"}
ConsumerLabels == {"idle", "pop_wait", "try_check", "try_cas", "try_reload",
                   "move", "release"}

(* Every variable has its type, and a slot's counter never goes below zero *)
(* (size_t would wrap).                                                    *)
TypeOK ==
  /\ head \in 0 .. MaxTickets
  /\ tail \in 0 .. MaxTickets
  /\ turn \in [Slots -> Nat]
  /\ storage \in [Slots -> Items \cup {Nothing}]
  /\ pc \in [Threads -> ProducerLabels \cup ConsumerLabels]
  /\ \A p \in Producers : pc[p] \in ProducerLabels
  /\ \A c \in Consumers : pc[c] \in ConsumerLabels
  /\ ticket \in [Threads -> Nat]
  /\ arg \in [Threads -> Items \cup {Nothing}]
  /\ blocked \in [Threads -> BOOLEAN]
  /\ sent \in [Tickets -> Items \cup {Nothing}]
  /\ received \in [Tickets -> Items \cup {Nothing}]

(* The threads that touch the slot of their ticket.                        *)
Writing(p)  == p \in Producers /\ pc[p] \in {"construct", "publish"}
Reading(c)  == c \in Consumers /\ pc[c] \in {"move", "release"}

(* No data race on an entry: between its look at the slot's counter and    *)
(* the store that hands the slot on, a thread is alone in the slot.  The   *)
(* storage is not atomic, so a second thread there is undefined behaviour. *)
SlotExclusive ==
  \A x, y \in Threads :
    /\ Writing(x) \/ Reading(x)
    /\ Writing(y) \/ Reading(y)
    /\ Idx(ticket[x]) = Idx(ticket[y])
    => x = y

(* An entry is never constructed over a live one (it would leak), and only *)
(* a live one is moved from and destroyed.                                 *)
Lifetimes ==
  /\ \A p \in Producers : pc[p] = "construct" => storage[Idx(ticket[p])] = Nothing
  /\ \A c \in Consumers : pc[c] = "move" => storage[Idx(ticket[c])] # Nothing

(* What pop number t returns is what push number t brought: entries are    *)
(* neither lost, nor duplicated, nor swapped, whatever the interleaving    *)
(* and however often the ring wraps.                                       *)
DeliveredInTicketOrder ==
  \A t \in Tickets : received[t] # Nothing => received[t] = sent[t]

(* try_pop returns false only if, at some moment of the call, the oldest   *)
(* ticket not yet popped was not published; try_push only if the next      *)
(* ticket's slot was still taken.                                          *)
FailureIsJustified ==
  [][ \A p \in Threads :
        pc[p] = "try_reload" /\ pc'[p] = "idle" => blocked[p] ]_vars

(* The ring buffer implements TicketQueue.  A ticket is reserved with      *)
(* head_, published when the slot's counter says so, claimed with tail_    *)
(* and delivered when the entry is moved out.                              *)
AbstractQueue ==
  [ reserved  |-> head,
    published |-> [t \in Tickets |-> IF IsPublished(t) THEN sent[t] ELSE Nothing],
    claimed   |-> tail,
    delivered |-> received ]

Abstract == INSTANCE TicketQueue WITH queue <- AbstractQueue

ImplementsTicketQueue == Abstract!Spec

(* Under the polling loop every admitted push is eventually handed to the  *)
(* reader, also those that had to wait for a slot: as there is a bound on  *)
(* the pushes, there always comes a moment at which none is left.          *)
EveryPushDelivered ==
  []<>(\A t \in Tickets : t < head => received[t] # Nothing)

=============================================================================
