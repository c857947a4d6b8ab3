------------------------------- MODULE QueueOps -------------------------------
(***************************************************************************)
(* What the bounded multi-producer multi-consumer queue promises, without  *)
(* slots, turns or threads.                                                *)
(*                                                                         *)
(* Every push owns a ticket, numbered in the order the pushes were         *)
(* admitted, and every pop owns one too: pop number t returns the entry of *)
(* push number t.  The promise is weaker than a FIFO queue: an entry whose *)
(* push has returned stays invisible as long as the push of an earlier     *)
(* ticket is still in progress.  The code that polls the queue lives with  *)
(* that (AsyncQueuePoller), so the promise is stated here as it is.        *)
(*                                                                         *)
(* A queue is a record, and each operation an operator on records:         *)
(* TicketQueue is the specification of one queue, and AsyncQueuePoller     *)
(* keeps a function from queues to such records.                           *)
(***************************************************************************)
EXTENDS Integers

CONSTANTS
  Items,       (* what can be pushed                                       *)
  Nothing,     (* what stands where no item is                             *)
  Capacity,    (* entries published and not delivered, at most             *)
  MaxTickets   (* tickets a queue hands out, at most: the model's bound on *)
               (* the number of pushes, and of pops, of one queue          *)

Tickets == 0 .. MaxTickets - 1

QueueType ==
  [ reserved  : 0 .. MaxTickets,
    published : [Tickets -> Items \cup {Nothing}],
    claimed   : 0 .. MaxTickets,
    delivered : [Tickets -> Items \cup {Nothing}] ]

EmptyQueue ==
  [ reserved  |-> 0,
    published |-> [t \in Tickets |-> Nothing],
    claimed   |-> 0,
    delivered |-> [t \in Tickets |-> Nothing] ]

IsPublished(q, t) == q.published[t] # Nothing

IsDelivered(q, t) == q.delivered[t] # Nothing

(* A push is admitted whether or not there is room: it owns the next       *)
(* ticket and may have to wait before it can publish.                      *)
MayReserve(q) == q.reserved < MaxTickets

AfterReserve(q) == [q EXCEPT !.reserved = @ + 1]

(* An entry is never published over one that has not been delivered.       *)
MayPublish(q, t) ==
  /\ t < q.reserved
  /\ ~ IsPublished(q, t)
  /\ t >= Capacity => IsDelivered(q, t - Capacity)

AfterPublish(q, t, v) == [q EXCEPT !.published[t] = v]

MayClaim(q) == q.claimed < MaxTickets

AfterClaim(q) == [q EXCEPT !.claimed = @ + 1]

MayDeliver(q, t) ==
  /\ t < q.claimed
  /\ IsPublished(q, t)
  /\ ~ IsDelivered(q, t)

AfterDeliver(q, t) == [q EXCEPT !.delivered[t] = q.published[t]]

=============================================================================
