----------------------------- MODULE TicketQueue -----------------------------
(***************************************************************************)
(* The specification of one bounded queue: QueueOps says what each of its  *)
(* operations may do, and any thread may do any of them at any time.       *)
(***************************************************************************)
EXTENDS QueueOps

VARIABLE queue

Init == queue = EmptyQueue

Reserve == MayReserve(queue) /\ queue' = AfterReserve(queue)

Publish(t, v) == MayPublish(queue, t) /\ queue' = AfterPublish(queue, t, v)

Claim == MayClaim(queue) /\ queue' = AfterClaim(queue)

Deliver(t) == MayDeliver(queue, t) /\ queue' = AfterDeliver(queue, t)

Next ==
  \/ Reserve
  \/ Claim
  \/ \E t \in Tickets : Deliver(t)
  \/ \E t \in Tickets, v \in Items : Publish(t, v)

Spec == Init /\ [][Next]_queue

=============================================================================
