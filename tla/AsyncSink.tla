------------------------------ MODULE AsyncSink ------------------------------
(***************************************************************************)
(* The asynchronous sink (sinks/AsyncSink.h) between the loggers that log  *)
(* to it and its inner sinks, with the queue that it fills (QueueOps, of   *)
(* the size in its options) and the thread that polls the queue            *)
(* (AsyncQueuePoller has the details; here the control queue only keeps    *)
(* the order of the requests).                                             *)
(*                                                                         *)
(* The inner sink is a MultiSink of LevelSinks.  The size of the queue is  *)
(* computed from the option in Width bits, and SizeRounding rounds it.     *)
(***************************************************************************)
EXTENDS SizeRounding, Sequences, SequencesExt

CONSTANTS
  Producers,    (* threads that log                                        *)
  EventLevels,  (* the levels they log at                                  *)
  InnerSinks,   (* the inner sinks, in the order of the options            *)
  MinLevel,     (* the level of each                                       *)
  Sizes,        (* values of the option "size", without the unit           *)
  Units,        (* its units: 1, and what a unit multiplies with           *)
  MaxTickets,   (* bound: events logged                                    *)
  MaxCalls,     (* bound: calls of start and stop                          *)
  Nothing       (* no event                                                *)

ASSUME SizesAssumption == Sizes \subseteq Nat /\ Units \subseteq Nat \ {0}

ASSUME SinksAssumption == MinLevel \in [ToSet(InnerSinks) -> Nat] /\ EventLevels \subseteq Nat

ASSUME CallsAssumption == MaxTickets \in Nat /\ MaxCalls \in Nat

VARIABLES
  option,       (* the option "size", as it was written                    *)
  size,         (* the size that parseSize made of it                      *)
  capacity,     (* the capacity of the ring, or 0 before and without it    *)
  phase,        (* "new", "active", or "rejected" by activateOptions       *)
  fifo,         (* the queue                                               *)
  handler,      (* m_handler of the queue: "none", "set" or "writing"      *)
  requests,     (* what was sent to the poller and not handled             *)
  attached,     (* the poller polls the queue                              *)
  worker,       (* where the polling thread is                             *)
  at,           (* where each producer is: "idle" or its ticket and event  *)
  caller,       (* where the thread is that calls start and stop           *)
  calls,        (* how many calls it made                                  *)
  stopped,      (* history: the last call was stop                         *)
  received,     (* history: what each inner sink got                       *)
  raced         (* history: the handler was called while it was replaced   *)

Events == [logger : Producers, level : EventLevels]

Queue == INSTANCE QueueOps WITH Items <- Events, Capacity <- capacity

setting == <<option, size, capacity, phase>>
thread  == <<requests, attached, worker>>
control == <<caller, calls, stopped>>
vars == <<setting, fifo, handler, thread, at, control, received, raced>>

Idle == [ticket |-> -1, event |-> Nothing]

(* The largest number strtoll returns, and what it returns instead of a    *)
(* larger one.                                                             *)
LargestLong == Power[Width - 1] - 1

Parsed(number) == IF number > LargestLong THEN LargestLong ELSE number

(* parseSize: the product with the unit is not checked.                    *)
Init ==
  /\ option \in [number : Sizes, unit : Units]
  /\ size = Wrap(Parsed(option.number) * option.unit)
  /\ capacity = 0
  /\ phase = "new"
  /\ fifo = Queue!EmptyQueue
  /\ handler = "none"
  /\ requests = <<>>
  /\ attached = FALSE
  /\ worker = "control"
  /\ at = [p \in Producers |-> Idle]
  /\ caller = "idle"
  /\ calls = 0
  /\ stopped = FALSE
  /\ received = [s \in ToSet(InnerSinks) |-> <<>>]
  /\ raced = FALSE

-----------------------------------------------------------------------------
(***************************************************************************)
(* activateOptions.                                                        *)
(***************************************************************************)
(* A faulty activation: the queue has no handler.                          *)
ActivateUnhandled ==
  /\ phase = "new"
  /\ capacity' = RoundNextPowerOfTwo(size)
  /\ IF capacity' < 1
     THEN phase' = "rejected" /\ UNCHANGED requests
     ELSE phase' = "active" /\ requests' = Append(requests, "add")
  /\ UNCHANGED <<option, size, fifo, handler, attached, worker, at, control, received, raced>>

(* The ring rejects a capacity of zero.  Nobody has the sink yet, and its  *)
(* poller is started last, so that this is one step.                       *)
Activate ==
  /\ phase = "new"
  /\ capacity' = RoundNextPowerOfTwo(size)
  /\ IF capacity' < 1
     THEN phase' = "rejected" /\ UNCHANGED <<handler, requests>>
     ELSE phase' = "active" /\ handler' = "set" /\ requests' = Append(requests, "add")
  /\ UNCHANGED <<option, size, fifo, attached, worker, at, control, received, raced>>

-----------------------------------------------------------------------------
(***************************************************************************)
(* Logging: sink pushes a copy of the event, and waits while the queue is  *)
(* full.  Nothing tells it whether anybody polls the queue.                *)
(***************************************************************************)
BeginSink(p, event) ==
  /\ phase = "active"
  /\ at[p] = Idle
  /\ Queue!MayReserve(fifo)
  /\ fifo' = Queue!AfterReserve(fifo)
  /\ at' = [at EXCEPT ![p] = [ticket |-> fifo.reserved, event |-> event]]
  /\ UNCHANGED <<setting, handler, thread, control, received, raced>>

FinishSink(p) ==
  /\ at[p] # Idle
  /\ Queue!MayPublish(fifo, at[p].ticket)
  /\ fifo' = Queue!AfterPublish(fifo, at[p].ticket, at[p].event)
  /\ at' = [at EXCEPT ![p] = Idle]
  /\ UNCHANGED <<setting, handler, thread, control, received, raced>>

-----------------------------------------------------------------------------
(***************************************************************************)
(* start and stop.                                                         *)
(***************************************************************************)
MayCall ==
  /\ phase = "active"
  /\ caller = "idle"
  /\ calls < MaxCalls
  /\ calls' = calls + 1

(* start assigns the handler without a lock, and then adds the queue.      *)
Start ==
  /\ MayCall
  /\ caller' = "setting"
  /\ handler' = "writing"
  /\ stopped' = FALSE
  /\ UNCHANGED <<setting, fifo, thread, at, received, raced>>

SetHandler ==
  /\ caller = "setting"
  /\ caller' = "adding"
  /\ handler' = "set"
  /\ UNCHANGED <<setting, fifo, thread, at, calls, stopped, received, raced>>

(* A faulty start: the queue is not added again.                           *)
ForgetQueue ==
  /\ caller = "adding"
  /\ caller' = "idle"
  /\ UNCHANGED <<setting, fifo, handler, thread, at, calls, stopped, received, raced>>

AddQueue ==
  /\ caller = "adding"
  /\ caller' = "idle"
  /\ requests' = Append(requests, "add")
  /\ UNCHANGED <<setting, fifo, handler, attached, worker, at, calls, stopped, received,
                 raced>>

(* stop discards the future, so that it does not wait.                     *)
Stop ==
  /\ MayCall
  /\ stopped' = TRUE
  /\ requests' = Append(requests, "remove")
  /\ UNCHANGED <<setting, fifo, handler, attached, worker, at, caller, received, raced>>

-----------------------------------------------------------------------------
(***************************************************************************)
(* The polling thread.                                                     *)
(***************************************************************************)
HandleAdd ==
  /\ worker = "control"
  /\ requests # <<>> /\ Head(requests) = "add"
  /\ attached' = TRUE
  /\ requests' = Tail(requests)
  /\ UNCHANGED <<setting, fifo, handler, worker, at, control, received, raced>>

HandleRemove ==
  /\ worker = "control"
  /\ requests # <<>> /\ Head(requests) = "remove"
  /\ IF attached THEN worker' = "last_poll" /\ UNCHANGED requests
     ELSE requests' = Tail(requests) /\ UNCHANGED worker
  /\ UNCHANGED <<setting, fifo, handler, attached, at, control, received, raced>>

BeginRound ==
  /\ worker = "control"
  /\ requests = <<>>
  /\ attached
  /\ worker' = "poll"
  /\ UNCHANGED <<setting, fifo, handler, requests, attached, at, control, received, raced>>

MayPoll == Queue!MayClaim(fifo) /\ Queue!IsPublished(fifo, fifo.claimed)

(* A faulty filter: the level itself does not pass.                        *)
PassesAbove(s, event) == event.level > MinLevel[s]

(* LevelSink::is.                                                          *)
Passes(s, event) == event.level >= MinLevel[s]

(* handleEntry: MultiSink::sink hands the event to every inner sink.       *)
Deliver(event) ==
  received' = [s \in DOMAIN received |->
                 IF Passes(s, event) THEN Append(received[s], event) ELSE received[s]]

(* A queue without a handler drops its entries, and what becomes of one    *)
(* while the handler is replaced is undefined.                             *)
PollEntry ==
  /\ worker \in {"poll", "last_poll"}
  /\ MayPoll
  /\ fifo' = Queue!AfterDeliver(Queue!AfterClaim(fifo), fifo.claimed)
  /\ \/ handler # "none" /\ Deliver(fifo.published[fifo.claimed])
     \/ handler # "set" /\ UNCHANGED received
  /\ raced' = (raced \/ handler = "writing")
  /\ UNCHANGED <<setting, handler, thread, at, control>>

(* The end of poll, which also ends a removal.                             *)
EndPoll ==
  /\ worker \in {"poll", "last_poll"}
  /\ ~ MayPoll
  /\ worker' = "control"
  /\ IF worker = "last_poll"
     THEN attached' = FALSE /\ requests' = Tail(requests)
     ELSE UNCHANGED <<attached, requests>>
  /\ UNCHANGED <<setting, fifo, handler, at, control, received, raced>>

-----------------------------------------------------------------------------
(***************************************************************************)
(* The specification.                                                      *)
(***************************************************************************)
Work == HandleAdd \/ HandleRemove \/ BeginRound \/ PollEntry \/ EndPoll

Continue == SetHandler \/ AddQueue

Next ==
  \/ Activate
  \/ Work
  \/ Start
  \/ Stop
  \/ Continue
  \/ \E p \in Producers : FinishSink(p) \/ \E event \in Events : event.logger = p /\ BeginSink(p, event)

Spec == Init /\ [][Next]_vars

(* The scheduler runs every thread that is inside a call, and the polling  *)
(* thread.                                                                 *)
FairSpec ==
  /\ Spec
  /\ WF_vars(Work)
  /\ WF_vars(Continue)
  /\ \A p \in Producers : WF_vars(FinishSink(p))

-----------------------------------------------------------------------------
(***************************************************************************)
(* Properties.                                                             *)
(***************************************************************************)

(* The state has the right types.                                          *)
TypeOK ==
  /\ option \in [number : Sizes, unit : Units]
  /\ size \in 0 .. SizeLimit - 1
  /\ capacity \in 0 .. SizeLimit - 1
  /\ phase = "active" => capacity > 0 /\ handler # "none"
  /\ fifo.reserved \in 0 .. MaxTickets /\ fifo.claimed \in 0 .. fifo.reserved
  /\ \A t \in Queue!Tickets : fifo.published[t] \in Events \cup {Nothing}
  /\ handler \in {"none", "set", "writing"}
  /\ handler = "writing" <=> caller = "setting"
  /\ requests \in Seq({"add", "remove"})
  /\ worker # "control" => attached
  /\ worker = "last_poll" => requests # <<>> /\ Head(requests) = "remove"
  /\ \A p \in Producers : at[p] # Idle => at[p].event.logger = p
  /\ stopped \in BOOLEAN
  /\ caller \in {"idle", "setting", "adding"} /\ calls \in 0 .. MaxCalls

(* What the option says, and whether parseSize can compute it.             *)
Wanted == option.number * option.unit

Fits == option.number <= LargestLong /\ Wanted < SizeLimit

(* A sink is accepted only if its ring holds as many events as the option  *)
(* says, and fewer than twice as many.  It is not so of an option that     *)
(* does not fit: parseSize makes another size of it, which may be small.   *)
CapacityCoversSize ==
  phase = "active" /\ Fits => capacity >= Wanted /\ (capacity = 1 \/ capacity < 2 * Wanted)

(* Every inner sink gets every event of its level or above that was polled *)
(* once, and in the order of the queue, over any number of stops and       *)
(* starts, unless start replaced the handler while it was called: what it  *)
(* received came with tickets in order, and those are the tickets of all   *)
(* such events.                                                            *)
InnerSinksGetAll ==
  ~ raced =>
    \A s \in DOMAIN received :
      \E ticket \in [DOMAIN received[s] -> Queue!Tickets] :
        /\ \A i, j \in DOMAIN received[s] : i < j => ticket[i] < ticket[j]
        /\ \A i \in DOMAIN received[s] : received[s][i] = fifo.delivered[ticket[i]]
        /\ Range(ticket) =
             { t \in Queue!Tickets : t < fifo.claimed /\ fifo.delivered[t].level >= MinLevel[s] }

-----------------------------------------------------------------------------
(***************************************************************************)
(* Liveness.                                                               *)
(***************************************************************************)

(* Every event that is logged reaches the inner sinks, also if it was      *)
(* logged while the sink was stopped, if it is started again: or else the  *)
(* sink is stopped.  In particular no call of the logger blocks for ever.  *)
EventsDelivered ==
  \A t \in Queue!Tickets :
    t < fifo.reserved ~> Queue!IsDelivered(fifo, t) \/ stopped

=============================================================================
