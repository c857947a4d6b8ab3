-------------------------- MODULE AsyncQueuePoller --------------------------
(***************************************************************************)
(* The thread that polls the queues of the asynchronous sinks and of the   *)
(* file watcher (src/AsyncQueuePoller.cpp), and the calls that control it. *)
(*                                                                         *)
(* start, stop, addQueue and removeQueue may be called from any thread.    *)
(* They talk to the polling thread through two atomic flags and an         *)
(* internal queue of control entries under a mutex (SimpleBlockingQueue),  *)
(* which the polling thread holds while it drains that queue.              *)
(*                                                                         *)
(* A polled queue is a record of QueueOps, which MPMCQueue implements.     *)
(* The polling thread is its only consumer, so that its try_pop is one     *)
(* step; a push is two, because another thread may see the ticket taken    *)
(* and the entry not there yet.                                            *)
(***************************************************************************)
EXTENDS QueueOps, SequencesExt

CONSTANTS
  Queues,      (* the queues that threads push to                          *)
  Clients,     (* threads that call start, stop, addQueue and removeQueue  *)
  NoQueue,     (* the queue of a control entry that has none               *)
  NoClient,    (* the owner of a promise whose future was discarded        *)
  MaxCalls,    (* calls that clients make, at most                         *)
  MayStop      (* whether clients call stop                                *)

ASSUME NoneAssumption ==
  NoQueue \notin Queues /\ NoClient \notin Clients /\ Nothing \notin Items

ASSUME BoundsAssumption == MaxTickets \in Nat /\ MaxCalls \in Nat /\ MayStop \in BOOLEAN

VARIABLES
  fifo,         (* each queue, with the pushes and pops of its ring        *)
  running,      (* m_running                                               *)
  stopSignal,   (* m_stopSignal                                            *)
  control,      (* m_internalQueue: control entries, oldest first          *)
  queues,       (* m_queues, in the order they were added                  *)
  worker,       (* where the polling thread is                             *)
  cursor,       (* the position in m_queues of the queue being polled      *)
  terminated,   (* std::terminate has ended the program                    *)
  at,           (* where each client is                                    *)
  calls,        (* how many calls clients have made                        *)
  target,       (* the queue of each client's last removeQueue             *)
  future,       (* the state of the future that call returned              *)
  wanted,       (* history: the queues that the requests sent so far add   *)
  before,       (* history: the tickets published when it was requested,   *)
                (* if the queue was to be polled                           *)
  addedSince,   (* history: whether the queue was added again since        *)
  stopBefore    (* history: as "before", of every queue, for stop          *)

dataVars   == <<fifo>>
flags      == <<running, stopSignal>>
workerVars == <<worker, cursor, queues>>
clientVars == <<at, calls, target>>
history    == <<wanted, before, addedSince, stopBefore>>
vars == <<dataVars, flags, control, workerVars, terminated, clientVars, future, history>>

AddEntry(q)       == [action |-> "add", queue |-> q, promise |-> NoClient]
RemoveEntry(q, c) == [action |-> "remove", queue |-> q, promise |-> c]
StopEntry         == [action |-> "stop", queue |-> NoQueue, promise |-> NoClient]

ControlEntries ==
  { AddEntry(q) : q \in Queues }
    \cup { RemoveEntry(q, c) : q \in Queues, c \in Clients \cup {NoClient} }
    \cup {StopEntry}

Init ==
  /\ fifo = [q \in Queues |-> EmptyQueue]
  /\ running = FALSE
  /\ stopSignal = FALSE
  /\ control = <<>>
  /\ queues = <<>>
  /\ worker = "none"
  /\ cursor = 1
  /\ terminated = FALSE
  /\ at = [c \in Clients |-> "idle"]
  /\ calls = 0
  /\ target = [c \in Clients |-> NoQueue]
  /\ future = [c \in Clients |-> "none"]
  /\ wanted = {}
  /\ before = [c \in Clients |-> {}]
  /\ addedSince = [c \in Clients |-> FALSE]
  /\ stopBefore = [q \in Queues |-> {}]

-----------------------------------------------------------------------------
(***************************************************************************)
(* Pushing to the polled queues.                                           *)
(***************************************************************************)
BeginPush(q) ==
  /\ MayReserve(fifo[q])
  /\ fifo' = [fifo EXCEPT ![q] = AfterReserve(@)]
  /\ UNCHANGED <<flags, control, workerVars, terminated, clientVars, future, history>>

(* Blocks until the ring has room.                                         *)
FinishPush(q, t) ==
  /\ MayPublish(fifo[q], t)
  /\ \E v \in Items : fifo' = [fifo EXCEPT ![q] = AfterPublish(@, t, v)]
  /\ UNCHANGED <<flags, control, workerVars, terminated, clientVars, future, history>>

-----------------------------------------------------------------------------
(***************************************************************************)
(* The calls.                                                              *)
(***************************************************************************)
Call(c, label) ==
  /\ at[c] = "idle"
  /\ calls < MaxCalls
  /\ calls' = calls + 1
  /\ at' = [at EXCEPT ![c] = label]

Goto(c, label) == at' = [at EXCEPT ![c] = label]

(* The polling thread drains the internal queue under its mutex.           *)
MutexHeld == worker \in {"drain", "last_poll"}

Send(entry) ==
  /\ ~ MutexHeld
  /\ control' = Append(control, entry)

(* The tickets of q that are published, provided that q is polled or will  *)
(* be, once the control entries already sent are handled.                  *)
DueTickets(q) ==
  IF Contains(queues, q) \/ Contains(control, AddEntry(q))
  THEN { t \in Tickets : IsPublished(fifo[q], t) }
  ELSE {}

(* A start while the poller runs, and a stop while it does not, return     *)
(* without effect.                                                         *)
Start(c) ==
  /\ ~ running
  /\ Call(c, "starting")
  /\ running' = TRUE
  /\ UNCHANGED <<dataVars, stopSignal, control, workerVars, terminated, target, future,
                 history>>

(* The thread of an earlier start is never joined before the destructor,   *)
(* and assigning to a joinable std::thread terminates the program.         *)
StartThread(c) ==
  /\ at[c] = "starting"
  /\ Goto(c, "idle")
  /\ \/ /\ worker = "none"
        /\ worker' = "control"
        /\ UNCHANGED terminated
     \/ /\ worker # "none"
        /\ terminated' = TRUE
        /\ UNCHANGED worker
  /\ UNCHANGED <<dataVars, flags, control, cursor, queues, calls, target, future, history>>

Stop(c) ==
  /\ MayStop
  /\ running
  /\ Call(c, "stopping")
  /\ running' = FALSE
  /\ UNCHANGED <<dataVars, stopSignal, control, workerVars, terminated, target, future,
                 history>>

(* Only the first stop counts: a poller that was stopped cannot start      *)
(* again.                                                                  *)
StopSent == stopSignal \/ Contains(control, StopEntry)

SendStop(c) ==
  /\ at[c] = "stopping"
  /\ Send(StopEntry)
  /\ Goto(c, "idle")
  /\ stopBefore' = IF StopSent THEN stopBefore ELSE [q \in Queues |-> DueTickets(q)]
  /\ UNCHANGED <<dataVars, flags, workerVars, terminated, calls, target, future, wanted,
                 before, addedSince>>

AddQueue(c, q) ==
  /\ Call(c, "idle")
  /\ Send(AddEntry(q))
  /\ wanted' = wanted \cup {q}
  /\ addedSince' = [d \in Clients |-> addedSince[d] \/ target[d] = q]
  /\ UNCHANGED <<dataVars, flags, workerVars, terminated, target, future, before, stopBefore>>

(* The flag is read before the request is sent, outside the mutex: when    *)
(* the poller does not run, the future holds an exception.                 *)
RemoveQueue(c, q) ==
  /\ target' = [target EXCEPT ![c] = q]
  /\ \/ /\ running
        /\ Call(c, "removing")
        /\ future' = [future EXCEPT ![c] = "none"]
     \/ /\ ~ running
        /\ Call(c, "idle")
        /\ future' = [future EXCEPT ![c] = "error"]
  /\ UNCHANGED <<dataVars, flags, control, workerVars, terminated, history>>

(* FileWatcher waits for the future, AsyncSink::stop discards it.          *)
SendRemove(c) ==
  /\ at[c] = "removing"
  /\ \/ /\ Send(RemoveEntry(target[c], c))
        /\ Goto(c, "waiting")
        /\ future' = [future EXCEPT ![c] = "pending"]
        /\ before' = [before EXCEPT ![c] = DueTickets(target[c])]
        /\ addedSince' = [addedSince EXCEPT ![c] = FALSE]
     \/ /\ Send(RemoveEntry(target[c], NoClient))
        /\ Goto(c, "idle")
        /\ UNCHANGED <<future, before, addedSince>>
  /\ wanted' = wanted \ {target[c]}
  /\ UNCHANGED <<dataVars, flags, workerVars, terminated, calls, target, stopBefore>>

GetResult(c) ==
  /\ at[c] = "waiting"
  /\ future[c] # "pending"
  /\ Goto(c, "idle")
  /\ UNCHANGED <<dataVars, flags, control, workerVars, terminated, calls, target, future,
                 history>>

-----------------------------------------------------------------------------
(***************************************************************************)
(* The polling thread.                                                     *)
(***************************************************************************)
LockControl ==
  /\ worker = "control"
  /\ worker' = "drain"
  /\ UNCHANGED <<dataVars, flags, control, cursor, queues, terminated, clientVars, future,
                 history>>

(* The front entry is popped after it has been handled.                    *)
Handling(action) ==
  /\ worker = "drain"
  /\ control # <<>>
  /\ Head(control).action = action

Requested == Head(control).queue

(* A faulty add: a queue that is added twice is polled twice.              *)
HandleAddAgain ==
  /\ Handling("add")
  /\ control' = Tail(control)
  /\ queues' = Append(queues, Requested)
  /\ UNCHANGED <<dataVars, flags, worker, cursor, terminated, clientVars, future, history>>

HandleAdd ==
  /\ Handling("add")
  /\ control' = Tail(control)
  /\ queues' = IF Contains(queues, Requested) THEN queues ELSE Append(queues, Requested)
  /\ UNCHANGED <<dataVars, flags, worker, cursor, terminated, clientVars, future, history>>

(* A faulty stop: the thread never learns of it.                           *)
HandleStopLost ==
  /\ Handling("stop")
  /\ control' = Tail(control)
  /\ UNCHANGED <<dataVars, flags, workerVars, terminated, clientVars, future, history>>

HandleStop ==
  /\ Handling("stop")
  /\ control' = Tail(control)
  /\ stopSignal' = TRUE
  /\ UNCHANGED <<dataVars, running, workerVars, terminated, clientVars, future, history>>

(* handlePromise->set_value.                                               *)
Answer(promise) ==
  future' = [c \in Clients |-> IF c = promise THEN "value" ELSE future[c]]

(* A faulty answer: only the removal of a queue that is there gets one.    *)
HandleAbsentSilently ==
  /\ Handling("remove")
  /\ ~ Contains(queues, Requested)
  /\ control' = Tail(control)
  /\ UNCHANGED <<dataVars, flags, workerVars, terminated, clientVars, future, history>>

HandleAbsent ==
  /\ Handling("remove")
  /\ ~ Contains(queues, Requested)
  /\ Answer(Head(control).promise)
  /\ control' = Tail(control)
  /\ UNCHANGED <<dataVars, flags, workerVars, terminated, clientVars, history>>

BeginLastPoll ==
  /\ Handling("remove")
  /\ Contains(queues, Requested)
  /\ worker' = "last_poll"
  /\ UNCHANGED <<dataVars, flags, control, cursor, queues, terminated, clientVars, future,
                 history>>

(* BoundedTypedConcurrentAsyncQueue::poll goes on as long as try_pop finds *)
(* the oldest ticket published, and hands the entry to the handler.        *)
MayPoll(q) == MayClaim(fifo[q]) /\ IsPublished(fifo[q], fifo[q].claimed)

PollEntry(q) ==
  /\ MayPoll(q)
  /\ fifo' = [fifo EXCEPT ![q] = AfterDeliver(AfterClaim(@), @.claimed)]
  /\ UNCHANGED <<flags, control, workerVars, terminated, clientVars, future, history>>

LastPoll ==
  /\ worker = "last_poll"
  /\ PollEntry(Requested)

Forget(newQueues) ==
  /\ queues' = newQueues
  /\ Answer(Head(control).promise)
  /\ control' = Tail(control)
  /\ worker' = "drain"
  /\ UNCHANGED <<dataVars, flags, cursor, terminated, clientVars, history>>

(* Two faulty removals: one erases the wrong queue, the other does not     *)
(* poll the last entries.                                                  *)
EraseLast ==
  /\ worker = "last_poll"
  /\ ~ MayPoll(Requested)
  /\ Forget(Front(queues))

EraseUnpolled ==
  /\ worker = "last_poll"
  /\ Forget(RemoveFirst(queues, Requested))

EraseQueue ==
  /\ worker = "last_poll"
  /\ ~ MayPoll(Requested)
  /\ Forget(RemoveFirst(queues, Requested))

(* A faulty loop: the stop signal is tested before the queues are polled.  *)
UnlockOrStop ==
  /\ worker = "drain"
  /\ control = <<>>
  /\ worker' = IF stopSignal THEN "done" ELSE "poll"
  /\ UNCHANGED <<dataVars, flags, control, cursor, queues, terminated, clientVars, future,
                 history>>

UnlockControl ==
  /\ worker = "drain"
  /\ control = <<>>
  /\ worker' = "poll"
  /\ UNCHANGED <<dataVars, flags, control, cursor, queues, terminated, clientVars, future,
                 history>>

PollQueue ==
  /\ worker = "poll"
  /\ cursor <= Len(queues)
  /\ PollEntry(queues[cursor])

(* A faulty round: it ends at the first queue that has nothing.            *)
NextRound ==
  /\ worker = "poll"
  /\ cursor <= Len(queues)
  /\ ~ MayPoll(queues[cursor])
  /\ cursor' = Len(queues) + 1
  /\ UNCHANGED <<dataVars, flags, control, worker, queues, terminated, clientVars, future,
                 history>>

NextQueue ==
  /\ worker = "poll"
  /\ cursor <= Len(queues)
  /\ ~ MayPoll(queues[cursor])
  /\ cursor' = cursor + 1
  /\ UNCHANGED <<dataVars, flags, control, worker, queues, terminated, clientVars, future,
                 history>>

(* When nothing was polled the thread also backs off, for 1 ms at most.    *)
CheckStop ==
  /\ worker = "poll"
  /\ cursor > Len(queues)
  /\ worker' = IF stopSignal THEN "done" ELSE "control"
  /\ cursor' = 1
  /\ UNCHANGED <<dataVars, flags, control, queues, terminated, clientVars, future, history>>

-----------------------------------------------------------------------------
(***************************************************************************)
(* The specification.                                                      *)
(***************************************************************************)
Work ==
  /\ ~ terminated
  /\ \/ LockControl
     \/ HandleAdd
     \/ HandleStop
     \/ HandleAbsent
     \/ BeginLastPoll
     \/ LastPoll
     \/ EraseQueue
     \/ UnlockControl
     \/ PollQueue
     \/ NextQueue
     \/ CheckStop

(* What a client inside a call goes on to do.                              *)
Continue(c) ==
  /\ ~ terminated
  /\ \/ StartThread(c)
     \/ SendStop(c)
     \/ SendRemove(c)
     \/ GetResult(c)

NewCall(c) ==
  /\ ~ terminated
  /\ \/ Start(c)
     \/ Stop(c)
     \/ \E q \in Queues : AddQueue(c, q) \/ RemoveQueue(c, q)

Produce(q) ==
  /\ ~ terminated
  /\ \/ BeginPush(q)
     \/ \E t \in Tickets : FinishPush(q, t)

Next ==
  \/ Work
  \/ \E c \in Clients : Continue(c) \/ NewCall(c)
  \/ \E q \in Queues : Produce(q)

Spec == Init /\ [][Next]_vars

(* The scheduler runs every thread, and a push that was begun goes on.     *)
(* The strong fairness of Continue says that the mutex of the internal     *)
(* queue, which the polling thread takes again and again, is sooner or     *)
(* later given to a thread that waits for it.                              *)
Fairness ==
  /\ WF_vars(Work)
  /\ \A c \in Clients : SF_vars(Continue(c))
  /\ \A q \in Queues, t \in Tickets : WF_vars(~ terminated /\ FinishPush(q, t))

FairSpec == Spec /\ Fairness

-----------------------------------------------------------------------------
(***************************************************************************)
(* Invariants.                                                             *)
(***************************************************************************)

(* Every variable has its type; m_queues holds no queue twice.             *)
TypeOK ==
  /\ fifo \in [Queues -> QueueType]
  /\ \A q \in Queues : fifo[q].claimed <= fifo[q].reserved
  /\ running \in BOOLEAN
  /\ stopSignal \in BOOLEAN
  /\ control \in Seq(ControlEntries)
  /\ queues \in Seq(Queues)
  /\ IsInjective(queues)
  /\ worker \in {"none", "control", "drain", "last_poll", "poll", "done"}
  /\ cursor \in 1 .. Len(queues) + 1
  /\ terminated \in BOOLEAN
  /\ at \in [Clients -> {"idle", "starting", "stopping", "removing", "waiting"}]
  /\ calls \in 0 .. MaxCalls
  /\ target \in [Clients -> Queues \cup {NoQueue}]
  /\ future \in [Clients -> {"none", "error", "pending", "value"}]
  /\ wanted \subseteq Queues
  /\ before \in [Clients -> SUBSET Tickets]
  /\ addedSince \in [Clients -> BOOLEAN]
  /\ stopBefore \in [Queues -> SUBSET Tickets]

Removes(entry, q) == entry.action = "remove" /\ entry.queue = q

(* Whether q is in m_queues once the control entries that wait are         *)
(* handled: it was added, or is there, and is not removed afterwards.      *)
WillPoll(q) ==
  \/ \E i \in 1 .. Len(control) :
       /\ control[i] = AddEntry(q)
       /\ \A j \in i + 1 .. Len(control) : ~ Removes(control[j], q)
  \/ /\ Contains(queues, q)
     /\ \A j \in 1 .. Len(control) : ~ Removes(control[j], q)

(* m_queues is what the requests say, in the order in which they were      *)
(* sent: once those that wait are handled, the poller has the queues that  *)
(* clients added and did not remove.                                       *)
RequestsApplied == wanted = { q \in Queues : WillPoll(q) }

(* Once a client has the answer to its removeQueue, the poller does not    *)
(* poll that queue any more, unless somebody added it again since: the     *)
(* client may destroy what the queue's handler uses.                       *)
RemovedMeansSilent ==
  \A c \in Clients :
    future[c] = "value" /\ ~ addedSince[c] => ~ Contains(queues, target[c])

Flushed(q, tickets) ==
  \A t \in tickets : 0 .. t \subseteq tickets => IsDelivered(fifo[q], t)

(* The removal of a queue handles the entries that were published when it  *)
(* was requested, up to the first push then in progress.                   *)
RemoveFlushes ==
  \A c \in Clients : future[c] = "value" => Flushed(target[c], before[c])

(* The same holds for stop and every queue of the poller: nothing that was *)
(* logged before the stop is lost, unless it waits behind a push.          *)
StopFlushes ==
  worker = "done" => \A q \in Queues : Flushed(q, stopBefore[q])

-----------------------------------------------------------------------------
(***************************************************************************)
(* Liveness.                                                               *)
(***************************************************************************)

(* An entry of a queue that stays with a running poller is handled.        *)
EveryEntryHandled ==
  \A q \in Queues, t \in Tickets :
    t < fifo[q].reserved /\ Contains(queues, q)
      ~> IsDelivered(fifo[q], t) \/ ~ Contains(queues, q) \/ worker = "done" \/ terminated

(* A client that waits for a removal gets its answer: that is what the     *)
(* exception of a poller that is not running is for ("Attempting to remove *)
(* and wait from the future might deadlock").                              *)
RemoveAnswered ==
  \A c \in Clients : at[c] = "waiting" ~> at[c] # "waiting" \/ terminated

(* It does get it unless somebody stops the poller.                        *)
RemoveAnsweredOrStopped ==
  \A c \in Clients :
    at[c] = "waiting" ~> at[c] # "waiting" \/ ~ running \/ stopSignal \/ terminated

(* A stop ends the polling thread.                                         *)
StopCompletes ==
  \A c \in Clients : at[c] = "stopping" ~> worker = "done" \/ terminated

=============================================================================
