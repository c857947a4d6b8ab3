----------------------------- MODULE FileWatcher -----------------------------
(***************************************************************************)
(* The file watcher on Linux: FileWatcher (src/FileWatcher.cpp), its       *)
(* implementation with inotify (config/impl/FileWatcherLinuxImpl.h), and   *)
(* the thread of the poller that polls its NotifyQueue.                    *)
(*                                                                         *)
(* Clients call start, stop, addWatch and removeWatch while the polling    *)
(* thread reads events and runs callbacks; nothing but the control queue   *)
(* of the poller synchronises them.  AsyncQueuePoller has the details of   *)
(* that queue; here a request is one step.                                 *)
(*                                                                         *)
(* inotify is modelled by what inotify(7) says of it: an event identical   *)
(* to the last one that waits is dropped, the watch of a file that is      *)
(* watched already is answered again, numbers of watches are not reused,   *)
(* removing a watch queues IN_IGNORED, and closing the descriptor frees    *)
(* everything.  The number of a closed descriptor may be given to a file   *)
(* that the program opens for writing.                                     *)
(***************************************************************************)
EXTENDS Integers, Sequences, SequencesExt

CONSTANTS
  Files,        (* the paths that are watched                              *)
  Clients,      (* threads that use the watcher                            *)
  Internals,    (* whether the watcher made its own poller                 *)
  MaxWatches,   (* bound: watches the kernel hands out                     *)
  MaxChanges,   (* bound: modifications of the files                       *)
  MaxAdds,      (* bound: calls of addWatch                                *)
  MaxStops,     (* bound: calls of FileWatcher::stop                       *)
  MayReuse      (* whether the number of a closed descriptor is reused     *)

ASSUME ClientsAssumption == Clients \cap {"add", "stop"} = {}

ASSUME ConstantsAssumption ==
  /\ Internals \subseteq BOOLEAN /\ MayReuse \in BOOLEAN
  /\ MaxWatches \in Nat /\ MaxChanges \in Nat /\ MaxAdds \in Nat /\ MaxStops \in Nat

VARIABLES
  internal,     (* m_internalPoller is not null                            *)
  fd,           (* what the number m_fd stands for                         *)
  watched,      (* inotify: the file of each watch                         *)
  lastWatch,    (* inotify: the last number of a watch                     *)
  events,       (* inotify: the events that wait to be read                *)
  entries,      (* the keys of m_entries                                   *)
  started,      (* m_queue is set                                          *)
  attached,     (* the queue is in m_queues of the poller                  *)
  running,      (* m_running of the poller                                 *)
  stopSignal,   (* m_stopSignal of the poller                              *)
  requests,     (* control entries of the poller                           *)
  worker,       (* where the polling thread is                             *)
  removing,     (* it polls the queue a last time, to remove it            *)
  buf,          (* the events that handleEvents has read and not handled   *)
  at,           (* where each client is                                    *)
  adding,       (* the watch that the client's addWatch got                *)
  future,       (* the future that the client's stop waits for             *)
  issued,       (* the watches that addWatch returned                      *)
  changes, adds, stops,   (* how many there were                           *)
  dirty,        (* history: watches with a change and no callback since    *)
  raced,        (* history: m_entries was used by two threads at once      *)
  shared,       (* history: a watched file was added again                 *)
  late          (* history: the descriptor was closed while the thread was *)
                (* reading it, or its number was given to another file     *)

kernel   == <<watched, lastWatch, events>>
poller   == <<attached, running, stopSignal, requests>>
thread   == <<worker, removing, buf>>
clients  == <<at, adding, future, issued>>
counters == <<changes, adds, stops>>
history  == <<dirty, raced, shared, late>>
vars == <<internal, fd, kernel, entries, started, poller, thread, clients, counters, history>>

Watches == 1 .. MaxWatches

Modified(w) == [watch |-> w, ignored |-> FALSE]
Ignored(w)  == [watch |-> w, ignored |-> TRUE]

Init ==
  /\ internal \in Internals
  /\ fd = "open"
  /\ watched = <<>>
  /\ lastWatch = 0
  /\ events = <<>>
  /\ entries = {}
  /\ started = FALSE
  /\ attached = FALSE
  /\ running = ~ internal
  /\ stopSignal = FALSE
  /\ requests = <<>>
  /\ worker = IF internal THEN "none" ELSE "control"
  /\ removing = FALSE
  /\ buf = <<>>
  /\ at = [c \in Clients |-> "idle"]
  /\ adding = [c \in Clients |-> 0]
  /\ future = [c \in Clients |-> "none"]
  /\ issued = {}
  /\ changes = 0 /\ adds = 0 /\ stops = 0
  /\ dirty = {}
  /\ raced = FALSE /\ shared = FALSE /\ late = FALSE

-----------------------------------------------------------------------------
(***************************************************************************)
(* The files and inotify.                                                  *)
(***************************************************************************)
Queued(queue, event) ==
  IF queue # <<>> /\ Last(queue) = event THEN queue ELSE Append(queue, event)

WatchesOf(f) == { w \in DOMAIN watched : watched[w] = f }

(* Somebody writes to a file; IN_MODIFY is the only event that is watched. *)
Modify(f) ==
  /\ changes < MaxChanges
  /\ changes' = changes + 1
  /\ WatchesOf(f) # {}
  /\ \E w \in WatchesOf(f) :
       /\ events' = Queued(events, Modified(w))
       /\ dirty' = IF w \in entries THEN dirty \cup {w} ELSE dirty
  /\ UNCHANGED <<internal, fd, watched, lastWatch, entries, started, poller, thread, clients,
                 adds, stops, raced, shared, late>>

Close ==
  /\ fd' = "closed"
  /\ watched' = <<>>
  /\ events' = <<>>
  /\ dirty' = {}
  /\ UNCHANGED lastWatch

(* The program opens another file, which gets the number.                  *)
Reuse ==
  /\ MayReuse
  /\ fd = "closed"
  /\ fd' = "other"
  /\ late' = TRUE
  /\ UNCHANGED <<internal, kernel, entries, started, poller, thread, clients, counters,
                 dirty, raced, shared>>

-----------------------------------------------------------------------------
(***************************************************************************)
(* Calls of the clients.                                                   *)
(***************************************************************************)
Goto(c, label) == at' = [at EXCEPT ![c] = label]

(* FileWatcher::start, once: the model does not start a watcher twice.     *)
Start(c) ==
  /\ at[c] = "idle"
  /\ ~ started
  /\ started' = TRUE
  /\ requests' = Append(requests, "add")
  /\ running' = TRUE
  /\ worker' = IF worker = "none" THEN "control" ELSE worker
  /\ UNCHANGED <<internal, fd, kernel, entries, attached, stopSignal, removing, buf, clients,
                 counters, history>>

(* Impl::addWatch calls inotify_add_watch ...                              *)
AddWatch(c, f) ==
  /\ at[c] = "idle"
  /\ fd = "open"
  /\ adds < MaxAdds
  /\ adds' = adds + 1
  /\ \/ \E w \in WatchesOf(f) :
          /\ adding' = [adding EXCEPT ![c] = w]
          /\ shared' = TRUE
          /\ UNCHANGED <<watched, lastWatch>>
     \/ /\ WatchesOf(f) = {}
        /\ lastWatch < MaxWatches
        /\ lastWatch' = lastWatch + 1
        /\ watched' = [w \in DOMAIN watched \cup {lastWatch'} |->
                         IF w = lastWatch' THEN f ELSE watched[w]]
        /\ adding' = [adding EXCEPT ![c] = lastWatch']
        /\ UNCHANGED shared
  /\ Goto(c, "inserting")
  /\ UNCHANGED <<internal, fd, events, entries, started, poller, thread, future, issued,
                 changes, stops, dirty, raced, late>>

Inserting == { c \in Clients : at[c] = "inserting" }

(* ... and then inserts into m_entries, without a lock.  A key that is     *)
(* there keeps its callback.  Of two inserts at once one may get lost.     *)
InsertEntry(c) ==
  /\ at[c] = "inserting"
  /\ Goto(c, "idle")
  /\ issued' = issued \cup {adding[c]}
  /\ \/ /\ entries' = entries \cup {adding[c]}
        /\ UNCHANGED raced
     \/ /\ Inserting # {c}
        /\ raced' = TRUE
        /\ UNCHANGED entries
  /\ UNCHANGED <<internal, fd, kernel, started, poller, thread, adding, future, counters,
                 dirty, shared, late>>

(* Impl::removeWatch; the polling thread erases the entry later.           *)
RemoveWatch(c, w) ==
  /\ at[c] = "idle"
  /\ fd = "open"
  /\ w \in issued /\ w \in DOMAIN watched
  /\ watched' = [v \in DOMAIN watched \ {w} |-> watched[v]]
  /\ events' = Queued(events, Ignored(w))
  /\ UNCHANGED <<internal, fd, lastWatch, entries, started, poller, thread, clients, counters,
                 history>>

InHandleEvents == worker \in {"read", "dispatch"}

(* Impl::stop closes the number m_fd, which it never resets: a second stop *)
(* closes whatever has it then.                                            *)
Stop(c) ==
  /\ at[c] = "idle"
  /\ stops < MaxStops
  /\ stops' = stops + 1
  /\ Close
  /\ late' = (late \/ InHandleEvents)
  /\ Goto(c, IF started THEN "closed" ELSE "poller_stop")
  /\ future' = [future EXCEPT ![c] = "none"]
  /\ UNCHANGED <<internal, entries, started, poller, thread, adding, issued, changes, adds,
                 raced, shared>>

(* A faulty stop: the future is not waited for.                            *)
SendRemoveOnly(c) ==
  /\ at[c] = "closed"
  /\ \/ /\ running
        /\ requests' = Append(requests, c)
        /\ Goto(c, "poller_stop")
     \/ /\ ~ running
        /\ Goto(c, "threw")
        /\ UNCHANGED requests
  /\ UNCHANGED <<internal, fd, kernel, entries, started, attached, running, stopSignal,
                 thread, adding, future, issued, counters, history>>

(* removeQueue answers with an exception when the poller does not run, and *)
(* get throws it.                                                          *)
SendRemove(c) ==
  /\ at[c] = "closed"
  /\ \/ /\ running
        /\ requests' = Append(requests, c)
        /\ Goto(c, "waiting")
     \/ /\ ~ running
        /\ Goto(c, "threw")
        /\ UNCHANGED requests
  /\ UNCHANGED <<internal, fd, kernel, entries, started, attached, running, stopSignal,
                 thread, adding, future, issued, counters, history>>

GetResult(c) ==
  /\ at[c] = "waiting"
  /\ future[c] = "value"
  /\ Goto(c, "poller_stop")
  /\ UNCHANGED <<internal, fd, kernel, entries, started, poller, thread, adding, future,
                 issued, counters, history>>

(* FileWatcher::stop goes on with the poller, if it has one of its own.    *)
StopPoller(c) ==
  /\ at[c] = "poller_stop"
  /\ Goto(c, "stopped")
  /\ IF internal /\ running
     THEN running' = FALSE /\ requests' = Append(requests, "stop")
     ELSE UNCHANGED <<running, requests>>
  /\ UNCHANGED <<internal, fd, kernel, entries, started, attached, stopSignal, thread,
                 adding, future, issued, counters, history>>

-----------------------------------------------------------------------------
(***************************************************************************)
(* The polling thread.                                                     *)
(***************************************************************************)
HandleAdd ==
  /\ worker = "control"
  /\ requests # <<>> /\ Head(requests) = "add"
  /\ attached' = TRUE
  /\ requests' = Tail(requests)
  /\ UNCHANGED <<internal, fd, kernel, entries, started, running, stopSignal, thread, clients,
                 counters, history>>

(* The last poll of a queue that is removed, or the answer at once.        *)
HandleRemove ==
  /\ worker = "control"
  /\ requests # <<>> /\ Head(requests) \in Clients
  /\ IF attached
     THEN /\ worker' = "poll"
          /\ removing' = TRUE
          /\ UNCHANGED <<requests, future>>
     ELSE /\ future' = [future EXCEPT ![Head(requests)] = "value"]
          /\ requests' = Tail(requests)
          /\ UNCHANGED <<worker, removing>>
  /\ UNCHANGED <<internal, fd, kernel, entries, started, attached, running, stopSignal, buf, at,
                 adding, issued, counters, history>>

(* StopEntry: the signal is looked at when the queues have been polled.    *)
HandleStop ==
  /\ worker = "control"
  /\ requests # <<>> /\ Head(requests) = "stop"
  /\ stopSignal' = TRUE
  /\ requests' = Tail(requests)
  /\ UNCHANGED <<internal, fd, kernel, entries, started, attached, running, thread, clients,
                 counters, history>>

BeginRound ==
  /\ worker = "control"
  /\ requests = <<>>
  /\ \/ attached /\ worker' = "poll"
     \/ ~ attached /\ stopSignal /\ worker' = "done"
  /\ UNCHANGED <<internal, fd, kernel, entries, started, poller, removing, buf, clients,
                 counters, history>>

EndPoll == worker' = IF removing THEN "remove" ELSE IF stopSignal THEN "done" ELSE "control"

(* A faulty test: any answer of poll(2) counts, also POLLNVAL.             *)
PollAnyEvent ==
  /\ worker = "poll"
  /\ IF fd = "open" /\ events = <<>> THEN EndPoll ELSE worker' = "read"
  /\ UNCHANGED <<internal, fd, kernel, entries, started, poller, removing, buf, clients,
                 counters, history>>

(* NotifyQueue::pollOne: a file is always ready, a closed descriptor never *)
(* has POLLIN.                                                             *)
Poll ==
  /\ worker = "poll"
  /\ IF fd = "other" \/ (fd = "open" /\ events # <<>>) THEN worker' = "read" ELSE EndPoll
  /\ UNCHANGED <<internal, fd, kernel, entries, started, poller, removing, buf, clients,
                 counters, history>>

(* A faulty read: that there is nothing is not noticed.                    *)
ReadAnyway ==
  /\ worker = "read"
  /\ fd = "open"
  /\ buf' = events
  /\ events' = <<>>
  /\ worker' = "dispatch"
  /\ UNCHANGED <<internal, fd, watched, lastWatch, entries, started, poller, removing,
                 clients, counters, history>>

(* handleEvents reads until there is nothing left ...                      *)
Read ==
  /\ worker = "read"
  /\ fd = "open"
  /\ IF events = <<>>
     THEN EndPoll /\ UNCHANGED <<buf, events>>
     ELSE /\ buf' = events
          /\ events' = <<>>
          /\ worker' = "dispatch"
  /\ UNCHANGED <<internal, fd, watched, lastWatch, entries, started, poller, removing,
                 clients, counters, history>>

(* ... and calls stop when read fails.  On the polling thread, stop waits  *)
(* for itself, or get throws and ends the program.  (If the thread is      *)
(* removing the queue, it locks the mutex of the control queue again.)     *)
ReadFails ==
  /\ worker = "read"
  /\ fd # "open"
  /\ Close
  /\ \/ /\ running
        /\ worker' = "stuck"
     \/ /\ ~ running
        /\ worker' = "terminated"
  /\ UNCHANGED <<internal, entries, started, poller, removing, buf, clients, counters, raced,
                 shared, late>>

Handled(rest) ==
  /\ buf' = rest
  /\ worker' = IF rest = <<>> THEN "read" ELSE "dispatch"

(* A faulty handler: a callback runs once.                                 *)
FoundOnce(w) ==
  /\ entries' = entries \ {w}
  /\ dirty' = dirty \ {w}
  /\ UNCHANGED raced

Found(w) ==
  /\ entries' = IF Head(buf).ignored THEN entries \ {w} ELSE entries
  /\ dirty' = IF Head(buf).ignored THEN dirty ELSE dirty \ {w}
  /\ UNCHANGED raced

NotFound(w) ==
  /\ w \notin entries \/ Inserting # {}
  /\ raced' = (raced \/ w \in entries)
  /\ UNCHANGED <<entries, dirty>>

(* A faulty loop: it handles one event of what it has read.                *)
HandleFirstEvent ==
  /\ worker = "dispatch"
  /\ LET w == Head(buf).watch IN (w \in entries /\ Found(w)) \/ NotFound(w)
  /\ Handled(<<>>)
  /\ UNCHANGED <<internal, fd, kernel, started, poller, removing, clients, counters, shared,
                 late>>

(* A callback or an erase.  The entry of a watch may not be there yet, and *)
(* a search during an insert may miss the one that is.                     *)
HandleEvent ==
  /\ worker = "dispatch"
  /\ LET w == Head(buf).watch IN (w \in entries /\ Found(w)) \/ NotFound(w)
  /\ Handled(Tail(buf))
  /\ UNCHANGED <<internal, fd, kernel, started, poller, removing, clients, counters, shared,
                 late>>

FinishRemove ==
  /\ worker = "remove"
  /\ attached' = FALSE
  /\ future' = [future EXCEPT ![Head(requests)] = "value"]
  /\ requests' = Tail(requests)
  /\ removing' = FALSE
  /\ worker' = "control"
  /\ UNCHANGED <<internal, fd, kernel, entries, started, running, stopSignal, buf, at,
                 adding, issued, counters, history>>

-----------------------------------------------------------------------------
(***************************************************************************)
(* The specification.                                                      *)
(***************************************************************************)
Work ==
  \/ HandleAdd
  \/ HandleRemove
  \/ HandleStop
  \/ BeginRound
  \/ Poll
  \/ Read
  \/ ReadFails
  \/ HandleEvent
  \/ FinishRemove

Continue(c) ==
  /\ worker # "terminated"
  /\ \/ InsertEntry(c)
     \/ SendRemove(c)
     \/ GetResult(c)
     \/ StopPoller(c)

NewCall(c) ==
  /\ worker # "terminated"
  /\ \/ Start(c)
     \/ Stop(c)
     \/ \E f \in Files : AddWatch(c, f)
     \/ \E w \in Watches : RemoveWatch(c, w)

Next ==
  \/ Work
  \/ \E c \in Clients : Continue(c) \/ NewCall(c)
  \/ \E f \in Files : Modify(f)
  \/ Reuse

Spec == Init /\ [][Next]_vars

(* The scheduler runs the polling thread, and a client inside a call.      *)
Fairness ==
  /\ WF_vars(Work)
  /\ \A c \in Clients : WF_vars(Continue(c))

FairSpec == Spec /\ Fairness

-----------------------------------------------------------------------------
(***************************************************************************)
(* Properties.                                                             *)
(***************************************************************************)

Event == [watch : 1 .. lastWatch, ignored : BOOLEAN]

Requests == {"add", "stop"} \cup Clients

(* The state has the right types, and a watch the number of a file.        *)
TypeOK ==
  /\ fd \in {"open", "closed", "other"}
  /\ lastWatch \in 0 .. MaxWatches
  /\ DOMAIN watched \subseteq 1 .. lastWatch
  /\ \A w \in DOMAIN watched : watched[w] \in Files
  /\ events \in Seq(Event)
  /\ buf \in Seq(Event)
  /\ entries \subseteq 1 .. lastWatch
  /\ requests \in Seq(Requests)
  /\ worker \in {"none", "control", "poll", "read", "dispatch", "remove", "done", "stuck",
                 "terminated"}
  /\ worker = "dispatch" <=> buf # <<>>
  /\ removing =>
       /\ requests # <<>> /\ Head(requests) \in Clients
       /\ worker \in {"poll", "read", "dispatch", "remove", "stuck", "terminated"}
  /\ worker = "remove" => removing
  /\ at \in [Clients -> {"idle", "inserting", "closed", "waiting", "poller_stop", "stopped",
                         "threw"}]
  /\ adding \in [Clients -> 0 .. lastWatch]
  /\ \A c \in Clients : at[c] = "inserting" => adding[c] # 0
  /\ future \in [Clients -> {"none", "value"}]
  /\ issued \subseteq 1 .. lastWatch

Pending(event) == event \in ToSet(events) \cup ToSet(buf)

(* What addWatch returned is served until removeWatch: the entry of a live *)
(* watch is never erased, whoever removed and added the same file before;  *)
(* and that of a dead watch goes away, unless a second addWatch of the     *)
(* same file put it back.                                                  *)
EntriesMatchWatches ==
  fd = "open" /\ ~ raced =>
    /\ \A w \in issued : w \in DOMAIN watched => w \in entries
    /\ ~ shared => \A w \in entries : w \in DOMAIN watched \/ Pending(Ignored(w))

(* No callback runs once stop has returned: that is what the wait for the  *)
(* removal is for, the callbacks may be destroyed.                         *)
SilentAfterStop ==
  (\E c \in Clients : at[c] = "stopped") => worker # "dispatch"

-----------------------------------------------------------------------------
(***************************************************************************)
(* Liveness.                                                               *)
(***************************************************************************)

(* Changes reach their callback, if the watcher runs and is not stopped.   *)
ChangesReported ==
  \A w \in Watches : attached /\ w \in dirty ~> w \notin dirty \/ raced

(* "Update stop sequence order of FileWatcher to avoid deadlocking": a     *)
(* stop returns.                                                           *)
StopReturns ==
  \A c \in Clients : at[c] = "closed" ~> at[c] \in {"stopped", "threw"}

(* It does, if it is the only one and the thread was not reading events    *)
(* when the descriptor was closed, and its number was not taken meanwhile. *)
UnhurriedStopReturns ==
  \A c \in Clients :
    at[c] = "closed" ~> at[c] \in {"stopped", "threw"} \/ late \/ stops > 1

=============================================================================
