-------------------------- MODULE FileWatcherProofs --------------------------
(***************************************************************************)
(* Proofs about FileWatcher, for any number of files, clients, watches and *)
(* calls.                                                                  *)
(***************************************************************************)
EXTENDS FileWatcher, SequenceTheorems, TLAPS

USE ClientsAssumption, ConstantsAssumption

-----------------------------------------------------------------------------
(***************************************************************************)
(* Why the properties hold: the invariant that the steps keep.             *)
(***************************************************************************)

(* A descriptor that was closed never has watches or events again, and a   *)
(* client that stops has closed it.                                        *)
StaysClosed ==
  /\ fd # "open" => DOMAIN watched = {} /\ events = <<>>
  /\ \A c \in Clients :
       at[c] \in {"closed", "waiting", "poller_stop", "stopped", "threw"} => fd # "open"

(* Before start the poller has nothing of the watcher.                     *)
NothingBeforeStart ==
  /\ ~ started => /\ worker \in {"none", "control"} /\ requests = <<>>
                  /\ ~ attached /\ ~ stopSignal
                  /\ internal => ~ running
  /\ \A c \in Clients : at[c] \in {"closed", "waiting"} => started

(* Only the removal of a client that waits is answered, and from the       *)
(* answer on the thread has no events.                                     *)
AnswerMeansSilent ==
  \A c \in Clients :
    /\ c \in ToSet(requests) \/ future[c] = "value"
         => at[c] \in {"waiting", "poller_stop", "stopped"}
    /\ at[c] \in {"poller_stop", "stopped"} \/ future[c] = "value" => worker # "dispatch"

(* A watch whose end is announced is not used again.                       *)
IgnoredMeansDead ==
  \A w \in Watches : Pending(Ignored(w)) => w \notin DOMAIN watched

(* As long as no file was added twice, an addWatch has a watch of its own, *)
(* which nobody can remove before it is inserted.                          *)
OwnWatch ==
  fd = "open" /\ ~ shared =>
    \A c \in Inserting :
      /\ adding[c] \in DOMAIN watched
      /\ adding[c] \notin issued
      /\ \A d \in Inserting : d # c => adding[d] # adding[c]

IInv ==
  /\ TypeOK
  /\ StaysClosed
  /\ NothingBeforeStart
  /\ AnswerMeansSilent
  /\ IgnoredMeansDead
  /\ OwnWatch
  /\ EntriesMatchWatches

-----------------------------------------------------------------------------
(***************************************************************************)
(* Sequences.                                                              *)
(***************************************************************************)

(* The members of a sequence.                                              *)
LEMMA Members ==
  ASSUME NEW S, NEW s \in Seq(S)
  PROVE  \A x : x \in ToSet(s) <=> Contains(s, x)
<1>1. DOMAIN s = 1 .. Len(s)
  BY LenProperties
<1> QED
  BY <1>1 DEF ToSet, Contains

(* Appending puts the element behind the others.                           *)
LEMMA Appended ==
  ASSUME NEW S, NEW s \in Seq(S), NEW e \in S
  PROVE  /\ Append(s, e) \in Seq(S)
         /\ Len(Append(s, e)) = Len(s) + 1
         /\ \A i \in 1 .. Len(s) : Append(s, e)[i] = s[i]
         /\ Append(s, e)[Len(s) + 1] = e
         /\ Append(s, e) # <<>>
         /\ s # <<>> => Head(Append(s, e)) = Head(s)
         /\ \A x : Contains(Append(s, e), x) <=> Contains(s, x) \/ x = e
         /\ ToSet(Append(s, e)) = ToSet(s) \cup {e}
<1>1. /\ Append(s, e) \in Seq(S)
      /\ Len(Append(s, e)) = Len(s) + 1
      /\ \A i \in 1 .. Len(s) : Append(s, e)[i] = s[i]
      /\ Append(s, e)[Len(s) + 1] = e
      /\ Append(s, e) # <<>>
      /\ s # <<>> => Head(Append(s, e)) = Head(s)
  BY AppendProperties, HeadTailAppend
<1>2. Len(s) \in Nat
  OBVIOUS
<1>3. \A x : Contains(Append(s, e), x) <=> Contains(s, x) \/ x = e
  BY <1>1, <1>2 DEF Contains
<1>4. ToSet(Append(s, e)) = ToSet(s) \cup {e}
  BY <1>1, <1>3, Members
<1> QED
  BY <1>1, <1>3, <1>4

(* Taking the first element away.                                          *)
LEMMA Popped ==
  ASSUME NEW S, NEW s \in Seq(S), s # <<>>
  PROVE  /\ Tail(s) \in Seq(S)
         /\ Len(s) \in Nat \ {0}
         /\ Len(Tail(s)) = Len(s) - 1
         /\ \A i \in 1 .. Len(Tail(s)) : Tail(s)[i] = s[i + 1]
         /\ Head(s) = s[1]
         /\ \A x : Contains(s, x) <=> Head(s) = x \/ Contains(Tail(s), x)
         /\ ToSet(s) = ToSet(Tail(s)) \cup {Head(s)}
<1>1. /\ Tail(s) \in Seq(S)
      /\ Len(s) \in Nat \ {0}
      /\ Len(Tail(s)) = Len(s) - 1
      /\ \A i \in 1 .. Len(Tail(s)) : Tail(s)[i] = s[i + 1]
      /\ Head(s) = s[1]
  BY HeadTailProperties, EmptySeq
<1>2. ASSUME NEW x, NEW i \in 1 .. Len(s), s[i] = x
      PROVE  Head(s) = x \/ Contains(Tail(s), x)
  <2>1. CASE i = 1
    BY <1>1, <1>2, <2>1
  <2>2. CASE i # 1
    <3>1. i - 1 \in 1 .. Len(Tail(s)) /\ Tail(s)[i - 1] = s[i]
      BY <1>1, <2>2
    <3> QED
      BY <3>1, <1>2 DEF Contains
  <2> QED
    BY <2>1, <2>2
<1>3. ASSUME NEW x, Head(s) = x \/ Contains(Tail(s), x)
      PROVE  Contains(s, x)
  BY <1>1, <1>3 DEF Contains
<1>4. \A x : Contains(s, x) <=> Head(s) = x \/ Contains(Tail(s), x)
  BY <1>1, <1>2, <1>3 DEF Contains
<1>5. ToSet(s) = ToSet(Tail(s)) \cup {Head(s)}
  BY <1>1, <1>4, Members
<1> QED
  BY <1>1, <1>4, <1>5

(***************************************************************************)
(* Events and requests.                                                    *)
(***************************************************************************)

(* Queueing an event adds it to those that wait, if it is not the last.    *)
LEMMA QueuedEvent ==
  ASSUME NEW S, NEW queue \in Seq(S), NEW e \in S
  PROVE  /\ Queued(queue, e) \in Seq(S)
         /\ ToSet(Queued(queue, e)) = ToSet(queue) \cup {e}
<1>1. CASE queue # <<>> /\ Last(queue) = e
  <2>1. Len(queue) \in 1 .. Len(queue)
    BY <1>1, EmptySeq
  <2>2. e \in ToSet(queue)
    BY <1>1, <2>1, Members DEF Last, Contains
  <2> QED
    BY <1>1, <2>2 DEF Queued
<1>2. CASE ~ (queue # <<>> /\ Last(queue) = e)
  BY <1>2, Appended DEF Queued
<1> QED
  BY <1>1, <1>2

LEMMA EventTypes ==
  ASSUME NEW w \in 1 .. lastWatch
  PROVE  /\ Modified(w) \in Event /\ Ignored(w) \in Event
         /\ \A v : Modified(w) # Ignored(v)
         /\ \A v : Ignored(w) = Ignored(v) => w = v
BY DEF Modified, Ignored, Event

(* Typing survives the kernel's next number.                               *)
LEMMA MoreEvents ==
  ASSUME lastWatch \in Nat, lastWatch' = lastWatch \/ lastWatch' = lastWatch + 1,
         NEW s \in Seq(Event)
  PROVE  s \in Seq(Event')
<1>1. Event \subseteq Event'
  BY DEF Event
<1>2. Len(s) \in Nat /\ s \in [1 .. Len(s) -> Event]
  BY LenProperties
<1>3. s \in [1 .. Len(s) -> Event']
  BY <1>1, <1>2
<1> QED
  BY <1>2, <1>3, SeqDef

LEMMA NoMembers == ToSet(<<>>) = {} /\ DOMAIN <<>> = {}
<1>1. DOMAIN <<>> = {}
  OBVIOUS
<1> QED
  BY <1>1 DEF ToSet

LEMMA RequestTypes ==
  /\ "add" \in Requests /\ "stop" \in Requests
  /\ Clients \subseteq Requests
  /\ "add" \notin Clients /\ "stop" \notin Clients
BY DEF Requests

-----------------------------------------------------------------------------
(***************************************************************************)
(* Types.                                                                  *)
(***************************************************************************)
LEMMA TypeStep ==
  ASSUME TypeOK, [Next]_vars
  PROVE  TypeOK'
<1> USE DEF TypeOK, kernel, poller, thread, clients, counters, history, Goto
<1>0. /\ lastWatch \in 0 .. MaxWatches /\ lastWatch \in Nat
      /\ events \in Seq(Event) /\ buf \in Seq(Event) /\ requests \in Seq(Requests)
  OBVIOUS
<1>a. UNCHANGED lastWatch => Event' = Event
  BY DEF Event
<1>b. ASSUME NEW e \in Requests
      PROVE  /\ Append(requests, e) \in Seq(Requests) /\ Append(requests, e) # <<>>
             /\ requests # <<>> => Head(Append(requests, e)) = Head(requests)
  BY <1>0, Appended
<1>1. ASSUME NEW f \in Files, Modify(f)
      PROVE  TypeOK'
  <2>1. PICK w \in DOMAIN watched : events' = Queued(events, Modified(w))
    BY <1>1 DEF Modify, WatchesOf
  <2>2. events' \in Seq(Event)
    BY <1>0, <2>1, QueuedEvent, EventTypes
  <2> QED
    BY <1>1, <1>a, <2>2 DEF Modify
<1>2. CASE Reuse
  BY <1>2, <1>a DEF Reuse
<1>3. ASSUME NEW c \in Clients, Start(c)
      PROVE  TypeOK'
  <2>1. requests' \in Seq(Requests) /\ requests' # <<>>
        /\ (requests # <<>> => Head(requests') = Head(requests))
    BY <1>0, <1>3, RequestTypes, Appended DEF Start
  <2> QED
    BY <1>3, <1>a, <2>1 DEF Start
<1>4. ASSUME NEW c \in Clients, NEW f \in Files, AddWatch(c, f)
      PROVE  TypeOK'
  <2>1. CASE /\ adding' \in {[adding EXCEPT ![c] = w] : w \in WatchesOf(f)}
             /\ UNCHANGED <<watched, lastWatch>>
    <3>1. PICK w \in 1 .. lastWatch : adding' = [adding EXCEPT ![c] = w]
      BY <2>1 DEF WatchesOf
    <3> QED
      BY <1>4, <1>a, <2>1, <3>1 DEF AddWatch
  <2>2. CASE /\ lastWatch < MaxWatches
             /\ lastWatch' = lastWatch + 1
             /\ watched' = [w \in DOMAIN watched \cup {lastWatch'} |->
                              IF w = lastWatch' THEN f ELSE watched[w]]
             /\ adding' = [adding EXCEPT ![c] = lastWatch']
    <3>1. events' \in Seq(Event') /\ buf' \in Seq(Event')
      BY <1>0, <1>4, <2>2, MoreEvents DEF AddWatch
    <3>2. lastWatch' \in 0 .. MaxWatches /\ 1 .. lastWatch \subseteq 1 .. lastWatch'
          /\ lastWatch' \in 1 .. lastWatch'
      BY <1>0, <2>2
    <3>3. DOMAIN watched' \subseteq 1 .. lastWatch' /\ \A w \in DOMAIN watched' : watched'[w] \in Files
      BY <2>2, <3>2
    <3>4. /\ adding' \in [Clients -> 0 .. lastWatch']
          /\ at' = [at EXCEPT ![c] = "inserting"]
          /\ \A d \in Clients : at'[d] = "inserting" => adding'[d] # 0
      BY <1>0, <1>4, <2>2, <3>2 DEF AddWatch
    <3> QED
      BY <1>4, <3>1, <3>2, <3>3, <3>4 DEF AddWatch
  <2> QED
    BY <1>4, <2>1, <2>2 DEF AddWatch
<1>5. ASSUME NEW c \in Clients, InsertEntry(c)
      PROVE  TypeOK'
  <2>1. adding[c] \in 1 .. lastWatch
    BY <1>5 DEF InsertEntry
  <2> QED
    BY <1>5, <1>a, <2>1 DEF InsertEntry
<1>6. ASSUME NEW c \in Clients, NEW w \in Watches, RemoveWatch(c, w)
      PROVE  TypeOK'
  <2>1. events' \in Seq(Event)
    BY <1>0, <1>6, QueuedEvent, EventTypes DEF RemoveWatch
  <2>2. watched' = [v \in DOMAIN watched \ {w} |-> watched[v]]
    BY <1>6 DEF RemoveWatch
  <2> QED
    BY <1>6, <1>a, <2>1, <2>2 DEF RemoveWatch
<1>7. ASSUME Close
      PROVE  /\ fd' = "closed" /\ DOMAIN watched' = {} /\ events' \in Seq(Event)
             /\ lastWatch' = lastWatch
  BY <1>7, NoMembers DEF Close
<1>8. ASSUME NEW c \in Clients, Stop(c)
      PROVE  TypeOK'
  BY <1>7, <1>8, <1>a DEF Stop
<1>9. ASSUME NEW c \in Clients, SendRemove(c)
      PROVE  TypeOK'
  <2>0. requests' = Append(requests, c) \/ requests' = requests
    BY <1>9, Zenon DEF SendRemove
  <2>1. /\ requests' \in Seq(Requests)
        /\ requests # <<>> => requests' # <<>> /\ Head(requests') = Head(requests)
    <3>1. c \in Requests
      BY RequestTypes
    <3>2. /\ Append(requests, c) \in Seq(Requests) /\ Append(requests, c) # <<>>
          /\ requests # <<>> => Head(Append(requests, c)) = Head(requests)
      BY <1>b, <3>1
    <3> QED
      BY <1>0, <2>0, <3>2
  <2> QED
    BY <1>9, <1>a, <2>1 DEF SendRemove
<1>10. ASSUME NEW c \in Clients, GetResult(c)
       PROVE  TypeOK'
  BY <1>10, <1>a DEF GetResult
<1>11. ASSUME NEW c \in Clients, StopPoller(c)
       PROVE  TypeOK'
  <2>0. requests' = Append(requests, "stop") \/ requests' = requests
    BY <1>11, Zenon DEF StopPoller
  <2>1. /\ requests' \in Seq(Requests)
        /\ requests # <<>> => requests' # <<>> /\ Head(requests') = Head(requests)
    <3>1. "stop" \in Requests
      BY RequestTypes
    <3>2. /\ Append(requests, "stop") \in Seq(Requests) /\ Append(requests, "stop") # <<>>
          /\ requests # <<>> => Head(Append(requests, "stop")) = Head(requests)
      BY <1>b, <3>1
    <3> QED
      BY <1>0, <2>0, <3>2
  <2> QED
    BY <1>11, <1>a, <2>1 DEF StopPoller
<1>12. ASSUME requests # <<>>, requests' = Tail(requests)
       PROVE  requests' \in Seq(Requests)
  BY <1>0, <1>12, Popped
<1>13. CASE HandleAdd \/ HandleStop
  <2>1. requests' \in Seq(Requests)
    BY <1>12, <1>13, Zenon DEF HandleAdd, HandleStop
  <2>2. worker = "control" /\ ~ removing /\ UNCHANGED <<kernel, fd, entries, thread, clients>>
    BY <1>13 DEF HandleAdd, HandleStop
  <2> QED
    BY <1>a, <2>1, <2>2
<1>14. CASE HandleRemove
  <2>1. Head(requests) \in Clients /\ requests # <<>> /\ worker = "control" /\ ~ removing
    BY <1>14 DEF HandleRemove
  <2>2. CASE attached
    BY <1>14, <1>a, <2>1, <2>2 DEF HandleRemove
  <2>3. CASE ~ attached
    BY <1>12, <1>14, <1>a, <2>1, <2>3 DEF HandleRemove
  <2> QED
    BY <2>2, <2>3
<1>15. CASE BeginRound
  BY <1>15, <1>a DEF BeginRound
<1>16. CASE Poll
  BY <1>16, <1>a DEF Poll, EndPoll
<1>17. CASE Read
  <2>1. CASE events = <<>>
    BY <1>17, <1>a, <2>1 DEF Read, EndPoll
  <2>2. CASE events # <<>>
    BY <1>17, <1>a, <2>2 DEF Read
  <2> QED
    BY <2>1, <2>2
<1>18. CASE ReadFails
  BY <1>7, <1>18, <1>a DEF ReadFails
<1>19. CASE HandleEvent
  <2>1. buf # <<>> /\ buf' = Tail(buf) /\ buf' \in Seq(Event)
    BY <1>0, <1>19, Popped DEF HandleEvent, Handled
  <2>2. entries' \subseteq entries
    BY <1>19 DEF HandleEvent, Found, NotFound
  <2>3. worker' = IF buf' = <<>> THEN "read" ELSE "dispatch"
    BY <1>19 DEF HandleEvent, Handled
  <2> QED
    BY <1>19, <1>a, <2>1, <2>2, <2>3 DEF HandleEvent
<1>20. CASE FinishRemove
  <2>1. Head(requests) \in Clients /\ requests # <<>>
    BY <1>20 DEF FinishRemove
  <2> QED
    BY <1>12, <1>20, <1>a, <2>1 DEF FinishRemove
<1>21. CASE UNCHANGED vars
  BY <1>21, <1>a DEF vars
<1> QED
  BY <1>1, <1>2, <1>3, <1>4, <1>5, <1>6, <1>8, <1>9, <1>10, <1>11, <1>13, <1>14, <1>15, <1>16,
     <1>17, <1>18, <1>19, <1>20, <1>21 DEF Next, Work, Continue, NewCall

-----------------------------------------------------------------------------
(***************************************************************************)
(* The descriptor and the start.                                           *)
(***************************************************************************)
LEMMA StaysClosedStep ==
  ASSUME TypeOK, StaysClosed, [Next]_vars
  PROVE  StaysClosed'
<1> USE DEF StaysClosed, kernel, poller, thread, clients, counters, history, Goto
<1>0. at \in [Clients -> {"idle", "inserting", "closed", "waiting", "poller_stop", "stopped",
                          "threw"}]
  BY DEF TypeOK
<1>1. ASSUME UNCHANGED <<fd, watched, events, at>>
      PROVE  StaysClosed'
  BY <1>1
<1>2. ASSUME NEW f \in Files, Modify(f)
      PROVE  StaysClosed'
  <2>1. DOMAIN watched # {} /\ UNCHANGED <<fd, at>>
    BY <1>2 DEF Modify, WatchesOf
  <2> QED
    BY <2>1
<1>3. CASE Reuse
  BY <1>3 DEF Reuse
<1>4. ASSUME NEW c \in Clients, \/ \E f \in Files : AddWatch(c, f)
                                \/ \E w \in Watches : RemoveWatch(c, w)
      PROVE  StaysClosed'
  <2>1. fd = "open" /\ fd' = "open"
    BY <1>4 DEF AddWatch, RemoveWatch
  <2>2. at' = at \/ at' = [at EXCEPT ![c] = "inserting"]
    BY <1>4 DEF AddWatch, RemoveWatch
  <2> QED
    BY <1>0, <2>1, <2>2
<1>5. ASSUME NEW c \in Clients, Start(c) \/ InsertEntry(c)
      PROVE  StaysClosed'
  <2>1. UNCHANGED <<fd, watched, events>> /\ (at' = at \/ at' = [at EXCEPT ![c] = "idle"])
    BY <1>5 DEF Start, InsertEntry
  <2> QED
    BY <1>0, <2>1
<1>6. ASSUME Close
      PROVE  fd' = "closed" /\ DOMAIN watched' = {} /\ events' = <<>>
  BY <1>6, NoMembers DEF Close
<1>7. ASSUME NEW c \in Clients, Stop(c)
      PROVE  StaysClosed'
  BY <1>6, <1>7 DEF Stop
<1>8. CASE ReadFails
  BY <1>6, <1>8 DEF ReadFails
<1>9. ASSUME NEW c \in Clients, SendRemove(c) \/ GetResult(c) \/ StopPoller(c)
      PROVE  StaysClosed'
  <2>1. at[c] \in {"closed", "waiting", "poller_stop"} /\ UNCHANGED <<fd, watched, events>>
    BY <1>9 DEF SendRemove, GetResult, StopPoller
  <2>2. \A d \in Clients : d # c => at'[d] = at[d]
    BY <1>0, <1>9 DEF SendRemove, GetResult, StopPoller
  <2> QED
    BY <2>1, <2>2
<1>10. CASE Read
  BY <1>10 DEF Read
<1>11. CASE \/ HandleAdd \/ HandleRemove \/ HandleStop \/ BeginRound \/ Poll \/ HandleEvent
            \/ FinishRemove
  BY <1>1, <1>11 DEF HandleAdd, HandleRemove, HandleStop, BeginRound, Poll, HandleEvent,
     FinishRemove
<1>12. CASE UNCHANGED vars
  BY <1>1, <1>12 DEF vars
<1> QED
  BY <1>2, <1>3, <1>4, <1>5, <1>7, <1>8, <1>9, <1>10, <1>11, <1>12
     DEF Next, Work, Continue, NewCall

LEMMA NothingBeforeStartStep ==
  ASSUME TypeOK, NothingBeforeStart, [Next]_vars
  PROVE  NothingBeforeStart'
<1> USE DEF NothingBeforeStart, kernel, poller, thread, clients, counters, history, Goto
<1>0. at \in [Clients -> {"idle", "inserting", "closed", "waiting", "poller_stop", "stopped",
                          "threw"}]
  BY DEF TypeOK
<1>1. ASSUME UNCHANGED <<started, worker, requests, attached, stopSignal, internal, running>>,
             \A c \in Clients : at'[c] \in {"closed", "waiting"} => at[c] \in {"closed", "waiting"} \/ started
      PROVE  NothingBeforeStart'
  BY <1>1, Zenon
<1>2. ASSUME NEW c \in Clients, Start(c)
      PROVE  NothingBeforeStart'
  BY <1>2, Zenon DEF Start
<1>3. ASSUME started, started' = started
      PROVE  NothingBeforeStart'
  BY <1>3, Zenon
<1>4. ASSUME NEW c \in Clients, SendRemove(c) \/ GetResult(c)
      PROVE  NothingBeforeStart'
  <2>1. at[c] \in {"closed", "waiting"} /\ started' = started
    BY <1>4, Zenon DEF SendRemove, GetResult
  <2>2. started
    BY <2>1, Zenon
  <2> QED
    BY <1>3, <2>1, <2>2
<1>5. ASSUME NEW c \in Clients, StopPoller(c)
      PROVE  NothingBeforeStart'
  <2>1. /\ UNCHANGED <<started, worker, attached, stopSignal, internal>>
        /\ ~ (internal /\ running) => UNCHANGED <<running, requests>>
    BY <1>5, Zenon DEF StopPoller
  <2>2. at' = [at EXCEPT ![c] = "stopped"]
    BY <1>5 DEF StopPoller
  <2>3. \A d \in Clients : at'[d] \in {"closed", "waiting"} => at[d] \in {"closed", "waiting"}
    BY <1>0, <2>2
  <2>4. CASE started
    BY <1>3, <2>1, <2>4
  <2>5. CASE ~ started
    BY <1>1, <2>1, <2>3, <2>5, Zenon
  <2> QED
    BY <2>4, <2>5
<1>6. ASSUME NEW c \in Clients, \/ Stop(c) \/ InsertEntry(c)
                                \/ \E f \in Files : AddWatch(c, f)
                                \/ \E w \in Watches : RemoveWatch(c, w)
      PROVE  NothingBeforeStart'
  <2>1. UNCHANGED <<started, worker, requests, attached, stopSignal, internal, running>>
    BY <1>6, Zenon DEF Stop, InsertEntry, AddWatch, RemoveWatch
  <2>2. \/ at' = at
        \/ \E l \in {"idle", "inserting", "poller_stop"} : at' = [at EXCEPT ![c] = l]
        \/ at' = [at EXCEPT ![c] = "closed"] /\ started
    <3>1. CASE Stop(c)
      <4>1. at' = [at EXCEPT ![c] = IF started THEN "closed" ELSE "poller_stop"]
        BY <3>1 DEF Stop
      <4>2. CASE started
        BY <4>1, <4>2
      <4>3. CASE ~ started
        BY <4>1, <4>3
      <4> QED
        BY <4>2, <4>3
    <3>2. CASE ~ Stop(c)
      BY <1>6, <3>2 DEF InsertEntry, AddWatch, RemoveWatch
    <3> QED
      BY <3>1, <3>2
  <2>3. \A d \in Clients :
          at'[d] \in {"closed", "waiting"} => at[d] \in {"closed", "waiting"} \/ started
    BY <1>0, <2>2
  <2> QED
    BY <1>1, <2>1, <2>3
<1>7. ASSUME \/ Reuse \/ (\E f \in Files : Modify(f)) \/ UNCHANGED vars
      PROVE  NothingBeforeStart'
  <2>1. UNCHANGED <<started, worker, requests, attached, stopSignal, internal, running, at>>
    BY <1>7, Zenon DEF Reuse, Modify, vars
  <2> QED
    BY <1>1, <2>1, Zenon
<1>8. ASSUME Work
      PROVE  NothingBeforeStart'
  <2>1. started' = started
    BY <1>8 DEF Work, HandleAdd, HandleRemove, HandleStop, BeginRound, Poll, Read, ReadFails,
       HandleEvent, FinishRemove
  <2>2. \/ requests # <<>> \/ worker \notin {"none", "control"} \/ attached \/ stopSignal
    BY <1>8, Zenon DEF Work, HandleAdd, HandleRemove, HandleStop, BeginRound, Poll, Read, ReadFails,
       HandleEvent, FinishRemove
  <2>3. started
    BY <2>2, Zenon
  <2> QED
    BY <1>3, <2>1, <2>3
<1> QED
  BY <1>2, <1>4, <1>5, <1>6, <1>7, <1>8 DEF Next, Continue, NewCall

-----------------------------------------------------------------------------
(***************************************************************************)
(* After stop no callback runs.                                            *)
(***************************************************************************)
LEMMA AnswerMeansSilentStep ==
  ASSUME TypeOK, StaysClosed, NothingBeforeStart, AnswerMeansSilent, [Next]_vars
  PROVE  AnswerMeansSilent'
<1> USE DEF AnswerMeansSilent, kernel, poller, thread, clients, counters, history, Goto
<1>0. /\ at \in [Clients -> {"idle", "inserting", "closed", "waiting", "poller_stop", "stopped",
                             "threw"}]
      /\ future \in [Clients -> {"none", "value"}]
      /\ requests \in Seq(Requests)
  BY DEF TypeOK
<1>a. ASSUME NEW e \in Requests
      PROVE  ToSet(Append(requests, e)) = ToSet(requests) \cup {e}
  BY <1>0, Appended
<1>b. ASSUME requests # <<>>
      PROVE  Head(requests) \in ToSet(requests) /\ ToSet(Tail(requests)) \subseteq ToSet(requests)
  BY <1>0, <1>b, Popped
<1>1. ASSUME ToSet(requests') \subseteq ToSet(requests), UNCHANGED <<at, future>>,
             worker' = "dispatch" => worker = "dispatch"
      PROVE  AnswerMeansSilent'
  BY <1>1
<1>2. CASE \/ Reuse \/ (\E f \in Files : Modify(f)) \/ BeginRound \/ ReadFails
           \/ HandleEvent \/ UNCHANGED vars
  <2>1. requests' = requests /\ UNCHANGED <<at, future>>
    BY <1>2 DEF Reuse, Modify, BeginRound, ReadFails, HandleEvent, vars
  <2>2. worker' = "dispatch" => worker = "dispatch"
    BY <1>2 DEF Reuse, Modify, BeginRound, ReadFails, HandleEvent, vars
  <2> QED
    BY <1>1, <2>1, <2>2
<1>3. CASE Poll
  BY <1>1, <1>3 DEF Poll, EndPoll
<1>4. CASE Read
  <2>1. \A c \in Clients : /\ at[c] \notin {"waiting", "poller_stop", "stopped"}
                           /\ future[c] # "value" /\ c \notin ToSet(requests)
    BY <1>4 DEF Read, StaysClosed
  <2>2. UNCHANGED <<requests, at, future>>
    BY <1>4 DEF Read
  <2> QED
    BY <2>1, <2>2
<1>5. CASE HandleAdd \/ HandleStop
  <2>1. requests # <<>> /\ requests' = Tail(requests) /\ UNCHANGED <<at, future, worker>>
    BY <1>5, Zenon DEF HandleAdd, HandleStop
  <2> QED
    BY <1>1, <1>b, <2>1
<1>6. ASSUME requests # <<>>, requests' = Tail(requests), Head(requests) \in Clients,
             future' = [future EXCEPT ![Head(requests)] = "value"], at' = at,
             worker' # "dispatch"
      PROVE  AnswerMeansSilent'
  BY <1>0, <1>b, <1>6
<1>7. CASE HandleRemove
  <2>1. CASE attached
    BY <1>1, <1>7, <2>1 DEF HandleRemove
  <2>2. CASE ~ attached
    BY <1>6, <1>7, <2>2 DEF HandleRemove
  <2> QED
    BY <2>1, <2>2
<1>8. CASE FinishRemove
  <2>1. requests # <<>> /\ Head(requests) \in Clients
    BY <1>8 DEF FinishRemove, TypeOK
  <2> QED
    BY <1>6, <1>8, <2>1 DEF FinishRemove
<1>9. ASSUME NEW c \in Clients, Start(c)
      PROVE  AnswerMeansSilent'
  <2>1. requests' = Append(requests, "add") /\ UNCHANGED <<at, future>>
    BY <1>9, Zenon DEF Start
  <2>2. \A d \in Clients : d \in ToSet(requests') => d \in ToSet(requests)
    BY <1>a, <2>1, RequestTypes
  <2>3. worker' = "dispatch" => worker = "dispatch"
    BY <1>9 DEF Start
  <2> QED
    BY <2>1, <2>2, <2>3
<1>10. ASSUME NEW c \in Clients, \/ InsertEntry(c)
                                 \/ \E f \in Files : AddWatch(c, f)
                                 \/ \E w \in Watches : RemoveWatch(c, w)
       PROVE  AnswerMeansSilent'
  <2>1. at[c] \in {"idle", "inserting"} /\ UNCHANGED <<requests, future, worker>>
    BY <1>10 DEF InsertEntry, AddWatch, RemoveWatch
  <2>2. at' = at \/ at' = [at EXCEPT ![c] = "idle"] \/ at' = [at EXCEPT ![c] = "inserting"]
    BY <1>10 DEF InsertEntry, AddWatch, RemoveWatch
  <2> QED
    BY <1>0, <2>1, <2>2
<1>11. ASSUME NEW c \in Clients, Stop(c)
       PROVE  AnswerMeansSilent'
  <2>1. /\ at[c] = "idle" /\ UNCHANGED <<requests, worker>>
        /\ future' = [future EXCEPT ![c] = "none"]
        /\ at' = [at EXCEPT ![c] = IF started THEN "closed" ELSE "poller_stop"]
    BY <1>11 DEF Stop
  <2>2. ASSUME NEW d \in Clients, d # c
        PROVE  at'[d] = at[d] /\ future'[d] = future[d]
    BY <1>0, <2>1, <2>2
  <2>3. future'[c] = "none" /\ c \notin ToSet(requests')
    BY <1>0, <2>1
  <2>4. at'[c] \in {"poller_stop", "stopped"} => worker' # "dispatch"
    BY <1>0, <2>1 DEF NothingBeforeStart
  <2> QED
    BY <2>1, <2>2, <2>3, <2>4
<1>12. ASSUME NEW c \in Clients, SendRemove(c)
       PROVE  AnswerMeansSilent'
  <2>1. at[c] = "closed" /\ UNCHANGED <<future, worker>>
    BY <1>12 DEF SendRemove
  <2>2. \/ requests' = Append(requests, c) /\ at' = [at EXCEPT ![c] = "waiting"]
        \/ requests' = requests /\ at' = [at EXCEPT ![c] = "threw"]
    BY <1>12, Zenon DEF SendRemove
  <2>3. \A d \in ToSet(requests') : d = c \/ d \in ToSet(requests)
    BY <1>a, <2>2, RequestTypes
  <2>4. ASSUME NEW d \in Clients, d # c
        PROVE  at'[d] = at[d]
    BY <1>0, <2>2, <2>4
  <2>5. future[c] # "value" /\ c \notin ToSet(requests)
    BY <2>1
  <2>6. (c \in ToSet(requests') => at'[c] = "waiting") /\ at'[c] \in {"waiting", "threw"}
    BY <1>0, <2>2, <2>5
  <2> QED
    BY <2>1, <2>3, <2>4, <2>5, <2>6
<1>13. ASSUME NEW c \in Clients, GetResult(c)
       PROVE  AnswerMeansSilent'
  BY <1>0, <1>13 DEF GetResult
<1>14. ASSUME NEW c \in Clients, StopPoller(c)
       PROVE  AnswerMeansSilent'
  <2>1. at[c] = "poller_stop" /\ at' = [at EXCEPT ![c] = "stopped"] /\ UNCHANGED <<future, worker>>
    BY <1>14 DEF StopPoller
  <2>2. requests' = Append(requests, "stop") \/ requests' = requests
    BY <1>14, Zenon DEF StopPoller
  <2>3. \A d \in Clients : d \in ToSet(requests') => d \in ToSet(requests)
    BY <1>a, <2>2, RequestTypes
  <2> QED
    BY <1>0, <2>1, <2>3
<1> QED
  BY <1>2, <1>3, <1>4, <1>5, <1>7, <1>8, <1>9, <1>10, <1>11, <1>12, <1>13, <1>14
     DEF Next, Work, Continue, NewCall

-----------------------------------------------------------------------------
(***************************************************************************)
(* The entries of watches.                                                 *)
(***************************************************************************)
LEMMA IgnoredStep ==
  ASSUME TypeOK, StaysClosed, IgnoredMeansDead, [Next]_vars
  PROVE  IgnoredMeansDead'
<1> USE DEF kernel, poller, thread, clients, counters, history
<1>0. /\ events \in Seq(Event) /\ buf \in Seq(Event) /\ lastWatch \in Nat
      /\ DOMAIN watched \subseteq 1 .. lastWatch
  BY DEF TypeOK
<1>1. ASSUME DOMAIN watched' \subseteq DOMAIN watched,
             \A w \in Watches : Pending(Ignored(w))' => Pending(Ignored(w)) \/ w \notin DOMAIN watched'
      PROVE  IgnoredMeansDead'
  BY <1>1 DEF IgnoredMeansDead
<1>2. ASSUME UNCHANGED <<watched, events, buf>>
      PROVE  IgnoredMeansDead'
  BY <1>1, <1>2 DEF Pending
<1>3. ASSUME NEW f \in Files, Modify(f)
      PROVE  IgnoredMeansDead'
  <2>1. PICK w \in DOMAIN watched : events' = Queued(events, Modified(w))
    BY <1>3 DEF Modify, WatchesOf
  <2>2. ToSet(events') = ToSet(events) \cup {Modified(w)}
    BY <1>0, <2>1, QueuedEvent, EventTypes
  <2>3. \A v : Modified(w) # Ignored(v)
    BY DEF Modified, Ignored
  <2>4. UNCHANGED <<watched, buf>>
    BY <1>3 DEF Modify
  <2> QED
    BY <1>1, <2>2, <2>3, <2>4 DEF Pending
<1>4. ASSUME NEW c \in Clients, NEW f \in Files, AddWatch(c, f)
      PROVE  IgnoredMeansDead'
  <2>1. UNCHANGED <<events, buf>>
    BY <1>4 DEF AddWatch
  <2>2. DOMAIN watched' \subseteq DOMAIN watched \cup {lastWatch + 1}
    BY <1>4 DEF AddWatch
  <2>3. ASSUME Pending(Ignored(lastWatch + 1))
        PROVE  FALSE
    <3>1. Ignored(lastWatch + 1) \in Event
      BY <1>0, <2>3, Members, ElementOfSeq DEF Pending, Contains
    <3>2. lastWatch + 1 \in 1 .. lastWatch
      BY <3>1 DEF Ignored, Event
    <3> QED
      BY <1>0, <3>2
  <2>4. \A w : Pending(Ignored(w))' <=> Pending(Ignored(w))
    BY <2>1 DEF Pending
  <2> QED
    BY <2>2, <2>3, <2>4 DEF IgnoredMeansDead
<1>5. ASSUME NEW c \in Clients, NEW w \in Watches, RemoveWatch(c, w)
      PROVE  IgnoredMeansDead'
  <2>1. /\ watched' = [v \in DOMAIN watched \ {w} |-> watched[v]]
        /\ events' = Queued(events, Ignored(w)) /\ buf' = buf /\ w \in 1 .. lastWatch
    BY <1>0, <1>5 DEF RemoveWatch
  <2>2. ToSet(events') = ToSet(events) \cup {Ignored(w)} /\ \A v : Ignored(v) = Ignored(w) => v = w
    BY <1>0, <2>1, QueuedEvent, EventTypes
  <2> QED
    BY <1>1, <2>1, <2>2 DEF Pending
<1>6. ASSUME Close
      PROVE  IgnoredMeansDead'
  BY <1>6, NoMembers DEF Close, IgnoredMeansDead
<1>7. CASE Read
  <2>1. /\ watched' = watched
        /\ \/ UNCHANGED <<events, buf>>
           \/ buf' = events /\ events' = <<>>
    BY <1>7 DEF Read
  <2> QED
    BY <1>1, <2>1, NoMembers DEF Pending
<1>8. CASE HandleEvent
  <2>1. buf # <<>> /\ buf' = Tail(buf) /\ UNCHANGED <<watched, events>>
    BY <1>8 DEF HandleEvent, Handled, TypeOK
  <2>2. ToSet(buf') \subseteq ToSet(buf)
    BY <1>0, <2>1, Popped
  <2> QED
    BY <1>1, <2>1, <2>2 DEF Pending
<1>9. CASE \/ Reuse \/ HandleAdd \/ HandleRemove \/ HandleStop \/ BeginRound \/ Poll
           \/ FinishRemove \/ UNCHANGED vars
  BY <1>2, <1>9 DEF Reuse, HandleAdd, HandleRemove, HandleStop, BeginRound, Poll,
     FinishRemove, vars
<1>10. ASSUME NEW c \in Clients, \/ Start(c) \/ InsertEntry(c) \/ SendRemove(c) \/ GetResult(c)
                                 \/ StopPoller(c)
       PROVE  IgnoredMeansDead'
  BY <1>2, <1>10 DEF Start, InsertEntry, SendRemove, GetResult, StopPoller
<1> QED
  BY <1>3, <1>4, <1>5, <1>6, <1>7, <1>8, <1>9, <1>10
     DEF Next, Work, Continue, NewCall, Stop, ReadFails

LEMMA OwnWatchStep ==
  ASSUME TypeOK, OwnWatch, [Next]_vars
  PROVE  OwnWatch'
<1> USE DEF kernel, poller, thread, clients, counters, history, Goto
<1>0. /\ at \in [Clients -> {"idle", "inserting", "closed", "waiting", "poller_stop", "stopped",
                             "threw"}]
      /\ adding \in [Clients -> 0 .. lastWatch]
      /\ issued \subseteq 1 .. lastWatch /\ lastWatch \in Nat
  BY DEF TypeOK
<1>1. ASSUME fd' = fd, UNCHANGED <<shared, watched, adding, issued>>, Inserting' \subseteq Inserting
      PROVE  OwnWatch'
  BY <1>1 DEF OwnWatch
<1>2. ASSUME UNCHANGED <<fd, shared, watched, adding, issued, at>>
      PROVE  OwnWatch'
  BY <1>1, <1>2 DEF Inserting
<1>3. ASSUME fd' # "open"
      PROVE  OwnWatch'
  BY <1>3 DEF OwnWatch
<1>4. ASSUME NEW c \in Clients, NEW f \in Files, AddWatch(c, f)
      PROVE  OwnWatch'
  <2>1. CASE shared'
    BY <2>1 DEF OwnWatch
  <2>2. CASE ~ shared'
    <3>1. /\ lastWatch' = lastWatch + 1
          /\ watched' = [w \in DOMAIN watched \cup {lastWatch'} |->
                           IF w = lastWatch' THEN f ELSE watched[w]]
          /\ adding' = [adding EXCEPT ![c] = lastWatch']
          /\ at' = [at EXCEPT ![c] = "inserting"]
          /\ fd = "open" /\ ~ shared /\ issued' = issued
      BY <1>4, <2>2 DEF AddWatch
    <3>2. \A d \in Inserting' : d = c \/ (d \in Inserting /\ adding'[d] = adding[d])
      BY <1>0, <3>1 DEF Inserting
    <3>3. adding'[c] = lastWatch + 1 /\ lastWatch + 1 \notin issued
          /\ \A d \in Inserting : adding[d] # lastWatch + 1
      BY <1>0, <3>1 DEF Inserting
    <3>4. DOMAIN watched' = DOMAIN watched \cup {lastWatch + 1}
      BY <3>1
    <3> QED
      BY <3>1, <3>2, <3>3, <3>4 DEF OwnWatch
  <2> QED
    BY <2>1, <2>2
<1>5. ASSUME NEW c \in Clients, InsertEntry(c)
      PROVE  OwnWatch'
  <2>1. /\ c \in Inserting /\ UNCHANGED <<fd, shared, watched, adding>>
        /\ issued' = issued \cup {adding[c]} /\ at' = [at EXCEPT ![c] = "idle"]
    BY <1>5, Zenon DEF InsertEntry, Inserting
  <2>2. \A d \in Inserting' : d \in Inserting /\ d # c
    BY <1>0, <2>1 DEF Inserting
  <2> QED
    BY <2>1, <2>2 DEF OwnWatch
<1>6. ASSUME NEW c \in Clients, NEW w \in Watches, RemoveWatch(c, w)
      PROVE  OwnWatch'
  <2>1. /\ w \in issued /\ DOMAIN watched' = DOMAIN watched \ {w}
        /\ UNCHANGED <<fd, shared, adding, issued, at>>
    BY <1>6 DEF RemoveWatch
  <2> QED
    BY <2>1 DEF OwnWatch, Inserting
<1>7. CASE Reuse \/ ReadFails
  BY <1>3, <1>7 DEF Reuse, ReadFails, Close
<1>8. ASSUME NEW c \in Clients, Stop(c)
      PROVE  OwnWatch'
  BY <1>3, <1>8 DEF Stop, Close
<1>9. ASSUME NEW c \in Clients, SendRemove(c) \/ GetResult(c) \/ StopPoller(c)
      PROVE  OwnWatch'
  <2>1. UNCHANGED <<fd, shared, watched, adding, issued>>
    BY <1>9 DEF SendRemove, GetResult, StopPoller
  <2>2. \E l \in {"waiting", "threw", "poller_stop", "stopped"} : at' = [at EXCEPT ![c] = l]
    BY <1>9 DEF SendRemove, GetResult, StopPoller
  <2>3. Inserting' \subseteq Inserting
    BY <1>0, <2>2 DEF Inserting
  <2> QED
    BY <1>1, <2>1, <2>3
<1>10. CASE \/ HandleAdd \/ HandleRemove \/ HandleStop \/ BeginRound \/ Poll \/ Read
            \/ FinishRemove \/ UNCHANGED vars
  BY <1>2, <1>10 DEF HandleAdd, HandleRemove, HandleStop, BeginRound, Poll, Read,
     FinishRemove, vars
<1>11. CASE HandleEvent \/ (\E c \in Clients : Start(c)) \/ (\E f \in Files : Modify(f))
  BY <1>2, <1>11 DEF HandleEvent, Start, Modify
<1> QED
  BY <1>4, <1>5, <1>6, <1>7, <1>8, <1>9, <1>10, <1>11 DEF Next, Work, Continue, NewCall

LEMMA EntriesStep ==
  ASSUME TypeOK, IgnoredMeansDead, OwnWatch, EntriesMatchWatches, [Next]_vars
  PROVE  EntriesMatchWatches'
<1> USE DEF kernel, poller, thread, clients, counters, history
<1>0. /\ events \in Seq(Event) /\ buf \in Seq(Event) /\ lastWatch \in 0 .. MaxWatches
      /\ DOMAIN watched \subseteq 1 .. lastWatch
      /\ issued \subseteq 1 .. lastWatch /\ entries \subseteq 1 .. lastWatch
  BY DEF TypeOK
<1>1. ASSUME fd' = "open" => fd = "open", UNCHANGED <<raced, shared, issued, entries, watched>>,
             \A e : Pending(e) => Pending(e)'
      PROVE  EntriesMatchWatches'
  BY <1>1 DEF EntriesMatchWatches
<1>2. ASSUME UNCHANGED <<fd, raced, shared, issued, entries, watched, events, buf>>
      PROVE  EntriesMatchWatches'
  BY <1>1, <1>2 DEF Pending
<1>3. ASSUME fd' # "open"
      PROVE  EntriesMatchWatches'
  BY <1>3 DEF EntriesMatchWatches
<1>4. ASSUME NEW f \in Files, Modify(f)
      PROVE  EntriesMatchWatches'
  <2>1. PICK w \in DOMAIN watched : events' = Queued(events, Modified(w))
    BY <1>4 DEF Modify, WatchesOf
  <2>2. ToSet(events') = ToSet(events) \cup {Modified(w)}
    BY <1>0, <2>1, QueuedEvent, EventTypes
  <2>3. UNCHANGED <<fd, raced, shared, issued, entries, watched, buf>>
    BY <1>4 DEF Modify
  <2> QED
    BY <1>1, <2>2, <2>3 DEF Pending
<1>5. ASSUME NEW c \in Clients, NEW f \in Files, AddWatch(c, f)
      PROVE  EntriesMatchWatches'
  <2>1. UNCHANGED <<fd, raced, issued, entries, events, buf>> /\ (~ shared' => ~ shared)
    BY <1>5 DEF AddWatch
  <2>2. /\ DOMAIN watched \subseteq DOMAIN watched'
        /\ \A w \in DOMAIN watched' : w \in DOMAIN watched \/ w = lastWatch + 1
    BY <1>5 DEF AddWatch
  <2>3. lastWatch + 1 \notin issued
    BY <1>0
  <2>4. \A e : Pending(e)' <=> Pending(e)
    BY <2>1 DEF Pending
  <2> QED
    BY <2>1, <2>2, <2>3, <2>4 DEF EntriesMatchWatches
<1>6. ASSUME NEW c \in Clients, InsertEntry(c)
      PROVE  EntriesMatchWatches'
  <2>1. CASE raced'
    BY <2>1 DEF EntriesMatchWatches
  <2>2. CASE ~ raced'
    <3>1. /\ c \in Inserting /\ entries' = entries \cup {adding[c]}
          /\ issued' = issued \cup {adding[c]} /\ ~ raced
          /\ UNCHANGED <<fd, shared, watched, events, buf>>
      BY <1>6, <2>2 DEF InsertEntry, Inserting
    <3>2. \A e : Pending(e)' <=> Pending(e)
      BY <3>1 DEF Pending
    <3> QED
      BY <3>1, <3>2 DEF EntriesMatchWatches, OwnWatch
  <2> QED
    BY <2>1, <2>2
<1>7. ASSUME NEW c \in Clients, NEW w \in Watches, RemoveWatch(c, w)
      PROVE  EntriesMatchWatches'
  <2>1. /\ DOMAIN watched' = DOMAIN watched \ {w} /\ w \in 1 .. lastWatch
        /\ events' = Queued(events, Ignored(w))
        /\ UNCHANGED <<fd, raced, shared, issued, entries, buf>>
    BY <1>0, <1>7 DEF RemoveWatch
  <2>2. ToSet(events') = ToSet(events) \cup {Ignored(w)}
    BY <1>0, <2>1, QueuedEvent, EventTypes
  <2> QED
    BY <2>1, <2>2 DEF EntriesMatchWatches, Pending
<1>8. CASE Reuse \/ ReadFails
  BY <1>3, <1>8 DEF Reuse, ReadFails, Close
<1>9. ASSUME NEW c \in Clients, Stop(c)
      PROVE  EntriesMatchWatches'
  BY <1>3, <1>9 DEF Stop, Close
<1>10. CASE Read
  <2>1. /\ UNCHANGED <<fd, raced, shared, issued, entries, watched>> /\ buf = <<>>
        /\ \/ UNCHANGED <<events, buf>>
           \/ buf' = events /\ events' = <<>>
    BY <1>10 DEF Read, TypeOK
  <2> QED
    BY <1>1, <2>1, NoMembers DEF Pending
<1>11. CASE HandleEvent
  <2> DEFINE e == Head(buf)
             w == e.watch
  <2>1. buf # <<>> /\ buf' = Tail(buf) /\ UNCHANGED <<fd, shared, issued, watched, events>>
    BY <1>11 DEF HandleEvent, Handled, TypeOK
  <2>2. /\ e \in Event /\ ToSet(buf) = ToSet(buf') \cup {e}
    BY <1>0, <2>1, Popped
  <2>3. /\ w \in 1 .. lastWatch /\ e.ignored \in BOOLEAN
        /\ e.ignored => e = Ignored(w)
        /\ ~ e.ignored => \A v : e # Ignored(v)
    BY <2>2 DEF Event, Ignored
  <2>4. \/ w \in entries /\ entries' = (IF e.ignored THEN entries \ {w} ELSE entries) /\ raced' = raced
        \/ entries' = entries /\ (raced' <=> raced \/ w \in entries)
    BY <1>11, Zenon DEF HandleEvent, Found, NotFound
  <2> HIDE DEF e, w
  <2>5. \A x : Pending(x) => Pending(x)' \/ x = e
    BY <2>1, <2>2 DEF Pending
  <2>6. \A v : Ignored(v) = Ignored(w) => v = w
    BY DEF Ignored
  <2>7. CASE raced'
    BY <2>7 DEF EntriesMatchWatches
  <2>8. CASE ~ raced' /\ ~ e.ignored
    <3>1. entries' = entries /\ ~ raced
      BY <2>4, <2>8
    <3>2. \A v : Pending(Ignored(v)) => Pending(Ignored(v))'
      BY <2>3, <2>5, <2>8
    <3> QED
      BY <2>1, <3>1, <3>2 DEF EntriesMatchWatches
  <2>9. CASE ~ raced' /\ e.ignored
    <3>1. ~ raced /\ w \notin entries' /\ entries \subseteq entries' \cup {w} /\ entries' \subseteq entries
      BY <2>4, <2>9
    <3>2. w \in Watches /\ Pending(Ignored(w))
      BY <1>0, <2>2, <2>3, <2>9 DEF Watches, Pending
    <3>3. w \notin DOMAIN watched
      BY <3>2 DEF IgnoredMeansDead
    <3>4. \A v : v # w /\ Pending(Ignored(v)) => Pending(Ignored(v))'
      BY <2>3, <2>5, <2>6, <2>9
    <3> QED
      BY <2>1, <3>1, <3>3, <3>4 DEF EntriesMatchWatches
  <2> QED
    BY <2>7, <2>8, <2>9
<1>12. CASE \/ HandleAdd \/ HandleRemove \/ HandleStop \/ BeginRound \/ Poll
            \/ FinishRemove \/ UNCHANGED vars
  BY <1>2, <1>12 DEF HandleAdd, HandleRemove, HandleStop, BeginRound, Poll,
     FinishRemove, vars
<1>13. ASSUME NEW c \in Clients, Start(c) \/ SendRemove(c) \/ GetResult(c) \/ StopPoller(c)
       PROVE  EntriesMatchWatches'
  BY <1>2, <1>13 DEF Start, SendRemove, GetResult, StopPoller
<1> QED
  BY <1>4, <1>5, <1>6, <1>7, <1>8, <1>9, <1>10, <1>11, <1>12, <1>13
     DEF Next, Work, Continue, NewCall

-----------------------------------------------------------------------------
(***************************************************************************)
(* The theorems.                                                           *)
(***************************************************************************)
LEMMA InitIInv == Init => IInv
<1> SUFFICES ASSUME Init
             PROVE  IInv
  OBVIOUS
<1>0. /\ fd = "open" /\ watched = <<>> /\ lastWatch = 0 /\ events = <<>> /\ entries = {}
      /\ requests = <<>> /\ worker \in {"none", "control"} /\ buf = <<>> /\ issued = {}
      /\ at = [c \in Clients |-> "idle"] /\ adding = [c \in Clients |-> 0]
      /\ future = [c \in Clients |-> "none"]
  BY DEF Init
<1>1. ~ removing /\ ~ started /\ ~ attached /\ ~ stopSignal /\ (internal => ~ running)
  BY Zenon DEF Init
<1>2. TypeOK
  BY <1>0, <1>1, NoMembers DEF TypeOK
<1>3. StaysClosed /\ NothingBeforeStart
  BY <1>0, <1>1 DEF StaysClosed, NothingBeforeStart
<1>4. AnswerMeansSilent /\ IgnoredMeansDead
  BY <1>0, NoMembers DEF AnswerMeansSilent, IgnoredMeansDead
<1>5. OwnWatch /\ EntriesMatchWatches
  BY <1>0 DEF OwnWatch, Inserting, EntriesMatchWatches
<1> QED
  BY <1>2, <1>3, <1>4, <1>5 DEF IInv

LEMMA StepIInv == IInv /\ [Next]_vars => IInv'
BY TypeStep, StaysClosedStep, NothingBeforeStartStep, AnswerMeansSilentStep, IgnoredStep,
   OwnWatchStep, EntriesStep DEF IInv

(* The invariant of the watcher holds in every state of every behaviour.   *)
THEOREM Inductive == Spec => []IInv
<1>1. Init => IInv
  BY InitIInv
<1>2. IInv /\ [Next]_vars => IInv'
  BY StepIInv
<1> QED
  BY <1>1, <1>2, PTL DEF Spec

(* The variables keep their types; the thread has events just when it      *)
(* dispatches them.                                                        *)
THEOREM Types == Spec => []TypeOK
<1>1. IInv => TypeOK
  BY DEF IInv
<1> QED
  BY <1>1, Inductive, PTL

(* An entry of m_entries stays as long as its watch, and goes with it,     *)
(* although the thread erases it when nobody knows that it does.           *)
THEOREM Entries == Spec => []EntriesMatchWatches
<1>1. IInv => EntriesMatchWatches
  BY DEF IInv
<1> QED
  BY <1>1, Inductive, PTL

(* When a call of stop has returned, no callback runs any more, whichever  *)
(* calls were in progress and whoever owns the poller.                     *)
THEOREM Silence == Spec => []SilentAfterStop
<1>1. IInv => SilentAfterStop
  BY DEF IInv, AnswerMeansSilent, SilentAfterStop
<1> QED
  BY <1>1, Inductive, PTL

=============================================================================
