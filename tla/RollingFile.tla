----------------------------- MODULE RollingFile -----------------------------
(***************************************************************************)
(* Rolling log files: rolling_ofstream with its rolling and archive        *)
(* policies (sinks/file/RollingOfstream.h), and the sink that writes one   *)
(* event after the other to it (src/RollingFileSink.cpp).                  *)
(*                                                                         *)
(* In automatic mode every write asks the rolling policy whether to        *)
(* archive the file first.  The sink uses manual mode: it asks can_roll,   *)
(* and calls roll before the write.  The rename calls of an archive policy *)
(* are separate steps; the program may crash between two of them, and      *)
(* start again on the files it left.  Every event has a number of bytes,   *)
(* and time is a counter that may advance between any two steps.           *)
(***************************************************************************)
EXTENDS Integers, Sequences, FiniteSets, FiniteSetsExt, Functions

CONSTANTS
  Configs,     (* what the stream may be configured with, see ConfigType   *)
  Threshold,   (* bytesThreshold of RollBySize                             *)
  EventSizes,  (* how many bytes an event may have                         *)
  Period,      (* the value of the interval of RollEvery                   *)
  UnitStarts,  (* when a unit of the interval begins: an hour, a month     *)
  Zone,        (* by how much local time is ahead of UTC                   *)
  StampUnit,   (* how long the pattern of ArchiveTimestamp gives one name  *)
  Faults,      (* which calls may fail                                     *)
  MaxEvents,   (* bound: events logged                                     *)
  MaxTime,     (* bound: the time                                          *)
  Unset        (* nextRollPoint before the first write                     *)

(* A rounded interval in days, or in a longer unit, is rounded in local    *)
(* time.  A time stamp may have an empty pattern, and then no name.        *)
ConfigType ==
  [mode    : {"manual", "automatic"},
   open    : {"app", "out"},
   rolling : {"size", "precise", "round", "round_local"},
   archive : {"incremental", "timestamp", "unnamed"}]

ASSUME ConfigAssumption == Configs \subseteq ConfigType

ASSUME FaultsAssumption == Faults \subseteq {"rename_base", "rename_archive", "open"}

ASSUME NumbersAssumption ==
  /\ Threshold \in Nat /\ EventSizes \subseteq Nat \ {0}
  /\ Period \in Nat /\ Zone \in Nat /\ StampUnit \in Nat \ {0}
  /\ UnitStarts \subseteq Nat /\ 0 \in UnitStarts
  /\ MaxEvents \in Nat /\ MaxTime \in Nat
  /\ Unset \notin Int

VARIABLES
  config,      (* the policies and the mode                                *)
  fs,          (* the files: the events in each, by name                   *)
  opened,      (* whether the filebuf is open, on the file Base            *)
  stream,      (* the stream: "absent", "good", or "bad" (badbit is set)   *)
  next,        (* nextRollPoint                                            *)
  now,         (* Clock::now()                                             *)
  pc,          (* where the writing thread is                              *)
  archiving,   (* the path that is being archived and the next index       *)
  events,      (* how many events have been logged                         *)
  ends,        (* the position behind each event in the file it is in      *)
  when,        (* history: when each event was logged                      *)
  lost,        (* history: events whose write had no effect                *)
  truncated,   (* history: events of a file that was opened anew           *)
  crashed,     (* history: the program has been restarted                  *)
  faulted      (* history: a rename or an open has failed                  *)

history == <<when, lost, truncated, crashed, faulted>>
vars == <<config, fs, opened, stream, next, now, pc, archiving, events, ends, history>>

(* A name is what was appended to that of the log file: nothing, a stamp   *)
(* or an index, or a stamp and an index.                                   *)
Base == <<>>

NoPath == [path |-> Base, index |-> 0]

Init ==
  /\ config \in Configs
  /\ fs = [name \in {Base} |-> <<>>]
  /\ opened = TRUE
  /\ stream = "good"
  /\ next = Unset
  /\ now = 0
  /\ pc = "idle"
  /\ archiving = NoPath
  /\ events = 0
  /\ ends = [e \in 1 .. MaxEvents |-> 0]
  /\ when = <<>>
  /\ lost = {}
  /\ truncated = {}
  /\ crashed = FALSE
  /\ faulted = FALSE

-----------------------------------------------------------------------------
(***************************************************************************)
(* Rolling policies.                                                       *)
(***************************************************************************)

(* Local time, for a period of a day or more.                              *)
Offset == IF config.rolling = "round_local" THEN Zone ELSE 0

(* date_utils::floor: when the unit began that is running at t.            *)
Floor(t) == Max({ b \in UnitStarts : b <= t })

(* A faulty interval: it is rounded up.                                    *)
LaterPoint(tp) ==
  IF config.rolling \in {"round", "round_local"}
  THEN Min({ b \in UnitStarts : b >= tp + Offset + Period }) - Offset
  ELSE tp + Period

(* RollEvery::next: the value is added to the local time, the sum rounded  *)
(* down to a unit, and the result taken back to UTC.                       *)
NextPoint(tp) ==
  IF config.rolling \in {"round", "round_local"}
  THEN Floor(tp + Offset + Period) - Offset
  ELSE tp + Period

(* Where the next byte goes: a file that is opened for appending is        *)
(* continued at its end.                                                   *)
Position == IF fs[Base] = <<>> THEN 0 ELSE ends[fs[Base][Len(fs[Base])]]

(* A faulty test: the threshold itself is not enough.                      *)
FileIsBeyond == opened /\ Position > Threshold

(* A closed filebuf has no position.                                       *)
FileIsFull == opened /\ Position >= Threshold

CanRoll ==
  IF config.rolling = "size" THEN FileIsFull ELSE next # Unset /\ now >= next

(* What apply answers: the first roll point may have come already.         *)
IsDue ==
  IF config.rolling = "size" THEN FileIsFull
  ELSE now >= IF next = Unset THEN NextPoint(now) ELSE next

(* apply moves the roll point if it has come.                              *)
ApplyRolling ==
  next' = IF config.rolling # "size" /\ (next = Unset \/ now >= next) THEN NextPoint(now) ELSE next

-----------------------------------------------------------------------------
(***************************************************************************)
(* Archive policies.                                                       *)
(***************************************************************************)
Stamp == (now + Zone) \div StampUnit

Target == IF config.archive = "timestamp" THEN Append(Base, Stamp) ELSE Base

(* As many indices as there are files cannot all be taken.                 *)
Indices == 0 .. Cardinality(DOMAIN fs)

(* A faulty search: the last index that is taken.                          *)
TakenIndex(path) == Max({0} \cup { n \in Indices : Append(path, n) \in DOMAIN fs })

FreeIndex(path) == Min({ n \in Indices : Append(path, n) \notin DOMAIN fs })

(* Without a pattern nothing happens.  Otherwise the file is closed, and   *)
(* ArchiveIncremental archives the log file whether it is there or not,    *)
(* ArchiveTimestamp what has the name it wants; both under the first index *)
(* that is free.                                                           *)
BeginArchive ==
  LET shifts == config.archive = "incremental" \/ Target \in DOMAIN fs
  IN IF config.archive = "unnamed"
     THEN /\ pc' = "append"
          /\ UNCHANGED <<opened, archiving>>
     ELSE /\ opened' = FALSE
          /\ archiving' = [path |-> Target, index |-> IF shifts THEN FreeIndex(Target) ELSE 0]
          /\ pc' = IF shifts THEN "shift" ELSE "rename"

(* std::filesystem::rename, which replaces the file that has the name.     *)
Renamed(from, to) ==
  /\ from \in DOMAIN fs
  /\ fs' = [name \in (DOMAIN fs \ {from}) \cup {to} |-> IF name = to THEN fs[from] ELSE fs[name]]
  /\ UNCHANGED faulted

NotRenamed(from, fault) ==
  /\ fault \in Faults \/ from \notin DOMAIN fs
  /\ faulted' = TRUE
  /\ UNCHANGED fs

Rename(from, to, fault) == Renamed(from, to) \/ NotRenamed(from, fault)

(* A faulty archive: the most recent archive goes behind the last one, and *)
(* the others keep their index.                                            *)
ShiftFirst ==
  LET path == archiving.path
      n    == archiving.index
  IN /\ pc = "shift"
     /\ IF n = 0
        THEN /\ Rename(path, Append(path, 0), IF path = Base THEN "rename_base" ELSE "rename_archive")
             /\ pc' = IF path = Base THEN "reopen" ELSE "rename"
             /\ UNCHANGED archiving
        ELSE /\ Rename(Append(path, 0), Append(path, n), "rename_archive")
             /\ archiving' = [archiving EXCEPT !.index = 0]
             /\ UNCHANGED pc
     /\ UNCHANGED <<config, opened, stream, next, now, events, ends, when, lost, truncated, crashed>>

(* ArchiveIncremental::archive gives every archive the next index, from    *)
(* the last one down, and index 0 to the path itself.  Failures are        *)
(* ignored.                                                                *)
ShiftOne ==
  LET path == archiving.path
      n    == archiving.index
  IN /\ pc = "shift"
     /\ IF n = 0
        THEN /\ Rename(path, Append(path, 0), IF path = Base THEN "rename_base" ELSE "rename_archive")
             /\ pc' = IF path = Base THEN "reopen" ELSE "rename"
             /\ UNCHANGED archiving
        ELSE /\ Rename(Append(path, n - 1), Append(path, n), "rename_archive")
             /\ archiving' = [archiving EXCEPT !.index = n - 1]
             /\ UNCHANGED pc
     /\ UNCHANGED <<config, opened, stream, next, now, events, ends, when, lost, truncated, crashed>>

(* ArchiveTimestamp: when the log file keeps its name, it stays closed.    *)
RenameToStamp ==
  /\ pc = "rename"
  /\ \/ Renamed(Base, archiving.path) /\ pc' = "reopen"
     \/ NotRenamed(Base, "rename_base") /\ pc' = "append"
  /\ UNCHANGED <<config, opened, stream, next, now, archiving, events, ends, when, lost, truncated, crashed>>

(* Opening a file creates it if there is none.  What is in it is kept only *)
(* if it is opened for appending.                                          *)
Opened ==
  [name \in DOMAIN fs \cup {Base} |->
     IF name \in DOMAIN fs /\ (name # Base \/ config.open = "app") THEN fs[name] ELSE <<>>]

Open ==
  /\ opened' = TRUE
  /\ fs' = Opened
  /\ truncated' = IF config.open = "out" /\ Base \in DOMAIN fs
                  THEN truncated \cup Range(fs[Base]) ELSE truncated
  /\ UNCHANGED faulted

NotOpened ==
  /\ "open" \in Faults
  /\ faulted' = TRUE
  /\ UNCHANGED <<fs, truncated>>

Reopen ==
  /\ pc = "reopen"
  /\ pc' = "append"
  /\ \/ Open
     \/ NotOpened /\ UNCHANGED opened
  /\ UNCHANGED <<config, stream, next, now, archiving, events, ends, when, lost, crashed>>

-----------------------------------------------------------------------------
(***************************************************************************)
(* Logging an event.                                                       *)
(***************************************************************************)
NewEvent ==
  /\ pc = "idle"
  /\ events < MaxEvents
  /\ events' = events + 1
  /\ when' = Append(when, now)

(* RollingFileSink::sink: a stream that could not be opened cannot roll.   *)
Sink ==
  /\ config.mode = "manual"
  /\ NewEvent
  /\ pc' = IF stream # "absent" /\ CanRoll THEN "roll" ELSE "append"
  /\ UNCHANGED <<config, fs, opened, stream, next, now, archiving, ends, lost, truncated, crashed, faulted>>

Roll ==
  /\ pc = "roll"
  /\ ApplyRolling
  /\ BeginArchive
  /\ UNCHANGED <<config, fs, stream, now, events, ends, history>>

(* A stream in automatic mode.  A write to a bad stream does not reach the *)
(* filebuf.                                                                *)
Put ==
  /\ config.mode = "automatic"
  /\ NewEvent
  /\ IF stream = "good"
     THEN /\ ApplyRolling
          /\ IF IsDue THEN BeginArchive ELSE pc' = "append" /\ UNCHANGED <<opened, archiving>>
     ELSE /\ pc' = "append"
          /\ UNCHANGED <<next, opened, archiving>>
  /\ UNCHANGED <<config, fs, stream, now, ends, lost, truncated, crashed, faulted>>

(* Base::xsputn and the flush.  In manual mode xsputn applies the rolling  *)
(* policy too, and throws the answer away.  Writing to a closed filebuf    *)
(* sets badbit, which nobody clears.                                       *)
AppendEvent ==
  /\ pc = "append"
  /\ pc' = "idle"
  /\ archiving' = NoPath
  /\ IF stream = "good" /\ config.mode = "manual" THEN ApplyRolling ELSE UNCHANGED next
  /\ IF stream = "good" /\ opened
     THEN /\ fs' = [fs EXCEPT ![Base] = Append(@, events)]
          /\ \E bytes \in EventSizes : ends' = [ends EXCEPT ![events] = Position + bytes]
          /\ UNCHANGED <<stream, lost>>
     ELSE /\ stream' = IF stream = "good" THEN "bad" ELSE stream
          /\ lost' = lost \cup {events}
          /\ UNCHANGED <<fs, ends>>
  /\ UNCHANGED <<config, opened, now, events, when, truncated, crashed, faulted>>

Tick ==
  /\ now < MaxTime
  /\ now' = now + 1
  /\ UNCHANGED <<config, fs, opened, stream, next, pc, archiving, events, ends, history>>

(* The program ends and starts again.  An event that is not written yet    *)
(* is gone, and so is the roll point.                                      *)
Restart ==
  /\ pc' = "idle"
  /\ archiving' = NoPath
  /\ next' = Unset
  /\ crashed' = TRUE
  /\ lost' = IF pc = "idle" THEN lost ELSE lost \cup {events}
  /\ \/ Open /\ stream' = "good"
     \/ NotOpened /\ opened' = FALSE /\ stream' = "absent"
  /\ UNCHANGED <<config, now, events, ends, when>>

Next ==
  \/ Sink
  \/ Roll
  \/ Put
  \/ ShiftOne
  \/ RenameToStamp
  \/ Reopen
  \/ AppendEvent
  \/ Tick
  \/ Restart

Spec == Init /\ [][Next]_vars

-----------------------------------------------------------------------------
(***************************************************************************)
(* Properties.                                                             *)
(***************************************************************************)
(* What is in no file any more, with the call that took it away.           *)
Gone == lost \cup truncated

Written == { e \in 1 .. events : e \notin Gone /\ (e < events \/ pc = "idle") }

Holding(e) == { name \in DOMAIN fs : \E i \in DOMAIN fs[name] : fs[name][i] = e }

(* What the archive policy makes of the name of the log file.  A stamp is  *)
(* never of a time to come.                                                *)
IsName(name) ==
  /\ name \in Seq(Nat)
  /\ Len(name) <= IF config.archive = "incremental" THEN 1 ELSE 2
  /\ config.archive = "unnamed" => name = Base
  /\ config.archive = "timestamp" /\ name # Base => name[1] <= Stamp

(* The state has the right types; it is a part of NothingLost.             *)
TypeOK ==
  /\ config \in Configs
  /\ IsFiniteSet(DOMAIN fs)
  /\ fs \in [DOMAIN fs -> Seq(1 .. events)]
  /\ \A name \in DOMAIN fs : IsName(name)
  /\ opened \in BOOLEAN
  /\ opened => Base \in DOMAIN fs
  /\ stream \in {"absent", "good", "bad"}
  /\ next \in IF config.rolling = "size" THEN {Unset} ELSE Int \cup {Unset}
  /\ now \in 0 .. MaxTime
  /\ pc \in {"idle", "roll", "shift", "rename", "reopen", "append"}
  /\ archiving \in [path : Seq(Nat), index : Nat]
  /\ events \in 0 .. MaxEvents
  /\ pc # "idle" => events > 0
  /\ ends \in [1 .. MaxEvents -> Nat]
  /\ when \in Seq(0 .. now) /\ Len(when) = events
  /\ lost \subseteq 1 .. events /\ truncated \subseteq 1 .. events
  /\ crashed \in BOOLEAN /\ faulted \in BOOLEAN

(* Rolling loses no event and duplicates none: what was written is in one  *)
(* file, whatever was renamed since, and whenever the program was stopped. *)
(* An event is not written only in a crash or after a call has failed, so  *)
(* that rolling never leaves the stream closed by itself.  What is in a    *)
(* file is taken away only where the mode asks for it: the stream is       *)
(* opened with out, as its usage examples do, and the log file is still    *)
(* there, after a restart or a rename that ArchiveIncremental ignored.     *)
NothingLost ==
  /\ TypeOK
  /\ \A e \in Written : Cardinality(Holding(e)) = 1
  /\ lost # {} => faulted \/ crashed
  /\ truncated # {} =>
       config.open = "out" /\ (crashed \/ (faulted /\ config.archive = "incremental"))

(* Which of two files is the more recent, by their names.  "0 being the    *)
(* most recent", and a stamp without an index is more recent than with.    *)
Newer(x, y) ==
  \/ x = Base /\ y # Base
  \/ /\ x # Base /\ y # Base
     /\ IF config.archive = "incremental"
        THEN x[1] < y[1]
        ELSE \/ x[1] > y[1]
             \/ x[1] = y[1] /\ Len(x) < Len(y)
             \/ x[1] = y[1] /\ Len(x) = 2 /\ Len(y) = 2 /\ x[2] < y[2]

(* The names of the archives tell their order, and every file holds events *)
(* in the order in which they were logged.                                 *)
FilesInOrder ==
  /\ \A name \in DOMAIN fs : \A i, j \in DOMAIN fs[name] : i < j => fs[name][i] < fs[name][j]
  /\ \A x, y \in DOMAIN fs :
       Newer(x, y) => \A i \in DOMAIN fs[x], j \in DOMAIN fs[y] : fs[x][i] > fs[y][j]

(* RollBySize rolls the file after it reached the threshold: only the last *)
(* event of a file goes to the threshold or beyond it, also when the       *)
(* program is stopped in the middle of an archive, unless a call fails or  *)
(* the archive has no name.                                                *)
SizeBounded ==
  config.rolling = "size" /\ config.archive # "unnamed" /\ ~ faulted =>
    \A name \in DOMAIN fs : \A i \in 1 .. Len(fs[name]) - 1 : ends[fs[name][i]] < Threshold

(* A unit begins after t, and within the interval: there is a roll point   *)
(* that is still to come.  It is not so for a month that is longer than    *)
(* the average one, for as long as it is.                                  *)
UnitAhead(t) ==
  IF config.rolling = "precise" THEN Period > 0
  ELSE \E b \in UnitStarts : b \in t + Offset + 1 .. t + Offset + Period

(* RollEvery in automatic mode: the roll point is within an interval of    *)
(* the oldest event in the file, so that no interval passes without a      *)
(* roll; and it is later than that event when a unit begins within the     *)
(* interval, so that the file is not rolled at every write.  This holds    *)
(* unless a call failed, the program restarted or the archive has no name. *)
AutomaticRollsInTime ==
  config.mode = "automatic" /\ config.archive # "unnamed" /\ opened /\ pc = "idle" /\
  ~ faulted /\ ~ crashed /\ next # Unset /\ fs[Base] # <<>> =>
    LET first == when[Head(fs[Base])]
    IN next <= first + Period /\ (UnitAhead(first) => next > first)

=============================================================================
