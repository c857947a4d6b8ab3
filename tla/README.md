# logpp in TLA+

A verification project for [logpp](https://github.com/oktal/logpp), a structured
logging library in C++: TLA+ modules of its parts, TLC configurations that check
them on small instances, and proofs, checked by TLAPS, for every size. Paths below
are those of the repository, seen from its root (`src/` in `PROJECT.json` is the
root: `src/src/AsyncQueuePoller.cpp` is `src/AsyncQueuePoller.cpp`).

## 1. The system

A `Logger` filters by level, records an event in an `EventLogBuffer` and hands it
to a sink. Sinks form a chain (`LevelSink`, `MultiSink`, `FormatSink`, files and
consoles). An `AsyncSink` in the chain pushes the event to a bounded lock-free
queue instead, and the thread of an `AsyncQueuePoller` pops it and gives it to the
rest of the chain. The `FileWatcher` uses such a poller too: its queue is an
inotify descriptor, its handler reloads the levels of a TOML configuration. The
`LoggerRegistry` keeps the loggers, their factories and the sinks. A
`PatternFormatter` or a `LogFmtFormatter` turns an event into a line of text.

| component | state | operations | who calls it | what makes it correct |
|---|---|---|---|---|
| ring buffer (`queue/impl/MPMCQueue.h`) | `head_`, `tail_`, a counter and an entry in each slot | `push`/`emplace`, `try_push`, `pop`, `try_pop` | any logging thread; the polling thread | one thread in a slot at a time; nothing lost, duplicated or out of ticket order; failures are justified; admitted pushes are delivered |
| bounded queue (`BoundedTypedConcurrentAsyncQueue.h`) | a ring, a handler | `push`, `poll`, `setHandler` | `AsyncSink`, poller | a poll handles all that is there; the ring is as large as asked |
| control queue (`SimpleTypedBlockingQueue.h`) | a deque, a mutex, a handler | `push`, `poll` (handlers run under the mutex) | poller | FIFO; no request lost |
| poller (`AsyncQueuePoller.cpp`) | `m_running`, `m_stopSignal`, `m_queues`, the thread | `start`, `stop`, `addQueue`, `removeQueue` -> future, `run` | `AsyncSink`, `FileWatcher` | polls what was asked for; a removed queue is silent and flushed; a stop flushes and ends; waiters get answers |
| spin wait (`SpinWait.cpp`) | `m_count` | `spinOnce` | poller | bounded pauses |
| async sink (`sinks/AsyncSink.h`) | poller, queue, inner sink | `activateOptions`, `sink`, `start`, `stop` | loggers, configuration | no event lost, repeated or reordered; events reach the inner sinks unless it is stopped |
| file watcher (`FileWatcherLinuxImpl.h`) | descriptor, watches, its queue | `start`, `stop`, `addWatch`, `removeWatch`, `handleEvents` | configuration; polling thread | `stop` ends and leaves the watcher silent; changes reach callbacks of live watches only |
| rolling files (`sinks/file/RollingOfstream.h`, `RollingFileSink.cpp`) | current file, next rolling point, archives | `write`, `can_roll`, `roll`, archive policies | a file sink | no event lost or doubled by a roll; archives in order; files bounded |
| file sink (`FileSink.cpp`) | stream | `sink`, `activateOptions` | sinks | events appended whole |
| registry (`LoggerRegistry.cpp`) | loggers, factories, sinks, the default factory | `get`, `registerLogger`, `setDefaultLogger`, `forEachLogger`, ... | everybody | a name finds its most specific configuration, whatever the order of calls |
| logger (`core/Logger.h`) | atomic level, atomic sink pointer | `log`, `setLevel`, `setSink` | everybody | no event wasted between the change of the one and of the other |
| TOML configuration (`TomlConfigurator.cpp`) | none | `configure`, `configureFile`, `configureFileAndWatch`, reload | application, file watcher | sinks in the order of their lines; missing fields from the nearest parent; a reload changes the loggers it names |
| log buffer (`core/LogBuffer.h`, `EventLogBuffer.h`) | storage (inline or heap), cursor, capacity, offsets | `write`, copy, move | loggers, async sink | one owner of heap storage; what was written reads back through copies and moves |
| formatters (`PatternFormatter.cpp`, `LogFmtFormatter.cpp`, `format/flag/`) | the flags or keys that a pattern was parsed to | constructor, `format` | sinks | the text is what the pattern says; a logfmt line reads back |
| sink chain, consoles (`sinks/`) | children, options, colours | `sink`, `activateOptions` | loggers, configuration | each event reaches each sink that accepts it, once |
| utilities (`utils/`) | none | sizes, durations, environment | configuration | width and error cases |
| `date/`, `tz.cpp`, `rang.hpp` | vendored | | | |

Hard behaviours, at their lines, are the list `hazards` of `PROJECT.json`. The
main ones: slots reused in later rounds while slow threads still own tickets of
them; a claim on a stale `tail_`; a poll that ends at a push in progress;
requests, flags and thread of the poller changing without a common lock; a full
ring; a stop racing with everything; a descriptor closed under its reader; a table
of callbacks used by two threads; archives renamed one by one, with a crash or a
failure in between; level and sink of a live logger replaced one after the other;
buffers that claim more bytes than they have; a parser that leaves the advancing to
others.

## 2. What is modelled

| module | models | state and actions |
|---|---|---|
| `QueueOps` | the promise of a bounded queue, as operators on a record | tickets `reserved` and `claimed`, entries `published` and `delivered` |
| `TicketQueue` | the abstract specification of one queue | `Reserve`, `Publish`, `Claim`, `Deliver` |
| `MPMCQueue` | `MPMCQueue.h`, one action for each access to a shared variable | `head`, `tail`, `turn`, `storage` are the members; `pc`, `ticket`, `arg` the locals of each thread |
| `AsyncQueuePoller` | `AsyncQueuePoller.cpp`, `SimpleTypedBlockingQueue.h` and `poll` of `BoundedTypedConcurrentAsyncQueue.h` | `running`, `stopSignal`, `control`, `queues` are the members, `worker` and `cursor` the polling thread, `at` and `future` the callers |
| `AsyncSink` | `AsyncSink.h`, with `parseSize`, `MultiSink` and `LevelSink` | `fifo` and `handler` are the queue, `requests`, `attached`, `worker` the poller, `at` the loggers, `caller` the thread that calls `start` and `stop` |
| `SizeRounding` | the rounding of a queue's size in `BoundedTypedConcurrentAsyncQueue.h` | pure operators on numbers of `Width` bits |
| `FileWatcher` | `FileWatcherLinuxImpl.h`, `FileWatcher.cpp`, the poller's thread on its queue | `fd`, `entries`, `started` are the members; `watched`, `events` are inotify's; `buf` is what `handleEvents` has read |
| `RollingFile` | `RollingOfstream.h`, and `RollingFileSink.cpp` with the writing of `FileSink.cpp` | `fs` maps names to contents; `opened`, `stream`, `next` are the stream; `pc`, `archiving` the archive in progress |
| `EventLogBuffer` | `LogBuffer.h`, `LogBuffer.cpp`, `EventLogBuffer.h`, the use in `Logger::log` | `buf` has for each object its storage, capacity and cursor, `heap` the allocated blocks |
| `LoggerRegistry` | `LoggerRegistry.cpp`, `Logger.h`, `logpp.h` | `objects` are the loggers; `loggers`, `factories`, `defaultFactory`, `tracked` the members; `job` a registration that holds the mutex |
| `SinkOptions` | `activateOptions` of every sink | pure operators: a sink ends up open, idle or refused |
| `TomlConfigurator` | `TomlConfigurator.cpp` over the two above | `phase`, `index`, `config` are the configuring thread, `reload` the callback of the watcher, `sinks` the table of sinks |
| `Formatters` | `PatternFormatter.cpp`, `LogFmtFormatter.cpp`, `format/flag/` | `it`, `literal`, `zone`, `flags`, `key`, `line` are the parser, `out` the text |
| `MPMCQueueProofs`, `AsyncQueuePollerProofs`, `FileWatcherProofs`, `RollingFileProofs`, `EventLogBufferProofs`, `TomlConfiguratorProofs`, `AsyncSinkProofs`, `FormattersProofs` | | the theorems about the module they are named after |
| `MC...` | | instances for TLC: symmetry, sets of configurations, patterns and sizes |

The ring is modelled in full detail and implements `TicketQueue`. The poller and the
async sink are composed with the promise, not with the ring: each of their queues is
a record of `QueueOps`. The polling thread is the only consumer there, so its
`try_pop` is one step (the ticket is claimed and delivered at once); a push is two,
because another thread can see the ticket taken and the entry not there yet.
`TicketQueue` is deliberately weaker than a FIFO queue: an entry whose push has
returned stays invisible behind an earlier push that is still in progress. This is
what the code promises, and the poller has to live with it. In the same way
`AsyncSink` and `FileWatcher` keep of the poller only the order of its requests and
its rounds; `AsyncQueuePoller` has the rest.

**The ring.** `Push`/`PushWait`/`Construct`/`Publish` are the lines of `emplace`:
the `fetch_add`, the load that ends the spin, the placement new, the store.
A spin that finds the slot not ready changes nothing and needs no action.
`TryPush`, `TryPushCheck`, `TryPushCas`, `TryPushReload` are `try_emplace`; both
outcomes of the compare-and-swap are modelled, with the write-back of the current
`head_`. Popping is the mirror image. Loads and stores are sequentially consistent
in the model. The code uses acquire and release on a slot's counter, which order
the accesses to its entry, and sequentially consistent read-modify-writes on
`head_` and `tail_`; a relaxed-memory model is out of scope. `Construct` and `Move`
are single steps although the storage is not atomic: that no second thread is there
meanwhile is the invariant `SlotExclusive`. `head_` and `tail_` are bounded by
`MaxTickets`; that they do not wrap at 2^64 is assumed. A consumer that pops when
`tail` has reached the bound is not modelled. The destructor and the allocator are
left out.

**The poller.** One iteration of `run` is `LockControl`, one `Handle...` for each
control entry, `UnlockControl`, then `PollQueue`/`NextQueue` over `m_queues` and
`CheckStop`. Clients cannot push to the control queue while the thread holds its
mutex (`MutexHeld`), and can between any other two steps. A removal is answered
after its last poll (`BeginLastPoll`, `LastPoll`, `EraseQueue`), still under the
mutex. The front of the control queue is popped after it was handled, as in the
code. `start`, `stop` and `removeQueue` test or change `m_running` in one step and
act in a second one, because nothing holds the two together. A poller that was
stopped cannot be restarted: `m_thread` is still joinable, so assigning to it calls
`std::terminate` (the variable `terminated`). The handler that `start` installs holds
a `shared_ptr` to the poller, which owns the queue that holds the handler: the
destructor of a started poller never runs. Waiting for the future of a removal
(`GetResult`) is what `FileWatcherLinuxImpl.h:48` does; `AsyncSink::stop`
(`AsyncSink.h:114`) discards it, the second disjunct of `SendRemove`. The spin wait
is left out: it delays the thread by at most a millisecond.

**The async sink.** `option` is what the option says, a number and a unit. `parseSize`
cuts the number off at the largest `long long` (`Parsed`, which is what `strtoll` does)
and multiplies it with the unit modulo `SizeLimit`; the result is rounded by the code's
own doubling shifts (`SizeRounding`, on numbers of `Width` bits), and one that gives no
ring raises an error, as the ring's constructor does. The option stays in the state, so
that the ring is compared with what was written and not with what became of it. `Start` is the assignment to the handler, `SetHandler` its end,
`AddQueue` the request: the polling thread may call the handler in between, a data
race. The handler it then calls is not known, so the model only records it (`raced`),
and the property about what was received excludes it.

**The file watcher.** inotify is external, modelled from its manual as the head of
the module says. `Poll` finds the descriptor readable and `Read` reads it, with a
close by another thread possible in between; a closed descriptor, and one whose
number was given to another file (`Reuse`), make the read fail (`ReadFails`), and the
thread then calls `stop` and waits for itself (`worker = "stuck"`). `AddWatch` and
`InsertEntry` are apart because no lock holds the watch and its entry together; the
history variable `raced` says that two threads were in `m_entries` at once, which is
undefined from then on.

**Rolling files.** An archive is `BeginArchive` (the file is closed), one `ShiftOne`
for each rename of the incremental policy, `RenameToStamp` for the other, and
`Reopen`; the incremental policy renames the log file even when it is
not there, which is an error. `Indices` is where a free index is looked for.
`Restart` may end the program between any two, and it starts again on the
files that are there. Renames and opens fail where `Faults` says. In manual mode
`Sink` asks `can_roll` and `Roll` rolls, in automatic mode `Put` does both, and in
manual mode `AppendEvent` applies the rolling policy once more, as `xsputn` does.

A stream is opened, and opened again after an archive, with the mode its caller gave
(`config.open`): "app" is that of `RollingFileSink`, "out" that of the usage examples and
the default of `open`, and it truncates a file that is there (`Opened`, with the events that
are gone in `truncated`). A time stamp with an empty pattern (`archive = "unnamed"`)
archives nothing and does not close the file. An event has one of the sizes of
`EventSizes`, and `ends` is the position behind it, which `RollBySize` looks at before the
next write. A rounded interval is added to the time and the sum is rounded down to the
beginning of a unit; where units begin is the set `UnitStarts`, so that hours, which are
as long as one another, and months, which are not, are both instances, and an interval may
have several units. The shift by the time zone is that of units of a day or more
(`rolling = "round_local"`); shorter ones are rounded in UTC (`"round"`). Time zones are a
constant offset.

**Log buffers.** Bytes are addressed by offset. The capacity and the size of the
storage are apart, because the code can make them differ: assignment adds the cursor
of the source to its own. Copies, moves, growth and destruction are modelled for
every pair of objects. An object that was assigned to may claim bytes it does not
have (see below); nothing in the repository assigns one twice.

**Registry, sinks and configuration.** Every operation of the registry takes its
mutex, so it is one step, with one exception: registering a default updates live
loggers one by one, sink and level apart, while threads log without the mutex
(`Register`, `UpdateSink`, `UpdateLevel`, `FinishRegister`). Names are sequences of
fragments, compared as they are: the search for a parent ignores the case of names
(`TomlConfigurator.cpp:346`, `350`), and the names of the model differ in more than their
case. A configuration is `Configure` (parse and prepare: `ParseConfiguration`,
`Prepare`), one `ConfigureSink` for each sink in the order of its line, and one
registration for each logger; `LoggersConfigured` adds the watch, or fails to.
`SinkOptions` has the conditions of every `activateOptions`; texts that do not parse
are "invalid", and how they parse is left out. An async sink looks its inner sinks up
in the default registry (`AsyncSink.h:42`), so the model has one registry, that one.

**Formatters.** Each branch of the two parsers is an action, from character to
character; `FlagText` is what the flags write, with one symbol for a date in UTC and
one for a local one. The parser's `zone` goes back to UTC at a `%+`, as `m_zoneId` does;
what a pattern means (`ZoneAt`) is that a date is local if a `%L` comes before it. The
action `Format` formats events with and without spaces, fields and quotation marks.

## 3. What is checked

| run | instance | shows |
|---|---|---|
| `mpmc_queue` | 2 producers, 2 consumers, 2 slots, 4 tickets, an entry of its own for each producer | safety, refinement and `EveryPushDelivered` |
| `poller` | 2 queues of 1 slot, 2 tickets each, 2 clients, 5 calls | safety of the poller |
| `poller_live` | the same with 3 calls | `RemoveAnsweredOrStopped`, `EveryEntryHandled`, `StopCompletes` |
| `poller_hang` | 1 queue, 2 clients, 4 calls | violates `RemoveAnswered`: finding 1 |
| `async_sink` | 2 loggers at 2 levels, 2 inner sinks, 3 events, 2 calls; `size_t` of 4 bits, sizes 0, 2, 5, 9 with units 1 and 4 | safety and `EventsDelivered` |
| `file_watcher` | 2 files, 2 clients, own poller or another's, 2 watches, changes, adds and stops | safety, `ChangesReported`, `UnhurriedStopReturns` |
| `watcher_stop` | 1 file, 1 client, 1 stop | violates `StopReturns`: finding 2 |
| `registry` | 9 configurations, 2 calls that configure, 1 reload, 3 names, 3 loggers, 1 client | safety, `ConfigurationEnds` |
| `registry_reload` | 1 configuration, reloaded | violates `ReloadKeepsLevels`: finding 3 |
| `rolling` | 36 configurations: all policies, automatic mode with both modes of opening and manual mode with the one of its sink; threshold 2, 4 events of 1 or 3 bytes, period 2, units of 1 and 3, zone 1, stamps of 3, time to 4 | safety under faults and restarts |
| `log_buffer` | 3 objects, 4 blocks, 4 bytes inline, payloads of 0 and 6 | safety |
| `formatters` | all patterns of up to 4 pieces, out of 11 and 9 | `PatternRendered`, `LogfmtReadable`, `ParseEnds` |

**Ring**: `SlotExclusive` (no race on an entry), `Lifetimes` (no entry constructed
over a live one, none moved from twice), `DeliveredInTicketOrder` (pop number t
returns what push number t brought; each producer brings an entry of its own, so that one
in the place of another shows), `FailureIsJustified` (a `try_` operation that
returns false has seen, during its own call, a moment that justifies it),
`ImplementsTicketQueue`, `EveryPushDelivered`. With four tickets on two slots every
slot is reused, while threads of the first round are still at work; a third round
adds tickets, not kinds of overlap, and the proofs cover all of them.

**Poller**: `RequestsApplied` (the queues that are polled once what waits in the control
queue is handled, `WillPoll`, are the ones clients asked for, with adds and removes
repeated in any order),
`RemovedMeansSilent` (after an answer the queue is not polled, so that the client
may destroy what the handler uses), `RemoveFlushes` and `StopFlushes` (what was
published before the request was sent is handled before the answer, or before the
thread ends, up to the first push then in progress). Five calls are enough for an
add, a removal, a second add and a stop around a start; two queues for one that
has nothing to give in front of one that has. The liveness run has stops among its
calls, and says what holds of removals in spite of finding 1.

**Async sink**: `CapacityCoversSize`: the ring holds as many events as the option says,
if the number fits a `long long` and its product with the unit a `size_t` (`Fits`). Of the
eight options, five fit and three do not: 9 is more than the largest `long long` of four bits,
and 5 with unit 4 wraps to 4, which the code accepts with a ring of four.
`InnerSinksGetAll`, `EventsDelivered`: every event reaches the inner sinks that its level passes, once and in order, over stops and
starts, unless the sink stays stopped. Three events fill a ring of one or two slots.

**File watcher**: `EntriesMatchWatches`, `SilentAfterStop`, `ChangesReported`, and
`UnhurriedStopReturns`: a stop returns if it is the only one and did not meet the
reading thread. Two adds of one file, by two clients, are the case that matters, and
two stops the other.

**Configuration**: `SinksFollowLines`, `AnswersAsConfigured` (the level and the sinks
of every logger are those of the hierarchy in the file, in whatever order clients ask
for them, its ancestors and its descendants), `EarlyFollowDefault`, `NoEventWasted`,
`ConfigurationEnds`. `AnswersAsConfigured` speaks of files with at most one default
logger (`OneDefault`): of two, loggers that inherit go by the first
(`TomlConfigurator.cpp:357`) and the registry by the last. `SinksFollowLines` speaks
of files that have one sink at most on a line (`LinesApart`): `std::sort` compares lines
only (`TomlConfigurator.cpp:396`), and orders two sinks on one line as it likes. The
configurations are the example of the repository with its sinks out of order, one without
a default, a default that lacks a level, a hierarchy without a root, a name that is taken,
three that do not parse, and one with every kind of sink, whose async sink comes too early.

**Rolling files**: `NothingLost`, `FilesInOrder`, `SizeBounded`,
`AutomaticRollsInTime`. With a threshold of two bytes, a file may reach it with a second
event of one byte, or pass it with one of three; four events give up to three archives.
`SizeBounded` says of every file that only its last event reaches the threshold or goes
beyond it. `NothingLost` allows for a truncation only with "out", and only in a restart or
after a failed rename that `ArchiveIncremental` ignored. `AutomaticRollsInTime` has two
halves: the roll point is no later than an interval from the oldest event in the file, and
it is after that event if a unit begins within the interval (`UnitAhead`). With a period of
two and units of one and of three both happen: an interval within which a unit begins, and
one within which none does. Time to 4 passes two periods and two stamps.

**Log buffers**: `BlocksHaveOneOwner`, `OffsetsKept`, `StorageHoldsSize`. A payload of
six makes a buffer of four grow; three objects allow a copy of a copy and a move in a
cycle.

**Formatters**: a pattern is a sequence of pieces, whose meaning the properties
compute piece by piece, and the parser reads as characters. Four pieces put every piece
between every two others. `PatternRendered` speaks of good patterns (`GoodPattern`), among which a
`%+` is not behind a `%L`, and `LogfmtReadable` of events without quotation marks
(`NoQuotes`): of the rest the code does something else than it says, see below.

Fairness. A thread inside an operation goes on (weak fairness of its steps): the
scheduler is fair. No thread has to begin an operation: logging, configuring, changes
of files and calls of `start` and `stop` have no fairness. In the ring a consumer
calls `try_pop` for ever, as `AsyncQueuePoller::run` does; the polling threads have
weak fairness (`Work`). In the poller, a client inside a call goes on with **strong**
fairness: the polling thread takes the mutex again and again, and strong fairness
says that the mutex does not starve a waiter for ever. The standard does not promise
that of `std::mutex`; usual implementations deliver it in practice, since the thread
backs off when idle. `CHECK_DEADLOCK FALSE` is set where the bounds end every
behaviour and a system with nothing to log stops; `log_buffer` checks for deadlock.

Every property of a passing run has a faulty variant of the code in the modules
(operators called faulty there) that violates it: a slot tested without its round,
a claim on a stale `tail_`, a removal that erases the wrong queue, a level test that
is off by one, a callback that is served once, archives shifted from the wrong end, a
buffer that is not given away by a move, loggers searched before factories, sinks in
the order of their keys, and so on.

### Findings

1. **A removal that races with a stop is never answered** (`src/AsyncQueuePoller.cpp:69`,
   run `poller_hang`). `removeQueue` reads `m_running` and then pushes its request.
   When `stop` comes in between, and the thread drains the control queue and leaves
   its loop before the request is pushed, the promise is never fulfilled. A caller
   in `future.get()` hangs, which the exception at line 72 is there to prevent.
2. **A stop of the watcher can hang** (`FileWatcherLinuxImpl.h:96`, run
   `watcher_stop`). The descriptor is closed before the queue is removed. If the
   polling thread reads it then, the error makes it call `stop` itself and wait for an
   answer that only it can give. The change log says of that order that it avoids
   deadlocking (`CHANGELOG.md:21`).
3. **A reload goes the wrong way** (`src/TomlConfigurator.cpp:160`, run
   `registry_reload`). It changes the loggers whose name is a fragment of the configured
   name, the ancestors; the registry created the descendants from it. Reloading an
   unchanged file changes levels.

Behaviour met while modelling that needs no run to see, or that no text of the
repository contradicts:

- nothing assigns `m_defaultLogger`: the free functions log nothing, although
  `README.md:149` says that they use the default logger. The overload of `error` that
  takes a logger drops it (`logpp.h:132`);
- the header says that rolling every minute, rounded, starting at 10:01:25, rolls at 10:03:00
  first (`RollingOfstream.h:30-35`). The code rolls at 10:02:00, which is the end of the
  minute, and so do the tests expect (`tests/RollingOfstreamTests.cpp:280-293`). The variant
  `LaterPoint`, which rounds up, is what the header says;
- a rounded interval of one month is the average month, 30 days and ten and a half hours. In
  the first hours of a month of 31 days, adding it stays in that month, and rounding down gives its first
  day: the roll point is in the past, and every write in automatic mode rolls. Years that
  are leap years do the same. `AutomaticRollsInTime` asks for a point in the future only
  when a unit begins within the interval;
- a file that is opened with `std::ios_base::out`, the default and the mode of the usage
  examples (`RollingOfstream.h:54-73`), is truncated at every restart, and when
  `ArchiveIncremental` could not rename it and opens it again: `truncated`. The sink of the
  repository opens for appending;
- a time stamp with an empty pattern, which an option can ask for, never archives: the roll
  is reported and the file grows (`RollingOfstream.h:595`);
- the size of a queue or of a file is not checked for overflow (`utils/string.h:31`, `44-48`): a
  number beyond `long long` becomes the largest one, and a product that wraps may give a
  ring that is smaller than asked for, or an error;
- `%+` sets the zone back to UTC (`PatternFormatter.cpp:58`, `75`), for its own date and for
  the flags behind it: `%L%+` and `%L%+%Y` are in UTC, although `%L` "converts time to local
  time" and `%+` is "equivalent to" its flags (`examples/logpp.toml:37`, `43`);
- a value of a logfmt line is quoted if it has a space, and nothing is escaped
  (`LogFmtFormatter.cpp:41-50`, `FieldsFormatter.h:35-41`): one with a quotation mark does not
  read back;
- the last poll of a removed queue, and of a stop, leaves what is behind a push in
  progress (`RemoveFlushes` and `StopFlushes` say what does hold);
- in manual mode a write consumes the rolling point that `can_roll` had not reported
  yet, so that the file rolls an interval late;
- a buffer that is assigned to keeps its old cursor and gets the capacity of the
  source: what is written behind it may lie outside of its storage;
- a default logger that lacks a level or sinks is its own parent, and configuring
  does not end (`ConfigurationEnds` excludes it). A reload reads the level of a logger
  that gives none from an empty `optional`;
- an error in a configuration leaves what was registered before it, so that the
  corrected file is refused: its sinks exist already. Sinks whose tables share a line
  are created in the order of their keys;
- an archive that is given as a string is always refused, after the file was opened.
  A strategy or an archive of unknown type, and a file that cannot be opened, are
  accepted, and the sink drops every event. A theme may give a colour to the level
  off, which is beyond the array;
- `%+` at the start of a logfmt pattern drops the rest of the pattern, and `%L` makes
  fractions of a second zero (`tz::Local::apply` keeps whole seconds).

## 4. What is proved

Eight modules have an inductive invariant `IInv`, stated at the head of the proofs
about the module. TLC checked each `IInv` as an invariant of the module's run before it was
proved. Each proof module shows `Init => IInv`, then `IInv /\ [Next]_vars => IInv'` with
a lemma for each action or group of actions, and reads the theorems off. The instances
are arbitrary: any sets of threads, queues, files and items, of whatever size, and all
values of the bounds. What a theorem assumes of the constants is in the `ASSUME`s of the
module, which TLC evaluates; theorems that assume more say so.

| theorem | property | says |
|---|---|---|
| `MPMCQueueProofs!TypeCorrect`, `NoRaceOnASlot`, `EntriesLiveOnce`, `FirstInFirstOut`, `FailuresJustified`, `Refinement` | the ring's five, and `TicketQueue` | the ring is safe and implements its promise |
| `AsyncQueuePollerProofs!Types`, `Requests`, `Silence`, `RemovalFlush`, `StopFlush` | all safety of the poller | what is polled is what was asked for; a removed queue is silent and flushed; a stop flushes |
| `AsyncSinkProofs!Types`, `InnerSinksComplete`, `RoomForSize` | all safety of the async sink | no event is lost, repeated or reordered on its way to the inner sinks; a queue has room for the size that was asked for |
| `FileWatcherProofs!Types`, `Entries`, `Silence` | all safety of the watcher | entries and watches correspond; a stopped watcher is silent |
| `RollingFileProofs!Sizes`, `RollsInTime`, `Kept`, `InOrder`, `RollingIsSafe` | all safety of rolling files | files are bounded, rolled in time, and lose or reorder nothing |
| `EventLogBufferProofs!OneOwner`, `Offsets`, `Storage` | all safety of log buffers | one owner of a block; parts read back; storage is as large as its cursor says |
| `TomlConfiguratorProofs!EarlyLoggersFollow`, `EventsReachSinks`, `SilentUntilDefault`, `HierarchyAnswers`, `SinksInOrder` | all safety of the registry and its configuration | early loggers get the default, no event is lost while they do, every other logger is as the hierarchy of the file says, and sinks are created line by line |
| `FormattersProofs!Types`, `PatternText` | two of the formatters' three | no parser leaves its pattern; a pattern writes the text of its pieces |

and `Inductive` in each.

### The ring

The assumptions are the five of `MPMCQueue`: the capacity is at least 1 (the
constructor throws otherwise), the bound is a natural number, `Nothing` is no entry, what
a producer brings are entries (`BringsAssumption`; it may bring any set of them),
and no thread is both a producer and a consumer (one that is both behaves like two that
take turns).

`SlotExclusive` alone is not inductive: it says nothing of why a slot's counter
keeps other threads out. `IInv` adds, in this order:

- `TicketsOwnedOnce`: no ticket has two owners;
- `TurnsCount`: the counter of a slot has passed exactly those of its tickets whose
  owner has finished. It has not passed an untaken ticket (`UntakenAhead`), nor an
  owned one (`OwnedAhead`), and has passed each other one (`FinishedBehind`); a
  thread inside a slot is there in its turn (`WorkInTurn`);
- `Arguments`, `SlotContents`, `Receipts`: what a push brings is in the slot while
  the counter says so, and is what the pop receives;
- `FailureSeen`: what a failing operation has seen.

The arithmetic is in the first lemmas: a ticket is its slot and its round
(`SlotAndRound`), and a later ticket of a slot belongs to a later round
(`LaterRound`). Two threads at work in one slot then hold tickets of the same round,
and `TicketsOwnedOnce` makes them one (`Exclusion`). Each part of `IInv` has a lemma
with one case for each action (`TypeStep`, `OwnersStep`, `TurnsStep`, ...), and the
steps that change a counter have lemmas of their own. The refinement maps taking a
ticket to `Reserve` and `Claim`, the two stores of a push and a move to `Publish`
and `Deliver`, and the rest to stuttering; that the slot of a published ticket was
delivered `Capacity` tickets earlier, which `MayPublish` demands, comes from
`TurnsCount` and `Receipts`.

### The poller

Assumed: the placeholders for no queue, no client and no item are none of them, and the
bounds are natural numbers (`NoneAssumption`, `BoundsAssumption`).

An answer promises something about requests that were sent before and are handled
later, so the invariant is about the control queue as a sequence:

- `PolledInOrder`: the polling thread is the only consumer of a queue, and has
  delivered just what it has claimed;
- `Rounds`: a round starts at the first queue; the stop signal is set only between the
  draining of the control queue and the end of that round;
- `Promises`: a promise is in one control entry at most, and its client waits for it;
- `NoLaterAdd`: unless the history says otherwise, no add of the same queue follows
  the removal. Without it `RemovedMeansSilent` is not inductive: handling such an add
  would poll a removed queue;
- `RemovalsFlush` and `StopsFlush`: what has to be flushed is flushed already, or its
  queue is one that the control entry will still find, because it is polled now or an
  add of it comes first. `StopsFlush` goes on, when the signal is set, with the queues
  that the last round has before it.

`RequestsApplied` is inductive with the types: an entry that is sent changes what
`WillPoll`, and one that is handled does not, for which the lemmas
`Appended`, `Popped` and `Erased` have the facts on tails, heads and removals.

### The async sink

Assumed: a `size_t` has at least one bit, a size is a number with a unit above zero, and
levels are numbers (`WidthAssumption`, `SizesAssumption`, `SinksAssumption`,
`CallsAssumption`).

`InnerSinksGetAll` says that what a sink received came with increasing tickets, and that
those are all tickets that were polled and pass its level; a step adds at most one to each
(`GotOneMore`). It needs that an entry is never polled without a handler, which goes back to
the activation through the poller: the thread polls only what was attached, it attaches only
what was requested, and nobody requests anything of a sink that was not activated
(`NothingBeforeActivation`). `QueueOK` is what a queue promises of tickets and entries.

`CapacityCoversSize` is about the bit tricks of the queue's constructor, for a `size_t` of
any width and for every option. A size that fits is computed without a cut or a wrap
(`ParsedNumber`, `FittingSize`), so that the state's `size` is what the option says; the
invariant `RoomForParsed` is about that size, and the theorem about the option. Of an
option that does not fit it says nothing, because the code promises nothing.
A number is determined by its bits (`SameBits`), its highest one says between
which powers it lies (`TopBit`), and a power of two less one has all bits below
(`AllOnes`). `SpreadOut` follows the shifts by 1, 2, 4, ...: after the shift by k, every bit
less than 2k places below the highest one is set, and none above it. After the last one
all are, and the number is one less than a power of two. So `RoundedUp`: the result is the
least power of two that is not below the size, which powers of two keep
(`PowersAreRecognised`), or zero when the least one has no place in the width; the
constructor then raises its error.

### The file watcher

Assumed: no client is called "add" or "stop", which are requests in the same queue
(`ClientsAssumption`), and the bounds are natural numbers.

- `StaysClosed`: a descriptor that is not open has neither watches nor events, and a
  client that stops has closed it;
- `NothingBeforeStart`: the poller has nothing of a watcher that was not started;
- `AnswerMeansSilent`: only the removal of a client that waits is answered, and from
  then on the thread dispatches nothing. `SilentAfterStop` is this for clients that
  returned; between the answer and the return it needs the stronger form;
- `IgnoredMeansDead`: a watch whose end is announced is not used again;
- `OwnWatch`: as long as no file was added twice, an `addWatch` that has its watch but
  not yet its entry shares it with nobody, and nobody can have removed it.
  `EntriesMatchWatches` holds between the two steps because of it.

### Rolling files

Assumed: threshold, period and zone are natural numbers, events have bytes, the unit of the
stamps is above zero, and there is a unit that begins at time 0 (`NumbersAssumption`); where
the others begin is arbitrary. `Kept` and `InOrder` also assume that the rename of an archive does not
fail; the failures of the rename of the log file and of opening stay possible, as in the
run. When an archive cannot move, the next rename replaces it, so that the events in it
are gone: this is what the code does. `Sizes` and `RollsInTime` hold under all faults.
`RollingIsSafe` assumes that no call fails, and says of the code what no run can:
every rename finds its file and the stream stays good, so that an event is lost in a
crash only. It shows that the exceptions for `faulted` in the other theorems do not come
from the rolling itself.

- `Archiving`: an archive in progress has closed the file, and its stamp is not before
  any other;
- `NamesFree`: each rename finds its file, and replaces none: the indices below the
  one that moves are taken, and the one it moves to is free. A restart between two
  renames leaves a gap, and the next archive moves the files below the gap only;
- `StreamWorks`: as long as nothing failed, the stream is good, and the file is closed or
  gone only within an archive;
- `RoomToAppend`: a file that reached its threshold is rolled before it is written, so that
  the event which is written is the last one to reach it;
- `InOneFile`: what was written and not truncated is in one file, and in one only, and what
  is being written is in none yet;
- `TruncatedByOpen`: a file is truncated by "out" only, after a restart or a failed rename;
- `RollPoint`: the rolling point is the one that was computed when the oldest event in the
  file was logged or, while there is none in it, the event to be written. That such a point is
  within a period, and in the future if a unit begins before, is arithmetic on `UnitStarts`.

### Log buffers

Assumed: the inline storage has a byte, lengths are natural numbers, no block is
`NoBlock`, and junk is neither an item nor a header (`NoneAssumption`,
`SizesAssumption`, `JunkAssumption`): the model could not tell an uninitialized byte
from a written one otherwise.

- `Places`: where the storage of an object is, by its history;
- `CapacityIsSize`: a buffer that can still grow has the capacity of its storage.
  After an assignment it has not, which is why no operation grows those;
- `HasHeader`: the first bytes are a header, also after a copy or a move;
- `PartsInside`: each part that was written is in the storage, between the header and
  the cursor.

`OffsetsKept` is about the bytes that a reader finds through two offsets, so a step may
break it by moving, cutting or overwriting any of them. The proof looks at one object at
a time: `Each` says of every object that it is `Good`, and that no block has two owners
(`Owners`), which is `IInv` again (`ByObject`). The lemmas on growing, encoding, copying
and moving (`Reserved`, `Encoding`, `EncodingPart`, `Copying`, `SameContent`,
`PartWritten`) speak of one buffer and the bytes below its cursor, and `OneChanges` and
`TwoChange` of the owners, when one object or two change.

### The registry and its configuration

Assumed: levels of events are below "off", names are sequences of strings and not empty,
a logger can be made, and what a file may hold are nodes of the model's types, with any
names, levels, sinks and parents; the keys of its sinks differ, as those of a TOML table
do, and each is on a line (`LevelsAssumption`, `NamesAssumption`, `LoggersAssumption`,
`SetupAssumption`, `StringAssumption`, `ConfigsAssumption`).

`EarlyFollowDefault` speaks of the moments between registrations, and `NoEventWasted` of
all of them, so the invariant follows a registration through its updates:

- `FactoriesSound`: every factory but the instantiator makes loggers with a sink, or
  answers one that has a sink and is not among those that a default updates. Otherwise an
  update of the loggers would change the template they are to follow;
- `UpdatesInOrder`: between its two updates a logger has the sink of the template;
- `Following`: the loggers that a registration has passed are what its template is, and
  otherwise all of them are what the last default makes;
- `SilentWithoutSink`: a logger without a sink is one of the instantiator's and is off,
  and nobody is logging to it. It is what the order of the two updates is for: a level that
  came first would let an event pass to the `NoopSink`;
- `ConfigComplete`: what `prepareLoggers` accepts has sinks everywhere. A factory of a
  configured logger without sinks would not be sound.

The last part is induction over data. The lemma `Induction` says of a
set what the induction theorems of the library say of an operator. `PreparedExists` and
`LinksExist` show with it that the recursive functions of `Prepare` and `Chain` exist, so that
they have the values their definitions give them (`Preparing`, `ChainLinks`); then
`ChainOfLoggers` says that the chain of parents stays among the loggers, and
`PrepareCompletes` that a completed logger got its sinks from one of them.

`AnswersAsConfigured` relates what a client got to the file, so it needs two more
invariants, which TLC checked on the same run. Under `IInv`:

- `FirstSetup`: the first configuration has registered the factories of the loggers it
  passed, in the order and with the contents that `Prepare` gave them, and nothing else has
  registered any (`Registered`);
- `Answered`: who has a logger has one whose name is still found; and every logger that
  was made after the configuration, under a name that no early logger covers (`Fresh`),
  is what the file says (`Configured`).

What remains is that `Prepare` and the property agree on what the file says. The
code walks a chain of parents, each the longest logger with a shorter name, and
completes the loggers in order, so that some parents are complete and others not; the
property asks for the nearest fragment that gives a field, and for that of the default
logger otherwise. `FragmentIff` and `FragmentsNested` say what the fragments of a name
are. `GivenOwn` and `GivenOfParent` say that a logger that lacks a field is given its
parent's. `ChainGives` is the induction over the chain, and `PrepareRight` the one
over the loggers that are prepared. `DefaultMakes`, `FactoryMakes` and `MakeAnswers`
say that the factory which `get` finds makes a logger of that kind.

`SinksFollowLines` has an invariant of its own, `SinksPassed`, which TLC checked too: the sinks that there are
have the names of those before `index`, and none of them failed. That the sequence which
`configureSinks` goes through is the order of the lines is the lemma `Sorted`. It does not
follow `std::sort`, which is external, but says that the order the model gives to the
sinks (the one that has k before it is the k-th) has every sink once: in a finite set with
a total order, an element's number of predecessors takes every value below the size of the
set (`Ranked`, an injection between sets of one size). `PassedOnes` then says that the
sinks that the property looks for by their lines are the ones before the first that fails.

### The formatters

Assumed: a pattern is put together from single characters, known flags (`%` and one
character that is a flag of the formatter, `L`, `+`, `f` or one that the program may
register), and `%f[...]` up to its closing bracket; texts are sequences of strings, and the
two marks of the model, for no character and for a literal, are none of the flags that may
be registered (`PatternAssumption`, `PiecesAssumption`, `EventsAssumption`,
`FlagsAssumption`, `StringAssumption`). A pattern may still put these pieces in any order,
so that a bracket follows a flag that takes it for its own, a percent sign stands in the
middle, a flag was never registered, or a `%+` comes after a `%L`; `GoodPattern` says
which of them have the meaning that the formatter is said to give them.

The parser goes from character to character and knows no pieces, so `PatternRendered` says
nothing of a pattern that is half read. `Rendering` does: after `n` pieces the parser is
`Reached(n)`, which is

- at the first character behind them, the length of their concatenation (`Read(n)`);
- in local time if there is a `%L` among them, and in UTC otherwise;
- with flags that, followed by the literal that is still open, write what the pieces mean,
  for every event.

No step ends inside a piece. `Sees` has what the parser sees of the piece in front of it
(`Ahead`, from the position of a part in a concatenation, `FlattenPart`), and each branch of
the loop has a lemma which says that it steps over just that piece: `ReadLiteralStep`,
`ReadLastPercentStep`, `ReadFullStep`, `ReadLocalStep`, `ReadFlagStep`,
`ReadParameterlessStep`, `ReadParameterStep`. The parameter of `%f` is where positions
matter. `NoBracket` says that a flag of two characters has no bracket behind it: that
bracket would be the next piece. `Closing` says that the first closing bracket ends the
piece, so that the loop does not run over the end, and `ParameterText` that what is cut out
of the pattern is the parameter. An unknown flag and the end of the pattern are not in front
of a piece (`PieceStep`), and behind the last piece there is only the end (`EndStep`).

That a flag leaves the texts before it alone is `FoundText`: the flags write the
concatenation of their texts (`TextsConcat`), and a literal that is flushed writes itself
(`FlushText`). It needs lemmas on `FlattenSeq` that the library does not have; its
definition is by recursion, and `FlatteningExists` and `FlatteningUnique` give by
`Induction` what is proved about it (`FlattenAppend`, `FlattenConcat`).

`TypeOK` holds of both parsers, and for logfmt says more than types: flags and literals are
put away before the next element. It is inductive with `Parsing`, which says that the two
formatters have no loop in common.

### What is only model-checked

- Liveness and `ENABLED`, which the prover does not reach: `EveryPushDelivered`,
  `RemoveAnsweredOrStopped`, `EveryEntryHandled`, `StopCompletes`, `EventsDelivered`,
  `ChangesReported`, `UnhurriedStopReturns`, `ConfigurationEnds`, `ParseEnds`.
- `LogfmtReadable`: whether a line reads back is said by two readers that fold an operator
  over a text, one over the pieces and one over the symbols of the line. What a fold does
  for every text is an induction over an operator, and the library's theorems on folds
  and inductions take that operator as a parameter, which the provers do not instantiate.

## 5. The plan

Done: the ring, the poller, the async sink, the watcher, rolling files, log buffers, the
registry with its configuration, and the formatters are checked by TLC, and their safety is
proved, but for the lines of logfmt.

Next: `LogfmtReadable` with readers that are recursive functions on the positions of a text
instead of folds, for which `Induction` is enough; the invariant would follow `matchPattern`
from element to element as `Rendering` follows `parsePattern` from piece to piece.

## 6. What is not modelled

- The vendored `date`, `tz` and `rang` libraries, about 14,500 of the repository's
  23,700 lines.
- The watcher on Windows (`FileWatcherWindowsImpl.h`): it calls
  `ReadDirectoryChangesW` on a handle opened for overlapped use, without an overlapped
  structure, and whether that blocks is not something the code says; a model would
  rest on a guess. What the code does say: expired notifications are erased with
  iterators that earlier erasures invalidate, `pushActionAsync` pushes without the
  lock, `addWatch` waits for ever if the watcher was not started, and the loop over the
  records ends before the last one.
- What consoles and files print (an output under a mutex of its own), `open` and
  `close` of a file sink by themselves, and the spin wait.
- The texts of options (durations, colours, expansion of variables), the TOML parser
  (a library), the encodings of values in a log buffer and the views that decode them:
  sequential conversions of data. Sizes are modelled, because they wrap.
- Daylight saving in the rounding of intervals; options of the poller (affinity is
  commented out in the code); the destructor of the ring (runs when nothing else does);
  memory models weaker than sequential consistency.

## 7. Running it

    tlc -workers 2 -config MCMPMCQueue.cfg MCMPMCQueue
    tlc -workers 2 -config MCTomlConfigurator.cfg MCTomlConfigurator
    tlapm MPMCQueueProofs.tla
    tlapm AsyncQueuePollerProofs.tla
    tlapm FileWatcherProofs.tla
    tlapm RollingFileProofs.tla
    tlapm EventLogBufferProofs.tla
    tlapm TomlConfiguratorProofs.tla
    tlapm AsyncSinkProofs.tla
    tlapm FormattersProofs.tla

`PROJECT.json` lists the runs with what they check, the lines of the source that
each definition models (`map`), the faulty variants (`mutants`), the findings, the
hazards and the theorems. Each proof module takes tlapm some minutes at most. No run takes more than three minutes on two cores.
