---------------------------- MODULE LoggerRegistry ----------------------------
(***************************************************************************)
(* The registry of loggers (core/LoggerRegistry.h, src/LoggerRegistry.cpp) *)
(* and the loggers (core/Logger.h).                                        *)
(*                                                                         *)
(* A name is the sequence of its fragments.  Every operation of the        *)
(* registry runs under its mutex; logging takes no lock, so that the       *)
(* updates which a registration makes to loggers that are in use are steps *)
(* of their own, while the variable job says that the mutex is held.       *)
(* TomlConfigurator adds the configuration and its reloading.              *)
(***************************************************************************)
EXTENDS Naturals, Sequences, SequencesExt

CONSTANTS
  Names,        (* the names of loggers that clients ask for               *)
  Clients,      (* threads that get loggers and log                        *)
  Levels,       (* the levels of events; a level that is not set is NoLevel *)
  MaxLoggers    (* bound: Logger objects                                   *)

Off == 9
NoLevel == 0

(* A sink is the sequence of the names of its inner sinks.                 *)
Noop == <<>>
Console == <<"console">>

ASSUME LevelsAssumption == Levels \subseteq 1 .. Off - 1

ASSUME NamesAssumption == \A n \in Names : n \in Seq(STRING) /\ n # <<>>

ASSUME LoggersAssumption == MaxLoggers \in Nat \ {0}

VARIABLES
  objects,        (* the Logger objects: level and sink                    *)
  loggers,        (* m_loggers: the object of each name                    *)
  factories,      (* m_loggerFactories                                     *)
  defaultFactory, (* m_defaultLoggerFactory                                *)
  defaultLogger,  (* m_defaultLogger, or 0 for a null pointer              *)
  tracked,        (* m_loggerInstantiator: the objects that it created     *)
  job,            (* the registration that holds the mutex                 *)
  at,             (* where each client is                                  *)
  asked, held,    (* the name each client asked for last, and the answer   *)
  wasted          (* history: an event passed the level of its logger and  *)
                  (* went to a NoopSink                                    *)

registry == <<objects, loggers, factories, defaultFactory, defaultLogger, tracked>>
clients  == <<at, asked, held>>

(* Three kinds of factories: one that makes a logger, one that answers the *)
(* logger it was registered with, and the instantiator.                    *)
Making(level, sink) == [kind |-> "new", level |-> level, sink |-> sink, logger |-> 0]
Answering(id)       == [kind |-> "same", level |-> NoLevel, sink |-> Noop, logger |-> id]
Instantiator        == [kind |-> "instantiator", level |-> Off, sink |-> Noop, logger |-> 0]

NoJob == [kind |-> "none"]

(* The constructor registers the logger "logpp" as default, and then       *)
(* replaces the default factory.                                           *)
RegistryInit ==
  /\ objects = <<[level |-> 2, sink |-> Console]>>
  /\ loggers = <<>>
  /\ factories = [n \in {<<"logpp">>} |-> Answering(1)]
  /\ defaultFactory = Instantiator
  /\ defaultLogger = 0
  /\ tracked = {}
  /\ job = NoJob
  /\ at = [c \in Clients |-> "idle"]
  /\ asked = [c \in Clients |-> <<>>]
  /\ held = [c \in Clients |-> 0]
  /\ wasted = FALSE

-----------------------------------------------------------------------------
(***************************************************************************)
(* Getting a logger.                                                       *)
(***************************************************************************)

(* LoggerKey in reverse: the name, and what is left of it without its last *)
(* fragments.  Fragment number i has i fragments less.                     *)
Fragment(name, i) == SubSeq(name, 1, Len(name) - i)

Fragments(name) == { Fragment(name, i) : i \in 0 .. Len(name) - 1 }

With(f, name, value) == [n \in DOMAIN f \cup {name} |-> IF n = name THEN value ELSE f[n]]

(* What a factory answers is stored under the whole name.                  *)
Create(c, name, factory) ==
  LET id == IF factory.kind = "same" THEN factory.logger ELSE Len(objects) + 1
  IN /\ id <= MaxLoggers
     /\ IF factory.kind = "same"
        THEN UNCHANGED objects
        ELSE objects' = Append(objects, [level |-> factory.level, sink |-> factory.sink])
     /\ tracked' = IF factory.kind = "instantiator" THEN tracked \cup {id} ELSE tracked
     /\ loggers' = With(loggers, name, id)
     /\ held' = [held EXCEPT ![c] = id]

Answer(c, id) ==
  /\ held' = [held EXCEPT ![c] = id]
  /\ UNCHANGED <<objects, loggers, tracked>>

(* A faulty search: the loggers of all fragments before the factories.     *)
FindLoggersFirst(c, name) ==
  LET cached == { f \in Fragments(name) : f \in DOMAIN loggers }
      made   == { f \in Fragments(name) : f \in DOMAIN factories }
      Longest(S) == CHOOSE f \in S : \A g \in S : Len(g) <= Len(f)
  IN IF cached # {} THEN Answer(c, loggers[Longest(cached)])
     ELSE Create(c, name, IF made = {} THEN defaultFactory ELSE factories[Longest(made)])

(* The longest fragment that has a logger, or else a factory.              *)
Find(c, name) ==
  LET known   == { f \in Fragments(name) : f \in DOMAIN loggers \cup DOMAIN factories }
      nearest == CHOOSE f \in known : \A g \in known : Len(g) <= Len(f)
  IN IF known = {} THEN Create(c, name, defaultFactory)
     ELSE IF nearest \in DOMAIN loggers THEN Answer(c, loggers[nearest])
     ELSE Create(c, name, factories[nearest])

(* A faulty get: it does not lock the mutex.                               *)
GetUnlocked(c, name) ==
  /\ at[c] = "idle"
  /\ asked' = [asked EXCEPT ![c] = name]
  /\ Find(c, name)
  /\ UNCHANGED <<factories, defaultFactory, defaultLogger, job, at, wasted>>

Get(c, name) ==
  /\ at[c] = "idle"
  /\ job = NoJob
  /\ asked' = [asked EXCEPT ![c] = name]
  /\ Find(c, name)
  /\ UNCHANGED <<factories, defaultFactory, defaultLogger, job, at, wasted>>

-----------------------------------------------------------------------------
(***************************************************************************)
(* Logging.                                                                *)
(***************************************************************************)

(* Logger::log tests the level, builds the event, and then loads the sink. *)
BeginLog(c) ==
  /\ at[c] = "idle"
  /\ held[c] # 0
  /\ \E level \in Levels : level >= objects[held[c]].level
  /\ at' = [at EXCEPT ![c] = "logging"]
  /\ UNCHANGED <<registry, job, asked, held, wasted>>

FinishLog(c) ==
  /\ at[c] = "logging"
  /\ at' = [at EXCEPT ![c] = "idle"]
  /\ wasted' = (wasted \/ objects[held[c]].sink = Noop)
  /\ UNCHANGED <<registry, job, asked, held>>

(* logpp::info and its like fetch the default logger under the mutex ...   *)
FetchDefault(c) ==
  /\ at[c] = "idle"
  /\ job = NoJob
  /\ at' = [at EXCEPT ![c] = "free"]
  /\ UNCHANGED <<registry, job, asked, held, wasted>>

(* ... and log to it, if it is there.                                      *)
LogToDefault(c) ==
  /\ at[c] = "free"
  /\ at' = [at EXCEPT ![c] = "idle"]
  /\ wasted' = (wasted \/ (defaultLogger # 0 /\ objects[defaultLogger].sink = Noop))
  /\ UNCHANGED <<registry, job, asked, held>>

-----------------------------------------------------------------------------
(***************************************************************************)
(* Registering a logger.                                                   *)
(***************************************************************************)

(* What the temporary logger of a registration has: the one that the       *)
(* factory makes for the empty name.                                       *)
Template(factory) ==
  IF factory.kind = "same" THEN objects[factory.logger]
  ELSE [level |-> factory.level, sink |-> factory.sink]

(* registerLoggerFunc, or setDefaultLoggerFunc, which has no name, locks   *)
(* the mutex.  A default updates the loggers that the instantiator has     *)
(* created, one after the other.                                           *)
Register(name, factory, isDefault) ==
  /\ job = NoJob
  /\ job' = [kind |-> "register", name |-> name, factory |-> factory, default |-> isDefault,
             todo |-> IF isDefault THEN tracked ELSE {}, half |-> 0]

(* A faulty update: the level first.                                       *)
UpdateLevelFirst ==
  /\ job.kind = "register" /\ job.half = 0
  /\ \E id \in job.todo :
       /\ objects' = [objects EXCEPT ![id].level = Template(job.factory).level]
       /\ job' = [job EXCEPT !.half = id]
  /\ UNCHANGED <<loggers, factories, defaultFactory, defaultLogger, tracked, clients, wasted>>

UpdateSinkThen ==
  /\ job.kind = "register" /\ job.half # 0
  /\ objects' = [objects EXCEPT ![job.half].sink = Template(job.factory).sink]
  /\ job' = [job EXCEPT !.half = 0, !.todo = @ \ {job.half}]
  /\ UNCHANGED <<loggers, factories, defaultFactory, defaultLogger, tracked, clients, wasted>>

UpdateSink ==
  /\ job.kind = "register" /\ job.half = 0
  /\ \E id \in job.todo :
       /\ objects' = [objects EXCEPT ![id].sink = Template(job.factory).sink]
       /\ job' = [job EXCEPT !.half = id]
  /\ UNCHANGED <<loggers, factories, defaultFactory, defaultLogger, tracked, clients, wasted>>

UpdateLevel ==
  /\ job.kind = "register" /\ job.half # 0
  /\ objects' = [objects EXCEPT ![job.half].level = Template(job.factory).level]
  /\ job' = [job EXCEPT !.half = 0, !.todo = @ \ {job.half}]
  /\ UNCHANGED <<loggers, factories, defaultFactory, defaultLogger, tracked, clients, wasted>>

NoName == <<>>

Inserted == job.name # NoName /\ job.name \notin DOMAIN factories

(* The insert may find the name taken; the default has been replaced then. *)
FinishRegister ==
  /\ job.kind = "register" /\ job.half = 0 /\ job.todo = {}
  /\ job' = NoJob
  /\ defaultFactory' = IF job.default THEN job.factory ELSE defaultFactory
  /\ factories' = IF Inserted THEN With(factories, job.name, job.factory) ELSE factories
  /\ UNCHANGED <<objects, loggers, defaultLogger, tracked, clients, wasted>>

=============================================================================
