--------------------------- MODULE TomlConfigurator ---------------------------
(***************************************************************************)
(* Configuring the registry from a TOML file (src/TomlConfigurator.cpp)    *)
(* while clients use it, and reloading the file when it changes.           *)
(*                                                                         *)
(* A file has the nodes of its sinks and of its loggers, in the order of   *)
(* their keys, which differ, and says whether these two are tables.  A     *)
(* node has the line that it is on.  A node of the wrong type is a         *)
(* "value", one that lacks a field, or has one that does not parse, is     *)
(* "malformed".  The level of a logger that gives none is NoLevel, and its *)
(* sinks, if it gives no array, are the empty sequence.                    *)
(***************************************************************************)
EXTENDS LoggerRegistry, SinkOptions, FiniteSetsExt

CONSTANTS
  Configs,      (* what the file may hold                                  *)
  MaxSetups,    (* bound: calls of configureFileAndWatch, setDefaultLogger *)
  MaxReloads    (* bound: changes of the file                              *)

ASSUME SetupAssumption == MaxSetups \in Nat /\ MaxReloads \in Nat

(* The names of the sinks and of the logger that the program gives itself. *)
ASSUME StringAssumption == {"console", "user"} \subseteq STRING

LoggerNode ==
  [kind : STRING, name : Seq(STRING), level : 0 .. Off, sinks : Seq(STRING), default : BOOLEAN]

ASSUME ConfigsAssumption ==
  \A toml \in Configs :
    /\ toml = [tables |-> toml.tables, sinks |-> toml.sinks, loggers |-> toml.loggers]
    /\ toml.loggers \in Seq(LoggerNode)
    /\ Len(toml.sinks) \in Nat /\ DOMAIN toml.sinks = 1 .. Len(toml.sinks)
    /\ \A i, j \in DOMAIN toml.sinks : /\ toml.sinks[i].line \in Nat
                                       /\ toml.sinks[i].name = toml.sinks[j].name => i = j

VARIABLES
  phase,        (* where the thread is that configures                     *)
  index,        (* the sink or the logger that it configures               *)
  config,       (* what it configures, with prepared loggers               *)
  file,         (* what the file held, if it could be parsed and prepared  *)
  setups,       (* calls made                                              *)
  reload,       (* the callback of the watcher                             *)
  reloads,      (* how often it ran                                        *)
  watched,      (* a watch has been added                                  *)
  early,        (* history: the names that had a logger when the           *)
                (* configuration was done                                  *)
  sinks         (* m_sinks: whether each sink is open or idle              *)

setupVars  == <<phase, index, config, file, setups, sinks>>
reloadVars == <<reload, reloads, watched>>
vars == <<registry, job, clients, wasted, setupVars, reloadVars, early>>

NoConfig == [tables |-> TRUE, sinks |-> <<>>, loggers |-> <<>>]

Idle == [kind |-> "idle"]

Init ==
  /\ RegistryInit
  /\ phase = "idle" /\ index = 1
  /\ config = NoConfig /\ file = NoConfig
  /\ setups = 0
  /\ reload = Idle /\ reloads = 0 /\ watched = FALSE
  /\ early = {}
  /\ sinks = <<>>

-----------------------------------------------------------------------------
(***************************************************************************)
(* Preparing the loggers.                                                  *)
(***************************************************************************)
Has(logger, field) ==
  IF field = "level" THEN logger.level # NoLevel ELSE logger.sinks # <<>>

HasMissing(logger) == \E field \in {"level", "sinks"} : ~ Has(logger, field)

ProperFragments(name) == Fragments(name) \ {name}

(* The default logger is its own parent.                                   *)
DefaultOf(ls) ==
  LET defaults == { i \in DOMAIN ls : ls[i].default }
  IN IF defaults = {} THEN 0 ELSE Min(defaults)

Nearest(ls, names) ==
  LET length == Max({ Len(ls[i].name) : i \in { j \in DOMAIN ls : ls[j].name \in names } })
  IN Min({ i \in DOMAIN ls : ls[i].name \in names /\ Len(ls[i].name) = length })

(* A faulty search: a logger may find itself.                              *)
FindSelf(ls, i) ==
  IF \E j \in DOMAIN ls : ls[j].name \in Fragments(ls[i].name)
  THEN Nearest(ls, Fragments(ls[i].name))
  ELSE DefaultOf(ls)

(* findParent: the logger with the longest proper fragment of the name, or *)
(* the default logger, or 0.  The code ignores the case of names.          *)
FindParent(ls, i) ==
  IF \E j \in DOMAIN ls : ls[j].name \in ProperFragments(ls[i].name)
  THEN Nearest(ls, ProperFragments(ls[i].name))
  ELSE DefaultOf(ls)

(* The parents that prepareLoggers goes through for a logger, until there  *)
(* is none.  It stops when the logger has a level and sinks; after one     *)
(* step for each logger the chain only repeats itself.                     *)
Chain(ls, i) ==
  LET chain[k \in 0 .. Len(ls) + 1] ==
        IF k = 0 THEN i ELSE IF chain[k - 1] = 0 THEN 0 ELSE FindParent(ls, chain[k - 1])
  IN chain

(* How far up the chain somebody has the field.                            *)
Having(ls, i, field) ==
  LET chain == Chain(ls, i)
  IN { k \in 0 .. Len(ls) + 1 : chain[k] # 0 /\ Has(ls[chain[k]], field) }

Completed(ls, i) == \A field \in {"level", "sinks"} : Having(ls, i, field) # {}

Complete(ls, i) ==
  [ls[i] EXCEPT !.level = ls[Chain(ls, i)[Min(Having(ls, i, "level"))]].level,
                !.sinks = ls[Chain(ls, i)[Min(Having(ls, i, "sinks"))]].sinks]

(* prepare: the logger takes what it lacks from its parents; it is an      *)
(* error when it has no parent left, and the default logger that lacks     *)
(* something goes on looking.                                              *)
PrepareLogger(before, i) ==
  IF before.result # "sinks" THEN before
  ELSE IF Completed(before.loggers, i)
  THEN [loggers |-> [before.loggers EXCEPT ![i] = Complete(before.loggers, i)],
        result  |-> "sinks"]
  ELSE [loggers |-> before.loggers,
        result  |-> IF 0 \in Range(Chain(before.loggers, i)) THEN "failed" ELSE "looping"]

(* prepareLoggers, in the order of the loggers.                            *)
Prepare(ls) ==
  LET prepared[i \in 0 .. Len(ls)] ==
        IF i = 0 THEN [loggers |-> ls, result |-> "sinks"]
        ELSE PrepareLogger(prepared[i - 1], i)
  IN prepared[Len(ls)]

-----------------------------------------------------------------------------
(***************************************************************************)
(* Configuring.                                                            *)
(***************************************************************************)
MayCall ==
  /\ phase \in {"idle", "failed", "done"}
  /\ setups < MaxSetups
  /\ setups' = setups + 1

(* parseSinks skips what is not a table, and keeps the others.             *)
ParseSinks(toml) == { i \in DOMAIN toml.sinks : toml.sinks[i].kind # "value" }

(* parseSink, parseLoggers and parseLogger: every node must be well        *)
(* formed, and every sink of a logger must be there.                       *)
ParseConfiguration(toml) ==
  /\ toml.tables
  /\ \A i \in ParseSinks(toml) : toml.sinks[i].kind = "sink"
  /\ \A i \in DOMAIN toml.loggers :
       /\ toml.loggers[i].kind = "logger"
       /\ \A name \in ToSet(toml.loggers[i].sinks) :
            \E j \in ParseSinks(toml) : toml.sinks[j].name = name

(* A faulty order: that of the keys.                                       *)
InKeyOrder(toml) ==
  LET places    == ParseSinks(toml)
      Before(i) == { j \in places : j < i }
  IN [k \in 1 .. Cardinality(places) |->
        toml.sinks[CHOOSE i \in places : Cardinality(Before(i)) = k - 1]]

(* Sinks are configured in the order of their lines; on one line, in that  *)
(* of their keys.                                                          *)
Precedes(toml, i, j) ==
  \/ toml.sinks[i].line < toml.sinks[j].line
  \/ toml.sinks[i].line = toml.sinks[j].line /\ i < j

InLineOrder(toml) ==
  LET places    == ParseSinks(toml)
      Before(i) == { j \in places : Precedes(toml, j, i) }
  IN [k \in 1 .. Cardinality(places) |->
        toml.sinks[CHOOSE i \in places : Cardinality(Before(i)) = k - 1]]

(* The call returns an error, and nothing of what it parsed is kept.       *)
Fail ==
  /\ phase' = "failed"
  /\ index' = 1
  /\ config' = NoConfig

Configure(toml) ==
  /\ MayCall
  /\ LET prepared == Prepare(toml.loggers)
     IN IF ~ ParseConfiguration(toml) \/ prepared.result = "failed"
        THEN Fail /\ file' = NoConfig
        ELSE /\ phase' = prepared.result
             /\ file' = toml
             /\ index' = 1
             /\ config' = [toml EXCEPT !.loggers = prepared.loggers,
                                       !.sinks = InLineOrder(toml)]
  /\ UNCHANGED <<registry, job, clients, wasted, sinks, reloadVars, early>>

(* configureSinks creates and registers one sink after the other.  Those   *)
(* that are registered stay when a later one fails.                        *)
ConfigureSink ==
  /\ phase = "sinks"
  /\ index <= Len(config.sinks)
  /\ job = NoJob
  /\ LET sink    == config.sinks[index]
         verdict == Activate(sink.type, sink.options, DOMAIN sinks)
     IN IF verdict # "error" /\ sink.name \notin DOMAIN sinks
        THEN /\ sinks' = With(sinks, sink.name, verdict)
             /\ index' = index + 1
             /\ UNCHANGED <<phase, config>>
        ELSE Fail /\ UNCHANGED sinks
  /\ UNCHANGED <<registry, job, clients, wasted, file, setups, reloadVars, early>>

SinksConfigured ==
  /\ phase = "sinks"
  /\ index > Len(config.sinks)
  /\ phase' = "loggers"
  /\ index' = 1
  /\ UNCHANGED <<registry, job, clients, wasted, config, file, setups, sinks, reloadVars, early>>

(* configureLoggers registers a factory for each logger.                   *)
ConfigureLogger ==
  /\ phase = "loggers"
  /\ index <= Len(config.loggers)
  /\ LET logger == config.loggers[index]
     IN Register(logger.name, Making(logger.level, logger.sinks), logger.default)
  /\ UNCHANGED <<registry, clients, wasted, setupVars, reloadVars, early>>

(* The other calls that register a logger.                                 *)
RegisterLogger(isDefault) ==
  /\ MayCall
  /\ phase' = "registering"
  /\ Len(objects) < MaxLoggers
  /\ objects' = Append(objects, [level |-> 1, sink |-> <<"user">>])
  /\ Register(<<"user">>, Answering(Len(objects) + 1), isDefault)
  /\ UNCHANGED <<loggers, factories, defaultFactory, defaultLogger, tracked, clients, wasted,
                 index, config, file, sinks, reloadVars, early>>

SetDefaultLoggerFunc ==
  /\ MayCall
  /\ phase' = "registering"
  /\ Register(NoName, Making(2, <<"user">>), TRUE)
  /\ UNCHANGED <<registry, clients, wasted, index, config, file, sinks, reloadVars, early>>

Finish ==
  /\ FinishRegister
  /\ IF phase = "registering" THEN phase' = "idle" /\ UNCHANGED <<index, config>>
     ELSE IF Inserted THEN index' = index + 1 /\ UNCHANGED <<phase, config>>
     ELSE Fail
  /\ UNCHANGED <<file, setups, sinks, reloadVars, early>>

(* A faulty update: the level first.                                       *)
UpdateLevelsFirst ==
  /\ UpdateLevelFirst \/ UpdateSinkThen
  /\ UNCHANGED <<setupVars, reloadVars, early>>

Update ==
  /\ UpdateSink \/ UpdateLevel
  /\ UNCHANGED <<setupVars, reloadVars, early>>

(* The last thing is to watch the file.  If that fails there is an error,  *)
(* and all that has been registered stays.                                 *)
LoggersConfigured ==
  /\ phase = "loggers"
  /\ index > Len(config.loggers)
  /\ job = NoJob
  /\ index' = 1
  /\ config' = NoConfig
  /\ early' = DOMAIN loggers
  /\ \/ phase' = "done" /\ watched' = TRUE
     \/ phase' = "failed" /\ UNCHANGED watched
  /\ UNCHANGED <<registry, job, clients, wasted, file, setups, sinks, reload, reloads>>

-----------------------------------------------------------------------------
(***************************************************************************)
(* The callback of the watcher.                                            *)
(***************************************************************************)
Reload(toml) ==
  /\ watched
  /\ reload.kind # "reloading"
  /\ reloads < MaxReloads
  /\ reloads' = reloads + 1
  /\ reload' = IF ParseConfiguration(toml)
               THEN [kind |-> "reloading", toml |-> toml, index |-> 1] ELSE reload
  /\ UNCHANGED <<registry, job, clients, wasted, setupVars, watched, early>>

(* The loggers that have the name of the configured one, or a name that    *)
(* is a fragment of it, get its level.  One that was not given is read     *)
(* from an empty optional, and may be anything.                            *)
ReloadLogger ==
  /\ reload.kind = "reloading"
  /\ reload.index <= Len(reload.toml.loggers)
  /\ job = NoJob
  /\ LET logger  == reload.toml.loggers[reload.index]
         matched == { loggers[n] : n \in DOMAIN loggers \cap Fragments(logger.name) }
     IN \E level \in IF logger.level = NoLevel THEN Levels \cup {Off} ELSE {logger.level} :
          objects' = [id \in DOMAIN objects |->
                        IF id \in matched THEN [objects[id] EXCEPT !.level = level] ELSE objects[id]]
  /\ reload' = [reload EXCEPT !.index = @ + 1]
  /\ UNCHANGED <<loggers, factories, defaultFactory, defaultLogger, tracked, job, clients, wasted,
                 setupVars, reloads, watched, early>>

Reloaded ==
  /\ reload.kind = "reloading"
  /\ reload.index > Len(reload.toml.loggers)
  /\ reload' = [kind |-> "done", same |-> reload.toml = file]
  /\ UNCHANGED <<registry, job, clients, wasted, setupVars, reloads, watched, early>>

-----------------------------------------------------------------------------
(***************************************************************************)
(* The specification.                                                      *)
(***************************************************************************)
Setup ==
  \/ ConfigureSink
  \/ SinksConfigured
  \/ ConfigureLogger
  \/ LoggersConfigured
  \/ Update
  \/ Finish

NewSetup ==
  \/ \E toml \in Configs : Configure(toml)
  \/ \E isDefault \in BOOLEAN : RegisterLogger(isDefault)
  \/ SetDefaultLoggerFunc

Watch ==
  \/ \E toml \in Configs : Reload(toml)
  \/ ReloadLogger
  \/ Reloaded

Client(c) ==
  /\ \/ \E n \in Names : Get(c, n)
     \/ BeginLog(c)
     \/ FinishLog(c)
     \/ FetchDefault(c)
     \/ LogToDefault(c)
  /\ UNCHANGED <<setupVars, reloadVars, early>>

Next ==
  \/ Setup
  \/ NewSetup
  \/ Watch
  \/ \E c \in Clients : Client(c)

Spec == Init /\ [][Next]_vars

(* The thread that configures goes on.                                     *)
FairSpec == Spec /\ WF_vars(Setup)

-----------------------------------------------------------------------------
(***************************************************************************)
(* Properties.                                                             *)
(***************************************************************************)

(* std::sort compares lines, and says nothing of two sinks on one line.    *)
LinesApart(toml) ==
  \A i, j \in ParseSinks(toml) : toml.sinks[i].line = toml.sinks[j].line => i = j

(* The sinks on the lines before the first one that fails.                 *)
SinksThatPass(toml) ==
  LET nodes     == { toml.sinks[i] : i \in ParseSinks(toml) }
      Before(s) == { t \in nodes : t.line < s.line }
      Fails(s)  == Activate(s.type, s.options, { t.name : t \in Before(s) }) = "error"
  IN { s \in nodes : ~ \E t \in Before(s) \cup {s} : Fails(t) }

(* "We need to register sinks in the same order they appear in the         *)
(* configuration file": the sinks that there are when a configuration has  *)
(* passed them are those on the lines before the first one that fails,     *)
(* whatever the order of their names; an async sink fails unless its inner *)
(* sinks are on lines before it.                                           *)
SinksFollowLines ==
  LET past == \/ phase \in {"loggers", "done"}
              \/ phase = "failed" /\ DOMAIN sinks # {}
  IN setups = 1 /\ past /\ LinesApart(file) =>
       DOMAIN sinks = { s.name : s \in SinksThatPass(file) }

(* What the configuration in the file says of a name, without looking at   *)
(* how the code finds it: the level of the nearest configured ancestor     *)
(* that gives one, else that of the default logger, else Off.              *)
NearestGiven(ls, name, field) ==
  { i \in DOMAIN ls : Has(ls[i], field) /\ ls[i].name \in Fragments(name) }

Given(ls, name, field) ==
  LET own     == NearestGiven(ls, name, field)
      default == IF DefaultOf(ls) = 0 THEN {}
                 ELSE NearestGiven(ls, ls[DefaultOf(ls)].name, field)
      Longest(S) == CHOOSE i \in S : \A j \in S : Len(ls[j].name) <= Len(ls[i].name)
  IN IF own # {} THEN Longest(own) ELSE IF default # {} THEN Longest(default) ELSE 0

LevelOf(name) ==
  LET i == Given(file.loggers, name, "level") IN IF i = 0 THEN Off ELSE file.loggers[i].level

SinksOf(name) ==
  LET i == Given(file.loggers, name, "sinks") IN IF i = 0 THEN Noop ELSE file.loggers[i].sinks

(* A name that had no logger when the configuration was done, and no       *)
(* fragment of it had one.                                                 *)
Fresh(name) == early \cap Fragments(name) = {} /\ <<"logpp">> \notin Fragments(name)

ConfiguredClients == { c \in Clients : held[c] # 0 /\ Fresh(asked[c]) }

Configured(name) == [level |-> LevelOf(name), sink |-> SinksOf(name)]

OnlyConfigured == setups = 1 /\ phase = "done"

(* With two default loggers, those that inherit go by the first, and the   *)
(* registry by the last.                                                   *)
OneDefault ==
  \A i, j \in DOMAIN file.loggers :
    file.loggers[i].default /\ file.loggers[j].default => i = j

(* Whatever the order in which clients ask for a logger, its ancestors and *)
(* its descendants, each gets the level and the sinks that the hierarchy   *)
(* in the file says.                                                       *)
AnswersAsConfigured ==
  OnlyConfigured /\ OneDefault /\ reloads = 0 =>
    \A c \in ConfiguredClients : objects[held[c]] = Configured(asked[c])

(* "Keep track of loggers created through the default factory to allow     *)
(* out-of-order initialization": when a default has been registered, every *)
(* logger that was created before has its level and its sink.              *)
EarlyFollowDefault ==
  job = NoJob /\ reloads = 0 /\ defaultFactory # Instantiator =>
    \A id \in tracked : objects[id] = Template(defaultFactory)

(* No event that passes the level of its logger is lost in a NoopSink      *)
(* while a registration gives the logger its sink, unless a reload has     *)
(* raised the level of a logger that never got a sink.                     *)
NoEventWasted == wasted => reloads > 0

(* The types of the state.                                                 *)
LoggerType == [level : 0 .. Off, sink : Seq(STRING)]

FactoryType ==
  [kind : {"new", "same", "instantiator"}, level : 0 .. Off, sink : Seq(STRING), logger : Nat]

JobType ==
  [kind : {"register"}, name : Seq(STRING), factory : FactoryType, default : BOOLEAN,
   todo : SUBSET tracked, half : {0} \cup tracked]

(* The state has the right types.                                          *)
TypeOK ==
  /\ objects \in Seq(LoggerType)
  /\ tracked \subseteq DOMAIN objects
  /\ \A n \in DOMAIN loggers : loggers[n] \in DOMAIN objects
  /\ \A n \in DOMAIN factories : factories[n] \in FactoryType
  /\ defaultFactory \in FactoryType
  /\ defaultLogger = 0
  /\ job = NoJob \/ job \in JobType
  /\ at \in [Clients -> {"idle", "logging", "free"}]
  /\ held \in [Clients -> {0} \cup DOMAIN objects]
  /\ wasted \in BOOLEAN
  /\ index \in Nat \ {0}
  /\ config.loggers \in Seq(LoggerNode)
  /\ reloads \in Nat
  /\ reload.kind = "reloading" =>
       reload.toml \in Configs /\ reload.index \in Nat \ {0} /\ reloads > 0

-----------------------------------------------------------------------------
(***************************************************************************)
(* Liveness, and what a reload should do.                                  *)
(***************************************************************************)

(* A configuration ends, if its default logger lacks nothing.              *)
ConfigurationEnds ==
  phase \in {"sinks", "loggers", "looping"}
      /\ (\A i \in DOMAIN file.loggers : file.loggers[i].default => ~ HasMissing(file.loggers[i]))
    ~> phase \in {"done", "failed"}

(* The file that is watched "to update the configuration": reloading it    *)
(* unchanged changes no level.                                             *)
ReloadKeepsLevels ==
  OnlyConfigured /\ reloads = 1 /\ reload.kind = "done" /\ reload.same =>
    \A c \in ConfiguredClients : objects[held[c]].level = LevelOf(asked[c])

=============================================================================
