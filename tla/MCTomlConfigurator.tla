-------------------------- MODULE MCTomlConfigurator --------------------------
(***************************************************************************)
(* Instances of TomlConfigurator for TLC.                                  *)
(***************************************************************************)
EXTENDS TomlConfigurator

Node(kind, name, line, type, options) ==
  [kind |-> kind, name |-> name, line |-> line, type |-> type, options |-> options]

ConsoleSink(name, line) == Node("sink", name, line, "OutputConsole", <<>>)

AsyncSink(name, line, inner) ==
  Node("sink", name, line, "Async",
       [sinks |-> Array(inner), queue |-> Dict([type |-> "bounded", size |-> "512"])])

Logger(name, level, sinkNames, isDefault) ==
  [kind |-> "logger", name |-> name, level |-> level, sinks |-> sinkNames,
   default |-> isDefault]

Toml(sinkNodes, loggerNodes) ==
  [tables |-> TRUE, sinks |-> sinkNodes, loggers |-> loggerNodes]

(* The example of examples/logpp.toml, with a default logger.  The async   *)
(* sink has the first name and the last line.                              *)
Inheriting ==
  Toml(<<AsyncSink("async", 9, <<"t">>), ConsoleSink("s", 3), ConsoleSink("t", 6)>>,
       <<Logger(<<"a", "b">>, NoLevel, <<"t">>, FALSE),
         Logger(<<"d">>, 1, <<"async">>, TRUE),
         Logger(<<"a">>, 2, <<>>, FALSE)>>)

(* No default logger; the child is configured before its parent.           *)
NoDefault ==
  Toml(<<ConsoleSink("s", 3)>>,
       <<Logger(<<"a", "b">>, 1, <<>>, FALSE), Logger(<<"a">>, 2, <<"s">>, FALSE)>>)

(* The default logger lacks a level.                                       *)
DefaultLacks == Toml(<<ConsoleSink("s", 3)>>, <<Logger(<<"d">>, NoLevel, <<"s">>, TRUE)>>)

NoParent == Toml(<<ConsoleSink("s", 3)>>, <<Logger(<<"a">>, NoLevel, <<"s">>, FALSE)>>)

(* The default logger has the name of another one.                         *)
SameName ==
  Toml(<<ConsoleSink("s", 3)>>,
       <<Logger(<<"a">>, 1, <<"s">>, FALSE), Logger(<<"a">>, 2, <<"s">>, TRUE)>>)

UnknownSink == Toml(<<Node("value", "s", 3, "", <<>>)>>, <<Logger(<<"a">>, 1, <<"s">>, FALSE)>>)

Malformed == Toml(<<Node("malformed", "s", 3, "File", <<>>)>>, <<>>)

NoTables == [NoConfig EXCEPT !.tables = FALSE]

(* Every kind of sink.  The inner sink of the async sink comes too late.   *)
File(name) == [file |-> Text(name), format |-> Text("logfmt")]

Rolling(strategy, archive) ==
  [file |-> Text("log"), strategy |-> Dict(strategy), archive |-> Dict(archive)]

BySize == [type |-> "size", size |-> "1mb"]
ByDate == [type |-> "date", interval |-> "1h", kind |-> "round"]

EverySink ==
  Toml(<<Node("sink", "a", 3, "File", File("log")),
         Node("sink", "b", 9, "File", File("unwritable")),
         Node("sink", "c", 6, "RollingFile", Rolling(BySize, [type |-> "incremental"])),
         AsyncSink("d", 15, <<"g">>),
         Node("sink", "e", 12, "RollingFile",
              Rolling(ByDate, [type |-> "timestamp", tz |-> "local", offset |-> "-1d"])),
         Node("sink", "g", 18, "ColoredOutputConsole",
              [theme |-> Dict([warn |-> "yellow"]), format |-> Dict([type |-> "pattern"])])>>,
       <<>>)

EveryConfig ==
  {Inheriting, NoDefault, DefaultLacks, NoParent, SameName, UnknownSink, Malformed,
   NoTables, EverySink}

(* The parent is configured before its child.                              *)
ParentFirst ==
  {Toml(<<ConsoleSink("s", 3)>>,
        <<Logger(<<"a">>, 2, <<"s">>, FALSE), Logger(<<"a", "b">>, 1, <<>>, FALSE)>>)}

SomeNames == {<<"a">>, <<"a", "b">>, <<"x">>}

=============================================================================
