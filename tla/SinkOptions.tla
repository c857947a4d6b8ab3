------------------------------ MODULE SinkOptions ------------------------------
(***************************************************************************)
(* What activateOptions makes of the options of a sink (FileSink.cpp,      *)
(* RollingFileSink.cpp, and FormatSink.h, ColoredConsole.h, AsyncSink.h    *)
(* under sinks/).                                                          *)
(*                                                                         *)
(* Options map keys to a text, an array of texts or a dictionary of texts. *)
(* The text "invalid" stands for every text that does not parse as what    *)
(* its key asks for, a queue that does not fit into memory among them, and *)
(* "unwritable" for the name of a file that cannot be opened.              *)
(***************************************************************************)
EXTENDS Sequences, SequencesExt

Text(text)  == [kind |-> "text", text |-> text]
Array(texts) == [kind |-> "array", texts |-> texts]
Dict(dict)  == [kind |-> "dict", dict |-> dict]

HasText(options, key) == key \in DOMAIN options /\ options[key].kind = "text"
HasDict(options, key) == key \in DOMAIN options /\ options[key].kind = "dict"

(* The dictionary must have the key, with a text that parses.              *)
Reads(dict, key) == key \in DOMAIN dict /\ dict[key] # "invalid"

ReadsOneOf(dict, key, texts) == key \in DOMAIN dict /\ dict[key] \in texts

(* The dictionary may have the key.                                        *)
MayRead(dict, key) == key \in DOMAIN dict => dict[key] # "invalid"

Formats == {"pattern", "logfmt"}

FormatSound(options) ==
  "format" \in DOMAIN options =>
    \/ HasText(options, "format") /\ options["format"].text \in Formats
    \/ HasDict(options, "format") /\ ReadsOneOf(options["format"].dict, "type", Formats)
    \/ options["format"].kind = "array"

(* Each entry of a theme is a level and a colour.                          *)
ThemeSound(options) ==
  "theme" \in DOMAIN options =>
    /\ options["theme"].kind = "dict"
    /\ \A level \in DOMAIN options["theme"].dict :
         level # "invalid" /\ options["theme"].dict[level] # "invalid"

-----------------------------------------------------------------------------
(***************************************************************************)
(* A sink ends up open, or idle: it raised no error, and drops every event *)
(* because it has no open file.  Otherwise there is an error.              *)
(***************************************************************************)
Verdict(sound) == IF sound THEN "open" ELSE "error"

ActivateConsole(options) == Verdict(FormatSound(options))

ActivateColored(options) == Verdict(FormatSound(options) /\ ThemeSound(options))

(* Whether the file could be opened is not looked at.                      *)
Opened(options) == IF options["file"].text = "unwritable" THEN "idle" ELSE "open"

FileSound(options) == FormatSound(options) /\ HasText(options, "file")

ActivateFile(options) == IF FileSound(options) THEN Opened(options) ELSE "error"

(* A type that is not known has no strategy, and no error either.          *)
ParseRolling(options) ==
  LET dict == options["strategy"].dict
  IN CASE ~ HasDict(options, "strategy") \/ "type" \notin DOMAIN dict -> "error"
       [] dict["type"] = "size" -> Verdict(Reads(dict, "size"))
       [] dict["type"] = "date" -> Verdict(/\ Reads(dict, "interval")
                                           /\ ReadsOneOf(dict, "kind", {"precise", "round"}))
       [] OTHER -> "idle"

(* A text opens the file, and is refused then, whatever it is.             *)
ParseArchive(options) ==
  LET dict == options["archive"].dict
  IN CASE ~ HasDict(options, "archive") \/ "type" \notin DOMAIN dict -> "error"
       [] dict["type"] = "incremental" -> "open"
       [] dict["type"] = "timestamp" -> Verdict(/\ MayRead(dict, "tz")
                                                /\ MayRead(dict, "offset"))
       [] OTHER -> "idle"

(* The archive is parsed when there is a strategy.                         *)
ActivateRolling(options) ==
  IF ~ FileSound(options) \/ {"strategy", "archive"} \ DOMAIN options # {} THEN "error"
  ELSE IF ParseRolling(options) # "open" THEN ParseRolling(options)
  ELSE IF ParseArchive(options) # "open" THEN ParseArchive(options)
  ELSE Opened(options)

(* The inner sinks must be known, and a queue must be given.               *)
ActivateAsync(options, known) ==
  Verdict(/\ "sinks" \in DOMAIN options /\ options["sinks"].kind = "array"
          /\ options["sinks"].texts # <<>>
          /\ ToSet(options["sinks"].texts) \subseteq known
          /\ HasDict(options, "queue")
          /\ ReadsOneOf(options["queue"].dict, "type", {"bounded"})
          /\ MayRead(options["queue"].dict, "size"))

(* createSink knows these types, and activateOptions follows.              *)
Activate(type, options, known) ==
  CASE type \in {"OutputConsole", "ErrorConsole"} -> ActivateConsole(options)
    [] type \in {"ColoredOutputConsole", "ColoredErrorConsole"} -> ActivateColored(options)
    [] type = "File"        -> ActivateFile(options)
    [] type = "RollingFile" -> ActivateRolling(options)
    [] type = "Async"       -> ActivateAsync(options, known)
    [] OTHER -> "error"

=============================================================================
