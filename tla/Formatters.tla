----------------------------- MODULE Formatters -----------------------------
(***************************************************************************)
(* The two formatters, which turn an event into text along a pattern: the  *)
(* parser of each (src/PatternFormatter.cpp, src/LogFmtFormatter.cpp), one *)
(* action for each branch of its loops, and what the flags that it finds   *)
(* write (format/flag/).                                                   *)
(*                                                                         *)
(* A pattern is a sequence of characters, put together from pieces that    *)
(* each have a meaning of their own: the properties compare what comes out *)
(* with the meaning of the pieces, which the parsers do not know.  Dates   *)
(* and times are one symbol for each zone.                                 *)
(***************************************************************************)
EXTENDS Integers, Sequences, SequencesExt

CONSTANTS
  Pieces,        (* for each kind of formatter, the pieces of its patterns *)
  MaxPieces,     (* bound: pieces in a pattern                             *)
  CustomFlags,   (* flags that the program may register                    *)
  Events         (* records of the text and the fields of an event         *)

ASSUME PiecesAssumption ==
         /\ DOMAIN Pieces \subseteq {"pattern", "logfmt"}
         /\ \A k \in DOMAIN Pieces : Pieces[k] \subseteq Seq(STRING) \ {<<>>}
         /\ MaxPieces \in Nat

(* Two symbols that are not characters.                                    *)
ASSUME FlagsAssumption == CustomFlags \subseteq STRING \ {"eof", "literal"}

ASSUME EventsAssumption ==
         Events \subseteq [text : Seq(STRING), fields : Seq([key : STRING, value : Seq(STRING)])]

VARIABLES
  kind,         (* which formatter it is                                   *)
  pieces,       (* history: the pieces of the pattern                      *)
  pattern,      (* the pattern that is parsed                              *)
  it,           (* the position of the parser                              *)
  at,           (* the loop it is in, or how it ended                      *)
  literal,      (* literalStr, or the capture                              *)
  zone,         (* m_zoneId: "utc" or "local"                              *)
  flags,        (* the flag formatters found so far                        *)
  key,          (* the key whose value is parsed                           *)
  line,         (* the elements found so far                               *)
  custom,       (* m_customFormatters: the flags that were registered      *)
  event,        (* the event that was formatted                            *)
  out           (* the text it gave                                        *)

parser == <<it, at, literal, zone, flags, key, line>>
given  == <<kind, pieces, custom>>
result == <<event, out>>
vars == <<given, pattern, parser, result>>

NoEvent == [text |-> <<>>, fields |-> <<>>]

Init ==
  /\ kind \in DOMAIN Pieces
  /\ pieces \in BoundedSeq(Pieces[kind], MaxPieces)
  /\ pattern = FlattenSeq(pieces)
  /\ it = 1
  /\ at = IF kind = "pattern" THEN "pattern" ELSE "start"
  /\ literal = <<>>
  /\ zone = "utc"
  /\ flags = <<>>
  /\ key = <<>>
  /\ line = <<>>
  /\ custom \in IF kind = "pattern" THEN SUBSET CustomFlags ELSE {{}}
  /\ event = NoEvent
  /\ out = <<>>

-----------------------------------------------------------------------------
(***************************************************************************)
(* What the flags write.                                                   *)
(***************************************************************************)
DateFlags     == {"Y", "m", "d", "H", "M", "S"}
FractionFlags == {"i", "u"}
EventFlags    == {"t", "v", "l", "n", "p", "o"}
PlainFlags    == DateFlags \cup FractionFlags \cup EventFlags

(* The flags, and what flags and formatters write by themselves, are text. *)
ASSUME StringAssumption ==
         PlainFlags \cup {"f", "+", "literal", "utc", "local", "000", "fraction", "ts", "lvl",
           "logger", "msg", "%", "=", " ", "\"", "[", "]", "(", ")", "-"} \subseteq STRING

(* What a pattern is made of: a character, a flag that is known, and the   *)
(* one flag with its parameter up to the bracket that closes it.           *)
ASSUME PatternAssumption ==
         "pattern" \in DOMAIN Pieces =>
           \A p \in Pieces["pattern"] :
             \/ Len(p) = 1
             \/ \E c \in PlainFlags \cup {"L", "+", "f"} \cup CustomFlags : p = <<"%", c>>
             \/ /\ Len(p) > 3 /\ SubSeq(p, 1, 3) = <<"%", "f", "[">>
                /\ \A i \in 4 .. Len(p) : p[i] = "]" <=> i = Len(p)

Flag(c, z)     == [flag |-> c, zone |-> z, text |-> <<>>]
Literal(text)  == [flag |-> "literal", zone |-> "utc", text |-> text]
Fields(prefix) == [flag |-> "f", zone |-> "utc", text |-> prefix]

Quoted(text) == <<"\"">> \o text \o <<"\"">>

(* A value is quoted if it has a space, and for no other reason.           *)
Value(text) == IF Contains(text, " ") THEN Quoted(text) ELSE text

(* The prefix is written only before the first field.                      *)
FieldsText(prefix, e) ==
  LET field(i) == (IF i = 1 THEN prefix ELSE <<" ">>)
                    \o <<e.fields[i].key, "=">> \o Value(e.fields[i].value)
  IN FlattenSeq([i \in 1 .. Len(e.fields) |-> field(i)])

(* tz::Local::apply keeps whole seconds, so that a local fraction is zero. *)
FlagText(f, e) ==
  CASE f.flag = "literal"         -> f.text
    [] f.flag = "f"               -> FieldsText(f.text, e)
    [] f.flag = "v"               -> e.text
    [] f.flag \in DateFlags       -> <<f.zone>>
    [] f.flag \in FractionFlags   -> IF f.zone = "local" THEN <<"000">> ELSE <<"fraction">>
    [] f.flag \in CustomFlags \ (PlainFlags \cup {"f"}) -> <<f.flag>> \o f.text
    [] OTHER                      -> <<f.flag>>

Texts(fs, e) == FlattenSeq([i \in 1 .. Len(fs) |-> FlagText(fs[i], e)])

FieldsElement   == [key |-> <<>>, flags |-> <<Fields(<<" ">>)>>]
Element(k, fs)  == [key |-> k, flags |-> fs]

(* LogFmtKeyValueFormatter after the separator, with what the flags of the *)
(* element write; fields bring their own separator.                        *)
ElementText(element, i, value, e) ==
  IF element = FieldsElement THEN FieldsText(<<" ">>, e)
  ELSE (IF i > 1 THEN <<" ">> ELSE <<>>) \o element.key \o <<"=">> \o Value(value)

(* The default pattern, with one date flag for all of them.                *)
DefaultPattern ==
  <<"ts", "=", "%", "Y", " ", "lvl", "=", "%", "l", " ", "logger", "=", "%", "n", " ",
    "msg", "=", "%", "v", "%", "f">>

DefaultLine ==
  << Element(<<"ts">>, <<Flag("Y", "utc")>>), Element(<<"lvl">>, <<Flag("l", "utc")>>),
     Element(<<"logger">>, <<Flag("n", "utc")>>), Element(<<"msg">>, <<Flag("v", "utc")>>),
     FieldsElement >>

DefaultText(e) ==
  FlattenSeq([i \in 1 .. Len(DefaultLine) |->
                ElementText(DefaultLine[i], i, Texts(DefaultLine[i].flags, e), e)])

(* "%+" may be, or be in, the value of a key.                              *)
NestedText(f, e) == IF f.flag = "+" THEN DefaultText(e) ELSE FlagText(f, e)

NestedTexts(fs, e) == FlattenSeq([i \in 1 .. Len(fs) |-> NestedText(fs[i], e)])

LineText(elements, e) ==
  FlattenSeq([i \in 1 .. Len(elements) |->
                ElementText(elements[i], i, NestedTexts(elements[i].flags, e), e)])

(* What "%+" stands for in the other formatter, with the dates in a zone.  *)
FullIn(z) ==
  << Flag("Y", z), Literal(<<" ", "[">>), Flag("l", "utc"), Literal(<<"]", " ", "(">>),
     Flag("n", "utc"), Literal(<<")", " ">>), Flag("v", "utc"), Fields(<<" ", "-", " ">>) >>

(* It is parsed by itself.                                                 *)
FullFlags == FullIn("utc")

-----------------------------------------------------------------------------
(***************************************************************************)
(* Both parsers.                                                           *)
(***************************************************************************)
Eof     == it > Len(pattern)
Current == pattern[it]
Next1   == IF it < Len(pattern) THEN pattern[it + 1] ELSE "eof"

AtPercent == ~ Eof /\ Current = "%"

Advance(count) == it' = it + count

Flush(fs) == IF literal = <<>> THEN fs ELSE Append(fs, Literal(literal))

(* A flag, or what it stands for, ends the literal before it.              *)
Found(fs) ==
  /\ flags' = Flush(flags) \o fs
  /\ literal' = <<>>

Collect ==
  /\ literal' = Append(literal, Current)
  /\ Advance(1)
  /\ UNCHANGED <<given, pattern, at, zone, flags, key, line, result>>

Throw ==
  /\ at' = "error"
  /\ UNCHANGED <<given, pattern, it, literal, zone, flags, key, line, result>>

-----------------------------------------------------------------------------
(***************************************************************************)
(* PatternFormatter::parsePattern.                                         *)
(***************************************************************************)
InPattern == at = "pattern"

ReadLiteral ==
  /\ InPattern /\ ~ Eof /\ Current # "%"
  /\ Collect

(* A percent sign at the end is left out.                                  *)
ReadLastPercent ==
  /\ InPattern /\ AtPercent /\ Next1 = "eof"
  /\ Found(<<>>)
  /\ Advance(1)
  /\ UNCHANGED <<given, pattern, at, zone, key, line, result>>

(* A faulty "%+": the literal before it comes after it.                    *)
ReadFullFirst ==
  /\ InPattern /\ AtPercent /\ Next1 = "+"
  /\ flags' = flags \o FullFlags
  /\ zone' = "utc"
  /\ Advance(2)
  /\ UNCHANGED <<given, pattern, at, literal, key, line, result>>

(* Parsing the full pattern starts in UTC and leaves that behind.          *)
ReadFull ==
  /\ InPattern /\ AtPercent /\ Next1 = "+"
  /\ Found(FullFlags)
  /\ zone' = "utc"
  /\ Advance(2)
  /\ UNCHANGED <<given, pattern, at, key, line, result>>

ReadLocal ==
  /\ InPattern /\ AtPercent /\ Next1 = "L"
  /\ Found(<<>>)
  /\ zone' = "local"
  /\ Advance(2)
  /\ UNCHANGED <<given, pattern, at, key, line, result>>

ReadFlag ==
  /\ InPattern /\ AtPercent /\ Next1 \in PlainFlags
  /\ Found(<<Flag(Next1, zone)>>)
  /\ Advance(2)
  /\ UNCHANGED <<given, pattern, at, zone, key, line, result>>

(* Custom flags come last: they do not replace others.                     *)
TakesParameter(c) == c = "f" \/ c \in custom \ (PlainFlags \cup {"L", "+"})

HasParameter == it + 2 <= Len(pattern) /\ pattern[it + 2] = "["

ReadParameterless ==
  /\ InPattern /\ AtPercent /\ TakesParameter(Next1)
  /\ ~ HasParameter
  /\ Found(<<Flag(Next1, "utc")>>)
  /\ Advance(2)
  /\ UNCHANGED <<given, pattern, at, zone, key, line, result>>

(* The first closing bracket ends the parameter.  Without one the loop     *)
(* runs beyond the pattern: what it does there is undefined.               *)
ReadParameter ==
  /\ InPattern /\ AtPercent /\ TakesParameter(Next1)
  /\ HasParameter
  /\ LET closing == { i \in it + 3 .. Len(pattern) : pattern[i] = "]" }
     IN \/ /\ closing = {}
           /\ at' = "overrun"
           /\ UNCHANGED <<it, literal, flags>>
        \/ \E end \in closing :
             /\ \A i \in closing : end <= i
             /\ LET parameter == SubSeq(pattern, it + 3, end - 1)
                IN Found(<<[Flag(Next1, "utc") EXCEPT !.text = parameter]>>)
             /\ it' = end + 1
             /\ UNCHANGED at
  /\ UNCHANGED <<given, pattern, zone, key, line, result>>

ReadUnknown ==
  /\ InPattern /\ AtPercent
  /\ Next1 \notin PlainFlags \cup {"eof", "L", "+"}
  /\ ~ TakesParameter(Next1)
  /\ Throw

EndPattern ==
  /\ InPattern /\ Eof
  /\ Found(<<>>)
  /\ at' = "ready"
  /\ UNCHANGED <<given, pattern, it, zone, key, line, result>>

-----------------------------------------------------------------------------
(***************************************************************************)
(* LogFmtFormatter: matchPattern.                                          *)
(***************************************************************************)
AtFields == AtPercent /\ Next1 = "f"

(* "%+" at the start stands for the default pattern, whatever follows.     *)
MatchFull ==
  /\ at = "start"
  /\ AtPercent /\ Next1 = "+"
  /\ at' = "line"
  /\ pattern' = DefaultPattern
  /\ UNCHANGED <<given, it, literal, zone, flags, key, line, result>>

BeginLine ==
  /\ at = "start"
  /\ ~ (AtPercent /\ Next1 = "+")
  /\ at' = "line"
  /\ UNCHANGED <<given, pattern, it, literal, zone, flags, key, line, result>>

(* A faulty match: the fields are found, and not stepped over.             *)
MatchFieldsInPlace ==
  /\ at = "line" /\ AtFields
  /\ at' = "spaces"
  /\ UNCHANGED <<given, pattern, it, literal, zone, flags, key, line, result>>

MatchFields ==
  /\ at = "line" /\ AtFields
  /\ line' = Append(line, FieldsElement)
  /\ Advance(2)
  /\ at' = "spaces"
  /\ UNCHANGED <<given, pattern, literal, zone, flags, key, result>>

(* The key is whatever comes before the next equals sign, and something    *)
(* must come after it.                                                     *)
MatchKey ==
  /\ at = "line" /\ ~ Eof /\ ~ AtFields
  /\ LET ends == { i \in it .. Len(pattern) - 1 : pattern[i] = "=" }
     IN \E end \in ends :
          /\ \A i \in ends : end <= i
          /\ key' = SubSeq(pattern, it, end - 1)
          /\ it' = end + 1
  /\ at' = "value"
  /\ UNCHANGED <<given, pattern, literal, zone, flags, line, result>>

MatchNoValue ==
  /\ at = "line" /\ ~ Eof /\ ~ AtFields
  /\ "=" \notin ToSet(SubSeq(pattern, it, Len(pattern) - 1))
  /\ Throw

SkipSpace ==
  /\ at = "spaces" /\ ~ Eof /\ Current = " "
  /\ Advance(1)
  /\ UNCHANGED <<given, pattern, at, literal, zone, flags, key, line, result>>

NextElement ==
  /\ at = "spaces" /\ (~ Eof => Current # " ")
  /\ at' = "line"
  /\ UNCHANGED <<given, pattern, it, literal, zone, flags, key, line, result>>

EndLine ==
  /\ at = "line" /\ Eof
  /\ at' = "ready"
  /\ UNCHANGED <<given, pattern, it, literal, zone, flags, key, line, result>>

-----------------------------------------------------------------------------
(***************************************************************************)
(* LogFmtFormatter: matchFlag, the value of a key.                         *)
(***************************************************************************)

(* A faulty end: the fields are taken for a part of the value.             *)
ValueEndsAtSpace == ~ Eof => Current = " "

(* The fields are not part of the value, which may be quoted.              *)
ValueEnds == ~ Eof /\ ~ AtFields => Current = " "

EndValue ==
  /\ at = "value" /\ ValueEnds
  /\ line' = Append(line, Element(key, Flush(flags)))
  /\ flags' = <<>>
  /\ literal' = <<>>
  /\ at' = "spaces"
  /\ UNCHANGED <<given, pattern, it, zone, key, result>>

MatchLiteral ==
  /\ at = "value" /\ ~ ValueEnds /\ Current # "%"
  /\ Collect

MatchLocal ==
  /\ at = "value" /\ ~ ValueEnds /\ AtPercent /\ Next1 = "L"
  /\ Found(<<>>)
  /\ zone' = "local"
  /\ Advance(2)
  /\ UNCHANGED <<given, pattern, at, key, line, result>>

(* A faulty flag: the parser steps over the percent sign twice.            *)
MatchFlagTwice ==
  /\ at = "value" /\ ~ ValueEnds /\ AtPercent /\ Next1 \in PlainFlags \cup {"+"}
  /\ Found(<<Flag(Next1, zone)>>)
  /\ Advance(3)
  /\ UNCHANGED <<given, pattern, at, zone, key, line, result>>

MatchFlag ==
  /\ at = "value" /\ ~ ValueEnds /\ AtPercent /\ Next1 \in PlainFlags \cup {"+"}
  /\ Found(<<Flag(Next1, zone)>>)
  /\ Advance(2)
  /\ UNCHANGED <<given, pattern, at, zone, key, line, result>>

(* Custom flags are not known here.                                        *)
MatchUnknown ==
  /\ at = "value" /\ ~ ValueEnds /\ AtPercent
  /\ Next1 \notin PlainFlags \cup {"L", "+"}
  /\ Throw

-----------------------------------------------------------------------------
(* doFormat of either formatter.                                           *)
Format ==
  /\ at = "ready"
  /\ at' = "formatted"
  /\ \E e \in Events :
       /\ event' = e
       /\ out' = IF kind = "pattern" THEN Texts(flags, e)
                 ELSE LineText(line, e)
  /\ UNCHANGED <<given, pattern, it, literal, zone, flags, key, line>>

Parse ==
  \/ ReadLiteral \/ ReadLastPercent \/ ReadFull \/ ReadLocal \/ ReadFlag
  \/ ReadParameterless \/ ReadParameter \/ ReadUnknown \/ EndPattern
  \/ MatchFull \/ BeginLine \/ MatchFields \/ MatchKey \/ MatchNoValue
  \/ SkipSpace \/ NextElement \/ EndLine
  \/ EndValue \/ MatchLiteral \/ MatchLocal \/ MatchFlag \/ MatchUnknown

Next == Parse \/ Format

Spec == Init /\ [][Next]_vars

(* A thread that is in setPattern goes on.                                 *)
FairSpec == Spec /\ WF_vars(Parse)

-----------------------------------------------------------------------------
(***************************************************************************)
(* Properties.                                                             *)
(***************************************************************************)

(* The state has the right types; no parser leaves the pattern.            *)
TypeOK ==
  /\ kind \in {"pattern", "logfmt"}
  /\ it \in 1 .. Len(pattern) + 1
  /\ at \in {"pattern", "start", "line", "value", "spaces", "ready", "error", "overrun",
             "formatted"}
  /\ zone \in {"utc", "local"}
  /\ kind = "pattern" => line = <<>>
  /\ at \in {"start", "line", "spaces"} => flags = <<>> /\ literal = <<>>
  /\ \A i \in DOMAIN flags : flags[i].text # <<>> \/ flags[i].flag # "literal"
  /\ custom \subseteq CustomFlags

(* The meaning of a piece that is a flag or a literal.                     *)
PieceText(piece, z, e) ==
  CASE piece = <<"%">>                       -> <<>>
    [] Len(piece) = 2 /\ Head(piece) = "%"   -> FlagText(Flag(piece[2], z), e)
    [] Len(piece) > 2 /\ Head(piece) = "%"   -> FlagText(Fields(SubSeq(piece, 4, Len(piece) - 1)), e)
    [] OTHER                                 -> piece

IsFlag(piece, c) == piece = <<"%", c>>

Parametric(piece) == \E c \in CustomFlags \cup {"f"} : IsFlag(piece, c)

(* "%L" asks for local time, for every date that comes after it.           *)
ZoneAt(i) == IF \E j \in 1 .. i - 1 : IsFlag(pieces[j], "L") THEN "local" ELSE "utc"

(* A bracket after a flag with a parameter is not a literal, and a percent *)
(* sign is only left out at the end.  No "%+" comes after a "%L": by what  *)
(* the two mean its date and those behind it were local, but the parser    *)
(* goes back to UTC.                                                       *)
GoodPattern ==
  \A i \in DOMAIN pieces :
    /\ IsFlag(pieces[i], "+") => ZoneAt(i) = "utc"
    /\ pieces[i] = <<"%">> => i = Len(pieces)
    /\ pieces[i] = <<"[">> => i = 1 \/ ~ Parametric(pieces[i - 1])
    /\ \A c \in CustomFlags \ custom : ~ IsFlag(pieces[i], c)

Meaning(i, e) ==
  IF IsFlag(pieces[i], "+") THEN Texts(FullIn(ZoneAt(i)), e)
  ELSE IF IsFlag(pieces[i], "L") THEN <<>>
  ELSE PieceText(pieces[i], ZoneAt(i), e)

FirstMean(n, e) == FlattenSeq([i \in 1 .. n |-> Meaning(i, e)])

PatternMeans(e) == FirstMean(Len(pieces), e)

(* A good pattern is accepted, and gives the text of its pieces one after  *)
(* the other: no literal is lost, repeated or moved by the flags around    *)
(* it, every date is local if a "%L" comes before it and UTC otherwise,    *)
(* and "%+" is its flags.                                                  *)
PatternRendered ==
  kind = "pattern" /\ GoodPattern =>
    /\ at \notin {"error", "overrun"}
    /\ at = "formatted" => out = PatternMeans(event)

(* Reading a pattern for logfmt piece by piece: the pairs of keys and      *)
(* values, whether a value is open, the zone, and whether it makes sense.  *)
ReadPiece(e, state, piece) ==
  LET grow(text) == [state EXCEPT !.pairs[Len(state.pairs)].value = @ \o text]
  IN CASE piece = <<" ">> -> [state EXCEPT !.open = FALSE]
       [] IsFlag(piece, "f") ->
            [state EXCEPT !.open = FALSE,
                          !.pairs = @ \o [i \in 1 .. Len(e.fields) |->
                                            [key |-> <<e.fields[i].key>>,
                                             value |-> e.fields[i].value]]]
       [] piece = <<"x", "=">> /\ ~ state.open ->
            [state EXCEPT !.open = TRUE,
                          !.pairs = Append(@, [key |-> <<"x">>, value |-> <<>>])]
       [] ~ state.open \/ \E c \in {"+", "?", "C"} : IsFlag(piece, c) -> [state EXCEPT !.good = FALSE]
       [] IsFlag(piece, "L") -> [state EXCEPT !.zone = "local"]
       [] OTHER -> grow(PieceText(piece, state.zone, e))

Pairs(ps, e) ==
  FoldLeft(LAMBDA state, piece : ReadPiece(e, state, piece),
           [pairs |-> <<>>, open |-> FALSE, zone |-> "utc", good |-> TRUE], ps)

DefaultPairs(e) ==
  LET pair(k, v) == [key |-> <<k>>, value |-> v]
  IN << pair("ts", <<"utc">>), pair("lvl", <<"l">>), pair("logger", <<"n">>),
        pair("msg", e.text) >>
     \o [i \in 1 .. Len(e.fields) |-> pair(e.fields[i].key, e.fields[i].value)]

(* A reader of logfmt: spaces outside quotes end a value.                  *)
ReadSymbol(state, symbol) ==
  LET last == Len(state.pairs)
      grow == [state EXCEPT !.pairs[last].value = Append(@, symbol)]
  IN CASE symbol = "\"" -> [state EXCEPT !.quoted = ~ @]
       [] symbol = " " /\ ~ state.quoted -> [state EXCEPT !.in = "key", !.key = <<>>]
       [] symbol = "=" /\ state.in = "key" ->
            [state EXCEPT !.in = "value",
                          !.pairs = Append(@, [key |-> state.key, value |-> <<>>])]
       [] state.in = "key" /\ symbol # "=" -> [state EXCEPT !.key = Append(@, symbol)]
       [] OTHER -> grow

ReadLine(text) ==
  FoldLeft(ReadSymbol, [pairs |-> <<>>, in |-> "key", key |-> <<>>, quoted |-> FALSE], text).pairs

(* Values with a quotation mark do not read back: the formatter quotes a   *)
(* value only for its spaces, and escapes nothing.                         *)
NoQuotes(e) ==
  /\ ~ Contains(e.text, "\"")
  /\ \A i \in DOMAIN e.fields : ~ Contains(e.fields[i].value, "\"")

(* A pattern of keys with values and of fields, with "%+" only by itself,  *)
(* no space in front and something after the last equals sign, is          *)
(* accepted; and whoever reads the line of an event without quotation      *)
(* marks gets every key with its value and every field, with and without   *)
(* spaces or equals signs in the values.                                   *)
LogfmtReadable ==
  kind = "logfmt" =>
    LET pairs == Pairs(pieces, event)
        good  == pairs.good /\ pieces # <<>> /\ Head(pieces) # <<" ">>
                 /\ (Last(pieces) = <<"x", "=">> =>
                       Pairs(Front(pieces), event).open)
        reads == at = "formatted" /\ NoQuotes(event)
    IN IF pieces = <<<<"%", "+">>>>
       THEN reads => ReadLine(out) = DefaultPairs(event)
       ELSE good => at # "error" /\ (reads => ReadLine(out) = pairs.pairs)

(* Every pattern is accepted or refused: the two parsers that call each    *)
(* other for the fields never wait for each other.                         *)
ParseEnds == at \in {"pattern", "start"} ~> at \in {"ready", "error", "overrun", "formatted"}

=============================================================================
