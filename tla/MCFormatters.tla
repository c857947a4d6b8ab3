---------------------------- MODULE MCFormatters ----------------------------
(***************************************************************************)
(* An instance of Formatters for TLC: every pattern of at most MaxPieces   *)
(* of the pieces below.                                                    *)
(***************************************************************************)
EXTENDS Formatters, TLC

PatternPieces ==
  { <<"%">>, <<"%", "Y">>, <<"%", "i">>, <<"%", "L">>, <<"%", "+">>, <<"%", "v">>,
    <<"%", "f">>, <<"%", "f", "[", "x", "]">>, <<"%", "C">>, <<"x">>, <<"[">> }

LogfmtPieces ==
  { <<"%", "Y">>, <<"%", "L">>, <<"%", "+">>, <<"%", "v">>, <<"%", "f">>, <<"%", "?">>,
    <<"x", "=">>, <<"x">>, <<" ">> }

SomePieces == ("pattern" :> PatternPieces) @@ ("logfmt" :> LogfmtPieces)

(* The last one has values that do not read back.                          *)
SomeEvents ==
  { [text |-> text, fields |-> fields] :
      text \in { <<"a">>, <<"a", " ", "b", "=", "c">> },
      fields \in { <<>>, <<[key |-> "k", value |-> <<"c">>],
                           [key |-> "l", value |-> <<"c", " ", "d">>]>> } }
  \cup { [text |-> <<"\"", "a">>, fields |-> <<[key |-> "k", value |-> <<"a", " ", "\"">>]>>] }

=============================================================================
