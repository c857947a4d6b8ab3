----------------------------- MODULE MCAsyncSink -----------------------------
(***************************************************************************)
(* An instance of AsyncSink for TLC: two inner sinks, one of which wants   *)
(* warnings only, and sizes of four bits.  Nine is more than strtoll       *)
(* returns, and five wraps with a unit of four.                            *)
(***************************************************************************)
EXTENDS AsyncSink, TLC

TwoSinks == <<"all", "warnings">>

Thresholds == ("all" :> 1) @@ ("warnings" :> 2)

SomeSizes == {0, 2, 5, 9}

SomeUnits == {1, 4}

=============================================================================
