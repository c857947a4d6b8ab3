--------------------------- MODULE MCEventLogBuffer ---------------------------
(***************************************************************************)
(* An instance of EventLogBuffer for TLC.                                  *)
(***************************************************************************)
EXTENDS EventLogBuffer, TLC

Symmetry == Permutations(Objects) \cup Permutations(Blocks)

=============================================================================
