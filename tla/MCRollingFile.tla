---------------------------- MODULE MCRollingFile ----------------------------
(***************************************************************************)
(* An instance of RollingFile for TLC.                                      *)
(***************************************************************************)
EXTENDS RollingFile

(* The sink is the one that rolls by hand, and it opens its file for       *)
(* appending.                                                              *)
EveryConfig == { c \in ConfigType : c.mode = "manual" => c.open = "app" }

(* Units of one and of three, as months have unequal lengths.              *)
UnevenUnits == {0, 1, 4, 5, 8, 9, 12}

=============================================================================
