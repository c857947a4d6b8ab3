----------------------------- MODULE MCMPMCQueue -----------------------------
(***************************************************************************)
(* An instance of MPMCQueue for TLC.  Each of the two producers has an     *)
(* entry of its own, so that an entry that came out under the ticket of    *)
(* another push can be told: any two tickets may belong to different       *)
(* producers.                                                              *)
(***************************************************************************)
EXTENDS MPMCQueue, TLC

CONSTANTS p1, p2, a, b

OneEach == (p1 :> {a}) @@ (p2 :> {b})

=============================================================================
