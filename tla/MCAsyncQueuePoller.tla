------------------------- MODULE MCAsyncQueuePoller -------------------------
(***************************************************************************)
(* Small instances of AsyncQueuePoller for TLC.                            *)
(***************************************************************************)
EXTENDS AsyncQueuePoller

(* Queues, and clients, are interchangeable; liveness is checked without.  *)
Symmetry == Permutations(Queues) \cup Permutations(Clients)

=============================================================================
