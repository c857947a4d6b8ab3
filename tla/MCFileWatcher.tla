---------------------------- MODULE MCFileWatcher ----------------------------
(***************************************************************************)
(* Instances of FileWatcher for TLC.                                       *)
(***************************************************************************)
EXTENDS FileWatcher

OwnPoller == {TRUE}

AnyPoller == BOOLEAN

=============================================================================
