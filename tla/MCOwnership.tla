----------------------------- MODULE MCOwnership -----------------------------
(* The projects of MCWatcher, with the history that Ownership keeps. *)
EXTENDS MCWatcher, Ownership
=============================================================================
