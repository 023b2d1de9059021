---------------------------- MODULE MCEntryFill ----------------------------
(* Instances of EntryFill for TLC.  Deliveries of the fill event run the   *)
(* same handler, so they are interchangeable.                              *)
EXTENDS EntryFill, TLC

AlikeWorkers == Permutations(Workers)
=============================================================================
