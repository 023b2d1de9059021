---------------------------- MODULE MCEntryOrder ----------------------------
(* Instances of EntryOrder for TLC.  Handlers run the same code, and so do *)
(* workers, so that each are interchangeable.                              *)
EXTENDS EntryOrder, TLC

AlikeWorkers == Permutations(Workers)
=============================================================================
