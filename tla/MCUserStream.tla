---------------------------- MODULE MCUserStream ----------------------------
(* Instances of UserStream for TLC.  Viewers run the same consumer code:   *)
(* they are interchangeable.                                               *)
EXTENDS UserStream, TLC

Alike == Permutations(Viewers)
=============================================================================
