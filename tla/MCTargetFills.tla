--------------------------- MODULE MCTargetFills ---------------------------
(* Instances of TargetFills for TLC.  Runs of one service run the same     *)
(* code, so they are interchangeable.                                      *)
EXTENDS TargetFills, TLC

WithCredit == {TRUE}
AnyCredit  == BOOLEAN
=============================================================================
