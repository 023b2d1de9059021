-------------------------- MODULE MCEntryAdmission --------------------------
(* Two suggestions of one underlying that share no option symbol, whose     *)
(* risks fit the budget one by one and not together.                        *)
EXTENDS EntryAdmission, TLC

MCRisk == [s \in Suggestions |-> IF s = CHOOSE x \in Suggestions : TRUE
                                   THEN 5 ELSE 6]
MCContracts == [s \in Suggestions |-> {s}]
Symmetry == Permutations(Cycles)
MCTolerance == <<4, 5>>

=============================================================================
