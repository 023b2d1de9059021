-------------------------- MODULE MCAccountBook --------------------------
(* Instances of AccountBook for TLC. *)
EXTENDS AccountBook

CONSTANTS o1, o2, c1, c2, u1

\* The application's order, and one sent at the broker that shares a contract.
MCOf == [c \in Contracts |-> u1]
MCLegs == [o \in Orders |-> IF o = o1 THEN Contracts ELSE {c1}]
==========================================================================
