----------------------------- MODULE FillLedger -----------------------------
(***************************************************************************)
(* What every path that books profit-target fills promises of a position:  *)
(* each spread is taken off the quantity once, and the lifecycle follows   *)
(* the quantity ("position.quantity based on filled contracts",            *)
(* "open_full -> open_partial -> closed" in the docstrings of              *)
(* _reconcile_profit_target_fills and _process_filled_profit_target).      *)
(***************************************************************************)
EXTENDS Integers, FiniteSets

CONSTANT Contracts    \* the spreads of the position, finitely many

VARIABLES
  booked,       \* the spreads whose fill has been booked
  quantity,     \* contracts the position still counts
  lifecycle     \* its lifecycle_state

ledger == <<booked, quantity, lifecycle>>

LedgerInit ==
  /\ booked = {}
  /\ quantity = Cardinality(Contracts)
  /\ lifecycle = "open_full"

\* The fills of the spreads S are booked together, none of them before.
Book(S) ==
  /\ S # {}
  /\ S \cap booked = {}
  /\ booked' = booked \cup S
  /\ quantity' = quantity - Cardinality(S)
  /\ lifecycle' = IF quantity' = 0 THEN "closed" ELSE "open_partial"

\* The broker holds nothing of the position any more: it is closed as it is.
CloseOut ==
  /\ quantity' = 0
  /\ lifecycle' = "closed"
  /\ UNCHANGED booked

LedgerNext ==
  /\ lifecycle # "closed"
  /\ (\E S \in SUBSET Contracts : Book(S)) \/ CloseOut

LedgerSpec == LedgerInit /\ [][LedgerNext]_ledger

-----------------------------------------------------------------------------
LedgerTypeOK ==
  /\ booked \subseteq Contracts
  /\ quantity \in Nat
  /\ lifecycle \in {"open_full", "open_partial", "closed"}

\* While the position is open its quantity is what the booked fills leave.
QuantityIsWhatIsLeft ==
  lifecycle # "closed" =>
    quantity = Cardinality(Contracts) - Cardinality(booked)

\* The position counts as closed exactly when no contract is left.
ClosedWhenEmpty ==
  Contracts # {} => (lifecycle = "closed" <=> quantity = 0)

\* No fill is ever taken back.
BookedForGood == [][booked \subseteq booked']_booked
=============================================================================
