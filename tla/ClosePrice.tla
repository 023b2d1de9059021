------------------------------ MODULE ClosePrice ------------------------------
(***************************************************************************)
(* The limit of the order that closes a position near its expiration:      *)
(* _determine_close_parameters of services/positions/lifecycle/            *)
(* dte_manager.py.  Amounts are cents per share; between its inputs and    *)
(* the final rounding the price is in hundredths of a cent, so percentages *)
(* are exact.                                                              *)
(***************************************************************************)
EXTENDS Integers

AtLeast(bound, x) == IF x < bound THEN bound ELSE x

\* The row's own spread_width is None for positions that the app opened.
WidthOf(strikes) ==
    IF {"short_put", "long_put"} \subseteq DOMAIN strikes
    THEN strikes["short_put"] - strikes["long_put"]
    ELSE IF {"short_call", "long_call"} \subseteq DOMAIN strikes
         THEN strikes["long_call"] - strikes["short_call"] ELSE 300

\* Mutant: the shares of the fifth and the sixth day are swapped.
LossShareSwapped(d) ==
    CASE d <= 3 -> 100 [] d = 4 -> 90 [] d = 5 -> 70 [] d = 6 -> 80 [] OTHER -> 0

\* The percentage of the greatest loss that is accepted d days before expiration.
LossShare(d) ==
    CASE d <= 3 -> 100 [] d = 4 -> 90 [] d = 5 -> 80 [] d = 6 -> 70 [] OTHER -> 0

\* A credit spread is bought back for its credit and a share of the rest of its width.
CreditLimit(entry, width, d) ==
    AtLeast(1000, 100 * entry + LossShare(d) * (width - entry))

\* A debit spread is sold for what is left of its price.
DebitLimit(entry, d) == AtLeast(0, 100 * entry - LossShare(d) * entry)

\* A tenth above the dearest of the profit targets that the run has just cancelled.
AboveTargets(cancelled, limit) ==
    IF \A price \in cancelled : 110 * price <= limit THEN limit
    ELSE 110 * (CHOOSE price \in cancelled : \A other \in cancelled : other <= price)

\* quantize rounds a half to the even cent.
Cents(x) ==
    LET q == x \div 100
        r == x % 100
    IN IF r < 50 \/ (r = 50 /\ q % 2 = 0) THEN q ELSE q + 1

CloseLimit(credit, entry, width, d, cancelled) ==
    Cents(IF credit THEN AboveTargets(cancelled, CreditLimit(entry, width, d))
                    ELSE DebitLimit(entry, d))

=============================================================================
