------------------------------ MODULE SideBySide ------------------------------
(***************************************************************************)
(* Four parts of the suggestion side that share no state in the code, one  *)
(* of which runs per behaviour: the others keep their first values.  Those *)
(* of BrokerLink keep their names.                                         *)
(***************************************************************************)
EXTENDS Sequences, BrokerLink

CONSTANTS
    Markets, Count,                          \* StrategyScores
    Requests, Quotes, Custom,                \* SpreadOrders
    Start, Horizon, Outages, Holidays        \* PriceHistory

VARIABLES
    part,                                                    \* the part that runs
    market, report, scores, pick, mode,                      \* StrategyScores
    request, prepared, suggestion, order, targets, stage,    \* SpreadOrders
    today, evening, rows, partial, fetched                   \* PriceHistory

-----------------------------------------------------------------------------
Scores == INSTANCE StrategyScores
Spreads == INSTANCE SpreadOrders
Closing == INSTANCE ClosePrice
Prices == INSTANCE PriceHistory

\* What the analysis fetches.
Fetchable ==
    LET Days == Nat \cup {None}
    IN [age : Days, earnings : Days, exDiv : Days, nextDiv : Days, data : BOOLEAN,
        iv : Nat, hvIv : Nat, rsi : 0..100, close : -1..1, live : -1..1, hist : -1..1,
        band : {"within_bands", "above_upper", "below_lower"}, adx : Days, move : Nat,
        broken : BOOLEAN, shares : BOOLEAN]

\* Markets are what can be fetched, and at most three suggestions are asked for.  What
\* is requested, what the chains list and what the broker quotes are whole cents that
\* are not negative, and nobody bids more than is asked.
ASSUME MarketAssumption ==
    /\ None \notin Nat
    /\ Markets \subseteq Fetchable /\ Count \in 1..3
    /\ \A r \in Requests :
          /\ r.strategy \in Spreads!Strategies
          /\ r.price \in Nat /\ {r.support, r.resistance, r.capital} \subseteq Nat \cup {None}
          /\ r.manual \in (Nat \ {0}) \cup {None}
          /\ r.chains \subseteq [dte : Nat, puts : SUBSET Nat, calls : SUBSET Nat]
    /\ \A q \in Quotes : \A l \in Spreads!PutLegs \cup Spreads!CallLegs :
          q[l] # None => q[l] \in [bid : Nat, ask : Nat] /\ q[l].bid <= q[l].ask
    /\ Custom \subseteq Nat

\* Holidays are the closed weekdays of a calendar: no more than five in 47 days and six
\* in ninety, as when the exchange was closed in September 2001.
ASSUME CalendarAssumption ==
    /\ Start \in Int /\ Horizon \in Int /\ Start <= Horizon /\ Outages \subseteq Nat
    /\ IsFiniteSet(Holidays) /\ \A h \in Holidays : h \in Int /\ h % 7 \notin {5, 6}
    /\ \A d \in Start - 200 .. Horizon :
          /\ Cardinality(Holidays \cap d .. d + 46) <= 5
          /\ Cardinality(Holidays \cap d .. d + 89) <= 6

scoresVars == <<market, report, scores, pick, mode>>
spreadsVars == <<request, prepared, suggestion, order, targets, stage>>
pricesVars == <<today, evening, rows, partial, fetched>>

allVars == <<part, scoresVars, spreadsVars, vars, pricesVars>>

InitOfOne ==
    /\ part \in {"scores", "spreads", "prices", "link"}
    /\ IF part = "scores" THEN Scores!Init
       ELSE market = None /\ report = None /\ scores = None /\ pick = {} /\ mode = "none"
    /\ IF part = "spreads" THEN Spreads!Init
       ELSE /\ request = None /\ prepared = None /\ suggestion = None
            /\ order = None /\ targets = {} /\ stage = "idle"
    /\ Prices!Init
    /\ IF part = "link" THEN Init
       ELSE /\ accounts = [r \in Rows |-> None]
            /\ web = [v \in Views |-> Waiting] /\ attempts = [w \in Workers |-> None]
            /\ granted = 0 /\ revoked = {}

NextOfOne ==
    /\ UNCHANGED part
    /\ \/ part = "scores" /\ Scores!Next
          /\ UNCHANGED <<spreadsVars, vars, pricesVars>>
       \/ part = "spreads" /\ Spreads!Next
          /\ UNCHANGED <<scoresVars, vars, pricesVars>>
       \/ part = "prices" /\ Prices!Next
          /\ UNCHANGED <<scoresVars, spreadsVars, vars>>
       \/ part = "link" /\ Next
          /\ UNCHANGED <<scoresVars, spreadsVars, pricesVars>>

SpecOfOne == InitOfOne /\ [][NextOfOne]_allVars

-----------------------------------------------------------------------------
(* The properties of the parts.                                             *)

TypesOK ==
    /\ part = "scores" => Scores!TypeOK
    /\ part = "spreads" => Spreads!TypeOK
    /\ TypeOK /\ Prices!TypeOK

\* No suggestion on stale data or before earnings and dividends; what is picked fits
\* the trend and the price of volatility, and the credit spreads are mirror images
\* (StrategyScores, selector.py:142, 167).
PicksFit ==
    part = "scores" =>
        Scores!HardStopsHold /\ Scores!WithTheTrend /\ Scores!PremiumFits /\ Scores!MirrorImage

\* The legs keep their order and the risk told to the budget is the most the
\* position can lose (SpreadOrders, expiration_utils.py:126).
WithinRisk == part = "spreads" => Spreads!StrikesOrdered /\ Spreads!WithinRisk

\* The Trident's targets close what its order opened, at a profit
\* (SpreadOrders, senex_trident_strategy.py:830).
TargetsUndoTheOrder == part = "spreads" => Spreads!TargetsUndoTheOrder

\* Day by day the order that closes a Trident near expiration offers more, whichever
\* targets the first run cancelled for it, as long as the position opened at the
\* suggestion's price and for no more than its width, and the call spread was not
\* quoted for less than nothing (ClosePrice, dte_manager.py:394).
ClosingRises ==
    LET entry == order.credit
        width == Closing!WidthOf(suggestion.strikes)
        Limit(d, gone) == Closing!CloseLimit(TRUE, entry, width, d, gone)
    IN part = "spreads" /\ stage = "targeted" =>
         (entry = suggestion.mid /\ suggestion.callMid >= 0 /\ entry <= width =>
            \A d \in 0..8 : \A gone \in SUBSET {t.price : t \in targets} :
               Limit(d + 1, gone) <= Limit(d, {}))

\* Rows that are enough, fresh and without holes answer every reader
\* (PriceHistory, service.py:99).
ReadyForReaders == part = "prices" => Prices!ReadyForReaders

\* Only an absence leaves a hole in the history, and only an absence keeps a bar
\* stored during its session from being corrected (PriceHistory, historical.py:345, 200).
HolesAreOutages == [][part = "prices" => Prices!NoNewHole]_pricesVars
LastBarSettles == [][part = "prices" => Prices!Settles]_pricesVars

-----------------------------------------------------------------------------
(* What does not hold, with the configuration that shows it.                *)

\* ScoresPick.cfg: the best strategy can always be generated (selector.py:124, 209).
AutoPickCanBeGenerated == part = "scores" => Scores!AutoPickCanBeGenerated

\* ScoresTrend.cfg: no suggestion needs a rise in a bear regime
\* (cash_secured_put_strategy.py:6).
NoRiseInBearRegime == part = "scores" => Scores!NoRiseInBearRegime

\* SpreadsOrder.cfg: the order is the one its strategy documents
\* (order_service.py:646).
OrderIsTheStrategy == part = "spreads" => Spreads!OrderIsTheStrategy

=============================================================================
