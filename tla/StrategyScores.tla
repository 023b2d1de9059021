--------------------------- MODULE StrategyScores ---------------------------
(***************************************************************************)
(* How a strategy is chosen for a symbol: the market report                *)
(* (market_data/analysis.py, indicators.py, earnings.py, dividends.py),    *)
(* the score each strategy of services/strategies gives it, the selector's *)
(* automatic, forced and top-suggestion modes, and the daily Senex Trident *)
(* run.                                                                    *)
(*                                                                         *)
(* A market is what the analysis fetches.  Rates are whole percents, the   *)
(* ratio of historical to implied volatility is in percent, the last close *)
(* and the live quote are their sides of the 20 day average, and scores    *)
(* and the stress level are in tenths of a point, which represents every   *)
(* score exactly.                                                          *)
(***************************************************************************)
EXTENDS Integers, Sequences, FiniteSets, SequencesExt

CONSTANTS
    Markets,   \* the markets to analyse
    Count,     \* how many suggestions the top mode asks for
    None

VARIABLES
    market,    \* what was fetched for the symbol
    report,    \* the MarketConditionReport
    scores,    \* the score of each strategy
    pick,      \* the strategies a mode generates from
    mode       \* the mode that ran

vars == <<market, report, scores, pick, mode>>

-----------------------------------------------------------------------------
(* Tables of points: the first row whose bound x is below (above) counts.  *)

FirstBelow(x, rows, other) ==
    LET i == SelectInSeq(rows, LAMBDA r : x < r[1]) IN IF i = 0 THEN other ELSE rows[i][2]

FirstAbove(x, rows, other) ==
    LET i == SelectInSeq(rows, LAMBDA r : x > r[1]) IN IF i = 0 THEN other ELSE rows[i][2]

Points(key, table) == IF key \in DOMAIN table THEN table[key] ELSE 0

\* An indicator that may be missing adds nothing when it is.
IfKnown(x, points) == IF x = None THEN 0 ELSE points

AtLeast0(s) == IF s < 0 THEN 0 ELSE s
UpTo(limit, s) == IF s > limit THEN limit ELSE s
Clamp(s) == UpTo(1000, AtLeast0(s))

-----------------------------------------------------------------------------
(* The report                                                              *)

\* Signals of the last close, MACD histogram and the move in its direction, in tenths,
\* weighted by the strength of the trend.
Direction(x) ==
    LET adx == IF x.adx = None THEN 0 ELSE x.adx
        close == IF x.close > 0 THEN 1 ELSE -1
        momentum == IF x.move > 3 THEN x.close ELSE 0
        weights == IF adx > 25 THEN <<6, 2>> ELSE IF adx > 15 THEN <<4, 4>> ELSE <<3, 5>>
        total == close * weights[1] + x.hist * weights[2] + momentum * 2
        base == IF total > 6 /\ adx > 25 THEN "strong_bullish" ELSE
                IF total > 3 THEN "bullish" ELSE
                IF total < -6 /\ adx > 25 THEN "strong_bearish" ELSE
                IF total < -3 THEN "bearish" ELSE "neutral"
    IN IF adx < 25 /\ base = "bullish" /\ x.rsi > 70 /\ x.band = "above_upper"
         THEN "bullish_exhausted"
       ELSE IF adx < 25 /\ base = "bearish" /\ x.rsi < 30 /\ x.band = "below_lower"
         THEN "bearish_exhausted"
       ELSE base

\* _calculate_market_stress_level: implied volatility, the move, broken levels.
Stress(x) ==
    UpTo(1000,
        FirstAbove(x.iv, << <<70, 4 * x.iv>>, <<50, 2 * x.iv>> >>, 0)
      + FirstAbove(x.move, << <<5, 30 * UpTo(10, x.move)>>, <<3, 150>> >>, 0)
      + (IF x.broken THEN 150 ELSE 0))

Regime(stress, iv, adx, macd) ==
    CASE stress >= 800 -> "crisis"
      [] stress < 800 /\ iv >= 75 -> "high_vol"
      [] stress < 800 /\ iv < 75 /\ adx # None /\ adx > 30 /\ macd \in {"bullish", "strong_bullish"} -> "bull"
      [] stress < 800 /\ iv < 75 /\ adx # None /\ adx > 30 /\ macd \in {"bearish", "strong_bearish"} -> "bear"
      [] OTHER -> "none"

\* The age of the quote in minutes, None for no quote or a time that cannot be read.  A
\* quote that comes without a time passes for fresh, as one of age 0 does.
Stale(x) == x.age = None \/ x.age > 5

\* An event of today is not "upcoming" for either calendar.
Upcoming(days) == days # None /\ days > 0

EarningsNear(x) == Upcoming(x.earnings) /\ x.earnings <= 7

\* The nearer of the ex-dividend date and the next dividend date.
DividendNear(x) == \E days \in {x.exDiv, x.nextDiv} : Upcoming(days) /\ days <= 5

HardStop(x) == Stale(x) \/ EarningsNear(x) \/ DividendNear(x)

\* Without enough price history every indicator has its default.
Known(x) ==
    IF x.data THEN x
    ELSE [x EXCEPT !.adx = None, !.rsi = 50, !.close = 1, !.hist = 0, !.move = 0,
                   !.band = "within_bands", !.broken = FALSE, !.hvIv = 100]

\* a_analyze_market_conditions.  The selector passes no snapshot, so a market
\* is never range bound.
Report(fetched) ==
    LET x == Known(fetched)
        macd == IF x.data THEN Direction(x) ELSE "neutral"
    IN [canTrade |-> ~HardStop(x), data |-> x.data, iv |-> x.iv, hvIv |-> x.hvIv,
        adx |-> x.adx, rsi |-> x.rsi, live |-> x.live, move |-> x.move, band |-> x.band,
        macd |-> macd, stress |-> Stress(x), shares |-> x.shares,
        regime |-> Regime(Stress(x), x.iv, x.adx, macd)]

-----------------------------------------------------------------------------
(* Vertical spreads                                                        *)

\* RSI as every credit vertical reads it.
RsiLevels(r) ==
    IF r.rsi > 60 THEN FirstAbove(r.rsi, << <<70, -15>> >>, -5)
    ELSE IF r.rsi < 40 THEN FirstBelow(r.rsi, << <<30, -15>> >>, -5)
    ELSE IF r.rsi \in 45 .. 55 THEN 5 ELSE 0

MinCreditIv == 35

\* The regime, volatility, direction, extremes and stress for one direction.
CreditAdjust(bull, r) ==
    LET sign == IF bull THEN 1 ELSE -1 IN
      10 * ( (CASE r.regime = "bull" -> 30 * sign [] r.regime = "bear" -> -30 * sign [] OTHER -> 15)
           + Points(r.macd, [bullish |-> 10 * sign, bearish |-> -10 * sign])
           + (IF r.rsi > 70 THEN IF bull THEN -15 ELSE 5
              ELSE IF r.rsi < 30 THEN IF bull THEN 5 ELSE -15 ELSE 0)
           + (IF r.stress < 200 THEN 10 ELSE FirstAbove(r.stress, << <<600, -20>>, <<400, -10>> >>, 0)))
      + (IF r.iv >= 70 THEN 200
         ELSE IF r.iv >= MinCreditIv THEN 5 * (r.iv - MinCreditIv) ELSE -20 * (MinCreditIv - r.iv))

CreditVertical(bull, r) ==
    IF ~r.canTrade \/ ~r.data THEN 0
    ELSE Clamp(500 + CreditAdjust(bull, r) + 10 * RsiLevels(r)
               + (IF r.iv >= MinCreditIv THEN UpTo(200, 3 * (r.iv - MinCreditIv))
                  ELSE 10 * FirstBelow(MinCreditIv - r.iv, << <<6, -5>>, <<11, -10>> >>, -15)))

Bulls == {"bullish", "strong_bullish"}
Bears == {"bearish", "strong_bearish"}

\* Volatility is cheap or fair for a buyer of premium.
DebitIv(r) ==
    (IF r.iv \in 30 .. 50 THEN 25
     ELSE FirstAbove(r.iv, << <<60, -25>>, <<50, 10>>, <<9, 15>> >>, -15))
  + (IF r.hvIv < 80 THEN -15 ELSE FirstAbove(r.hvIv, << <<130, 20>>, <<115, 15>>, <<100, 10>> >>, 0))

DebitTrend(bull, r) ==
    LET aligned == r.macd \in (IF bull THEN Bulls ELSE Bears) IN
      IfKnown(r.adx, IF r.adx < 20 THEN -20
                     ELSE IF aligned THEN FirstAbove(r.adx, << <<30, 20>> >>, 12) ELSE 0)

\* Mutant: both directions read the signal as the bullish one does.
DebitAdjustUnmirrored(bull, r) ==
    Points(r.macd, [strong_bullish |-> 35, bullish |-> 30, bullish_exhausted |-> -20,
                    neutral |-> 5, bearish_exhausted |-> -10, bearish |-> -40,
                    strong_bearish |-> -50])
    + (IF r.live > 0 THEN 15 ELSE -20)

DebitAdjust(bull, r) ==
    IF bull
    THEN Points(r.macd, [strong_bullish |-> 35, bullish |-> 30, bullish_exhausted |-> -20,
                         neutral |-> 5, bearish_exhausted |-> -10, bearish |-> -40,
                         strong_bearish |-> -50])
       + (IF r.live > 0 THEN 15 ELSE -20)
       + Points(r.band, [below_lower |-> 5, above_upper |-> -5, within_bands |-> 3])
    ELSE Points(r.macd, [strong_bearish |-> 35, bearish |-> 30, bearish_exhausted |-> -20,
                         neutral |-> 5, bullish_exhausted |-> -10, bullish |-> -40,
                         strong_bullish |-> -50])
       + (IF r.live < 0 THEN 20 ELSE -25)
       + Points(r.band, [above_upper |-> 10, below_lower |-> 5, within_bands |-> 5])
       + (IF r.stress > 500 THEN 10 ELSE IF r.stress < 250 THEN -5 ELSE 0)

DebitRisk(r) == FirstBelow(r.stress, << <<400, 10>>, <<601, 3>>, <<701, 0>> >>, -15)

DebitVertical(bull, r) ==
    IF ~r.canTrade \/ ~r.data THEN 0
    ELSE Clamp(500 + 10 * (DebitIv(r) + DebitTrend(bull, r) + DebitAdjust(bull, r) + DebitRisk(r)))

-----------------------------------------------------------------------------
(* Volatility strategies.  None of these looks at the hard stops, and none *)
(* but the covered call and the cash secured put stops at 100.             *)

\* Neutral, plain and strong directions; and the position in the bands.
Signal(r, neutral, plain, strong) ==
    Points(r.macd, [neutral |-> neutral, bullish |-> plain, bearish |-> plain,
                    strong_bullish |-> strong, strong_bearish |-> strong])
Bands(r, within, outside) == IF r.band = "within_bands" THEN within ELSE outside

\* Low stress and high stress, in points and bounds of whole points.
Calm(r, low, lowPoints, high, highPoints) ==
    IF r.stress < 10 * low THEN lowPoints ELSE IF r.stress > 10 * high THEN highPoints ELSE 0

ShortCondor(r) ==
    10 * (50 + FirstAbove(r.iv, << <<70, 30>>, <<60, 20>>, <<45, 10>>, <<35, -10>> >>, -20)
             + IfKnown(r.adx, FirstBelow(r.adx, << <<20, 25>>, <<25, 15>>, <<30, 5>>, <<35, -15>> >>, -25))
             + FirstBelow(r.hvIv, << <<80, 20>>, <<90, 12>>, <<100, 5>>, <<120, -5>> >>, -15)
             + Signal(r, 15, 5, -10) + Bands(r, 10, -8) + Calm(r, 35, 5, 60, -10))

LongCondor(r) ==
    IF r.iv > 50 THEN 0
    ELSE 10 * (50 + FirstBelow(r.iv, << <<20, 35>>, <<30, 25>>, <<40, 15>> >>, -15)
             + IfKnown(r.adx, FirstBelow(r.adx, << <<20, 25>>, <<25, 15>>, <<30, 5>>, <<35, -20>> >>, -30))
             + FirstBelow(r.hvIv, << <<80, 20>>, <<100, 10>>, <<130, -5>> >>, -10)
             + Signal(r, 15, 5, -20) + Bands(r, 10, -5) + Calm(r, 35, 10, 60, -15)
             + FirstBelow(r.move, << <<3, 5>>, <<6, 0>> >>, -10))

Butterfly(r) ==
    10 * (40 + FirstAbove(r.iv, << <<75, 35>>, <<74, 25>>, <<59, 10>>, <<49, -10>> >>, -35)
             + IfKnown(r.adx, FirstBelow(r.adx, << <<12, 50>>, <<15, 35>>, <<18, 15>>, <<22, -10>> >>, -30))
             + FirstBelow(r.hvIv, << <<60, 15>>, <<70, 10>>, <<80, 5>>, <<100, 0>> >>, -15)
             + Points(r.macd, [neutral |-> 20, bullish_exhausted |-> 8, bearish_exhausted |-> 8,
                               strong_bullish |-> -15, strong_bearish |-> -15])
             + Bands(r, 8, -10) + Calm(r, 30, 7, 70, -12))

LongStraddle(r) ==
    10 * (50 + FirstBelow(r.iv, << <<20, 30>>, <<30, 20>>, <<40, 10>>, <<50, 0>>, <<60, -15>> >>, -30)
             + FirstAbove(r.hvIv, << <<140, 25>>, <<120, 15>>, <<100, 5>>, <<90, -5>> >>, -20)
             + IfKnown(r.adx, FirstAbove(r.adx, << <<35, 20>>, <<25, 15>>, <<20, 10>>, <<15, 0>> >>, -10))
             + Signal(r, 8, 10, 15) + Bands(r, 10, 5) + Calm(r, 20, -5, 60, 5))

LongStrangle(r) ==
    10 * (50 + FirstBelow(r.iv, << <<20, 35>>, <<25, 25>>, <<30, 15>>, <<40, 5>>, <<50, -10>> >>, -35)
             + FirstAbove(r.hvIv, << <<150, 25>>, <<130, 18>>, <<110, 10>>, <<100, 0>>, <<90, -10>> >>, -25)
             + IfKnown(r.adx, FirstAbove(r.adx, << <<40, 25>>, <<30, 20>>, <<25, 12>>, <<20, 5>>, <<15, -5>> >>, -15))
             + Signal(r, 8, 10, 15) + Bands(r, 5, 3)
             + FirstAbove(r.stress, << <<700, 8>>, <<600, 5>>, <<199, 0>> >>, -8))

\* Short straddles and strangles are scored alike.
ShortVolatility(r) ==
    10 * (50 + FirstAbove(r.iv, << <<70, 30>>, <<60, 20>>, <<50, 10>>, <<40, -10>> >>, -25)
             + FirstBelow(r.hvIv, << <<80, 20>>, <<90, 12>>, <<100, 5>>, <<110, -5>> >>, -15)
             + IfKnown(r.adx, FirstBelow(r.adx, << <<20, 25>>, <<25, 15>>, <<30, 5>>, <<35, -10>> >>, -25))
             + Signal(r, 15, 5, -15) + Bands(r, 10, -8) + Calm(r, 30, 5, 60, -10))

ShortStrangle(r) == ShortVolatility(r)

\* A backspread scores nothing without its direction.  The move is absolute,
\* so the ranges of the put side, which are negative, are never met.
Backspread(bull, r) ==
    LET strong == IF bull THEN "strong_bullish" ELSE "strong_bearish"
        plain == IF bull THEN "bullish" ELSE "bearish"
    IN IF r.macd \notin {strong, plain} THEN 0
       ELSE 10 * ((IF r.macd = strong THEN 60 ELSE 55)
             + IfKnown(r.adx, FirstAbove(r.adx, << <<35, 25>>, <<24, 20>>, <<20, 10>> >>, -20))
             + FirstBelow(r.iv, << <<25, 30>>, <<30, 25>>, <<40, 15>>, <<50, 5>>, <<61, -15>> >>, -20)
             + FirstAbove(r.hvIv, << <<130, 15>>, <<119, 12>>, <<100, 7>> >>, -10)
             + (IF ~bull THEN 0 ELSE FirstBelow(r.move, << <<3, 0>>, <<5, 5>>, <<11, 0>> >>, -10))
             + Calm(r, 40, 5, 70, -10))

PutBackspread(r) == Backspread(FALSE, r)

\* Call and put calendars are scored alike.
CalendarIv(r) == FirstBelow(r.iv, << <<25, 35>>, <<30, 25>>, <<40, 15>>, <<50, 0>>, <<60, -20>> >>, -35)
CalendarTrend(r) ==
    IfKnown(r.adx, FirstBelow(r.adx, << <<15, 25>>, <<20, 20>>, <<25, 10>>, <<30, -10>> >>, -25))
CalendarExpansion(r) == FirstAbove(r.hvIv, << <<130, 20>>, <<110, 15>>, <<100, 5>>, <<90, 0>> >>, -10)
Calendar(r) == 10 * (57 + CalendarIv(r) + CalendarTrend(r) + CalendarExpansion(r))

\* The trend of a cash secured put counts against it only when bearish.
SecuredTrend(r) ==
    IF r.adx < 20 THEN 20
    ELSE IF r.adx < 25 /\ r.macd \in Bulls \cup {"neutral", "bullish_exhausted"} THEN 16
    ELSE IF r.adx < 30 /\ r.macd \in Bulls THEN 12
    ELSE IF r.macd \in Bears THEN IF r.adx > 40 THEN -40 ELSE -20 ELSE 0

SecuredPut(r) ==
    10 * (50 + FirstAbove(r.iv, << <<70, 30>>, <<59, 24>>, <<49, 15>> >>, -30)
             + IfKnown(r.adx, SecuredTrend(r))
             + (IF r.hvIv < 80 THEN -10
                ELSE FirstAbove(r.hvIv, << <<130, 20>>, <<115, 16>>, <<100, 12>> >>, 0))
             + FirstAbove(r.iv, << <<83, 15>>, <<66, 12>>, <<50, 8>> >>, 4)
             + Points(r.macd, [bullish |-> 20, strong_bullish |-> 15, bullish_exhausted |-> 15,
                               neutral |-> 10, bearish_exhausted |-> 5, bearish |-> -15,
                               strong_bearish |-> -25])
             + Points(r.band, [below_lower |-> 5, above_upper |-> -3]) + Calm(r, 40, 5, 60, -8))

CoveredCall(r) ==
    IF ~r.shares THEN 150
    ELSE 10 * (50 + (IF r.iv \in 40 .. 70 THEN 25 ELSE FirstAbove(r.iv, << <<50, 20>>, <<24, 10>> >>, -15))
             + Points(r.macd, [neutral |-> 20, bearish_exhausted |-> 15, bullish |-> 10,
                               bullish_exhausted |-> 5, strong_bullish |-> -15, bearish |-> -10,
                               strong_bearish |-> -20])
             + IfKnown(r.adx, FirstBelow(r.adx, << <<20, 10>>, <<31, 0>> >>, -10))
             + Calm(r, 40, 8, 60, -8))

\* The Senex Trident, which the selector leaves out.
Trident(r) ==
    IF ~r.canTrade \/ ~r.data THEN 0
    ELSE AtLeast0(
        10 * (50 + IfKnown(r.adx, FirstAbove(r.adx, << <<30, -20>>, <<19, 0>> >>, 10))
             + FirstBelow(r.hvIv, << <<80, 15>>, <<121, 0>> >>, -8)
             + Points(r.macd, [neutral |-> 15, bearish_exhausted |-> 12, bullish_exhausted |-> 10,
                               bearish |-> 8, bullish |-> 5, strong_bullish |-> -5])
             + Calm(r, 30, 10, 70, -15) + Bands(r, 5, -5)
             + (IF r.rsi > 60 THEN FirstAbove(r.rsi, << <<70, -15>> >>, -5)
                ELSE IF r.rsi < 40 THEN FirstBelow(r.rsi, << <<30, -15>> >>, -5)
                ELSE IF r.rsi \in 45 .. 55 THEN 10 ELSE 0))
      + (IF r.iv >= 25 THEN UpTo(300, 5 * (r.iv - 25)) ELSE -8 * (25 - r.iv)))

-----------------------------------------------------------------------------
(* The selector                                                            *)

\* strategy_priority, then the strategies it leaves out in registry order.
Ranking == <<"short_put_vertical", "short_call_vertical", "cash_secured_put",
             "long_call_vertical", "long_put_vertical", "short_iron_condor",
             "long_iron_condor", "long_straddle", "long_strangle", "iron_butterfly",
             "long_call_ratio_backspread", "call_calendar", "put_calendar", "covered_call",
             "short_straddle", "short_strangle", "long_put_ratio_backspread">>

Strategies == {Ranking[i] : i \in DOMAIN Ranking}

Scores(r) ==
    [short_put_vertical |-> CreditVertical(TRUE, r), short_call_vertical |-> CreditVertical(FALSE, r),
     long_call_vertical |-> DebitVertical(TRUE, r), long_put_vertical |-> DebitVertical(FALSE, r),
     cash_secured_put |-> Clamp(SecuredPut(r)), covered_call |-> Clamp(CoveredCall(r)),
     short_iron_condor |-> AtLeast0(ShortCondor(r)), long_iron_condor |-> AtLeast0(LongCondor(r)),
     iron_butterfly |-> AtLeast0(Butterfly(r)),
     long_straddle |-> AtLeast0(LongStraddle(r)), long_strangle |-> AtLeast0(LongStrangle(r)),
     short_straddle |-> AtLeast0(ShortVolatility(r)), short_strangle |-> AtLeast0(ShortStrangle(r)),
     long_call_ratio_backspread |-> AtLeast0(Backspread(TRUE, r)),
     long_put_ratio_backspread |-> AtLeast0(PutBackspread(r)),
     call_calendar |-> AtLeast0(Calendar(r)), put_calendar |-> AtLeast0(Calendar(r))]

MinAutoScore == 300

\* The n best of the eligible strategies, the order of priority breaking ties.
Best(points, n) ==
    LET eligible == {s \in Strategies : points[s] >= MinAutoScore}
        place(s) == CHOOSE i \in DOMAIN Ranking : Ranking[i] = s
        before(s, t) == points[s] > points[t] \/ (points[s] = points[t] /\ place(s) < place(t))
    IN {s \in eligible : Cardinality({t \in eligible : before(t, s)}) < n}

\* Strategies that can turn a pick into a suggestion, and from which score.
Prepares == Strategies \ {"long_straddle", "short_straddle", "long_strangle", "short_strangle",
                          "call_calendar", "put_calendar", "covered_call"}

MinScore(s) == IF s \in {"long_iron_condor", "iron_butterfly", "senex_trident"} THEN 400 ELSE 350

CanGenerate(s) == s \in Prepares /\ scores[s] >= MinScore(s)

-----------------------------------------------------------------------------

Init ==
    /\ market \in Markets
    /\ report = None /\ scores = None /\ pick = {} /\ mode = "none"

Analyze ==
    /\ report = None
    /\ report' = Report(market)
    /\ scores' = Scores(report')
    /\ UNCHANGED <<market, pick, mode>>

\* _generate_auto: the best of all, when its score suffices.
Auto ==
    /\ report # None /\ mode = "none"
    /\ mode' = "auto"
    /\ pick' = IF report.canTrade THEN Best(scores, 1) ELSE {}
    /\ UNCHANGED <<market, report, scores>>

\* a_select_top_suggestions, for the daily mail.
Top ==
    /\ report # None /\ mode = "none"
    /\ mode' = "top"
    /\ pick' = IF report.canTrade THEN {s \in Best(scores, Count) : CanGenerate(s)} ELSE {}
    /\ UNCHANGED <<market, report, scores>>

\* The automated cycle and the Trident page ask the Trident itself.
AskTrident ==
    /\ report # None /\ mode = "none"
    /\ mode' = "trident"
    /\ pick' = IF Trident(report) >= MinScore("senex_trident") THEN {"senex_trident"} ELSE {}
    /\ UNCHANGED <<market, report, scores>>

\* _generate_forced: what the user names, whatever its score.
Forced(s) ==
    /\ report # None /\ mode = "none"
    /\ mode' = "forced"
    /\ pick' = IF s \in Prepares THEN {s} ELSE {}
    /\ UNCHANGED <<market, report, scores>>

Next == Analyze \/ Auto \/ Top \/ AskTrident \/ \E s \in Strategies : Forced(s)

Spec == Init /\ [][Next]_vars
-----------------------------------------------------------------------------

TypeOK ==
    /\ market \in Markets
    /\ mode \in {"none", "auto", "top", "trident", "forced"}
    /\ pick \subseteq Strategies \cup {"senex_trident"} /\ Cardinality(pick) <= Count
    /\ report # None =>
          /\ report.stress \in 0 .. 1000
          /\ \A s \in Strategies : scores[s] >= 0

\* Nothing is suggested, unless the user names the strategy, on data that is
\* stale, within seven days before earnings or five before a dividend: most
\* strategies do not look at these stops themselves (analysis.py:303,
\* selector.py:142, 573, senex_trident_strategy.py:84).
HardStopsHold ==
    mode \in {"auto", "top", "trident"} /\ pick # {} =>
        /\ market.age \in 0 .. 5
        /\ market.earnings = None \/ market.earnings \notin 1 .. 7
        /\ \A days \in {market.exDiv, market.nextDiv} : days = None \/ days \notin 1 .. 5

Rising == {"short_put_vertical", "long_call_vertical", "long_call_ratio_backspread",
           "cash_secured_put", "covered_call"}
Falling == {"short_call_vertical", "long_put_vertical", "long_put_ratio_backspread"}

\* However the seventeen scores and the tie-break combine, in a bull regime the
\* automatic pick never needs a fall, and of the mailed suggestions one does only when
\* the live quote is not above the average that the last close was above.  In a bear
\* regime the automatic pick needs no rise, unless it is the cash-secured put, which
\* volatility pays for (selector.py:167, 620; debit_spread_strategy.py:137, 156;
\* cash_secured_put_strategy.py:140).
WithTheTrend ==
    /\ mode \in {"auto", "top"} /\ report.regime = "bull" /\ pick \cap Falling # {} =>
          mode = "top" /\ report.live < 1
    /\ mode = "auto" /\ report.regime = "bear" => pick \cap Rising \subseteq {"cash_secured_put"}

Sellers == {"short_put_vertical", "short_call_vertical", "cash_secured_put", "short_iron_condor",
            "iron_butterfly", "short_straddle", "short_strangle"}
Buyers == {"long_iron_condor", "call_calendar", "put_calendar", "long_call_ratio_backspread"}

\* The automatic mode sells premium only where implied volatility has some
\* rank and buys these positions only where it is not high: with all the other
\* indicators in favour, no score makes up for the wrong side of volatility.
PremiumFits ==
    mode = "auto" =>
        /\ pick \cap Sellers # {} => market.iv > 30
        /\ pick \cap Buyers # {} => market.iv < 50

\* The report with rise and fall exchanged.
Mirror(r) ==
    LET other == [bull |-> "bear", bear |-> "bull"]
        turned == [bullish |-> "bearish", bearish |-> "bullish",
                   strong_bullish |-> "strong_bearish", strong_bearish |-> "strong_bullish",
                   bullish_exhausted |-> "bearish_exhausted", bearish_exhausted |-> "bullish_exhausted",
                   neutral |-> "neutral"]
    IN [r EXCEPT !.rsi = 100 - @, !.macd = turned[@], !.live = -@,
                 !.regime = IF @ \in DOMAIN other THEN other[@] ELSE @]

\* The two credit verticals are mirror images of each other: exchanging rise
\* and fall in the whole report exchanges their scores, extremes and clamping
\* included (credit_spread_strategy.py:63, credit_spread_base.py:187, 235).
MirrorImage ==
    report # None => scores.short_put_vertical = CreditVertical(FALSE, Mirror(report))

\* What the automatic mode picks can be generated: selector.py:124 says "Pick
\* highest scoring" and then "Generate suggestion".
AutoPickCanBeGenerated == mode = "auto" => \A s \in pick : CanGenerate(s)

\* Neither mode suggests what needs a rise in a bear regime: the cash-secured put is
\* for a "Neutral to bullish outlook" (cash_secured_put_strategy.py:6).
NoRiseInBearRegime ==
    mode \in {"auto", "top"} /\ report.regime = "bear" => pick \cap Rising = {}

=============================================================================
