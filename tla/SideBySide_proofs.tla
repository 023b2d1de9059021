--------------------------- MODULE SideBySide_proofs ---------------------------
(***************************************************************************)
(* What SideBySide runs, part by part. For every market the hard stops      *)
(* hold, what is picked fits the regime and the rank of volatility, since   *)
(* what does not fit is outdone by one of the other strategies, and the     *)
(* credit spreads are mirror images. From the request to the targets: the   *)
(* strikes that are found keep their order, the risk is the greatest loss   *)
(* at any price, the targets undo the order, and the order that closes a    *)
(* Trident offers more every day, for every chain, price and quote. The     *)
(* calendar's sessions are counted, and with them what the readers of       *)
(* prices find and an absence leaves out. And a row with a token is         *)
(* complete, whatever requests save stale copies of it.                     *)
(***************************************************************************)
EXTENDS SideBySide, FiniteSetTheorems, WellFoundedInduction, TLAPS

-----------------------------------------------------------------------------
(* The scores                                                                *)

\* A table of one row.
LEMMA OneRow ==
  ASSUME NEW x, NEW b, NEW p, NEW other
  PROVE  /\ Scores!FirstAbove(x, << <<b, p>> >>, other) = IF x > b THEN p ELSE other
         /\ Scores!FirstBelow(x, << <<b, p>> >>, other) = IF x < b THEN p ELSE other
BY DEF Scores!FirstAbove, Scores!FirstBelow, Scores!SelectInSeq, Scores!Min

\* What the two verticals read of a report.
Readable(r) ==
    /\ r.macd \in {"strong_bullish", "bullish", "bullish_exhausted", "neutral",
                   "bearish_exhausted", "bearish", "strong_bearish"}
    /\ r.regime \in {"crisis", "high_vol", "bull", "bear", "none"}
    /\ r.rsi \in 0..100 /\ r.live \in Int

LEMMA ReportIsReadable ==
  ASSUME NEW x \in Fetchable PROVE Readable(Scores!Report(x))
<1>1. Scores!Known(x).rsi \in 0..100 /\ Scores!Known(x).live \in Int
  BY DEF Fetchable, Scores!Known
<1>2. Scores!Direction(Scores!Known(x)) \in
        {"strong_bullish", "bullish", "bullish_exhausted", "neutral",
         "bearish_exhausted", "bearish", "strong_bearish"}
  BY DEF Scores!Direction
<1>3. \A stress, iv, adx, macd :
        Scores!Regime(stress, iv, adx, macd) \in {"crisis", "high_vol", "bull", "bear", "none"}
  BY DEF Scores!Regime
<1> QED
  BY <1>1, <1>2, <1>3 DEF Readable, Scores!Report

\* The report with rise and fall exchanged differs in four fields.
LEMMA MirrorFields ==
  ASSUME NEW x \in Fetchable, NEW r, r = Scores!Report(x), NEW m, m = Scores!Mirror(r)
  PROVE  /\ m.canTrade = r.canTrade /\ m.data = r.data /\ m.iv = r.iv /\ m.stress = r.stress
         /\ m.rsi = 100 - r.rsi
         /\ r.macd = "bullish" <=> m.macd = "bearish"
         /\ r.macd = "bearish" <=> m.macd = "bullish"
         /\ r.regime = "bull" <=> m.regime = "bear"
         /\ r.regime = "bear" <=> m.regime = "bull"
<1>1. Readable(r)
  BY ReportIsReadable
<1>2. DOMAIN r = {"canTrade", "data", "iv", "hvIv", "adx", "rsi", "live", "move", "band", "macd",
                  "stress", "shares", "regime"}
  BY DEF Scores!Report
<1> QED
  BY <1>1, <1>2 DEF Readable, Scores!Mirror

LEMMA CreditsMirror ==
  ASSUME NEW x \in Fetchable, NEW r, r = Scores!Report(x)
  PROVE  Scores!CreditVertical(TRUE, r) = Scores!CreditVertical(FALSE, Scores!Mirror(r))
<1>1. PICK m : m = Scores!Mirror(r)
  OBVIOUS
<1>2. Readable(r)
  BY ReportIsReadable
<1>3. /\ m.canTrade = r.canTrade /\ m.data = r.data /\ m.iv = r.iv /\ m.stress = r.stress
      /\ m.rsi = 100 - r.rsi
      /\ r.macd = "bullish" <=> m.macd = "bearish"
      /\ r.macd = "bearish" <=> m.macd = "bullish"
      /\ r.regime = "bull" <=> m.regime = "bear"
      /\ r.regime = "bear" <=> m.regime = "bull"
  BY <1>1, MirrorFields
<1>4. Scores!RsiLevels(r) = Scores!RsiLevels(m)
  <2>1. \A z \in 0..100 :
          /\ Scores!FirstAbove(z, << <<70, -15>> >>, -5) = IF z > 70 THEN -15 ELSE -5
          /\ Scores!FirstBelow(z, << <<30, -15>> >>, -5) = IF z < 30 THEN -15 ELSE -5
    BY OneRow
  <2> QED
    BY <1>2, <1>3, <2>1 DEF Readable, Scores!RsiLevels
<1>5. Scores!CreditAdjust(TRUE, r) = Scores!CreditAdjust(FALSE, m)
  <2> DEFINE regime(bull, z) == CASE z.regime = "bull" -> 30 * (IF bull THEN 1 ELSE -1)
                                  [] z.regime = "bear" -> -30 * (IF bull THEN 1 ELSE -1)
                                  [] OTHER -> 15
             signal(bull, z) == Scores!Points(z.macd, [bullish |-> 10 * (IF bull THEN 1 ELSE -1),
                                                       bearish |-> -10 * (IF bull THEN 1 ELSE -1)])
             extreme(bull, z) == IF z.rsi > 70 THEN IF bull THEN -15 ELSE 5
                                 ELSE IF z.rsi < 30 THEN IF bull THEN 5 ELSE -15 ELSE 0
             stress(z) == IF z.stress < 200 THEN 10
                          ELSE Scores!FirstAbove(z.stress, << <<600, -20>>, <<400, -10>> >>, 0)
             volatility(z) == IF z.iv >= 70 THEN 200
                              ELSE IF z.iv >= Scores!MinCreditIv THEN 5 * (z.iv - Scores!MinCreditIv)
                              ELSE -20 * (Scores!MinCreditIv - z.iv)
  <2>1. regime(TRUE, r) = regime(FALSE, m)
    BY <1>2, <1>3 DEF Readable
  <2>2. signal(TRUE, r) = signal(FALSE, m)
    BY <1>3 DEF Scores!Points
  <2>3. extreme(TRUE, r) = extreme(FALSE, m)
    BY <1>2, <1>3 DEF Readable
  <2>4. stress(r) = stress(m) /\ volatility(r) = volatility(m)
    BY <1>3
  <2>5. \A bull \in BOOLEAN : \A z : Scores!CreditAdjust(bull, z) =
          10 * (regime(bull, z) + signal(bull, z) + extreme(bull, z) + stress(z)) + volatility(z)
    BY DEF Scores!CreditAdjust
  <2>6. /\ Scores!CreditAdjust(TRUE, r) =
             10 * (regime(TRUE, r) + signal(TRUE, r) + extreme(TRUE, r) + stress(r)) + volatility(r)
        /\ Scores!CreditAdjust(FALSE, m) =
             10 * (regime(FALSE, m) + signal(FALSE, m) + extreme(FALSE, m) + stress(m)) + volatility(m)
    BY DEF Scores!CreditAdjust
  <2> HIDE DEF regime, signal, extreme, stress, volatility
  <2> QED
    BY <2>1, <2>2, <2>3, <2>4, <2>6
<1>6. Scores!CreditVertical(TRUE, r) = Scores!CreditVertical(FALSE, m)
  <2> DEFINE iv(z) == IF z.iv >= Scores!MinCreditIv
                      THEN Scores!UpTo(200, 3 * (z.iv - Scores!MinCreditIv))
                      ELSE 10 * Scores!FirstBelow(Scores!MinCreditIv - z.iv, << <<6, -5>>, <<11, -10>> >>, -15)
  <2>1. /\ Scores!CreditVertical(TRUE, r) =
             IF ~r.canTrade \/ ~r.data THEN 0
             ELSE Scores!Clamp(500 + Scores!CreditAdjust(TRUE, r) + 10 * Scores!RsiLevels(r) + iv(r))
        /\ Scores!CreditVertical(FALSE, m) =
             IF ~m.canTrade \/ ~m.data THEN 0
             ELSE Scores!Clamp(500 + Scores!CreditAdjust(FALSE, m) + 10 * Scores!RsiLevels(m) + iv(m))
    BY DEF Scores!CreditVertical
  <2>2. iv(r) = iv(m)
    BY <1>3
  <2> HIDE DEF iv
  <2>3. 500 + Scores!CreditAdjust(TRUE, r) + 10 * Scores!RsiLevels(r) + iv(r) =
          500 + Scores!CreditAdjust(FALSE, m) + 10 * Scores!RsiLevels(m) + iv(m)
    BY ONLY <1>4, <1>5, <2>2, Zenon
  <2>4. (~r.canTrade \/ ~r.data) <=> (~m.canTrade \/ ~m.data)
    BY <1>3, Zenon
  <2>5. CASE ~r.canTrade \/ ~r.data
    BY ONLY <2>1, <2>4, <2>5, Zenon
  <2>6. CASE ~(~r.canTrade \/ ~r.data)
    BY ONLY <2>1, <2>3, <2>4, <2>6, Zenon
  <2> QED
    BY <2>5, <2>6, Zenon
<1> QED
  BY <1>1, <1>6

-----------------------------------------------------------------------------
(* The tables of points, row by row.                                         *)

LEMMA ShortCondorRows ==
  ASSUME NEW r
  PROVE  /\ Scores!FirstAbove(r.iv, << <<70, 30>>, <<60, 20>>, <<45, 10>>, <<35, -10>> >>, -20)
           = IF r.iv > 70 THEN 30 ELSE IF r.iv > 60 THEN 20 ELSE IF r.iv > 45 THEN 10
           ELSE IF r.iv > 35 THEN -10 ELSE -20
         /\ Scores!FirstBelow(r.adx, << <<20, 25>>, <<25, 15>>, <<30, 5>>, <<35, -15>> >>, -25)
           = IF r.adx < 20 THEN 25 ELSE IF r.adx < 25 THEN 15 ELSE IF r.adx < 30 THEN 5
           ELSE IF r.adx < 35 THEN -15 ELSE -25
         /\ Scores!FirstBelow(r.hvIv, << <<80, 20>>, <<90, 12>>, <<100, 5>>, <<120, -5>> >>, -15)
           = IF r.hvIv < 80 THEN 20 ELSE IF r.hvIv < 90 THEN 12 ELSE IF r.hvIv < 100 THEN 5
           ELSE IF r.hvIv < 120 THEN -5 ELSE -15
BY DEF Scores!FirstAbove, Scores!FirstBelow, Scores!SelectInSeq, Scores!Min

LEMMA LongCondorRows ==
  ASSUME NEW r
  PROVE  /\ Scores!FirstBelow(r.iv, << <<20, 35>>, <<30, 25>>, <<40, 15>> >>, -15)
           = IF r.iv < 20 THEN 35 ELSE IF r.iv < 30 THEN 25 ELSE IF r.iv < 40 THEN 15 ELSE -15
         /\ Scores!FirstBelow(r.adx, << <<20, 25>>, <<25, 15>>, <<30, 5>>, <<35, -20>> >>, -30)
           = IF r.adx < 20 THEN 25 ELSE IF r.adx < 25 THEN 15 ELSE IF r.adx < 30 THEN 5
           ELSE IF r.adx < 35 THEN -20 ELSE -30
         /\ Scores!FirstBelow(r.hvIv, << <<80, 20>>, <<100, 10>>, <<130, -5>> >>, -10)
           = IF r.hvIv < 80 THEN 20 ELSE IF r.hvIv < 100 THEN 10 ELSE IF r.hvIv < 130 THEN -5 ELSE -10
         /\ Scores!FirstBelow(r.move, << <<3, 5>>, <<6, 0>> >>, -10)
           = IF r.move < 3 THEN 5 ELSE IF r.move < 6 THEN 0 ELSE -10
BY DEF Scores!FirstAbove, Scores!FirstBelow, Scores!SelectInSeq, Scores!Min

LEMMA ButterflyRows ==
  ASSUME NEW r
  PROVE  /\ Scores!FirstAbove(r.iv, << <<75, 35>>, <<74, 25>>, <<59, 10>>, <<49, -10>> >>, -35)
           = IF r.iv > 75 THEN 35 ELSE IF r.iv > 74 THEN 25 ELSE IF r.iv > 59 THEN 10
           ELSE IF r.iv > 49 THEN -10 ELSE -35
         /\ Scores!FirstBelow(r.adx, << <<12, 50>>, <<15, 35>>, <<18, 15>>, <<22, -10>> >>, -30)
           = IF r.adx < 12 THEN 50 ELSE IF r.adx < 15 THEN 35 ELSE IF r.adx < 18 THEN 15
           ELSE IF r.adx < 22 THEN -10 ELSE -30
         /\ Scores!FirstBelow(r.hvIv, << <<60, 15>>, <<70, 10>>, <<80, 5>>, <<100, 0>> >>, -15)
           = IF r.hvIv < 60 THEN 15 ELSE IF r.hvIv < 70 THEN 10 ELSE IF r.hvIv < 80 THEN 5
           ELSE IF r.hvIv < 100 THEN 0 ELSE -15
BY DEF Scores!FirstAbove, Scores!FirstBelow, Scores!SelectInSeq, Scores!Min

LEMMA VolatilityRows ==
  ASSUME NEW r
  PROVE  /\ Scores!FirstAbove(r.iv, << <<70, 30>>, <<60, 20>>, <<50, 10>>, <<40, -10>> >>, -25)
           = IF r.iv > 70 THEN 30 ELSE IF r.iv > 60 THEN 20 ELSE IF r.iv > 50 THEN 10
           ELSE IF r.iv > 40 THEN -10 ELSE -25
         /\ Scores!FirstBelow(r.hvIv, << <<80, 20>>, <<90, 12>>, <<100, 5>>, <<110, -5>> >>, -15)
           = IF r.hvIv < 80 THEN 20 ELSE IF r.hvIv < 90 THEN 12 ELSE IF r.hvIv < 100 THEN 5
           ELSE IF r.hvIv < 110 THEN -5 ELSE -15
         /\ Scores!FirstBelow(r.adx, << <<20, 25>>, <<25, 15>>, <<30, 5>>, <<35, -10>> >>, -25)
           = IF r.adx < 20 THEN 25 ELSE IF r.adx < 25 THEN 15 ELSE IF r.adx < 30 THEN 5
           ELSE IF r.adx < 35 THEN -10 ELSE -25
BY DEF Scores!FirstAbove, Scores!FirstBelow, Scores!SelectInSeq, Scores!Min

LEMMA BackspreadRows ==
  ASSUME NEW r
  PROVE  /\ Scores!FirstAbove(r.adx, << <<35, 25>>, <<24, 20>>, <<20, 10>> >>, -20)
           = IF r.adx > 35 THEN 25 ELSE IF r.adx > 24 THEN 20 ELSE IF r.adx > 20 THEN 10 ELSE -20
         /\ Scores!FirstBelow(r.iv, << <<25, 30>>, <<30, 25>>, <<40, 15>>, <<50, 5>>, <<61, -15>> >>, -20)
           = IF r.iv < 25 THEN 30 ELSE IF r.iv < 30 THEN 25 ELSE IF r.iv < 40 THEN 15
           ELSE IF r.iv < 50 THEN 5 ELSE IF r.iv < 61 THEN -15 ELSE -20
         /\ Scores!FirstAbove(r.hvIv, << <<130, 15>>, <<119, 12>>, <<100, 7>> >>, -10)
           = IF r.hvIv > 130 THEN 15 ELSE IF r.hvIv > 119 THEN 12 ELSE IF r.hvIv > 100 THEN 7 ELSE -10
         /\ Scores!FirstBelow(r.move, << <<3, 0>>, <<5, 5>>, <<11, 0>> >>, -10)
           = IF r.move < 3 THEN 0 ELSE IF r.move < 5 THEN 5 ELSE IF r.move < 11 THEN 0 ELSE -10
BY DEF Scores!FirstAbove, Scores!FirstBelow, Scores!SelectInSeq, Scores!Min

LEMMA CalendarRows ==
  ASSUME NEW r
  PROVE  /\ Scores!FirstBelow(r.iv, << <<25, 35>>, <<30, 25>>, <<40, 15>>, <<50, 0>>, <<60, -20>> >>, -35)
           = IF r.iv < 25 THEN 35 ELSE IF r.iv < 30 THEN 25 ELSE IF r.iv < 40 THEN 15
           ELSE IF r.iv < 50 THEN 0 ELSE IF r.iv < 60 THEN -20 ELSE -35
         /\ Scores!FirstBelow(r.adx, << <<15, 25>>, <<20, 20>>, <<25, 10>>, <<30, -10>> >>, -25)
           = IF r.adx < 15 THEN 25 ELSE IF r.adx < 20 THEN 20 ELSE IF r.adx < 25 THEN 10
           ELSE IF r.adx < 30 THEN -10 ELSE -25
         /\ Scores!FirstAbove(r.hvIv, << <<130, 20>>, <<110, 15>>, <<100, 5>>, <<90, 0>> >>, -10)
           = IF r.hvIv > 130 THEN 20 ELSE IF r.hvIv > 110 THEN 15 ELSE IF r.hvIv > 100 THEN 5
           ELSE IF r.hvIv > 90 THEN 0 ELSE -10
BY DEF Scores!FirstAbove, Scores!FirstBelow, Scores!SelectInSeq, Scores!Min

LEMMA SecuredPutRows ==
  ASSUME NEW r
  PROVE  /\ Scores!FirstAbove(r.iv, << <<70, 30>>, <<59, 24>>, <<49, 15>> >>, -30)
           = IF r.iv > 70 THEN 30 ELSE IF r.iv > 59 THEN 24 ELSE IF r.iv > 49 THEN 15 ELSE -30
         /\ Scores!FirstAbove(r.iv, << <<83, 15>>, <<66, 12>>, <<50, 8>> >>, 4)
           = IF r.iv > 83 THEN 15 ELSE IF r.iv > 66 THEN 12 ELSE IF r.iv > 50 THEN 8 ELSE 4
         /\ Scores!FirstAbove(r.hvIv, << <<130, 20>>, <<115, 16>>, <<100, 12>> >>, 0)
           = IF r.hvIv > 130 THEN 20 ELSE IF r.hvIv > 115 THEN 16 ELSE IF r.hvIv > 100 THEN 12 ELSE 0
BY DEF Scores!FirstAbove, Scores!FirstBelow, Scores!SelectInSeq, Scores!Min

LEMMA DebitRows ==
  ASSUME NEW r
  PROVE  /\ Scores!FirstAbove(r.iv, << <<60, -25>>, <<50, 10>>, <<9, 15>> >>, -15)
           = IF r.iv > 60 THEN -25 ELSE IF r.iv > 50 THEN 10 ELSE IF r.iv > 9 THEN 15 ELSE -15
         /\ Scores!FirstAbove(r.hvIv, << <<130, 20>>, <<115, 15>>, <<100, 10>> >>, 0)
           = IF r.hvIv > 130 THEN 20 ELSE IF r.hvIv > 115 THEN 15 ELSE IF r.hvIv > 100 THEN 10 ELSE 0
         /\ Scores!FirstAbove(r.adx, << <<30, 20>> >>, 12)
           = IF r.adx > 30 THEN 20 ELSE 12
         /\ Scores!FirstBelow(r.stress, << <<400, 10>>, <<601, 3>>, <<701, 0>> >>, -15)
           = IF r.stress < 400 THEN 10 ELSE IF r.stress < 601 THEN 3 ELSE IF r.stress < 701 THEN 0 ELSE -15
BY DEF Scores!FirstAbove, Scores!FirstBelow, Scores!SelectInSeq, Scores!Min

LEMMA CreditRows ==
  ASSUME NEW r
  PROVE  /\ Scores!FirstAbove(r.stress, << <<600, -20>>, <<400, -10>> >>, 0)
           = IF r.stress > 600 THEN -20 ELSE IF r.stress > 400 THEN -10 ELSE 0
         /\ Scores!FirstAbove(r.rsi, << <<70, -15>> >>, -5)
           = IF r.rsi > 70 THEN -15 ELSE -5
         /\ Scores!FirstBelow(r.rsi, << <<30, -15>> >>, -5)
           = IF r.rsi < 30 THEN -15 ELSE -5
BY DEF Scores!FirstAbove, Scores!FirstBelow, Scores!SelectInSeq, Scores!Min

LEMMA ShortfallRows ==
  ASSUME NEW r
  PROVE  Scores!FirstBelow(35 - r.iv, << <<6, -5>>, <<11, -10>> >>, -15)
           = IF 35 - r.iv < 6 THEN -5 ELSE IF 35 - r.iv < 11 THEN -10 ELSE -15
BY DEF Scores!FirstAbove, Scores!FirstBelow, Scores!SelectInSeq, Scores!Min

LEMMA CoveredRows ==
  ASSUME NEW r
  PROVE  /\ Scores!FirstAbove(r.iv, << <<50, 20>>, <<24, 10>> >>, -15)
           = IF r.iv > 50 THEN 20 ELSE IF r.iv > 24 THEN 10 ELSE -15
         /\ Scores!FirstBelow(r.adx, << <<20, 10>>, <<31, 0>> >>, -10)
           = IF r.adx < 20 THEN 10 ELSE IF r.adx < 31 THEN 0 ELSE -10
BY DEF Scores!FirstAbove, Scores!FirstBelow, Scores!SelectInSeq, Scores!Min

LEMMA StraddleRows ==
  ASSUME NEW r
  PROVE  /\ Scores!FirstBelow(r.iv, << <<20, 30>>, <<30, 20>>, <<40, 10>>, <<50, 0>>, <<60, -15>> >>, -30)
           = IF r.iv < 20 THEN 30 ELSE IF r.iv < 30 THEN 20 ELSE IF r.iv < 40 THEN 10
           ELSE IF r.iv < 50 THEN 0 ELSE IF r.iv < 60 THEN -15 ELSE -30
         /\ Scores!FirstAbove(r.hvIv, << <<140, 25>>, <<120, 15>>, <<100, 5>>, <<90, -5>> >>, -20)
           = IF r.hvIv > 140 THEN 25 ELSE IF r.hvIv > 120 THEN 15 ELSE IF r.hvIv > 100 THEN 5
           ELSE IF r.hvIv > 90 THEN -5 ELSE -20
         /\ Scores!FirstAbove(r.adx, << <<35, 20>>, <<25, 15>>, <<20, 10>>, <<15, 0>> >>, -10)
           = IF r.adx > 35 THEN 20 ELSE IF r.adx > 25 THEN 15 ELSE IF r.adx > 20 THEN 10
           ELSE IF r.adx > 15 THEN 0 ELSE -10
BY DEF Scores!FirstAbove, Scores!FirstBelow, Scores!SelectInSeq, Scores!Min

LEMMA StrangleRows ==
  ASSUME NEW r
  PROVE  /\ Scores!FirstBelow(r.iv, << <<20, 35>>, <<25, 25>>, <<30, 15>>, <<40, 5>>, <<50, -10>> >>, -35)
           = IF r.iv < 20 THEN 35 ELSE IF r.iv < 25 THEN 25 ELSE IF r.iv < 30 THEN 15
           ELSE IF r.iv < 40 THEN 5 ELSE IF r.iv < 50 THEN -10 ELSE -35
         /\ Scores!FirstAbove(r.hvIv, << <<150, 25>>, <<130, 18>>, <<110, 10>>, <<100, 0>>, <<90, -10>> >>, -25)
           = IF r.hvIv > 150 THEN 25 ELSE IF r.hvIv > 130 THEN 18 ELSE IF r.hvIv > 110 THEN 10
           ELSE IF r.hvIv > 100 THEN 0 ELSE IF r.hvIv > 90 THEN -10 ELSE -25
         /\ Scores!FirstAbove(r.adx, << <<40, 25>>, <<30, 20>>, <<25, 12>>, <<20, 5>>, <<15, -5>> >>, -15)
           = IF r.adx > 40 THEN 25 ELSE IF r.adx > 30 THEN 20 ELSE IF r.adx > 25 THEN 12
           ELSE IF r.adx > 20 THEN 5 ELSE IF r.adx > 15 THEN -5 ELSE -15
         /\ Scores!FirstAbove(r.stress, << <<700, 8>>, <<600, 5>>, <<199, 0>> >>, -8)
           = IF r.stress > 700 THEN 8 ELSE IF r.stress > 600 THEN 5 ELSE IF r.stress > 199 THEN 0
           ELSE -8
<1>1. Scores!FirstBelow(r.iv, << <<20, 35>>, <<25, 25>>, <<30, 15>>, <<40, 5>>, <<50, -10>> >>, -35)
      = IF r.iv < 20 THEN 35 ELSE IF r.iv < 25 THEN 25 ELSE IF r.iv < 30 THEN 15
        ELSE IF r.iv < 40 THEN 5 ELSE IF r.iv < 50 THEN -10 ELSE -35
  BY DEF Scores!FirstAbove, Scores!FirstBelow, Scores!SelectInSeq, Scores!Min
<1>2. Scores!FirstAbove(r.hvIv, << <<150, 25>>, <<130, 18>>, <<110, 10>>, <<100, 0>>, <<90, -10>> >>, -25)
      = IF r.hvIv > 150 THEN 25 ELSE IF r.hvIv > 130 THEN 18 ELSE IF r.hvIv > 110 THEN 10
        ELSE IF r.hvIv > 100 THEN 0 ELSE IF r.hvIv > 90 THEN -10 ELSE -25
  BY DEF Scores!FirstAbove, Scores!FirstBelow, Scores!SelectInSeq, Scores!Min
<1>3. Scores!FirstAbove(r.adx, << <<40, 25>>, <<30, 20>>, <<25, 12>>, <<20, 5>>, <<15, -5>> >>, -15)
      = IF r.adx > 40 THEN 25 ELSE IF r.adx > 30 THEN 20 ELSE IF r.adx > 25 THEN 12
        ELSE IF r.adx > 20 THEN 5 ELSE IF r.adx > 15 THEN -5 ELSE -15
  BY DEF Scores!FirstAbove, Scores!FirstBelow, Scores!SelectInSeq, Scores!Min
<1>4. Scores!FirstAbove(r.stress, << <<700, 8>>, <<600, 5>>, <<199, 0>> >>, -8)
      = IF r.stress > 700 THEN 8 ELSE IF r.stress > 600 THEN 5 ELSE IF r.stress > 199 THEN 0
        ELSE -8
  BY DEF Scores!FirstAbove, Scores!FirstBelow, Scores!SelectInSeq, Scores!Min
<1> QED
  BY <1>1, <1>2, <1>3, <1>4, Zenon

-----------------------------------------------------------------------------
(* What a report on which the selector may trade says.                       *)

Macd == {"strong_bullish", "bullish", "bullish_exhausted", "neutral", "bearish_exhausted",
         "bearish", "strong_bearish"}

\* A strong signal needs a strong trend and an exhausted one a weak trend at an extreme;
\* a regime is on the signal's side; and stress comes with rank.
Reads(r) ==
    /\ r.canTrade = TRUE /\ r.data \in BOOLEAN /\ r.shares \in BOOLEAN
    /\ r.iv \in Nat /\ r.hvIv \in Nat /\ r.adx \in Nat \cup {None} /\ r.move \in Nat
    /\ r.stress \in Nat /\ r.rsi \in 0..100 /\ r.live \in -1..1
    /\ r.band \in {"within_bands", "above_upper", "below_lower"}
    /\ r.macd \in Macd
    /\ r.regime \in {"crisis", "high_vol", "bull", "bear", "none"}
    /\ r.macd \in {"strong_bullish", "strong_bearish"} => r.adx # None /\ r.adx > 25
    /\ r.macd = "neutral" /\ r.adx # None => r.adx <= 25
    /\ r.macd \in {"bullish_exhausted", "bearish_exhausted"} /\ r.adx # None => r.adx < 25
    /\ r.macd = "bullish_exhausted" => r.rsi > 70 /\ r.band = "above_upper"
    /\ r.macd = "bearish_exhausted" => r.rsi < 30 /\ r.band = "below_lower"
    /\ r.regime = "bull" => r.macd \in {"strong_bullish", "bullish"}
    /\ r.regime = "bear" => r.macd \in {"strong_bearish", "bearish"}
    /\ r.regime \in {"bull", "bear"} => r.adx # None /\ r.adx > 30 /\ r.stress < 800 /\ r.iv < 75
    /\ ~r.data => r.macd = "neutral" /\ r.adx = None
    /\ r.iv <= 50 => r.stress <= 450
    /\ r.iv > 50 => r.stress > 100
    /\ r.iv > 70 => r.stress > 280

\* A table of two rows.
LEMMA TwoAbove ==
  ASSUME NEW x, NEW b, NEW p, NEW c, NEW q, NEW other
  PROVE  Scores!FirstAbove(x, << <<b, p>>, <<c, q>> >>, other)
         = IF x > b THEN p ELSE IF x > c THEN q ELSE other
BY DEF Scores!FirstAbove, Scores!SelectInSeq, Scores!Min

\* Stress is high only with implied volatility, a large move or broken levels.
LEMMA StressLevel ==
  ASSUME NEW x, x.iv \in Nat, x.move \in Nat, x.broken \in BOOLEAN
  PROVE  /\ Scores!Stress(x) \in Nat
         /\ x.iv <= 50 => Scores!Stress(x) <= 450
         /\ x.iv > 50 => Scores!Stress(x) > 100
         /\ x.iv > 70 => Scores!Stress(x) > 280
<1>1. PICK a \in Nat : /\ a = Scores!FirstAbove(x.iv, << <<70, 4 * x.iv>>, <<50, 2 * x.iv>> >>, 0)
                       /\ x.iv <= 50 => a = 0
                       /\ x.iv > 50 => a > 100
                       /\ x.iv > 70 => a > 280
  BY TwoAbove
<1>2. PICK b \in Nat :
        /\ b = Scores!FirstAbove(x.move, << <<5, 30 * Scores!UpTo(10, x.move)>>, <<3, 150>> >>, 0)
        /\ b <= 300
  BY TwoAbove DEF Scores!UpTo
<1> QED
  BY <1>1, <1>2 DEF Scores!Stress, Scores!UpTo

\* The signal follows the price whatever the weights of its parts, and is strong only in a
\* strong trend, exhausted only in a weak one.
LEMMA DirectionSays ==
  ASSUME NEW x, x.close \in -1..1, x.hist \in -1..1, x.move \in Nat,
         x.adx \in Nat \cup {None}, x.rsi \in 0..100
  PROVE  LET m == Scores!Direction(x) IN
    /\ m \in Macd
    /\ m \in {"strong_bullish", "strong_bearish"} => x.adx # None /\ x.adx > 25
    /\ m \in {"strong_bullish", "bullish", "bullish_exhausted"} => x.close = 1
    /\ m \in {"strong_bearish", "bearish", "bearish_exhausted"} => x.close < 1
    /\ m \in {"bullish_exhausted", "bearish_exhausted"} /\ x.adx # None => x.adx < 25
    /\ m = "bullish_exhausted" => x.rsi > 70 /\ x.band = "above_upper"
    /\ m = "bearish_exhausted" => x.rsi < 30 /\ x.band = "below_lower"
    /\ m = "neutral" /\ x.adx # None => x.adx <= 25
<1> DEFINE adx == IF x.adx = None THEN 0 ELSE x.adx
           close == IF x.close > 0 THEN 1 ELSE -1
           momentum == IF x.move > 3 THEN x.close ELSE 0
           first == IF adx > 25 THEN 6 ELSE IF adx > 15 THEN 4 ELSE 3
           second == IF adx > 25 THEN 2 ELSE IF adx > 15 THEN 4 ELSE 5
           total == close * first + x.hist * second + momentum * 2
<1>1. adx \in Nat /\ close \in Int /\ momentum \in Int
  OBVIOUS
<1>2. total \in Int
   /\ (total > 3 => close = 1) /\ (total < -3 => close = -1)
   /\ (adx > 25 => total > 3 \/ total < -3)
  <2>1. total = (IF x.close > 0 THEN first ELSE -first)
         + (IF x.hist = 1 THEN second ELSE IF x.hist = -1 THEN -second ELSE 0)
         + (IF momentum = 1 THEN 2 ELSE IF momentum = -1 THEN -2 ELSE 0)
    OBVIOUS
  <2>2. momentum \in -1..1 /\ (x.close > 0 => momentum \in 0..1) /\ (x.close <= 0 => momentum \in -1..0)
    OBVIOUS
  <2>3. \/ first = 6 /\ second = 2 /\ adx > 25
        \/ first = 4 /\ second = 4 /\ adx <= 25
        \/ first = 3 /\ second = 5 /\ adx <= 25
    BY <1>1
  <2>4. (x.close > 0 => close = 1) /\ (x.close <= 0 => close = -1)
    OBVIOUS
  <2> HIDE DEF total, first, second, momentum, adx, close
  <2>5. CASE first = 6 /\ second = 2 /\ adx > 25
    BY <2>1, <2>2, <2>4, <2>5
  <2>6. CASE first = 4 /\ second = 4 /\ adx <= 25
    BY <2>1, <2>2, <2>4, <2>6, <1>1
  <2>7. CASE first = 3 /\ second = 5 /\ adx <= 25
    BY <2>1, <2>2, <2>4, <2>7, <1>1
  <2> QED
    BY <2>3, <2>5, <2>6, <2>7
<1>3. Scores!Direction(x) = LET
        base == IF total > 6 /\ adx > 25 THEN "strong_bullish" ELSE
                IF total > 3 THEN "bullish" ELSE
                IF total < -6 /\ adx > 25 THEN "strong_bearish" ELSE
                IF total < -3 THEN "bearish" ELSE "neutral"
    IN IF adx < 25 /\ base = "bullish" /\ x.rsi > 70 /\ x.band = "above_upper"
         THEN "bullish_exhausted"
       ELSE IF adx < 25 /\ base = "bearish" /\ x.rsi < 30 /\ x.band = "below_lower"
         THEN "bearish_exhausted"
       ELSE base
  <2>1. LET weights == IF adx > 25 THEN <<6, 2>> ELSE IF adx > 15 THEN <<4, 4>> ELSE <<3, 5>>
        IN weights[1] = first /\ weights[2] = second
    OBVIOUS
  <2> HIDE DEF first, second, momentum, adx, close
  <2> QED
    BY <2>1 DEF Scores!Direction, adx, close, momentum
<1>4. x.adx # None => adx = x.adx
  OBVIOUS
<1>5. adx > 25 => x.adx # None
  OBVIOUS
<1>6. (close = 1 => x.close = 1) /\ (close = -1 => x.close < 1)
  OBVIOUS
<1> HIDE DEF total, adx, close, momentum
<1> QED
  BY <1>1, <1>2, <1>3, <1>4, <1>5, <1>6 DEF Macd

\* A report that lets trade, of any market that can be fetched.
LEMMA ReportIsTraded ==
  ASSUME NEW f \in Fetchable, NEW r, r = Scores!Report(f), r.canTrade
  PROVE  Reads(r)
<1>1. PICK x : x = Scores!Known(f)
  OBVIOUS
<1>2. /\ x.iv \in Nat /\ x.hvIv \in Nat /\ x.adx \in Nat \cup {None} /\ x.move \in Nat
      /\ x.rsi \in 0..100 /\ x.close \in -1..1 /\ x.live \in -1..1 /\ x.hist \in -1..1
      /\ x.broken \in BOOLEAN /\ x.shares \in BOOLEAN /\ x.data \in BOOLEAN
      /\ x.band \in {"within_bands", "above_upper", "below_lower"}
      /\ ~x.data => x.adx = None
  <2>1. CASE f.data
    <3>1. x = f
      BY <1>1, <2>1 DEF Scores!Known
    <3> QED
      BY <2>1, <3>1 DEF Fetchable
  <2>2. CASE ~f.data
    <3>1. /\ x.iv = f.iv /\ x.hvIv = 100 /\ x.adx = None /\ x.move = 0
          /\ x.rsi = 50 /\ x.close = 1 /\ x.hist = 0 /\ x.band = "within_bands"
      BY <1>1, <2>2 DEF Scores!Known, Fetchable
    <3>2. x.broken \in BOOLEAN /\ x.shares \in BOOLEAN /\ x.data \in BOOLEAN
      BY <1>1, <2>2 DEF Scores!Known, Fetchable
    <3>3. f.iv \in Nat /\ f.live \in -1..1
      BY DEF Fetchable
    <3>4. x.live = f.live
      BY <1>1, <2>2 DEF Scores!Known, Fetchable
    <3> QED
      BY <3>1, <3>2, <3>3, <3>4
  <2> QED
    BY <2>1, <2>2
<1>3. PICK m : m = IF x.data THEN Scores!Direction(x) ELSE "neutral"
  OBVIOUS
<1>4. PICK t : t = Scores!Stress(x)
  OBVIOUS
<1>5. /\ m \in Macd
      /\ m \in {"strong_bullish", "strong_bearish"} => x.adx # None /\ x.adx > 25
      /\ m = "neutral" /\ x.adx # None => x.adx <= 25
      /\ m \in {"bullish_exhausted", "bearish_exhausted"} /\ x.adx # None => x.adx < 25
      /\ m \in {"strong_bullish", "bullish", "bullish_exhausted"} => x.close = 1
      /\ m \in {"strong_bearish", "bearish", "bearish_exhausted"} => x.close < 1
      /\ m = "bullish_exhausted" => x.rsi > 70 /\ x.band = "above_upper"
      /\ m = "bearish_exhausted" => x.rsi < 30 /\ x.band = "below_lower"
      /\ ~x.data => m = "neutral"
  <2>1. CASE x.data
    BY <1>2, <1>3, <2>1, DirectionSays
  <2>2. CASE ~x.data
    BY <1>2, <1>3, <2>2 DEF Macd
  <2> QED
    BY <2>1, <2>2
<1>6. /\ t \in Nat
      /\ x.iv <= 50 => t <= 450
      /\ x.iv > 50 => t > 100
      /\ x.iv > 70 => t > 280
  BY <1>2, <1>4, StressLevel
<1>7. /\ r.data = x.data /\ r.iv = x.iv /\ r.hvIv = x.hvIv /\ r.adx = x.adx /\ r.rsi = x.rsi
      /\ r.live = x.live /\ r.move = x.move /\ r.band = x.band /\ r.macd = m /\ r.stress = t
      /\ r.shares = x.shares /\ r.regime = Scores!Regime(t, x.iv, x.adx, m) /\ r.canTrade \in BOOLEAN
  <2>1. Scores!HardStop(x) \in BOOLEAN
    BY DEF Scores!HardStop, Scores!Stale, Scores!EarningsNear, Scores!DividendNear, Scores!Upcoming
  <2>2. r = [canTrade |-> ~Scores!HardStop(x), data |-> x.data, iv |-> x.iv, hvIv |-> x.hvIv,
        adx |-> x.adx, rsi |-> x.rsi, live |-> x.live, move |-> x.move, band |-> x.band,
        macd |-> m, stress |-> t, shares |-> x.shares,
        regime |-> Scores!Regime(t, x.iv, x.adx, m)]
    BY <1>1, <1>3, <1>4 DEF Scores!Report
  <2> QED
    BY <2>1, <2>2
<1>8. /\ r.regime \in {"crisis", "high_vol", "bull", "bear", "none"}
      /\ r.regime = "bull" => m \in {"strong_bullish", "bullish"}
      /\ r.regime = "bear" => m \in {"strong_bearish", "bearish"}
      /\ r.regime \in {"bull", "bear"} => x.adx # None /\ x.adx > 30 /\ t < 800 /\ x.iv < 75
  BY <1>2, <1>6, <1>7 DEF Scores!Regime
<1>9. /\ r.canTrade = TRUE /\ r.data \in BOOLEAN /\ r.shares \in BOOLEAN
      /\ r.iv \in Nat /\ r.hvIv \in Nat /\ r.adx \in Nat \cup {None} /\ r.move \in Nat
      /\ r.stress \in Nat /\ r.rsi \in 0..100 /\ r.live \in -1..1
      /\ r.band \in {"within_bands", "above_upper", "below_lower"}
  BY <1>2, <1>6, <1>7
<1>10. /\ r.iv <= 50 => r.stress <= 450
       /\ r.iv > 50 => r.stress > 100
       /\ r.iv > 70 => r.stress > 280
  BY <1>6, <1>7
<1>11. /\ r.regime = "bull" => r.macd \in {"strong_bullish", "bullish"}
       /\ r.regime = "bear" => r.macd \in {"strong_bearish", "bearish"}
       /\ r.regime \in {"bull", "bear"} => r.adx # None /\ r.adx > 30 /\ r.stress < 800 /\ r.iv < 75
       /\ ~r.data => r.macd = "neutral" /\ r.adx = None
  BY <1>2, <1>5, <1>7, <1>8
<1>12. /\ r.macd \in Macd
       /\ r.macd \in {"strong_bullish", "strong_bearish"} => r.adx # None /\ r.adx > 25
       /\ r.macd = "neutral" /\ r.adx # None => r.adx <= 25
       /\ r.macd \in {"bullish_exhausted", "bearish_exhausted"} /\ r.adx # None => r.adx < 25
       /\ r.macd = "bullish_exhausted" => r.rsi > 70 /\ r.band = "above_upper"
       /\ r.macd = "bearish_exhausted" => r.rsi < 30 /\ r.band = "below_lower"
  BY <1>5, <1>7
<1> QED
  BY <1>8, <1>9, <1>10, <1>11, <1>12 DEF Reads

-----------------------------------------------------------------------------
(* The best of the eligible strategies.                                      *)

\* StrategyScores counts as this module does.
LEMMA SameCardinality == \A S : Scores!Cardinality(S) = Cardinality(S)
BY DEF Scores!Cardinality, Cardinality

\* There are finitely many strategies.
LEMMA FewStrategies == IsFiniteSet(Scores!Strategies)
<1>1. DOMAIN Scores!Ranking = 1..17
  BY DEF Scores!Ranking
<1> DEFINE place == [i \in 1..17 |-> Scores!Ranking[i]]
<1>2. place \in Surjection(1..17, Scores!Strategies)
  BY <1>1 DEF Surjection, Scores!Strategies
<1>3. IsFiniteSet(1..17)
  BY FS_Interval, 1 \in Int, 17 \in Int
<1> QED
  BY <1>2, <1>3, FS_Surjection

\* Nothing scores more than the one best.
LEMMA NoneBetter ==
  ASSUME NEW points, NEW s \in Scores!Best(points, 1), NEW t \in Scores!Strategies,
         points[s] \in Int, points[t] \in Int
  PROVE  s \in Scores!Strategies /\ 300 <= points[s] /\ points[t] <= points[s]
<1> DEFINE eligible == {u \in Scores!Strategies : points[u] >= 300}
           place(u) == CHOOSE i \in DOMAIN Scores!Ranking : Scores!Ranking[i] = u
           before(u, v) == points[u] > points[v] \/ (points[u] = points[v] /\ place(u) < place(v))
           better == {u \in eligible : before(u, s)}
<1>2. s \in eligible /\ Cardinality(better) < 1
  <2>1. Scores!Best(points, 1) = {u \in eligible : Scores!Cardinality({v \in eligible : before(v, u)}) < 1}
    BY Zenon DEF Scores!Best, Scores!MinAutoScore
  <2> HIDE DEF place
  <2> QED
    BY <2>1, SameCardinality, Zenon
<1>3. IsFiniteSet(better) /\ Cardinality(better) \in Nat
  BY FewStrategies, FS_Subset, FS_CardinalityType
<1>4. better = {}
  BY <1>2, <1>3, FS_EmptySet
<1> QED
  BY <1>2, <1>4

\* What the rank of implied volatility is worth to a credit vertical, what depends on its
\* direction, and the rest.
CreditRank(r) ==
    (IF r.iv >= 70 THEN 200 ELSE IF r.iv >= 35 THEN 5 * (r.iv - 35) ELSE -20 * (35 - r.iv))
  + (IF r.iv >= 35 THEN Scores!UpTo(200, 3 * (r.iv - 35))
     ELSE 10 * (IF 35 - r.iv < 6 THEN -5 ELSE IF 35 - r.iv < 11 THEN -10 ELSE -15))

PutSide(r) ==
    (IF r.regime = "bull" THEN 30 ELSE IF r.regime = "bear" THEN -30 ELSE 15)
  + (IF r.macd = "bullish" THEN 10 ELSE IF r.macd = "bearish" THEN -10 ELSE 0)
  + (IF r.rsi > 70 THEN -15 ELSE IF r.rsi < 30 THEN 5 ELSE 0)
CallSide(r) ==
    (IF r.regime = "bull" THEN -30 ELSE IF r.regime = "bear" THEN 30 ELSE 15)
  + (IF r.macd = "bullish" THEN -10 ELSE IF r.macd = "bearish" THEN 10 ELSE 0)
  + (IF r.rsi > 70 THEN 5 ELSE IF r.rsi < 30 THEN -15 ELSE 0)

CreditEven(r) ==
    (IF r.stress < 200 THEN 10 ELSE IF r.stress > 600 THEN -20 ELSE IF r.stress > 400 THEN -10 ELSE 0)
  + (IF r.rsi > 60 THEN IF r.rsi > 70 THEN -15 ELSE -5
     ELSE IF r.rsi < 40 THEN IF r.rsi < 30 THEN -15 ELSE -5
     ELSE IF r.rsi \in 45 .. 55 THEN 5 ELSE 0)

PutPoints(r) == 500 + CreditRank(r) + 10 * (CreditEven(r) + PutSide(r))
CallPoints(r) == 500 + CreditRank(r) + 10 * (CreditEven(r) + CallSide(r))
PutCredit(r) == Scores!CreditVertical(TRUE, r)
CallCredit(r) == Scores!CreditVertical(FALSE, r)

LEMMA CreditForm ==
  ASSUME NEW r, Reads(r)
  PROVE  /\ CreditRank(r) \in Int /\ CreditEven(r) \in Int /\ PutSide(r) \in Int /\ CallSide(r) \in Int
         /\ PutPoints(r) \in Int /\ CallPoints(r) \in Int
         /\ r.iv <= 30 => CreditRank(r) <= 20 * r.iv - 750
         /\ r.iv > 30 => CreditRank(r) >= -130
         /\ CreditRank(r) <= 400
         /\ PutCredit(r) = IF r.data THEN Scores!Clamp(PutPoints(r)) ELSE 0
         /\ CallCredit(r) = IF r.data THEN Scores!Clamp(CallPoints(r)) ELSE 0
<1> USE DEF Reads
<1>1. CreditRank(r) \in Int /\ CreditEven(r) \in Int /\ PutSide(r) \in Int /\ CallSide(r) \in Int
  BY DEF CreditRank, CreditEven, PutSide, CallSide, Scores!UpTo
<1>2. /\ r.iv <= 30 => CreditRank(r) <= 20 * r.iv - 750
      /\ r.iv > 30 => CreditRank(r) >= -130
      /\ CreditRank(r) <= 400
  BY DEF CreditRank, Scores!UpTo
<1>3. PutPoints(r) \in Int /\ CallPoints(r) \in Int
  BY <1>1 DEF PutPoints, CallPoints
<1>4. PutCredit(r) = IF r.data THEN Scores!Clamp(PutPoints(r)) ELSE 0
  <2> DEFINE regime == CASE r.regime = "bull" -> 30 * (1) [] r.regime = "bear" -> -30 * (1) [] OTHER -> 15
             signal == Scores!Points(r.macd, [bullish |-> 10 * (1), bearish |-> -10 * (1)])
             extreme == IF r.rsi > 70 THEN -15 ELSE IF r.rsi < 30 THEN 5 ELSE 0
             stress == IF r.stress < 200 THEN 10
                       ELSE Scores!FirstAbove(r.stress, << <<600, -20>>, <<400, -10>> >>, 0)
             rank1 == IF r.iv >= 70 THEN 200
                      ELSE IF r.iv >= 35 THEN 5 * (r.iv - 35) ELSE -20 * (35 - r.iv)
             rank2 == IF r.iv >= 35 THEN Scores!UpTo(200, 3 * (r.iv - 35))
                      ELSE 10 * Scores!FirstBelow(35 - r.iv, << <<6, -5>>, <<11, -10>> >>, -15)
  <2>1. PutCredit(r) = IF r.data
          THEN Scores!Clamp(500 + (10 * (regime + signal + extreme + stress) + rank1)
                            + 10 * Scores!RsiLevels(r) + rank2)
          ELSE 0
    BY DEF PutCredit, Scores!CreditVertical, Scores!CreditAdjust, Scores!MinCreditIv
  <2>2. /\ regime \in Int /\ signal \in Int /\ extreme \in Int
        /\ PutSide(r) = regime + signal + extreme
    BY DEF PutSide, Scores!Points
  <2>3. stress \in Int /\ Scores!RsiLevels(r) \in Int /\ CreditEven(r) = stress + Scores!RsiLevels(r)
    BY CreditRows DEF CreditEven, Scores!RsiLevels
  <2>4. rank1 \in Int /\ rank2 \in Int /\ CreditRank(r) = rank1 + rank2
    BY ShortfallRows DEF CreditRank, Scores!UpTo
  <2> HIDE DEF regime, signal, extreme, stress, rank1, rank2
  <2>5. PutPoints(r) = 500 + (10 * (regime + signal + extreme + stress) + rank1)
                                + 10 * Scores!RsiLevels(r) + rank2
    BY <2>2, <2>3, <2>4 DEF PutPoints
  <2> QED
    BY <2>1, <2>5
<1>5. CallCredit(r) = IF r.data THEN Scores!Clamp(CallPoints(r)) ELSE 0
  <2> DEFINE regime == CASE r.regime = "bull" -> 30 * (-1) [] r.regime = "bear" -> -30 * (-1) [] OTHER -> 15
             signal == Scores!Points(r.macd, [bullish |-> 10 * (-1), bearish |-> -10 * (-1)])
             extreme == IF r.rsi > 70 THEN 5 ELSE IF r.rsi < 30 THEN -15 ELSE 0
             stress == IF r.stress < 200 THEN 10
                       ELSE Scores!FirstAbove(r.stress, << <<600, -20>>, <<400, -10>> >>, 0)
             rank1 == IF r.iv >= 70 THEN 200
                      ELSE IF r.iv >= 35 THEN 5 * (r.iv - 35) ELSE -20 * (35 - r.iv)
             rank2 == IF r.iv >= 35 THEN Scores!UpTo(200, 3 * (r.iv - 35))
                      ELSE 10 * Scores!FirstBelow(35 - r.iv, << <<6, -5>>, <<11, -10>> >>, -15)
  <2>1. CallCredit(r) = IF r.data
          THEN Scores!Clamp(500 + (10 * (regime + signal + extreme + stress) + rank1)
                            + 10 * Scores!RsiLevels(r) + rank2)
          ELSE 0
    BY DEF CallCredit, Scores!CreditVertical, Scores!CreditAdjust, Scores!MinCreditIv
  <2>2. /\ regime \in Int /\ signal \in Int /\ extreme \in Int
        /\ CallSide(r) = regime + signal + extreme
    BY DEF CallSide, Scores!Points
  <2>3. stress \in Int /\ Scores!RsiLevels(r) \in Int /\ CreditEven(r) = stress + Scores!RsiLevels(r)
    BY CreditRows DEF CreditEven, Scores!RsiLevels
  <2>4. rank1 \in Int /\ rank2 \in Int /\ CreditRank(r) = rank1 + rank2
    BY ShortfallRows DEF CreditRank, Scores!UpTo
  <2> HIDE DEF regime, signal, extreme, stress, rank1, rank2
  <2>5. CallPoints(r) = 500 + (10 * (regime + signal + extreme + stress) + rank1)
                                + 10 * Scores!RsiLevels(r) + rank2
    BY <2>2, <2>3, <2>4 DEF CallPoints
  <2> QED
    BY <2>1, <2>5
<1> QED
  BY <1>1, <1>2, <1>3, <1>4, <1>5

LEMMA Clamped ==
  ASSUME NEW p \in Int
  PROVE  /\ Scores!Clamp(p) \in 0..1000
         /\ 300 <= Scores!Clamp(p) => 300 <= p /\ Scores!Clamp(p) <= p
         /\ \A q \in Int : q < p /\ q < 1000 => q < Scores!Clamp(p)
         /\ p \in 0..1000 => Scores!Clamp(p) = p
         /\ p < 0 => Scores!Clamp(p) = 0
         /\ p > 1000 => Scores!Clamp(p) = 1000
BY DEF Scores!Clamp, Scores!UpTo, Scores!AtLeast0

RiseDebit(r) == Scores!DebitVertical(TRUE, r)
FallDebit(r) == Scores!DebitVertical(FALSE, r)
RiseTrend(r) == Scores!DebitTrend(TRUE, r)
FallTrend(r) == Scores!DebitTrend(FALSE, r)
RiseAdjust(r) == Scores!DebitAdjust(TRUE, r)
FallAdjust(r) == Scores!DebitAdjust(FALSE, r)
RisePoints(r) == 500 + 10 * (Scores!DebitIv(r) + RiseTrend(r) + RiseAdjust(r) + Scores!DebitRisk(r))
FallPoints(r) == 500 + 10 * (Scores!DebitIv(r) + FallTrend(r) + FallAdjust(r) + Scores!DebitRisk(r))

LEMMA DebitForm ==
  ASSUME NEW r, Reads(r)
  PROVE  /\ RisePoints(r) \in Int /\ FallPoints(r) \in Int
         /\ RiseDebit(r) = IF r.data THEN Scores!Clamp(RisePoints(r)) ELSE 0
         /\ FallDebit(r) = IF r.data THEN Scores!Clamp(FallPoints(r)) ELSE 0
<1>1. /\ RiseDebit(r) = IF r.data THEN Scores!Clamp(RisePoints(r)) ELSE 0
      /\ FallDebit(r) = IF r.data THEN Scores!Clamp(FallPoints(r)) ELSE 0
  BY DEF RiseDebit, FallDebit, RisePoints, FallPoints, RiseTrend, FallTrend, RiseAdjust, FallAdjust,
     Scores!DebitVertical, Reads
<1>2. Scores!DebitIv(r) \in Int /\ Scores!DebitRisk(r) \in Int
  BY DebitRows DEF Scores!DebitIv, Scores!DebitRisk, Reads
<1>3. RiseTrend(r) \in Int /\ FallTrend(r) \in Int
  BY DebitRows DEF RiseTrend, FallTrend, Scores!DebitTrend, Scores!IfKnown, Reads
<1>4. RiseAdjust(r) \in Int /\ FallAdjust(r) \in Int
  BY DEF RiseAdjust, FallAdjust, Scores!DebitAdjust, Scores!Points, Reads, Macd
<1>5. RisePoints(r) \in Int /\ FallPoints(r) \in Int
  BY <1>2, <1>3, <1>4 DEF RisePoints, FallPoints
<1> QED
  BY <1>1, <1>5

RiseBack(r) == Scores!Backspread(TRUE, r)
FallBack(r) == Scores!Backspread(FALSE, r)

-----------------------------------------------------------------------------
(* Which strategy outdoes which, before the scores are cut to 0..1000.       *)

\* The points of a signal.
LEMMA Signals ==
  ASSUME NEW r, NEW n, NEW p, NEW s
  PROVE  Scores!Signal(r, n, p, s) =
           IF r.macd = "neutral" THEN n
           ELSE IF r.macd \in {"bullish", "bearish"} THEN p
           ELSE IF r.macd \in {"strong_bullish", "strong_bearish"} THEN s ELSE 0
BY DEF Scores!Signal, Scores!Points

\* Points p that would make a strategy eligible are below 1000 and below q.
Loses(p, q) == 300 <= p => p < 1000 /\ p < q

\* The same of two scores without an upper limit.
Below(p, q) == 300 <= p => p < q

\* Of the two credit verticals the one against the regime loses: what they share can
\* not bring the sum to the limit.
LEMMA CreditOutdone ==
  ASSUME NEW r, Reads(r)
  PROVE  /\ r.regime = "bull" => Loses(CallPoints(r), PutPoints(r))
         /\ r.regime = "bear" => Loses(PutPoints(r), CallPoints(r))
<1>1. PICK k \in Int, e \in Int, sPut \in Int, sCall \in Int :
        k = CreditRank(r) /\ e = CreditEven(r) /\ sPut = PutSide(r) /\ sCall = CallSide(r)
  BY CreditForm
<1>2. k <= 400 /\ e <= 15
  <2>1. k <= 400
    BY <1>1, CreditForm
  <2>2. e <= 15
    BY <1>1 DEF CreditEven, Reads
  <2> QED
    BY <2>1, <2>2
<1>5. PutPoints(r) = 500 + k + 10 * (e + sPut) /\ CallPoints(r) = 500 + k + 10 * (e + sCall)
  BY <1>1 DEF PutPoints, CallPoints
<1>3. r.regime = "bull" => Loses(CallPoints(r), PutPoints(r))
  <2> SUFFICES ASSUME r.regime = "bull" PROVE Loses(CallPoints(r), PutPoints(r))
    OBVIOUS
  <2>1. sCall < sPut /\ sCall <= -15
    BY <1>1 DEF PutSide, CallSide, Reads
  <2>2. /\ 500 + k + 10 * (e + sCall) < 500 + k + 10 * (e + sPut)
        /\ 500 + k + 10 * (e + sCall) < 1000
    BY <1>2, <2>1
  <2>3. CallPoints(r) < PutPoints(r) /\ CallPoints(r) < 1000
    BY <1>5, <2>2
  <2> QED
    BY <2>3 DEF Loses
<1>4. r.regime = "bear" => Loses(PutPoints(r), CallPoints(r))
  <2> SUFFICES ASSUME r.regime = "bear" PROVE Loses(PutPoints(r), CallPoints(r))
    OBVIOUS
  <2>1. sPut < sCall /\ sPut <= -15
    BY <1>1 DEF PutSide, CallSide, Reads
  <2>2. /\ 500 + k + 10 * (e + sPut) < 500 + k + 10 * (e + sCall)
        /\ 500 + k + 10 * (e + sPut) < 1000
    BY <1>2, <2>1
  <2>3. PutPoints(r) < CallPoints(r) /\ PutPoints(r) < 1000
    BY <1>5, <2>2
  <2> QED
    BY <2>3 DEF Loses
<1> QED
  BY <1>3, <1>4

\* A bull regime: what needs a fall loses to what gains from a rise, the two verticals
\* each to their counterpart and, with the live quote above the average, to two more.
LEMMA OutdoneInBull ==
  ASSUME NEW r, Reads(r), r.regime = "bull"
  PROVE  /\ Loses(FallPoints(r), RisePoints(r))
         /\ r.live = 1 => Loses(FallPoints(r), Scores!SecuredPut(r))
         /\ r.live = 1 => Loses(FallPoints(r), RiseBack(r))
         /\ r.live = 1 => Loses(CallPoints(r), RisePoints(r))
         /\ r.iv >= 50 => Loses(CallPoints(r), Scores!SecuredPut(r))
         /\ r.iv < 50 => Loses(CallPoints(r), RiseBack(r))
<1> USE DEF Loses, Below, Reads, Macd, Scores!IfKnown, Scores!Bands, Scores!Calm, Scores!Points,
   Scores!Bulls, Scores!Bears
<1>1. Loses(FallPoints(r), RisePoints(r))
  <2>1. /\ RiseTrend(r) = 20 /\ FallTrend(r) = 0
        /\ RiseAdjust(r) \in Int /\ FallAdjust(r) \in Int
        /\ RiseAdjust(r) >= 5 /\ FallAdjust(r) <= 0
        /\ FallAdjust(r) + Scores!DebitRisk(r) <= 3
    BY DebitRows DEF RiseTrend, FallTrend, RiseAdjust, FallAdjust, Scores!DebitTrend,
       Scores!DebitAdjust, Scores!DebitRisk
  <2>2. /\ Scores!DebitIv(r) \in Int /\ Scores!DebitIv(r) <= 45
        /\ Scores!DebitRisk(r) \in Int
    BY DebitRows DEF Scores!DebitIv, Scores!DebitRisk
  <2> QED
    BY <2>1, <2>2 DEF FallPoints, RisePoints
<1>2. r.live = 1 => Loses(FallPoints(r), Scores!SecuredPut(r))
  BY SMTT(60), DebitRows, SecuredPutRows DEF FallPoints, FallTrend, FallAdjust, Scores!DebitIv,
     Scores!DebitTrend, Scores!DebitAdjust, Scores!DebitRisk, Scores!SecuredPut,
     Scores!SecuredTrend
<1>3. r.macd = "bullish" /\ r.live = 1 => Loses(FallPoints(r), RiseBack(r))
  BY SMTT(60), BackspreadRows, DebitRows DEF FallPoints, FallTrend, FallAdjust, Scores!DebitIv,
     Scores!DebitTrend, Scores!DebitAdjust, Scores!DebitRisk, RiseBack, Scores!Backspread
<1>4. r.macd = "strong_bullish" /\ r.live = 1 => Loses(FallPoints(r), RiseBack(r))
  BY SMTT(60), BackspreadRows, DebitRows DEF FallPoints, FallTrend, FallAdjust, Scores!DebitIv,
     Scores!DebitTrend, Scores!DebitAdjust, Scores!DebitRisk, RiseBack, Scores!Backspread
<1>5. r.live = 1 => Loses(CallPoints(r), RisePoints(r))
  BY SMTT(60), DebitRows DEF CallPoints, CallSide, CreditEven, CreditRank, Scores!UpTo,
     RisePoints, RiseTrend, RiseAdjust, Scores!DebitIv, Scores!DebitTrend, Scores!DebitAdjust,
     Scores!DebitRisk
<1>6. r.iv >= 50 => Loses(CallPoints(r), Scores!SecuredPut(r))
  BY SMTT(60), SecuredPutRows DEF CallPoints, CallSide, CreditEven, CreditRank, Scores!UpTo,
     Scores!SecuredPut, Scores!SecuredTrend
<1>7. r.iv < 50 => Loses(CallPoints(r), RiseBack(r))
  BY SMTT(60), BackspreadRows DEF CallPoints, CallSide, CreditEven, CreditRank, Scores!UpTo,
     RiseBack, Scores!Backspread
<1> QED
  BY <1>1, <1>2, <1>3, <1>4, <1>5, <1>6, <1>7

\* A bear regime: the covered call and the rising debit vertical lose to falling positions.
LEMMA OutdoneInBear ==
  ASSUME NEW r, Reads(r), r.regime = "bear"
  PROVE  /\ Loses(RisePoints(r), FallPoints(r))
         /\ r.iv < 50 => Loses(Scores!CoveredCall(r), FallBack(r))
         /\ r.iv >= 50 => Loses(Scores!CoveredCall(r), CallPoints(r))
<1> USE DEF Loses, Below, Reads, Macd, Scores!IfKnown, Scores!Bands, Scores!Calm, Scores!Points,
   Scores!Bulls, Scores!Bears
<1>1. Loses(RisePoints(r), FallPoints(r))
  BY SMTT(60), DebitRows DEF RisePoints, RiseTrend, RiseAdjust, Scores!DebitIv,
     Scores!DebitTrend, Scores!DebitAdjust, Scores!DebitRisk, FallPoints, FallTrend, FallAdjust
<1>2. r.iv < 50 => Loses(Scores!CoveredCall(r), FallBack(r))
  BY SMTT(60), BackspreadRows, CoveredRows DEF Scores!CoveredCall, FallBack, Scores!Backspread
<1>3. r.iv >= 50 => Loses(Scores!CoveredCall(r), CallPoints(r))
  BY SMTT(60), CoveredRows DEF Scores!CoveredCall, CallPoints, CallSide, CreditEven, CreditRank,
     Scores!UpTo
<1> QED
  BY <1>1, <1>2, <1>3

\* Little premium: the strategies that sell it on both sides lose to the long condor.
LEMMA NeutralOutdone ==
  ASSUME NEW r, Reads(r), r.iv <= 30
  PROVE  /\ Below(Scores!ShortCondor(r), Scores!LongCondor(r))
         /\ Below(Scores!ShortVolatility(r), Scores!LongCondor(r))
         /\ Below(Scores!Butterfly(r), Scores!LongCondor(r))
<1> USE DEF Loses, Below, Reads, Macd, Scores!IfKnown, Scores!Bands, Scores!Calm, Scores!Points,
   Scores!Bulls, Scores!Bears
<1>1. Below(Scores!ShortCondor(r), Scores!LongCondor(r))
  BY SMTT(60), LongCondorRows, ShortCondorRows, Signals DEF Scores!ShortCondor,
     Scores!LongCondor
<1>2. Below(Scores!ShortVolatility(r), Scores!LongCondor(r))
  BY SMTT(60), LongCondorRows, VolatilityRows, Signals DEF Scores!ShortVolatility,
     Scores!LongCondor
<1>3. Below(Scores!Butterfly(r), Scores!LongCondor(r))
  BY SMTT(60), ButterflyRows, LongCondorRows, Signals DEF Scores!Butterfly, Scores!LongCondor
<1> QED
  BY <1>1, <1>2, <1>3

\* Little premium: the cash secured put loses, whatever the signal.
LEMMA SecuredPutOutdone ==
  ASSUME NEW r, Reads(r), r.iv <= 30
  PROVE  /\ r.macd = "strong_bullish" => Loses(Scores!SecuredPut(r), RisePoints(r))
         /\ r.macd = "bullish" =>
               Loses(Scores!SecuredPut(r), RisePoints(r)) \/ Loses(Scores!SecuredPut(r), Scores!Calendar(r))
         /\ r.macd = "neutral" => Loses(Scores!SecuredPut(r), Scores!Calendar(r))
         /\ r.macd = "bullish_exhausted" => Loses(Scores!SecuredPut(r), Scores!Calendar(r))
         /\ r.macd = "bearish_exhausted" => Loses(Scores!SecuredPut(r), Scores!Calendar(r))
         /\ r.macd = "bearish" => Loses(Scores!SecuredPut(r), Scores!LongCondor(r))
         /\ r.macd = "strong_bearish" => Loses(Scores!SecuredPut(r), FallPoints(r))
<1> USE DEF Loses, Below, Reads, Macd, Scores!IfKnown, Scores!Bands, Scores!Calm, Scores!Points,
   Scores!Bulls, Scores!Bears
<1>1. r.macd = "strong_bullish" => Loses(Scores!SecuredPut(r), RisePoints(r))
  BY SMTT(60), DebitRows, SecuredPutRows DEF Scores!SecuredPut, Scores!SecuredTrend, RisePoints,
     RiseTrend, RiseAdjust, Scores!DebitIv, Scores!DebitTrend, Scores!DebitAdjust,
     Scores!DebitRisk
<1>2. r.macd = "bullish" =>
      Loses(Scores!SecuredPut(r), RisePoints(r)) \/ Loses(Scores!SecuredPut(r), Scores!Calendar(r))
  BY SMTT(60), CalendarRows, DebitRows, SecuredPutRows DEF Scores!SecuredPut,
     Scores!SecuredTrend, RisePoints, RiseTrend, RiseAdjust, Scores!DebitIv, Scores!DebitTrend,
     Scores!DebitAdjust, Scores!DebitRisk, Scores!Calendar, Scores!CalendarIv,
     Scores!CalendarTrend, Scores!CalendarExpansion
<1>3. r.macd = "neutral" => Loses(Scores!SecuredPut(r), Scores!Calendar(r))
  BY SMTT(60), CalendarRows, SecuredPutRows DEF Scores!SecuredPut, Scores!SecuredTrend,
     Scores!Calendar, Scores!CalendarIv, Scores!CalendarTrend, Scores!CalendarExpansion
<1>4. r.macd = "bullish_exhausted" => Loses(Scores!SecuredPut(r), Scores!Calendar(r))
  BY SMTT(60), CalendarRows, SecuredPutRows DEF Scores!SecuredPut, Scores!SecuredTrend,
     Scores!Calendar, Scores!CalendarIv, Scores!CalendarTrend, Scores!CalendarExpansion
<1>5. r.macd = "bearish_exhausted" => Loses(Scores!SecuredPut(r), Scores!Calendar(r))
  BY SMTT(60), CalendarRows, SecuredPutRows DEF Scores!SecuredPut, Scores!SecuredTrend,
     Scores!Calendar, Scores!CalendarIv, Scores!CalendarTrend, Scores!CalendarExpansion
<1>6. r.macd = "bearish" => Loses(Scores!SecuredPut(r), Scores!LongCondor(r))
  BY SMTT(60), LongCondorRows, SecuredPutRows, Signals DEF Scores!SecuredPut,
     Scores!SecuredTrend, Scores!LongCondor
<1>7. r.macd = "strong_bearish" => Loses(Scores!SecuredPut(r), FallPoints(r))
  BY SMTT(60), DebitRows, SecuredPutRows DEF Scores!SecuredPut, Scores!SecuredTrend, FallPoints,
     FallTrend, FallAdjust, Scores!DebitIv, Scores!DebitTrend, Scores!DebitAdjust,
     Scores!DebitRisk
<1> QED
  BY <1>1, <1>2, <1>3, <1>4, <1>5, <1>6, <1>7

\* Little premium: so does the put credit vertical.
LEMMA PutCreditOutdone ==
  ASSUME NEW r, Reads(r), r.iv <= 30, r.data
  PROVE  /\ r.macd = "strong_bullish" => Loses(PutPoints(r), RisePoints(r))
         /\ r.macd = "bullish" =>
               Loses(PutPoints(r), RisePoints(r)) \/ Loses(PutPoints(r), Scores!LongCondor(r))
         /\ r.macd = "neutral" =>
               Loses(PutPoints(r), Scores!LongCondor(r)) \/ Loses(PutPoints(r), Scores!Calendar(r))
         /\ r.macd = "bullish_exhausted" => Loses(PutPoints(r), Scores!LongCondor(r))
         /\ r.macd = "bearish_exhausted" =>
               Loses(PutPoints(r), Scores!LongCondor(r)) \/ Loses(PutPoints(r), Scores!Calendar(r))
         /\ r.macd = "bearish" =>
               Loses(PutPoints(r), Scores!LongCondor(r)) \/ Loses(PutPoints(r), FallBack(r))
         /\ r.macd = "strong_bearish" => Loses(PutPoints(r), FallPoints(r))
<1> USE DEF Loses, Below, Reads, Macd, Scores!IfKnown, Scores!Bands, Scores!Calm, Scores!Points,
   Scores!Bulls, Scores!Bears
<1>1. r.macd = "strong_bullish" => Loses(PutPoints(r), RisePoints(r))
  BY SMTT(60), DebitRows DEF PutPoints, PutSide, CreditEven, CreditRank, Scores!UpTo,
     RisePoints, RiseTrend, RiseAdjust, Scores!DebitIv, Scores!DebitTrend, Scores!DebitAdjust,
     Scores!DebitRisk
<1>2. r.macd = "bullish" =>
      Loses(PutPoints(r), RisePoints(r)) \/ Loses(PutPoints(r), Scores!LongCondor(r))
  BY SMTT(60), DebitRows, LongCondorRows, Signals DEF PutPoints, PutSide, CreditEven,
     CreditRank, Scores!UpTo, Scores!LongCondor, RisePoints, RiseTrend, RiseAdjust, Scores!DebitIv, Scores!DebitTrend, Scores!DebitAdjust,
     Scores!DebitRisk
<1>3. r.macd = "neutral" =>
      Loses(PutPoints(r), Scores!LongCondor(r)) \/ Loses(PutPoints(r), Scores!Calendar(r))
  BY SMTT(60), CalendarRows, LongCondorRows, Signals DEF PutPoints, PutSide, CreditEven,
     CreditRank, Scores!UpTo, Scores!LongCondor, Scores!Calendar, Scores!CalendarIv,
     Scores!CalendarTrend, Scores!CalendarExpansion
<1>4. r.macd = "bullish_exhausted" => Loses(PutPoints(r), Scores!LongCondor(r))
  BY SMTT(60), LongCondorRows, Signals DEF PutPoints, PutSide, CreditEven, CreditRank,
     Scores!UpTo, Scores!LongCondor
<1>5. r.macd = "bearish_exhausted" =>
      Loses(PutPoints(r), Scores!LongCondor(r)) \/ Loses(PutPoints(r), Scores!Calendar(r))
  BY SMTT(60), CalendarRows, LongCondorRows, Signals DEF PutPoints, PutSide, CreditEven,
     CreditRank, Scores!UpTo, Scores!LongCondor, Scores!Calendar, Scores!CalendarIv,
     Scores!CalendarTrend, Scores!CalendarExpansion
<1>6. r.macd = "bearish" =>
      Loses(PutPoints(r), Scores!LongCondor(r)) \/ Loses(PutPoints(r), FallBack(r))
  BY SMTT(60), BackspreadRows, LongCondorRows, Signals DEF PutPoints, PutSide, CreditEven,
     CreditRank, Scores!UpTo, Scores!LongCondor, FallBack, Scores!Backspread
<1>7. r.macd = "strong_bearish" => Loses(PutPoints(r), FallPoints(r))
  BY SMTT(60), DebitRows DEF PutPoints, PutSide, CreditEven, CreditRank, Scores!UpTo,
     FallPoints, FallTrend, FallAdjust, Scores!DebitIv, Scores!DebitTrend, Scores!DebitAdjust,
     Scores!DebitRisk
<1> QED
  BY <1>1, <1>2, <1>3, <1>4, <1>5, <1>6, <1>7

\* Little premium: so does the call credit vertical.
LEMMA CallCreditOutdone ==
  ASSUME NEW r, Reads(r), r.iv <= 30, r.data
  PROVE  /\ r.macd = "strong_bullish" => Loses(CallPoints(r), RisePoints(r))
         /\ r.macd = "bullish" =>
               Loses(CallPoints(r), Scores!LongCondor(r)) \/ Loses(CallPoints(r), RiseBack(r))
         /\ r.macd = "neutral" =>
               Loses(CallPoints(r), Scores!LongCondor(r)) \/ Loses(CallPoints(r), Scores!Calendar(r))
         /\ r.macd = "bullish_exhausted" =>
               Loses(CallPoints(r), Scores!LongCondor(r)) \/ Loses(CallPoints(r), Scores!Calendar(r))
         /\ r.macd = "bearish_exhausted" => Loses(CallPoints(r), Scores!LongCondor(r))
         /\ r.macd = "bearish" =>
               Loses(CallPoints(r), Scores!LongCondor(r)) \/ Loses(CallPoints(r), FallPoints(r))
         /\ r.macd = "strong_bearish" => Loses(CallPoints(r), FallPoints(r))
<1> USE DEF Loses, Below, Reads, Macd, Scores!IfKnown, Scores!Bands, Scores!Calm, Scores!Points,
   Scores!Bulls, Scores!Bears
<1>1. r.macd = "strong_bullish" => Loses(CallPoints(r), RisePoints(r))
  BY SMTT(60), DebitRows DEF CallPoints, CallSide, CreditEven, CreditRank, Scores!UpTo,
     RisePoints, RiseTrend, RiseAdjust, Scores!DebitIv, Scores!DebitTrend, Scores!DebitAdjust,
     Scores!DebitRisk
<1>2. r.macd = "bullish" =>
      Loses(CallPoints(r), Scores!LongCondor(r)) \/ Loses(CallPoints(r), RiseBack(r))
  BY SMTT(60), BackspreadRows, LongCondorRows, Signals DEF CallPoints, CallSide, CreditEven,
     CreditRank, Scores!UpTo, Scores!LongCondor, RiseBack, Scores!Backspread
<1>3. r.macd = "neutral" =>
      Loses(CallPoints(r), Scores!LongCondor(r)) \/ Loses(CallPoints(r), Scores!Calendar(r))
  BY SMTT(60), CalendarRows, LongCondorRows, Signals DEF CallPoints, CallSide, CreditEven,
     CreditRank, Scores!UpTo, Scores!LongCondor, Scores!Calendar, Scores!CalendarIv,
     Scores!CalendarTrend, Scores!CalendarExpansion
<1>4. r.macd = "bullish_exhausted" =>
      Loses(CallPoints(r), Scores!LongCondor(r)) \/ Loses(CallPoints(r), Scores!Calendar(r))
  BY SMTT(60), CalendarRows, LongCondorRows, Signals DEF CallPoints, CallSide, CreditEven,
     CreditRank, Scores!UpTo, Scores!LongCondor, Scores!Calendar, Scores!CalendarIv,
     Scores!CalendarTrend, Scores!CalendarExpansion
<1>5. r.macd = "bearish_exhausted" => Loses(CallPoints(r), Scores!LongCondor(r))
  BY SMTT(60), LongCondorRows, Signals DEF CallPoints, CallSide, CreditEven, CreditRank,
     Scores!UpTo, Scores!LongCondor
<1>6. r.macd = "bearish" =>
      Loses(CallPoints(r), Scores!LongCondor(r)) \/ Loses(CallPoints(r), FallPoints(r))
  <2>1. CASE r.adx = None
    BY SMTT(60), <2>1, DebitRows, LongCondorRows, Signals DEF CallPoints, CallSide, CreditEven,
       CreditRank, Scores!UpTo, Scores!LongCondor, FallPoints, FallTrend, FallAdjust,
       Scores!DebitIv, Scores!DebitTrend, Scores!DebitAdjust, Scores!DebitRisk
  <2>2. CASE r.adx # None /\ r.adx < 25
    BY SMTT(60), <2>2, DebitRows, LongCondorRows, Signals DEF CallPoints, CallSide, CreditEven,
       CreditRank, Scores!UpTo, Scores!LongCondor, FallPoints, FallTrend, FallAdjust,
       Scores!DebitIv, Scores!DebitTrend, Scores!DebitAdjust, Scores!DebitRisk
  <2>3. CASE r.adx # None /\ r.adx >= 25
    BY SMTT(60), <2>3, DebitRows, LongCondorRows, Signals DEF CallPoints, CallSide, CreditEven,
       CreditRank, Scores!UpTo, Scores!LongCondor, FallPoints, FallTrend, FallAdjust,
       Scores!DebitIv, Scores!DebitTrend, Scores!DebitAdjust, Scores!DebitRisk
  <2> QED
    BY <2>1, <2>2, <2>3
<1>7. r.macd = "strong_bearish" => Loses(CallPoints(r), FallPoints(r))
  BY SMTT(60), DebitRows DEF CallPoints, CallSide, CreditEven, CreditRank, Scores!UpTo,
     FallPoints, FallTrend, FallAdjust, Scores!DebitIv, Scores!DebitTrend, Scores!DebitAdjust,
     Scores!DebitRisk
<1> QED
  BY <1>1, <1>2, <1>3, <1>4, <1>5, <1>6, <1>7

\* Much premium: the strategies that buy it lose.
LEMMA BuyersOutdone ==
  ASSUME NEW r, Reads(r), r.iv >= 50
  PROVE  /\ Below(Scores!LongCondor(r), Scores!ShortCondor(r))
         /\ Loses(RiseBack(r), Scores!SecuredPut(r))
<1> USE DEF Loses, Below, Reads, Macd, Scores!IfKnown, Scores!Bands, Scores!Calm, Scores!Points,
   Scores!Bulls, Scores!Bears
<1>1. Below(Scores!LongCondor(r), Scores!ShortCondor(r))
  BY SMTT(60), LongCondorRows, ShortCondorRows, Signals DEF Scores!LongCondor,
     Scores!ShortCondor
<1>2. Loses(RiseBack(r), Scores!SecuredPut(r))
  BY SMTT(60), BackspreadRows, SecuredPutRows DEF RiseBack, Scores!Backspread,
     Scores!SecuredPut, Scores!SecuredTrend
<1> QED
  BY <1>1, <1>2

\* Much premium: the calendars lose, whatever the signal.
LEMMA CalendarOutdone ==
  ASSUME NEW r, Reads(r), r.iv >= 50
  PROVE  /\ r.macd = "strong_bullish" => Loses(Scores!Calendar(r), RisePoints(r))
         /\ r.macd = "bullish" => Loses(Scores!Calendar(r), Scores!SecuredPut(r))
         /\ r.macd = "neutral" => Loses(Scores!Calendar(r), Scores!SecuredPut(r))
         /\ r.macd = "bullish_exhausted" => Loses(Scores!Calendar(r), Scores!SecuredPut(r))
         /\ r.macd = "bearish_exhausted" => Loses(Scores!Calendar(r), Scores!SecuredPut(r))
         /\ r.macd = "bearish" /\ r.adx = None =>
               Loses(Scores!Calendar(r), Scores!SecuredPut(r)) \/ Loses(Scores!Calendar(r), CallPoints(r))
         /\ r.macd = "bearish" /\ r.adx # None /\ r.adx < 20 =>
               Loses(Scores!Calendar(r), Scores!SecuredPut(r)) \/ Loses(Scores!Calendar(r), CallPoints(r))
         /\ r.macd = "bearish" /\ r.adx # None /\ r.adx >= 20 => Loses(Scores!Calendar(r), FallPoints(r))
         /\ r.macd = "strong_bearish" => Loses(Scores!Calendar(r), FallPoints(r))
<1> USE DEF Loses, Below, Reads, Macd, Scores!IfKnown, Scores!Bands, Scores!Calm, Scores!Points,
   Scores!Bulls, Scores!Bears
<1>1. r.macd = "strong_bullish" => Loses(Scores!Calendar(r), RisePoints(r))
  BY SMTT(60), CalendarRows, DebitRows DEF Scores!Calendar, Scores!CalendarIv,
     Scores!CalendarTrend, Scores!CalendarExpansion, RisePoints, RiseTrend, RiseAdjust,
     Scores!DebitIv, Scores!DebitTrend, Scores!DebitAdjust, Scores!DebitRisk
<1>2. r.macd = "bullish" => Loses(Scores!Calendar(r), Scores!SecuredPut(r))
  BY SMTT(60), CalendarRows, SecuredPutRows DEF Scores!Calendar, Scores!CalendarIv,
     Scores!CalendarTrend, Scores!CalendarExpansion, Scores!SecuredPut, Scores!SecuredTrend
<1>3. r.macd = "neutral" => Loses(Scores!Calendar(r), Scores!SecuredPut(r))
  BY SMTT(60), CalendarRows, SecuredPutRows DEF Scores!Calendar, Scores!CalendarIv,
     Scores!CalendarTrend, Scores!CalendarExpansion, Scores!SecuredPut, Scores!SecuredTrend
<1>4. r.macd = "bullish_exhausted" => Loses(Scores!Calendar(r), Scores!SecuredPut(r))
  BY SMTT(60), CalendarRows, SecuredPutRows DEF Scores!Calendar, Scores!CalendarIv,
     Scores!CalendarTrend, Scores!CalendarExpansion, Scores!SecuredPut, Scores!SecuredTrend
<1>5. r.macd = "bearish_exhausted" => Loses(Scores!Calendar(r), Scores!SecuredPut(r))
  BY SMTT(60), CalendarRows, SecuredPutRows DEF Scores!Calendar, Scores!CalendarIv,
     Scores!CalendarTrend, Scores!CalendarExpansion, Scores!SecuredPut, Scores!SecuredTrend
<1>6. r.macd = "bearish" /\ r.adx = None =>
      Loses(Scores!Calendar(r), Scores!SecuredPut(r)) \/ Loses(Scores!Calendar(r), CallPoints(r))
  BY SMTT(60), CalendarRows, SecuredPutRows DEF Scores!Calendar, Scores!CalendarIv,
     Scores!CalendarTrend, Scores!CalendarExpansion, Scores!SecuredPut, Scores!SecuredTrend,
     CallPoints, CallSide, CreditEven, CreditRank, Scores!UpTo
<1>7. r.macd = "bearish" /\ r.adx # None /\ r.adx < 20 =>
      Loses(Scores!Calendar(r), Scores!SecuredPut(r)) \/ Loses(Scores!Calendar(r), CallPoints(r))
  BY SMTT(60), CalendarRows, SecuredPutRows DEF Scores!Calendar, Scores!CalendarIv,
     Scores!CalendarTrend, Scores!CalendarExpansion, Scores!SecuredPut, Scores!SecuredTrend,
     CallPoints, CallSide, CreditEven, CreditRank, Scores!UpTo
<1>8. r.macd = "bearish" /\ r.adx # None /\ r.adx >= 20 => Loses(Scores!Calendar(r), FallPoints(r))
  BY SMTT(60), CalendarRows, DebitRows DEF Scores!Calendar, Scores!CalendarIv,
     Scores!CalendarTrend, Scores!CalendarExpansion, FallPoints, FallTrend, FallAdjust,
     Scores!DebitIv, Scores!DebitTrend, Scores!DebitAdjust, Scores!DebitRisk
<1>9. r.macd = "strong_bearish" => Loses(Scores!Calendar(r), FallPoints(r))
  BY SMTT(60), CalendarRows, DebitRows DEF Scores!Calendar, Scores!CalendarIv,
     Scores!CalendarTrend, Scores!CalendarExpansion, FallPoints, FallTrend, FallAdjust,
     Scores!DebitIv, Scores!DebitTrend, Scores!DebitAdjust, Scores!DebitRisk
<1> QED
  BY <1>1, <1>2, <1>3, <1>4, <1>5, <1>6, <1>7, <1>8, <1>9

\* Points are numbers.
LEMMA PointsAreInts ==
  ASSUME NEW r, Reads(r)
  PROVE  /\ PutPoints(r) \in Int /\ CallPoints(r) \in Int
         /\ RisePoints(r) \in Int /\ FallPoints(r) \in Int
         /\ RiseBack(r) \in Int /\ FallBack(r) \in Int
         /\ Scores!SecuredPut(r) \in Int /\ Scores!CoveredCall(r) \in Int
         /\ Scores!ShortCondor(r) \in Int /\ Scores!LongCondor(r) \in Int
         /\ Scores!Butterfly(r) \in Int /\ Scores!ShortVolatility(r) \in Int
         /\ Scores!LongStraddle(r) \in Int /\ Scores!LongStrangle(r) \in Int
         /\ Scores!Calendar(r) \in Int
<1>1. /\ PutPoints(r) \in Int /\ CallPoints(r) \in Int
      /\ RisePoints(r) \in Int /\ FallPoints(r) \in Int
  BY CreditForm, DebitForm
<1> USE DEF Reads, Macd, Scores!IfKnown, Scores!Bands, Scores!Calm, Scores!Points, Scores!Bulls,
           Scores!Bears
<1>2. RiseBack(r) \in Int /\ FallBack(r) \in Int
  BY BackspreadRows DEF RiseBack, FallBack, Scores!Backspread
<1>3. Scores!SecuredPut(r) \in Int
  BY SecuredPutRows DEF Scores!SecuredPut, Scores!SecuredTrend
<1>4. Scores!CoveredCall(r) \in Int
  BY CoveredRows DEF Scores!CoveredCall
<1>5. Scores!ShortCondor(r) \in Int
  BY ShortCondorRows, Signals DEF Scores!ShortCondor
<1>6. Scores!LongCondor(r) \in Int
  BY LongCondorRows, Signals DEF Scores!LongCondor
<1>7. Scores!Butterfly(r) \in Int
  BY ButterflyRows DEF Scores!Butterfly
<1>8. Scores!ShortVolatility(r) \in Int
  BY VolatilityRows, Signals DEF Scores!ShortVolatility
<1>9. Scores!LongStraddle(r) \in Int
  BY StraddleRows, Signals DEF Scores!LongStraddle
<1>10. Scores!LongStrangle(r) \in Int
  BY StrangleRows, Signals DEF Scores!LongStrangle
<1>11. Scores!Calendar(r) \in Int
  BY CalendarRows DEF Scores!Calendar, Scores!CalendarIv, Scores!CalendarTrend,
     Scores!CalendarExpansion
<1> QED
  BY <1>1, <1>2, <1>3, <1>4, <1>5, <1>6, <1>7, <1>8, <1>9, <1>10, <1>11

LEMMA StrategiesAre ==
  Scores!Strategies =
    {"short_put_vertical", "short_call_vertical", "cash_secured_put",
     "long_call_vertical", "long_put_vertical", "short_iron_condor",
     "long_iron_condor", "long_straddle", "long_strangle", "iron_butterfly",
     "long_call_ratio_backspread", "call_calendar", "put_calendar", "covered_call",
     "short_straddle", "short_strangle", "long_put_ratio_backspread"}
BY DEF Scores!Strategies, Scores!Ranking

\* The scores are the points, cut; a vertical scores nothing without data.
LEMMA EveryScore ==
  ASSUME NEW r, Reads(r), NEW v, v = Scores!Scores(r)
  PROVE  /\ v["short_put_vertical"] = IF r.data THEN Scores!Clamp(PutPoints(r)) ELSE 0
         /\ v["short_call_vertical"] = IF r.data THEN Scores!Clamp(CallPoints(r)) ELSE 0
         /\ v["long_call_vertical"] = IF r.data THEN Scores!Clamp(RisePoints(r)) ELSE 0
         /\ v["long_put_vertical"] = IF r.data THEN Scores!Clamp(FallPoints(r)) ELSE 0
         /\ v["cash_secured_put"] = Scores!Clamp(Scores!SecuredPut(r))
         /\ v["covered_call"] = Scores!Clamp(Scores!CoveredCall(r))
         /\ v["short_iron_condor"] = Scores!AtLeast0(Scores!ShortCondor(r))
         /\ v["long_iron_condor"] = Scores!AtLeast0(Scores!LongCondor(r))
         /\ v["iron_butterfly"] = Scores!AtLeast0(Scores!Butterfly(r))
         /\ v["long_straddle"] = Scores!AtLeast0(Scores!LongStraddle(r))
         /\ v["long_strangle"] = Scores!AtLeast0(Scores!LongStrangle(r))
         /\ v["short_straddle"] = Scores!AtLeast0(Scores!ShortVolatility(r))
         /\ v["short_strangle"] = Scores!AtLeast0(Scores!ShortVolatility(r))
         /\ v["long_call_ratio_backspread"] = Scores!AtLeast0(RiseBack(r))
         /\ v["long_put_ratio_backspread"] = Scores!AtLeast0(FallBack(r))
         /\ v["call_calendar"] = Scores!AtLeast0(Scores!Calendar(r))
         /\ v["put_calendar"] = Scores!AtLeast0(Scores!Calendar(r))
<1>1. /\ v["short_put_vertical"] = PutCredit(r) /\ v["short_call_vertical"] = CallCredit(r)
      /\ v["long_call_vertical"] = RiseDebit(r) /\ v["long_put_vertical"] = FallDebit(r)
  BY DEF Scores!Scores, PutCredit, CallCredit, RiseDebit, FallDebit
<1>2. /\ v["short_put_vertical"] = IF r.data THEN Scores!Clamp(PutPoints(r)) ELSE 0
      /\ v["short_call_vertical"] = IF r.data THEN Scores!Clamp(CallPoints(r)) ELSE 0
  BY <1>1, CreditForm
<1>3. /\ v["long_call_vertical"] = IF r.data THEN Scores!Clamp(RisePoints(r)) ELSE 0
      /\ v["long_put_vertical"] = IF r.data THEN Scores!Clamp(FallPoints(r)) ELSE 0
  BY <1>1, DebitForm
<1>4. /\ v["cash_secured_put"] = Scores!Clamp(Scores!SecuredPut(r))
      /\ v["covered_call"] = Scores!Clamp(Scores!CoveredCall(r))
      /\ v["short_iron_condor"] = Scores!AtLeast0(Scores!ShortCondor(r))
      /\ v["long_iron_condor"] = Scores!AtLeast0(Scores!LongCondor(r))
      /\ v["iron_butterfly"] = Scores!AtLeast0(Scores!Butterfly(r))
      /\ v["long_straddle"] = Scores!AtLeast0(Scores!LongStraddle(r))
      /\ v["long_strangle"] = Scores!AtLeast0(Scores!LongStrangle(r))
      /\ v["short_straddle"] = Scores!AtLeast0(Scores!ShortVolatility(r))
      /\ v["short_strangle"] = Scores!AtLeast0(Scores!ShortVolatility(r))
  BY DEF Scores!Scores, Scores!ShortStrangle
<1>5. /\ v["long_call_ratio_backspread"] = Scores!AtLeast0(RiseBack(r))
      /\ v["long_put_ratio_backspread"] = Scores!AtLeast0(FallBack(r))
      /\ v["call_calendar"] = Scores!AtLeast0(Scores!Calendar(r))
      /\ v["put_calendar"] = Scores!AtLeast0(Scores!Calendar(r))
  BY DEF Scores!Scores, Scores!PutBackspread, RiseBack, FallBack
<1> QED
  BY <1>2, <1>3, <1>4, <1>5, Zenon

LEMMA ScoresAreInts ==
  ASSUME NEW r, Reads(r), NEW t \in Scores!Strategies
  PROVE  Scores!Scores(r)[t] \in Int
<1>1. \A p \in Int : Scores!Clamp(p) \in Int /\ Scores!AtLeast0(p) \in Int
  BY DEF Scores!Clamp, Scores!UpTo, Scores!AtLeast0
<1> QED
  BY <1>1, PointsAreInts, StrategiesAre, EveryScore

\* What loses by its points loses by its score.
LEMMA LosesCut ==
  ASSUME NEW p \in Int, NEW q \in Int, Loses(p, q),
         NEW x \in {Scores!Clamp(p), Scores!AtLeast0(p)},
         NEW y \in {Scores!Clamp(q), Scores!AtLeast0(q)}
  PROVE  300 <= x => x < y
BY DEF Loses, Scores!Clamp, Scores!UpTo, Scores!AtLeast0

LEMMA BelowCut ==
  ASSUME NEW p \in Int, NEW q \in Int, Below(p, q)
  PROVE  300 <= Scores!AtLeast0(p) => Scores!AtLeast0(p) < Scores!AtLeast0(q)
BY DEF Below, Scores!AtLeast0

\* What something eligible outdoes is not the one best.
LEMMA NotTheBest ==
  ASSUME NEW r, Reads(r), NEW s \in Scores!Strategies, NEW t \in Scores!Strategies,
         300 <= Scores!Scores(r)[s] => Scores!Scores(r)[s] < Scores!Scores(r)[t]
  PROVE  s \notin Scores!Best(Scores!Scores(r), 1)
<1> SUFFICES ASSUME s \in Scores!Best(Scores!Scores(r), 1) PROVE FALSE
  OBVIOUS
<1>1. PICK v : v = Scores!Scores(r)
  OBVIOUS
<1>2. v[s] \in Int /\ v[t] \in Int
  BY <1>1, ScoresAreInts
<1>3. 300 <= v[s] /\ v[t] <= v[s]
  BY <1>1, <1>2, NoneBetter
<1> QED
  BY <1>1, <1>2, <1>3

\* What three outdo is not among the three best.
LEMMA NotAmongThree ==
  ASSUME NEW r, Reads(r), NEW n \in 1..3, NEW s \in Scores!Strategies,
         NEW t \in Scores!Strategies, NEW u \in Scores!Strategies, NEW w \in Scores!Strategies,
         t # u, t # w, u # w,
         300 <= Scores!Scores(r)[s] => Scores!Scores(r)[s] < Scores!Scores(r)[t],
         300 <= Scores!Scores(r)[s] => Scores!Scores(r)[s] < Scores!Scores(r)[u],
         300 <= Scores!Scores(r)[s] => Scores!Scores(r)[s] < Scores!Scores(r)[w]
  PROVE  s \notin Scores!Best(Scores!Scores(r), n)
<1> SUFFICES ASSUME s \in Scores!Best(Scores!Scores(r), n) PROVE FALSE
  OBVIOUS
<1>1. PICK v : v = Scores!Scores(r)
  OBVIOUS
<1>2. v[s] \in Int /\ \A x \in {t, u, w} : v[x] \in Int
  BY <1>1, ScoresAreInts
<1> DEFINE eligible == {x \in Scores!Strategies : v[x] >= 300}
           place(x) == CHOOSE i \in DOMAIN Scores!Ranking : Scores!Ranking[i] = x
           before(x, y) == v[x] > v[y] \/ (v[x] = v[y] /\ place(x) < place(y))
           better == {x \in eligible : before(x, s)}
<1>3. s \in eligible /\ Cardinality(better) < n
  <2>1. Scores!Best(v, n) = {x \in eligible : Scores!Cardinality({y \in eligible : before(y, x)}) < n}
    BY Zenon DEF Scores!Best, Scores!MinAutoScore
  <2> HIDE DEF place
  <2> QED
    BY <1>1, <2>1, SameCardinality, Zenon
<1>4. IsFiniteSet(better) /\ Cardinality(better) \in Nat
  BY FewStrategies, FS_Subset, FS_CardinalityType
<1>5. {t, u, w} \subseteq better
  <2>1. \A x \in {t, u, w} : x \in Scores!Strategies /\ v[x] > v[s] /\ v[x] >= 300
    BY <1>1, <1>2, <1>3
  <2> HIDE DEF place
  <2> QED
    BY <2>1
<1> HIDE DEF better
<1>6. Cardinality({t, u, w}) <= Cardinality(better)
  BY <1>4, <1>5, FS_Subset
<1>7. Cardinality({t, u, w}) = 3
  <2>1. IsFiniteSet({t}) /\ Cardinality({t}) = 1
    BY FS_Singleton
  <2>2. u \notin {t} /\ w \notin {t} \cup {u}
    OBVIOUS
  <2>3. IsFiniteSet({t} \cup {u}) /\ Cardinality({t} \cup {u}) = Cardinality({t}) + 1
    BY <2>1, <2>2, FS_AddElement, Zenon
  <2>4. Cardinality(({t} \cup {u}) \cup {w}) = Cardinality({t} \cup {u}) + 1
    BY <2>2, <2>3, FS_AddElement, Zenon
  <2>5. ({t} \cup {u}) \cup {w} = {t, u, w}
    OBVIOUS
  <2>6. Cardinality(({t} \cup {u}) \cup {w}) = 3
    BY <2>1, <2>3, <2>4
  <2> QED
    BY <2>5, <2>6
<1> QED
  BY <1>3, <1>4, <1>6, <1>7

\* A bull regime favours rising positions in the automatic pick and, when the live quote
\* is above the average, in the suggestions mailed; a bear regime leaves of them only the
\* cash secured put to be picked.
LEMMA TrendKept ==
  ASSUME NEW r, Reads(r), NEW n \in 1..3
  PROVE  /\ r.regime = "bull" => Scores!Best(Scores!Scores(r), 1) \cap Scores!Falling = {}
         /\ r.regime = "bull" /\ r.live = 1 => Scores!Best(Scores!Scores(r), n) \cap Scores!Falling = {}
         /\ r.regime = "bear" =>
              Scores!Best(Scores!Scores(r), 1) \cap Scores!Rising \subseteq {"cash_secured_put"}
<1>1. PICK v : v = Scores!Scores(r)
  OBVIOUS
<1>2. ASSUME NEW s \in Scores!Strategies, NEW x \in Scores!Strategies, NEW y \in Scores!Strategies,
             NEW z \in Scores!Strategies, x # y, x # z, y # z,
             300 <= v[s] => v[s] < v[x], 300 <= v[s] => v[s] < v[y], 300 <= v[s] => v[s] < v[z]
      PROVE  s \notin Scores!Best(v, n)
  BY <1>1, <1>2, NotAmongThree
<1>3. CASE r.regime = "bull"
  <2>1. r.data /\ r.macd \in {"bullish", "strong_bullish"}
    BY <1>3 DEF Reads
  <2>2. /\ "long_put_ratio_backspread" \notin Scores!Best(v, n)
        /\ "long_put_ratio_backspread" \notin Scores!Best(v, 1)
    <3>1. FallBack(r) = 0
      BY <2>1 DEF FallBack, Scores!Backspread
    <3>2. ~(300 <= v["long_put_ratio_backspread"])
      BY <1>1, <3>1, EveryScore DEF Scores!AtLeast0
    <3>3. "long_put_ratio_backspread" \notin Scores!Best(v, n)
      BY <1>2, <3>2, StrategiesAre
    <3>4. "long_put_ratio_backspread" \notin Scores!Best(v, 1)
      BY <1>1, <3>2, StrategiesAre, NotTheBest
    <3> QED
      BY <3>3, <3>4
  <2>3. 300 <= v["short_call_vertical"] => v["short_call_vertical"] < v["short_put_vertical"]
    BY <1>1, <1>3, <2>1, CreditOutdone, PointsAreInts, EveryScore, LosesCut
  <2>4. 300 <= v["long_put_vertical"] => v["long_put_vertical"] < v["long_call_vertical"]
    BY <1>1, <1>3, <2>1, OutdoneInBull, PointsAreInts, EveryScore, LosesCut
  <2>5. "short_call_vertical" \notin Scores!Best(v, 1)
    BY <1>1, <2>3, StrategiesAre, NotTheBest
  <2>6. "long_put_vertical" \notin Scores!Best(v, 1)
    BY <1>1, <2>4, StrategiesAre, NotTheBest
  <2>7. r.live = 1 => "short_call_vertical" \notin Scores!Best(v, n)
    <3> SUFFICES ASSUME r.live = 1 PROVE "short_call_vertical" \notin Scores!Best(v, n)
      OBVIOUS
    <3>2. 300 <= v["short_call_vertical"] => v["short_call_vertical"] < v["long_call_vertical"]
      BY <1>1, <1>3, <2>1, OutdoneInBull, PointsAreInts, EveryScore, LosesCut
    <3>3. PICK t \in {"cash_secured_put", "long_call_ratio_backspread"} :
            300 <= v["short_call_vertical"] => v["short_call_vertical"] < v[t]
      <4>1. CASE r.iv >= 50
        BY <1>1, <1>3, <2>1, <4>1, OutdoneInBull, PointsAreInts, EveryScore, LosesCut
      <4>2. CASE r.iv < 50
        BY <1>1, <1>3, <2>1, <4>2, OutdoneInBull, PointsAreInts, EveryScore, LosesCut
      <4> QED
        BY <4>1, <4>2 DEF Reads
    <3>4. /\ "short_call_vertical" \in Scores!Strategies /\ "short_put_vertical" \in Scores!Strategies
          /\ "long_call_vertical" \in Scores!Strategies /\ t \in Scores!Strategies
      BY StrategiesAre
    <3> QED
      BY <1>2, <2>3, <3>2, <3>3, <3>4
  <2>8. r.live = 1 => "long_put_vertical" \notin Scores!Best(v, n)
    <3> SUFFICES ASSUME r.live = 1 PROVE "long_put_vertical" \notin Scores!Best(v, n)
      OBVIOUS
    <3>1. \A t \in {"cash_secured_put", "long_call_ratio_backspread"} :
             300 <= v["long_put_vertical"] => v["long_put_vertical"] < v[t]
      BY <1>1, <1>3, <2>1, OutdoneInBull, PointsAreInts, EveryScore, LosesCut
    <3>2. /\ "long_put_vertical" \in Scores!Strategies /\ "long_call_vertical" \in Scores!Strategies
          /\ "cash_secured_put" \in Scores!Strategies
          /\ "long_call_ratio_backspread" \in Scores!Strategies
      BY StrategiesAre
    <3> QED
      BY <1>2, <2>4, <3>1, <3>2
  <2> QED
    BY <1>1, <1>3, <2>2, <2>5, <2>6, <2>7, <2>8 DEF Scores!Falling
<1>4. CASE r.regime = "bear"
  <2>1. r.data /\ r.macd \in {"bearish", "strong_bearish"}
    BY <1>4 DEF Reads
  <2>2. "long_call_ratio_backspread" \notin Scores!Best(v, 1)
    <3>1. RiseBack(r) = 0
      BY <2>1 DEF RiseBack, Scores!Backspread
    <3>2. ~(300 <= v["long_call_ratio_backspread"])
      BY <1>1, <3>1, EveryScore DEF Scores!AtLeast0
    <3> QED
      BY <1>1, <3>2, StrategiesAre, NotTheBest
  <2>3. "short_put_vertical" \notin Scores!Best(v, 1)
    <3>1. 300 <= v["short_put_vertical"] => v["short_put_vertical"] < v["short_call_vertical"]
      BY <1>1, <1>4, <2>1, CreditOutdone, PointsAreInts, EveryScore, LosesCut
    <3> QED
      BY <1>1, <3>1, StrategiesAre, NotTheBest
  <2>4. "long_call_vertical" \notin Scores!Best(v, 1)
    <3>1. 300 <= v["long_call_vertical"] => v["long_call_vertical"] < v["long_put_vertical"]
      BY <1>1, <1>4, <2>1, OutdoneInBear, PointsAreInts, EveryScore, LosesCut
    <3> QED
      BY <1>1, <3>1, StrategiesAre, NotTheBest
  <2>5. "covered_call" \notin Scores!Best(v, 1)
    <3>1. PICK t \in {"long_put_ratio_backspread", "short_call_vertical"} :
            300 <= v["covered_call"] => v["covered_call"] < v[t]
      <4>1. CASE r.iv >= 50
        BY <1>1, <1>4, <2>1, <4>1, OutdoneInBear, PointsAreInts, EveryScore, LosesCut
      <4>2. CASE r.iv < 50
        BY <1>1, <1>4, <2>1, <4>2, OutdoneInBear, PointsAreInts, EveryScore, LosesCut
      <4> QED
        BY <4>1, <4>2 DEF Reads
    <3> QED
      BY <1>1, <3>1, StrategiesAre, NotTheBest
  <2> QED
    BY <1>1, <1>4, <2>2, <2>3, <2>4, <2>5 DEF Scores!Rising
<1> QED
  BY <1>3, <1>4

\* Where implied volatility has little rank no seller of premium is the best, and where
\* it has much no buyer.
LEMMA PremiumKept ==
  ASSUME NEW r, Reads(r), NEW s \in Scores!Best(Scores!Scores(r), 1)
  PROVE  /\ s \in Scores!Sellers => r.iv > 30
         /\ s \in Scores!Buyers => r.iv < 50
<1>1. PICK v : v = Scores!Scores(r)
  OBVIOUS
<1>2. \A t \in Scores!Strategies : ~(300 <= v[s] => v[s] < v[t])
  <2>1. s \in Scores!Strategies
    BY DEF Scores!Best
  <2> QED
    BY <1>1, <2>1, NotTheBest
<1>3. ASSUME s \in Scores!Sellers, r.iv <= 30 PROVE FALSE
  <2>1. r.data \/ s \notin {"short_put_vertical", "short_call_vertical"}
    BY <1>1, <1>2, EveryScore, StrategiesAre
  <2>2. CASE s \in {"short_iron_condor", "iron_butterfly", "short_straddle", "short_strangle"}
    <3>1. 300 <= v[s] => v[s] < v["long_iron_condor"]
      BY <1>1, <1>3, <2>2, NeutralOutdone, PointsAreInts, EveryScore, BelowCut
    <3> QED
      BY <1>2, <3>1, StrategiesAre
  <2>3. CASE s \in {"cash_secured_put", "short_put_vertical", "short_call_vertical"}
    <3>1. PICK p \in Int : /\ v[s] = Scores!Clamp(p)
                           /\ \/ \E q \in {Scores!LongCondor(r), Scores!Calendar(r), RiseBack(r), FallBack(r)} :
                                   Loses(p, q)
                              \/ r.data /\ \E q \in {RisePoints(r), FallPoints(r)} : Loses(p, q)
      <4>1. CASE s = "cash_secured_put"
        <5>1. v[s] = Scores!Clamp(Scores!SecuredPut(r)) /\ Scores!SecuredPut(r) \in Int
          BY <1>1, <4>1, EveryScore, PointsAreInts
        <5>2. r.macd \in Macd /\ (~r.data => r.macd = "neutral")
          BY DEF Reads
        <5> QED
          BY <1>3, <5>1, <5>2, SecuredPutOutdone DEF Macd
      <4>2. CASE s = "short_put_vertical"
        <5>1. r.data /\ v[s] = Scores!Clamp(PutPoints(r)) /\ PutPoints(r) \in Int
          BY <1>1, <2>1, <4>2, EveryScore, PointsAreInts
        <5>2. r.macd \in Macd
          BY DEF Reads
        <5> QED
          BY <1>3, <5>1, <5>2, PutCreditOutdone DEF Macd
      <4>3. CASE s = "short_call_vertical"
        <5>1. r.data /\ v[s] = Scores!Clamp(CallPoints(r)) /\ CallPoints(r) \in Int
          BY <1>1, <2>1, <4>3, EveryScore, PointsAreInts
        <5>2. r.macd \in Macd
          BY DEF Reads
        <5> QED
          BY <1>3, <5>1, <5>2, CallCreditOutdone DEF Macd
      <4> QED
        BY <2>3, <4>1, <4>2, <4>3
    <3>2. PICK t \in Scores!Strategies : 300 <= v[s] => v[s] < v[t]
      BY <1>1, <3>1, StrategiesAre, PointsAreInts, EveryScore, LosesCut
    <3> QED
      BY <1>2, <3>2
  <2> QED
    BY <1>3, <2>2, <2>3 DEF Scores!Sellers
<1>4. ASSUME s \in Scores!Buyers, r.iv >= 50 PROVE FALSE
  <2>1. CASE s = "long_iron_condor"
    <3>1. 300 <= v[s] => v[s] < v["short_iron_condor"]
      BY <1>1, <1>4, <2>1, BuyersOutdone, PointsAreInts, EveryScore, BelowCut
    <3> QED
      BY <1>2, <3>1, StrategiesAre
  <2>2. CASE s = "long_call_ratio_backspread"
    <3>1. v[s] = Scores!AtLeast0(RiseBack(r))
      BY <1>1, <2>2, EveryScore
    <3>2. 300 <= v[s] => v[s] < v["cash_secured_put"]
      BY <1>1, <1>4, <3>1, BuyersOutdone, PointsAreInts, EveryScore, LosesCut
    <3> QED
      BY <1>2, <3>2, StrategiesAre
  <2>3. CASE s \in {"call_calendar", "put_calendar"}
    <3>1. v[s] = Scores!AtLeast0(Scores!Calendar(r))
      BY <1>1, <2>3, EveryScore
    <3>2. \/ Loses(Scores!Calendar(r), Scores!SecuredPut(r))
          \/ r.data /\ \E q \in {RisePoints(r), FallPoints(r), CallPoints(r)} :
                          Loses(Scores!Calendar(r), q)
      <4>1. /\ r.macd \in Macd /\ (~r.data => r.macd = "neutral")
            /\ r.adx = None \/ r.adx < 20 \/ r.adx >= 20
        BY DEF Reads
      <4> QED
        BY <1>4, <4>1, CalendarOutdone, Zenon DEF Macd
    <3>3. PICK t \in Scores!Strategies : 300 <= v[s] => v[s] < v[t]
      BY <1>1, <3>1, <3>2, StrategiesAre, PointsAreInts, EveryScore, LosesCut
    <3> QED
      BY <1>2, <3>3
  <2> QED
    BY <1>4, <2>1, <2>2, <2>3 DEF Scores!Buyers
<1>5. r.iv \in Nat
  BY DEF Reads
<1> QED
  BY <1>3, <1>4, <1>5

-----------------------------------------------------------------------------
(* What is picked                                                            *)

\* The report is that of the market, and only one that lets trade is picked from.
ScoresInv ==
    part = "scores" =>
        /\ market \in Fetchable
        /\ report # None => report = Scores!Report(market) /\ scores = Scores!Scores(report)
        /\ mode \in {"auto", "top", "trident"} /\ pick # {} =>
              report # None /\ report.canTrade
        /\ mode = "none" => pick = {}
        /\ mode = "auto" => report # None /\ pick \subseteq Scores!Best(scores, 1)
        /\ mode = "top" => report # None /\ pick \subseteq Scores!Best(scores, Count)

LEMMA ScoresStep == ASSUME ScoresInv, [NextOfOne]_allVars PROVE ScoresInv'
<1>1. CASE UNCHANGED <<part, scoresVars>>
  BY <1>1 DEF ScoresInv, scoresVars
<1>2. CASE part = "scores" /\ part' = part /\ Scores!Analyze
  BY <1>2 DEF ScoresInv, Scores!Analyze
<1>3. CASE part = "scores" /\ part' = part /\ Scores!Auto
  BY <1>3 DEF ScoresInv, Scores!Auto
<1>4. CASE part = "scores" /\ part' = part /\ Scores!Top
  BY <1>4 DEF ScoresInv, Scores!Top
<1>5. CASE part = "scores" /\ part' = part /\ Scores!AskTrident
  <2>1. Scores!Trident(report) >= 400 => report.canTrade
    <3>1. ~report.canTrade => Scores!Trident(report) = 0
      BY DEF Scores!Trident
    <3> QED
      BY <3>1
  <2> QED
    BY <1>5, <2>1 DEF ScoresInv, Scores!AskTrident, Scores!MinScore
<1>6. ASSUME NEW s \in Scores!Strategies, part = "scores", part' = part, Scores!Forced(s)
      PROVE  ScoresInv'
  BY <1>6 DEF ScoresInv, Scores!Forced
<1> QED
  BY <1>1, <1>2, <1>3, <1>4, <1>5, <1>6 DEF NextOfOne, allVars, scoresVars, Scores!Next

LEMMA ScoresHold == ASSUME ScoresInv PROVE PicksFit
<1> SUFFICES ASSUME part = "scores"
             PROVE  Scores!HardStopsHold /\ Scores!WithTheTrend /\ Scores!PremiumFits
                    /\ Scores!MirrorImage
  BY DEF PicksFit
<1>1. market \in Fetchable
  BY DEF ScoresInv
<1>2. Scores!HardStopsHold
  <2> SUFFICES ASSUME report = Scores!Report(market), report.canTrade
               PROVE  /\ market.age \in 0 .. 5
                      /\ market.earnings = None \/ market.earnings \notin 1 .. 7
                      /\ \A days \in {market.exDiv, market.nextDiv} : days = None \/ days \notin 1 .. 5
    BY DEF ScoresInv, Scores!HardStopsHold
  <2>1. ~Scores!HardStop(Scores!Known(market))
    BY DEF Scores!Report
  <2>2. /\ Scores!Known(market).age = market.age /\ Scores!Known(market).earnings = market.earnings
        /\ Scores!Known(market).exDiv = market.exDiv /\ Scores!Known(market).nextDiv = market.nextDiv
    BY <1>1 DEF Scores!Known, Fetchable
  <2> QED
    BY <1>1, <2>1, <2>2 DEF Fetchable, Scores!HardStop, Scores!Stale, Scores!EarningsNear,
       Scores!DividendNear, Scores!Upcoming
<1>3. Scores!MirrorImage
  <2> SUFFICES ASSUME report # None
               PROVE  scores.short_put_vertical = Scores!CreditVertical(FALSE, Scores!Mirror(report))
    BY DEF Scores!MirrorImage
  <2>1. report = Scores!Report(market) /\ scores = Scores!Scores(report)
    BY DEF ScoresInv
  <2>2. scores.short_put_vertical = Scores!CreditVertical(TRUE, report)
    BY <2>1 DEF Scores!Scores
  <2> QED
    BY <1>1, <2>1, <2>2, CreditsMirror
<1>4. ASSUME pick # {}, mode \in {"auto", "top"}
      PROVE  /\ report = Scores!Report(market) /\ scores = Scores!Scores(report)
             /\ Reads(report) /\ report.iv = market.iv
  <2>1. /\ report # None /\ report = Scores!Report(market) /\ scores = Scores!Scores(report)
        /\ report.canTrade
    BY <1>4 DEF ScoresInv
  <2>2. Scores!Known(market).iv = market.iv
    BY <1>1 DEF Scores!Known, Fetchable
  <2> QED
    BY <1>1, <2>1, <2>2, ReportIsTraded DEF Scores!Report
<1>5. Scores!WithTheTrend
  <2>1. CASE pick = {}
    BY <2>1 DEF Scores!WithTheTrend
  <2>2. ASSUME pick # {}, mode \in {"auto", "top"} PROVE Scores!WithTheTrend
    <3>1. Count \in 1..3
      BY MarketAssumption
    <3>2. Reads(report) /\ report.live \in -1..1 /\ scores = Scores!Scores(report)
      BY <1>4, <2>2 DEF Reads
    <3>3. /\ mode = "auto" => pick \subseteq Scores!Best(scores, 1)
          /\ mode = "top" => pick \subseteq Scores!Best(scores, Count)
      BY DEF ScoresInv
    <3>4. report.regime = "bull" /\ pick \cap Scores!Falling # {} => mode = "top" /\ report.live < 1
      BY <2>2, <3>1, <3>2, <3>3, TrendKept
    <3>5. mode = "auto" /\ report.regime = "bear" => pick \cap Scores!Rising \subseteq {"cash_secured_put"}
      BY <3>1, <3>2, <3>3, TrendKept
    <3> QED
      BY <3>4, <3>5 DEF Scores!WithTheTrend
  <2>3. CASE mode \notin {"auto", "top"}
    BY <2>3 DEF Scores!WithTheTrend
  <2> QED
    BY <2>1, <2>2, <2>3
<1>6. Scores!PremiumFits
  <2>1. CASE pick = {}
    BY <2>1 DEF Scores!PremiumFits
  <2>2. ASSUME pick # {}, mode = "auto" PROVE Scores!PremiumFits
    <3>1. \A s \in pick : s \in Scores!Best(scores, 1)
      BY <2>2 DEF ScoresInv
    <3> QED
      BY <1>4, <2>2, <3>1, PremiumKept DEF Scores!PremiumFits
  <2>3. CASE mode # "auto"
    BY <2>3 DEF Scores!PremiumFits
  <2> QED
    BY <2>1, <2>2, <2>3
<1> QED
  BY <1>2, <1>3, <1>5, <1>6

\* Of every market: nothing but a strategy the user names is suggested on stale data or
\* before earnings and dividends, however the seventeen scores combine the automatic pick
\* and the mailed suggestions fit the regime and the pick the rank of volatility, and the
\* two credit verticals are mirror images.
THEOREM PicksFitEveryMarket == SpecOfOne => []PicksFit
<1>1. InitOfOne => ScoresInv
  BY MarketAssumption DEF InitOfOne, Scores!Init, ScoresInv
<1>2. ScoresInv /\ [NextOfOne]_allVars => ScoresInv'
  BY ScoresStep
<1>3. ScoresInv => PicksFit
  BY ScoresHold
<1> QED
  BY <1>1, <1>2, <1>3, PTL DEF SpecOfOne

-----------------------------------------------------------------------------
(* Strikes of a chain                                                        *)

\* A set of naturals has a least element, and a bounded one a greatest.
LEMMA Least ==
  ASSUME NEW T \in SUBSET Nat, T # {}
  PROVE  \E x \in T : \A y \in T : x <= y
<1>1. PICK x \in T : \A y \in T : ~(<<y, x>> \in OpToRel(<, Nat))
  BY NatLessThanWellFounded, WFMin
<1>2. \A y \in T : ~(y < x)
  BY <1>1 DEF OpToRel
<1> QED
  BY <1>2

LEMMA Greatest ==
  ASSUME NEW T \in SUBSET Nat, T # {}, NEW b \in Nat, \A x \in T : x <= b
  PROVE  \E x \in T : \A y \in T : y <= x
<1> DEFINE U == {b - x : x \in T}
<1>1. U \in SUBSET Nat /\ U # {}
  <2>1. \A x \in T : b - x \in Nat
    OBVIOUS
  <2> QED
    BY <2>1
<1>2. PICK u \in U : \A v \in U : u <= v
  BY <1>1, Least
<1>3. PICK x \in T : u = b - x
  OBVIOUS
<1>4. \A y \in T : b - x <= b - y
  BY <1>2, <1>3
<1> QED
  BY <1>4

LEMMA GreatestIsMax ==
  ASSUME NEW T \in SUBSET Nat, T # {}, NEW b \in Nat, \A x \in T : x <= b
  PROVE  Spreads!Max(T) \in T
  BY Greatest DEF Spreads!Max

LEMMA LeastIsMin ==
  ASSUME NEW T \in SUBSET Nat, T # {}
  PROVE  Spreads!Min(T) \in T
  BY Least DEF Spreads!Min

\* s is found before x for the target t.
Before(t, s, x) ==
    \/ Spreads!Distance(s, t) < Spreads!Distance(x, t)
    \/ Spreads!Distance(s, t) = Spreads!Distance(x, t) /\ s < x

\* s is the strike of S found for the target t.
FoundFor(t, S, s) == s \in S /\ \A x \in S \ {s} : Before(t, s, x)

LEMMA NearestIsFound ==
  ASSUME NEW t \in Int, NEW S \in SUBSET Nat, S # {}
  PROVE  FoundFor(t, S, Spreads!Nearest(t, S))
<1> DEFINE rank(s) == 2 * Spreads!Distance(s, t) + (IF s < t THEN 0 ELSE 1)
           ranks == {rank(s) : s \in S}
<1>1. \A s \in S : rank(s) \in Nat
  BY DEF Spreads!Distance
<1>2. ranks \in SUBSET Nat /\ ranks # {}
  BY <1>1
<1>3. PICK s \in S : \A x \in S : rank(s) <= rank(x)
  <2>1. PICK m \in ranks : \A n \in ranks : m <= n
    BY <1>2, Least
  <2> QED
    BY <2>1
<1>4. \A x \in S \ {s} : Before(t, s, x)
  <2> TAKE x \in S \ {s}
  <2>1. rank(s) <= rank(x)
    BY <1>3
  <2> QED
    BY <2>1 DEF Before, Spreads!Distance
<1> QED
  BY <1>4 DEF FoundFor, Before, Spreads!Nearest

\* A listed strike is found for itself; for a lower target no higher strike is found.
LEMMA ExactIsFound ==
  ASSUME NEW S \in SUBSET Nat, NEW t \in S
  PROVE  FoundFor(t, S, t)
  BY DEF FoundFor, Before, Spreads!Distance

LEMMA FoundInOrder ==
  ASSUME NEW S \in SUBSET Nat, NEW t \in Int, NEW u \in Int, t <= u,
         NEW x, FoundFor(t, S, x), NEW y, FoundFor(u, S, y)
  PROVE  x <= y
<1> SUFFICES ASSUME y < x PROVE FALSE
  BY DEF FoundFor
<1>1. Before(t, x, y) /\ Before(u, y, x) /\ x \in Nat /\ y \in Nat
  BY DEF FoundFor
<1> QED
  BY <1>1 DEF Before, Spreads!Distance

\* A chain as the broker lists it.
Chain == [dte : Nat, puts : SUBSET Nat, calls : SUBSET Nat]

Legs == Spreads!PutLegs \cup Spreads!CallLegs

LEMMA ListedAreNat ==
  ASSUME NEW c \in Chain, NEW l
  PROVE  Spreads!Listed(c, l) \in SUBSET Nat
  BY DEF Chain, Spreads!Listed

\* The strikes that a chain has for the goal of the legs D: listed, nearest where they
\* were not moved, in order, and the goal itself where every leg must be met.
Strung(D, goal, strict, c, m) ==
    /\ DOMAIN m = D
    /\ \A l \in D : m[l] \in Spreads!Listed(c, l)
    /\ \A l \in D \ {"long_put", "long_call"} : FoundFor(goal[l], Spreads!Listed(c, l), m[l])
    /\ {"short_put", "long_put"} \subseteq D /\ goal["long_put"] <= goal["short_put"] =>
         m["long_put"] < m["short_put"]
    /\ {"short_call", "long_call"} \subseteq D /\ goal["short_call"] <= goal["long_call"] =>
         m["short_call"] < m["long_call"]
    /\ strict /\ (\A l, k \in D : l # k /\ {l, k} \in {Spreads!PutLegs \ {"put_strike"},
                                                      Spreads!CallLegs} => goal[l] # goal[k]) =>
         m = goal

\* What find_expiration_with_exact_strikes returns: for every leg the strike found for
\* it, except that the long leg of a spread whose strikes became one is further out.
LEMMA MatchedStrikes ==
  ASSUME NEW c \in Chain, NEW D \in SUBSET Legs, NEW goal \in [D -> Int], NEW strict \in BOOLEAN,
         Spreads!Matched(goal, c, strict) # None
  PROVE  Strung(D, goal, strict, c, Spreads!Matched(goal, c, strict))
<1> DEFINE m == Spreads!Matched(goal, c, strict)
           absent == {l \in D : goal[l] \notin Spreads!Listed(c, l)}
           near == [l \in D |-> IF l \in absent THEN Spreads!Nearest(goal[l], Spreads!Listed(c, l))
                                ELSE goal[l]]
           Flat(short, long) == {short, long} \subseteq D /\ near[short] = near[long]
           below == {s \in c.puts : s < near["short_put"]}
           above == {s \in c.calls : s > near["short_call"]}
           flatPut == Flat("short_put", "long_put")
           flatCall == Flat("short_call", "long_call")
           none == \/ \E l \in absent : strict \/ Spreads!Listed(c, l) = {}
                   \/ flatPut /\ below = {}
                   \/ flatCall /\ above = {}
           out == [l \in D |-> IF l = "long_put" /\ flatPut THEN Spreads!Max(below)
                               ELSE IF l = "long_call" /\ flatCall THEN Spreads!Min(above) ELSE near[l]]
<1>1. m = IF none THEN None ELSE out
  BY DEF Spreads!Matched
<1>2. ~none /\ m = out
  BY <1>1
<1>3. ASSUME NEW l \in D PROVE FoundFor(goal[l], Spreads!Listed(c, l), near[l])
  <2>1. Spreads!Listed(c, l) \in SUBSET Nat /\ goal[l] \in Int
    BY ListedAreNat
  <2>2. CASE l \in absent
    <3>1. Spreads!Listed(c, l) # {}
      BY <1>2, <2>2
    <3>2. near[l] = Spreads!Nearest(goal[l], Spreads!Listed(c, l))
      BY <2>2
    <3> QED
      BY <2>1, <3>1, <3>2, NearestIsFound
  <2>3. CASE l \notin absent
    <3>1. near[l] = goal[l] /\ goal[l] \in Spreads!Listed(c, l)
      BY <2>3
    <3> QED
      BY <2>1, <3>1, ExactIsFound
  <2> QED
    BY <2>2, <2>3
<1>4. \A l \in D : near[l] \in Spreads!Listed(c, l) /\ near[l] \in Nat
  BY <1>3, ListedAreNat DEF FoundFor
<1>5. ASSUME {"short_put", "long_put"} \subseteq D
      PROVE  /\ out["short_put"] = near["short_put"] /\ c.puts \in SUBSET Nat
             /\ Spreads!Listed(c, "short_put") = c.puts /\ Spreads!Listed(c, "long_put") = c.puts
             /\ IF flatPut THEN out["long_put"] \in below ELSE out["long_put"] = near["long_put"]
  <2>1. /\ Spreads!Listed(c, "short_put") = c.puts /\ Spreads!Listed(c, "long_put") = c.puts
        /\ c.puts \in SUBSET Nat
    BY DEF Spreads!Listed, Spreads!PutLegs, Chain
  <2>2. near["short_put"] \in Nat
    BY <1>4, <1>5
  <2>3. ASSUME flatPut PROVE Spreads!Max(below) \in below
    <3>1. below # {} /\ below \in SUBSET Nat /\ \A x \in below : x <= near["short_put"]
      BY <1>2, <2>1, <2>2, <2>3
    <3> HIDE DEF below, near
    <3> QED
      BY <2>2, <3>1, GreatestIsMax
  <2> HIDE DEF below, flatPut, flatCall, near
  <2> QED
    BY <1>5, <2>1, <2>3
<1>6. ASSUME {"short_call", "long_call"} \subseteq D
      PROVE  /\ out["short_call"] = near["short_call"] /\ c.calls \in SUBSET Nat
             /\ Spreads!Listed(c, "short_call") = c.calls /\ Spreads!Listed(c, "long_call") = c.calls
             /\ IF flatCall THEN out["long_call"] \in above ELSE out["long_call"] = near["long_call"]
  <2>1. /\ Spreads!Listed(c, "short_call") = c.calls /\ Spreads!Listed(c, "long_call") = c.calls
        /\ c.calls \in SUBSET Nat
    BY DEF Spreads!Listed, Spreads!PutLegs, Chain
  <2>3. ASSUME flatCall PROVE Spreads!Min(above) \in above
    <3>1. above # {} /\ above \in SUBSET Nat
      BY <1>2, <2>1, <2>3
    <3> HIDE DEF above
    <3> QED
      BY <3>1, LeastIsMin
  <2> HIDE DEF above, flatPut, flatCall, near
  <2> QED
    BY <1>6, <2>1, <2>3
<1>7. DOMAIN out = D /\ \A l \in D \ {"long_put", "long_call"} : out[l] = near[l]
  OBVIOUS
<1>8. /\ "long_put" \in D /\ ~flatPut => out["long_put"] = near["long_put"]
      /\ "long_call" \in D /\ ~flatCall => out["long_call"] = near["long_call"]
      /\ flatPut => {"short_put", "long_put"} \subseteq D
      /\ flatCall => {"short_call", "long_call"} \subseteq D
  <2> HIDE DEF near, below, above
  <2> QED
    OBVIOUS
<1>9. \A l \in D : out[l] \in Spreads!Listed(c, l)
  <2> TAKE l \in D
  <2>1. CASE l \notin {"long_put", "long_call"}
    BY <1>4, <1>7, <2>1
  <2>2. CASE l = "long_put"
    <3> HIDE DEF out, flatPut, flatCall, near
    <3> QED
      BY <1>4, <1>5, <1>8, <2>2
  <2>3. CASE l = "long_call"
    <3> HIDE DEF out, flatPut, flatCall, near
    <3> QED
      BY <1>4, <1>6, <1>8, <2>3
  <2> QED
    BY <2>1, <2>2, <2>3
<1>10. ASSUME {"short_put", "long_put"} \subseteq D, goal["long_put"] <= goal["short_put"]
       PROVE  out["long_put"] < out["short_put"]
  <2>1. CASE flatPut
    BY <1>5, <1>10, <2>1
  <2>2. CASE ~flatPut
    <3>1. near["long_put"] <= near["short_put"]
      <4> HIDE DEF near
      <4> QED
        BY <1>3, <1>5, <1>10, FoundInOrder
    <3>2. near["long_put"] # near["short_put"]
      BY <1>10, <2>2
    <3> HIDE DEF near, out, flatPut
    <3> QED
      BY <1>4, <1>5, <1>10, <2>2, <3>1, <3>2
  <2> QED
    BY <2>1, <2>2
<1>11. ASSUME {"short_call", "long_call"} \subseteq D, goal["short_call"] <= goal["long_call"]
       PROVE  out["short_call"] < out["long_call"]
  <2>1. CASE flatCall
    BY <1>6, <1>11, <2>1
  <2>2. CASE ~flatCall
    <3>1. near["short_call"] <= near["long_call"]
      <4> HIDE DEF near
      <4> QED
        BY <1>3, <1>6, <1>11, FoundInOrder
    <3>2. near["long_call"] # near["short_call"]
      BY <1>11, <2>2
    <3> HIDE DEF near, out, flatCall
    <3> QED
      BY <1>4, <1>6, <1>11, <2>2, <3>1, <3>2
  <2> QED
    BY <2>1, <2>2
<1>12. ASSUME strict,
              \A l, k \in D : l # k /\ {l, k} \in {Spreads!PutLegs \ {"put_strike"},
                                                   Spreads!CallLegs} => goal[l] # goal[k]
       PROVE  out = goal
  <2>1. \A l \in D : near[l] = goal[l]
    BY <1>2, <1>12
  <2>2. ~flatPut /\ ~flatCall
    <3>1. {"short_put", "long_put"} = Spreads!PutLegs \ {"put_strike"}
      BY DEF Spreads!PutLegs
    <3>2. {"short_call", "long_call"} = Spreads!CallLegs
      BY DEF Spreads!CallLegs
    <3> HIDE DEF near
    <3> QED
      BY <1>12, <2>1, <3>1, <3>2
  <2> HIDE DEF near, flatPut, flatCall
  <2> QED
    BY <2>1, <2>2
<1> HIDE DEF m, out, near, none
<1>13. \A l \in D \ {"long_put", "long_call"} : FoundFor(goal[l], Spreads!Listed(c, l), out[l])
  BY <1>3, <1>7
<1>14. m = out
  BY <1>2
<1>15. /\ DOMAIN m = D
       /\ \A l \in D : m[l] \in Spreads!Listed(c, l)
       /\ \A l \in D \ {"long_put", "long_call"} : FoundFor(goal[l], Spreads!Listed(c, l), m[l])
       /\ {"short_put", "long_put"} \subseteq D /\ goal["long_put"] <= goal["short_put"] =>
            m["long_put"] < m["short_put"]
       /\ {"short_call", "long_call"} \subseteq D /\ goal["short_call"] <= goal["long_call"] =>
            m["short_call"] < m["long_call"]
  BY <1>7, <1>9, <1>10, <1>11, <1>13, <1>14
<1> QED
  BY <1>12, <1>14, <1>15 DEF m, Strung

\* The chain of the last expiration for which strikes were found.
LEMMA ExpiringChain ==
  ASSUME NEW r, r.chains \subseteq Chain, NEW hi \in Nat, NEW found,
         DOMAIN found \subseteq Spreads!Usable(r, hi), Spreads!Expiring(r, found) # None
  PROVE  \E d \in DOMAIN found :
           /\ found[d] # None /\ Spreads!Fetched(r, d) \in Chain
           /\ Spreads!Expiring(r, found) = [chain |-> Spreads!Fetched(r, d), strikes |-> found[d]]
<1> DEFINE hits == {d \in DOMAIN found : found[d] # None}
           d == Spreads!Max(hits)
<1>1. hits # {} /\ Spreads!Expiring(r, found) = [chain |-> Spreads!Fetched(r, d), strikes |-> found[d]]
  BY DEF Spreads!Expiring
<1>2. \A e \in hits : e \in Spreads!Expirations(r) /\ e <= hi /\ Spreads!Fetched(r, e) # None
  BY DEF Spreads!Usable, Spreads!InRange
<1>3. Spreads!Expirations(r) \subseteq Nat
  BY DEF Spreads!Expirations, Chain
<1>4. d \in hits
  <2> HIDE DEF hits
  <2> QED
    BY <1>1, <1>2, <1>3, GreatestIsMax
<1> HIDE DEF d
<1>5. Spreads!Fetched(r, d) \in Chain
  <2>1. PICK c \in r.chains : c.dte = d
    BY <1>2, <1>4 DEF Spreads!Expirations
  <2>2. (CHOOSE x \in r.chains : x.dte = d) \in r.chains
    BY <2>1
  <2>3. Spreads!Fetched(r, d) # None
    BY <1>2, <1>4
  <2> QED
    BY <2>2, <2>3 DEF Spreads!Fetched
<1> QED
  BY <1>1, <1>4, <1>5

\* What goes on to the suggestion has its strikes in the chain.
LEMMA GivenStrikes ==
  ASSUME NEW found, NEW width, Spreads!Given(found, width) # None
  PROVE  /\ Spreads!Given(found, width) =
              [chain |-> found.chain, strikes |-> found.strikes, width |-> width]
         /\ found # None
         /\ \A l \in DOMAIN found.strikes : found.strikes[l] \in Spreads!Listed(found.chain, l)
  BY DEF Spreads!Given, Spreads!Bundled

LEMMA RequestTypes ==
  ASSUME NEW r \in Requests
  PROVE  r.strategy \in Spreads!Strategies /\ r.price \in Nat /\ r.chains \subseteq Chain
  BY MarketAssumption DEF Chain

\* The plan k has the strikes that one of the chains has for the goal.
PlannedFor(goal, strict, width, k) ==
    \E c \in Chain :
        /\ Spreads!Matched(goal, c, strict) # None
        /\ k = [chain |-> c, strikes |-> Spreads!Matched(goal, c, strict), width |-> width]

LEMMA ExactPlan ==
  ASSUME NEW r \in Requests, NEW hi \in Nat, NEW goal, NEW strict, NEW width,
         NEW k, k = Spreads!Given(Spreads!Exact(r, goal, hi, strict), width), k # None
  PROVE  PlannedFor(goal, strict, width, k)
<1> DEFINE found == [d \in Spreads!Usable(r, hi) |->
                       Spreads!Matched(goal, Spreads!Fetched(r, d), strict)]
           e == Spreads!Expiring(r, found)
<1>1. Spreads!Exact(r, goal, hi, strict) = e
  BY DEF Spreads!Exact
<1>2. e # None /\ Spreads!Given(e, width) = [chain |-> e.chain, strikes |-> e.strikes, width |-> width]
  BY <1>1, GivenStrikes
<1>3. PICK d \in Spreads!Usable(r, hi) :
        /\ found[d] # None /\ Spreads!Fetched(r, d) \in Chain
        /\ e = [chain |-> Spreads!Fetched(r, d), strikes |-> found[d]]
  BY <1>2, ExpiringChain, RequestTypes
<1>4. found[d] = Spreads!Matched(goal, Spreads!Fetched(r, d), strict)
  OBVIOUS
<1> HIDE DEF e, found
<1> QED
  BY <1>1, <1>2, <1>3, <1>4 DEF PlannedFor

LEMMA BestPlan ==
  ASSUME NEW r, r.chains \subseteq Chain, NEW hi \in Nat, NEW side, NEW otm, NEW width,
         Spreads!Given(Spreads!Best(r, side, otm, width, hi), width) # None
  PROVE  \E c \in Chain :
           LET o == Spreads!Optimal(r, side, otm, width, c)
           IN /\ o # None
              /\ \A l \in DOMAIN o : o[l] \in Spreads!Listed(c, l)
              /\ Spreads!Given(Spreads!Best(r, side, otm, width, hi), width) =
                   [chain |-> c, strikes |-> o, width |-> width]
<1> DEFINE found == [d \in Spreads!Usable(r, hi) |->
                       Spreads!Optimal(r, side, otm, width, Spreads!Fetched(r, d))]
           e == Spreads!Expiring(r, found)
<1>1. Spreads!Best(r, side, otm, width, hi) = e
  BY DEF Spreads!Best
<1>2. /\ e # None /\ Spreads!Given(e, width) = [chain |-> e.chain, strikes |-> e.strikes, width |-> width]
      /\ \A l \in DOMAIN e.strikes : e.strikes[l] \in Spreads!Listed(e.chain, l)
  BY <1>1, GivenStrikes
<1>3. PICK d \in Spreads!Usable(r, hi) :
        /\ found[d] # None /\ Spreads!Fetched(r, d) \in Chain
        /\ e = [chain |-> Spreads!Fetched(r, d), strikes |-> found[d]]
  BY <1>2, ExpiringChain
<1>4. found[d] = Spreads!Optimal(r, side, otm, width, Spreads!Fetched(r, d))
  OBVIOUS
<1> HIDE DEF e, found
<1> QED
  BY <1>1, <1>2, <1>3, <1>4

-----------------------------------------------------------------------------
(* What each strategy finds                                                  *)

\* The legs of each strategy, all on listed strikes, the bought one of a spread outside
\* the sold one.  A Trident is an iron butterfly of the width that was set; a condor's
\* sold strikes are near eight percent on both sides.
Fits(r, k) ==
    LET pos == k.strikes
        Only(legs) == DOMAIN pos = legs /\ \A l \in legs : pos[l] \in Nat
        puts == {"short_put", "long_put"}
        calls == {"short_call", "long_call"}
    IN /\ r.strategy = "senex_trident" =>
              /\ Only(puts \cup calls) /\ pos["short_call"] = pos["short_put"] /\ k.width \in Nat \ {0}
              /\ pos["long_put"] = pos["short_put"] - k.width
              /\ pos["long_call"] = pos["short_call"] + k.width
       /\ r.strategy \in Spreads!PutOrders =>
              Only(puts) /\ pos["long_put"] < pos["short_put"] /\ k.width \in Nat
       /\ r.strategy \in Spreads!CallOrders =>
              Only(calls) /\ pos["short_call"] < pos["long_call"] /\ k.width \in Nat
       /\ r.strategy \in {"short_iron_condor", "long_iron_condor"} =>
              /\ Only(puts \cup calls) /\ k.width = 500
              /\ pos["long_put"] < pos["short_put"] /\ pos["short_call"] < pos["long_call"]
              /\ Spreads!AsNarrow(k) => pos["short_put"] - pos["short_call"] <= k.width
       /\ r.strategy = "iron_butterfly" =>
              /\ Only(puts \cup calls) /\ pos["short_call"] = pos["short_put"] /\ k.width \in Nat
              /\ pos["long_put"] < pos["short_put"]
              /\ k.chain.puts = k.chain.calls => pos["short_call"] < pos["long_call"]
       /\ r.strategy = "long_call_ratio_backspread" =>
              Only(calls) /\ pos["short_call"] < pos["long_call"]
       /\ r.strategy = "long_put_ratio_backspread" =>
              Only(puts) /\ pos["long_put"] < pos["short_put"]
       /\ r.strategy = "cash_secured_put" => Only({"put_strike"})

\* The count of the instance is that of the library.
LEMMA SameCount ==
  ASSUME NEW S PROVE Spreads!Cardinality(S) = Cardinality(S)
  BY DEF Spreads!Cardinality, Cardinality

LEMMA WidthSet ==
  ASSUME NEW r \in Requests, NEW default \in Nat \ {0}
  PROVE  Spreads!SpreadWidth(r, default) \in Nat \ {0}
<1> DEFINE T == {t \in {16, 36, 64, 100, 144} : r.capital >= t}
<1>1. IsFiniteSet(0..144)
  BY 0 \in Int, 144 \in Int, FS_Interval
<1>2. IsFiniteSet(T)
  <2>1. T \subseteq 0..144
    OBVIOUS
  <2> QED
    BY <1>1, <2>1, FS_Subset
<1>3. Cardinality(T) \in Nat
  BY <1>2, FS_CardinalityType
<1> HIDE DEF T
<1>4. 300 + 200 * Cardinality(T) \in Nat \ {0}
  BY <1>3
<1>5. r.manual \in (Nat \ {0}) \cup {None}
  BY MarketAssumption
<1> QED
  BY <1>4, <1>5, SameCount DEF Spreads!SpreadWidth, T

LEMMA DteSet ==
  ASSUME NEW r, NEW default \in Nat PROVE Spreads!MaxDte(r, default) \in Nat
  BY DEF Spreads!MaxDte

\* Rounding to even dollars and percentages keep the order.
LEMMA EvenIsInt == ASSUME NEW x \in Int PROVE Spreads!Even(x) \in Int
  BY DEF Spreads!Even

LEMMA EvenGrows ==
  ASSUME NEW x \in Int, NEW y \in Int, x <= y
  PROVE  Spreads!Even(x) <= Spreads!Even(y)
<1> DEFINE q(n) == n \div 200
           r(n) == n % 200
<1>1. /\ q(x) \in Int /\ r(x) \in 0..199 /\ x = 200 * q(x) + r(x)
      /\ q(y) \in Int /\ r(y) \in 0..199 /\ y = 200 * q(y) + r(y)
  OBVIOUS
<1>2. CASE q(x) = q(y)
  <2>1. r(x) <= r(y)
    BY <1>1, <1>2
  <2> QED
    BY <1>1, <1>2, <2>1 DEF Spreads!Even
<1>3. CASE q(x) < q(y)
  <2>1. q(x) + 1 <= q(y)
    BY <1>1, <1>3
  <2>2. /\ Spreads!Even(x) \in {200 * q(x), 200 * (q(x) + 1)}
        /\ Spreads!Even(y) \in {200 * q(y), 200 * (q(y) + 1)}
    BY <1>1 DEF Spreads!Even
  <2> QED
    BY <1>1, <2>1, <2>2
<1>4. q(x) <= q(y)
  BY <1>1
<1> QED
  BY <1>1, <1>2, <1>3, <1>4

\* The distances between the strikes that a butterfly and a condor are given.
LEMMA WingIsPositive == ASSUME NEW p \in Nat PROVE Spreads!Wing(p) \in Nat \ {0}
  BY DEF Spreads!Wing

LEMMA TridentFits ==
  ASSUME NEW r \in Requests, r.strategy = "senex_trident",
         NEW k, k = Spreads!TridentStrikes(r), k # None
  PROVE  Fits(r, k)
<1> DEFINE inner == Spreads!Even(r.price)
           width == Spreads!SpreadWidth(r, 300)
           goal == [short_put |-> inner, long_put |-> inner - width,
                    short_call |-> inner, long_call |-> inner + width]
           D == {"short_put", "long_put", "short_call", "long_call"}
<1>1. width \in Nat \ {0} /\ inner \in Int /\ r.chains \subseteq Chain
  BY WidthSet, EvenIsInt, RequestTypes
<1>2. k = Spreads!Given(Spreads!Exact(r, goal, 50, TRUE), width)
  BY DEF Spreads!TridentStrikes
<1> HIDE DEF inner, width
<1>4. D \in SUBSET Legs /\ goal \in [D -> Int]
  BY <1>1 DEF Legs, Spreads!PutLegs, Spreads!CallLegs
<1>5. \A l, j \in D : l # j /\ {l, j} \in {Spreads!PutLegs \ {"put_strike"}, Spreads!CallLegs}
                        => goal[l] # goal[j]
  BY <1>1 DEF Spreads!PutLegs, Spreads!CallLegs
<1>6. \E c \in Chain : /\ k = [chain |-> c, strikes |-> goal, width |-> width]
                       /\ \A l \in D : goal[l] \in Spreads!Listed(c, l)
  <2> HIDE DEF goal, D
  <2>1. PlannedFor(goal, TRUE, width, k)
    BY <1>2, ExactPlan
  <2>2. PICK c \in Chain : /\ Spreads!Matched(goal, c, TRUE) # None
                           /\ k = [chain |-> c, strikes |-> Spreads!Matched(goal, c, TRUE), width |-> width]
    BY <2>1 DEF PlannedFor
  <2>3. Strung(D, goal, TRUE, c, Spreads!Matched(goal, c, TRUE))
    BY <1>4, <2>2, MatchedStrikes
  <2>4. Spreads!Matched(goal, c, TRUE) = goal /\ \A l \in D : goal[l] \in Spreads!Listed(c, l)
    BY <1>5, <2>3 DEF Strung
  <2> QED
    BY <2>2, <2>4
<1>7. k.strikes = goal /\ k.width = width /\ \A l \in D : goal[l] \in Nat
  <2> HIDE DEF goal
  <2> QED
    BY <1>6, ListedAreNat
<1> QED
  BY <1>1, <1>7 DEF Fits, Spreads!PutOrders, Spreads!CallOrders

LEMMA CreditFits ==
  ASSUME NEW r \in Requests, NEW side \in {"put", "call"}, NEW otm, NEW width \in Nat, NEW hi \in Nat,
         r.strategy \in IF side = "put" THEN Spreads!PutOrders ELSE Spreads!CallOrders,
         Spreads!Given(Spreads!Best(r, side, otm, width, hi), width) # None
  PROVE  Fits(r, Spreads!Given(Spreads!Best(r, side, otm, width, hi), width))
<1> DEFINE k == Spreads!Given(Spreads!Best(r, side, otm, width, hi), width)
<1>1. PICK c \in Chain :
        LET o == Spreads!Optimal(r, side, otm, width, c)
        IN /\ o # None
           /\ \A l \in DOMAIN o : o[l] \in Spreads!Listed(c, l)
           /\ k = [chain |-> c, strikes |-> o, width |-> width]
  BY RequestTypes, BestPlan
<1> DEFINE o == Spreads!Optimal(r, side, otm, width, c)
<1>2. IF side = "put" THEN DOMAIN o = {"short_put", "long_put"} /\ o["long_put"] < o["short_put"]
                      ELSE DOMAIN o = {"short_call", "long_call"} /\ o["short_call"] < o["long_call"]
  BY <1>1 DEF Spreads!Optimal
<1> HIDE DEF o, k
<1>3. k.strikes = o /\ k.width = width /\ \A l \in DOMAIN o : o[l] \in Nat
  BY <1>1, ListedAreNat DEF o
<1> QED
  BY <1>2, <1>3 DEF Fits, Spreads!PutOrders, Spreads!CallOrders, k

\* Sold strikes that are found near their targets and no further from the bought ones
\* than five dollars do not cross by more than that.
LEMMA CondorGap ==
  ASSUME NEW puts \in SUBSET Nat, NEW calls \in SUBSET Nat, NEW p \in Int, NEW c \in Int, p <= c,
         NEW sp, FoundFor(p, puts, sp), NEW lp \in puts, lp < sp, sp - lp <= 500,
         NEW sc, FoundFor(c, calls, sc), NEW lc \in calls, sc < lc, lc - sc <= 500
  PROVE  sp - sc <= 500
<1>1. sp \in Nat /\ lp \in Nat /\ sc \in Nat /\ lc \in Nat
  BY DEF FoundFor
<1>2. Before(p, sp, lp) /\ Before(c, sc, lc)
  BY <1>1 DEF FoundFor
<1>3. sp <= p + 250
  BY <1>1, <1>2 DEF Before, Spreads!Distance
<1>4. sc >= c - 250
  BY <1>1, <1>2 DEF Before, Spreads!Distance
<1> QED
  BY <1>1, <1>3, <1>4

\* What a condor and a butterfly find: strikes for all four legs.
FoundAll(goal, c, m) ==
    /\ DOMAIN m = {"short_put", "long_put", "short_call", "long_call"}
    /\ \A l \in DOMAIN m : m[l] \in Nat
    /\ FoundFor(goal["short_put"], c.puts, m["short_put"]) /\ m["long_put"] \in c.puts
    /\ FoundFor(goal["short_call"], c.calls, m["short_call"]) /\ m["long_call"] \in c.calls
    /\ m["long_put"] < m["short_put"] /\ m["short_call"] < m["long_call"]

\* The plan k has strikes for all four legs.
AllFoundIn(goal, width, k) ==
    \E c \in Chain : \E m : k = [chain |-> c, strikes |-> m, width |-> width] /\ FoundAll(goal, c, m)

LEMMA AllFound ==
  ASSUME NEW r \in Requests,
         NEW goal \in [{"short_put", "long_put", "short_call", "long_call"} -> Int],
         goal["long_put"] < goal["short_put"], goal["short_call"] < goal["long_call"],
         NEW width, NEW k, k = Spreads!Given(Spreads!Exact(r, goal, 60, FALSE), width), k # None
  PROVE  AllFoundIn(goal, width, k)
<1> DEFINE D == {"short_put", "long_put", "short_call", "long_call"}
<1>1. PICK c \in Chain : /\ Spreads!Matched(goal, c, FALSE) # None
                         /\ k = [chain |-> c, strikes |-> Spreads!Matched(goal, c, FALSE), width |-> width]
  <2>1. PlannedFor(goal, FALSE, width, k)
    BY ExactPlan
  <2> QED
    BY <2>1 DEF PlannedFor
<1>2. PICK m : m = Spreads!Matched(goal, c, FALSE)
  OBVIOUS
<1>3. D \in SUBSET Legs /\ FALSE \in BOOLEAN /\ {"short_put", "short_call"} \subseteq D \ {"long_put", "long_call"}
      /\ {"short_put", "long_put"} \subseteq D /\ {"short_call", "long_call"} \subseteq D
  BY DEF Legs, Spreads!PutLegs, Spreads!CallLegs
<1>4. /\ DOMAIN m = D
      /\ \A l \in D : m[l] \in Spreads!Listed(c, l)
      /\ \A l \in D \ {"long_put", "long_call"} : FoundFor(goal[l], Spreads!Listed(c, l), m[l])
      /\ m["long_put"] < m["short_put"] /\ m["short_call"] < m["long_call"]
  <2> HIDE DEF D
  <2>1. Strung(D, goal, FALSE, c, m)
    BY <1>1, <1>2, <1>3, MatchedStrikes DEF D
  <2> QED
    BY <1>3, <2>1 DEF Strung, D
<1>5. /\ Spreads!Listed(c, "short_put") = c.puts /\ Spreads!Listed(c, "long_put") = c.puts
      /\ Spreads!Listed(c, "short_call") = c.calls /\ Spreads!Listed(c, "long_call") = c.calls
  BY DEF Spreads!Listed, Spreads!PutLegs
<1>6. \A l \in D : m[l] \in Nat
  BY <1>4, ListedAreNat
<1>7. FoundAll(goal, c, m)
  BY <1>4, <1>5, <1>6 DEF FoundAll
<1> QED
  BY <1>1, <1>2, <1>7 DEF AllFoundIn

LEMMA CondorFits ==
  ASSUME NEW r \in Requests, r.strategy \in {"short_iron_condor", "long_iron_condor"},
         NEW k, k = Spreads!CondorStrikes(r), k # None
  PROVE  Fits(r, k)
<1> DEFINE put == Spreads!Even(Spreads!Percent(r.price, 92))
           call == Spreads!Even(Spreads!Percent(r.price, 108))
           goal == [long_put |-> put - 500, short_put |-> put,
                    short_call |-> call, long_call |-> call + 500]
           D == {"short_put", "long_put", "short_call", "long_call"}
<1>1. put \in Int /\ call \in Int /\ put <= call /\ r.chains \subseteq Chain
  <2>1. /\ Spreads!Percent(r.price, 92) <= Spreads!Percent(r.price, 108)
        /\ Spreads!Percent(r.price, 92) \in Int /\ Spreads!Percent(r.price, 108) \in Int
    BY RequestTypes DEF Spreads!Percent
  <2> QED
    BY <2>1, EvenIsInt, EvenGrows, RequestTypes
<1>2. k = Spreads!Given(Spreads!Exact(r, goal, 60, FALSE), 500)
  BY DEF Spreads!CondorStrikes
<1> HIDE DEF put, call
<1>3. D \in SUBSET Legs /\ goal \in [D -> Int]
  BY <1>1 DEF Legs, Spreads!PutLegs, Spreads!CallLegs
<1>4. /\ goal["long_put"] < goal["short_put"] /\ goal["short_call"] < goal["long_call"]
      /\ goal["short_put"] = put /\ goal["short_call"] = call
  BY <1>1
<1>5. PICK c, m : c \in Chain /\ k = [chain |-> c, strikes |-> m, width |-> 500] /\ FoundAll(goal, c, m)
  <2> HIDE DEF goal
  <2>1. /\ goal \in [{"short_put", "long_put", "short_call", "long_call"} -> Int]
        /\ goal["long_put"] < goal["short_put"] /\ goal["short_call"] < goal["long_call"]
    BY <1>3, <1>4
  <2>2. ASSUME NEW width, k = Spreads!Given(Spreads!Exact(r, goal, 60, FALSE), width)
        PROVE  AllFoundIn(goal, width, k)
    BY <2>1, <2>2, AllFound
  <2>3. AllFoundIn(goal, 500, k)
    BY <1>2, <2>2
  <2> QED
    BY <2>3 DEF AllFoundIn
<1>6. c.puts \in SUBSET Nat /\ c.calls \in SUBSET Nat
  BY <1>5 DEF Chain
<1>7. k.strikes = m /\ k.width = 500
  BY <1>5
<1>8. ASSUME Spreads!AsNarrow(k) PROVE m["short_put"] - m["short_call"] <= 500
  <2>1. 500 # None
    BY MarketAssumption
  <2> HIDE DEF goal
  <2>2. m["short_put"] - m["long_put"] <= 500 /\ m["long_call"] - m["short_call"] <= 500
    BY <1>5, <1>7, <1>8, <2>1 DEF Spreads!AsNarrow, Spreads!Distance, FoundAll
  <2> QED
    BY <1>1, <1>4, <1>5, <1>6, <2>2, CondorGap DEF FoundAll
<1> HIDE DEF goal
<1> QED
  BY <1>5, <1>7, <1>8 DEF Fits, FoundAll, Spreads!PutOrders, Spreads!CallOrders

LEMMA ButterflyFits ==
  ASSUME NEW r \in Requests, r.strategy = "iron_butterfly",
         NEW k, k = Spreads!ButterflyStrikes(r), k # None
  PROVE  Fits(r, k)
<1> DEFINE atm == Spreads!Even(r.price)
           wing == Spreads!Wing(r.price)
           goal == [short_put |-> atm, short_call |-> atm, long_put |-> atm - wing,
                    long_call |-> atm + wing]
           D == {"short_put", "long_put", "short_call", "long_call"}
<1>1. atm \in Int /\ wing \in Nat \ {0} /\ r.chains \subseteq Chain
  BY EvenIsInt, WingIsPositive, RequestTypes
<1>2. PICK found : /\ found # None
                   /\ found = Spreads!Given(Spreads!Exact(r, goal, 60, FALSE), wing)
                   /\ k = [found EXCEPT !.strikes["short_call"] = found.strikes["short_put"]]
  BY DEF Spreads!ButterflyStrikes
<1> HIDE DEF atm, wing
<1>3. D \in SUBSET Legs /\ goal \in [D -> Int]
  BY <1>1 DEF Legs, Spreads!PutLegs, Spreads!CallLegs
<1>4. /\ goal["long_put"] < goal["short_put"] /\ goal["short_call"] < goal["long_call"]
      /\ goal["short_put"] = atm /\ goal["short_call"] = atm
  BY <1>1
<1>5. PICK c, m : c \in Chain /\ found = [chain |-> c, strikes |-> m, width |-> wing] /\ FoundAll(goal, c, m)
  <2> HIDE DEF goal
  <2>1. AllFoundIn(goal, wing, found)
    BY <1>2, <1>3, <1>4, AllFound
  <2> QED
    BY <2>1 DEF AllFoundIn
\* One list for both: the strike found for the put is the one found for the call.
<1>6. ASSUME c.puts = c.calls PROVE m["short_put"] = m["short_call"]
  <2> HIDE DEF goal
  <2>1. /\ FoundFor(atm, c.puts, m["short_put"]) /\ FoundFor(atm, c.puts, m["short_call"])
        /\ m["short_put"] \in Nat /\ m["short_call"] \in Nat
    BY <1>4, <1>5, <1>6 DEF FoundAll
  <2>2. ASSUME m["short_put"] # m["short_call"]
        PROVE  Before(atm, m["short_put"], m["short_call"]) /\ Before(atm, m["short_call"], m["short_put"])
    BY <2>1, <2>2 DEF FoundFor
  <2> QED
    BY <1>1, <2>1, <2>2 DEF Before, Spreads!Distance
<1> HIDE DEF goal
<1>9. found.chain = c /\ found.width = wing /\ found.strikes = m
      /\ DOMAIN found = {"chain", "strikes", "width"}
  BY <1>5
<1>7. /\ k.chain = c /\ k.width = wing
      /\ k.strikes = [m EXCEPT !["short_call"] = m["short_put"]]
  BY <1>2, <1>9
<1>8. /\ DOMAIN k.strikes = D /\ k.strikes["short_call"] = m["short_put"]
      /\ \A l \in D \ {"short_call"} : k.strikes[l] = m[l]
  BY <1>5, <1>7 DEF FoundAll
<1> QED
  BY <1>1, <1>5, <1>6, <1>7, <1>8 DEF Fits, FoundAll, Spreads!PutOrders, Spreads!CallOrders

\* Both backspreads: five percent apart, which may round to one strike, or the next
\* strike further out.
LEMMA CallBackFits ==
  ASSUME NEW r \in Requests, r.strategy = "long_call_ratio_backspread",
         NEW k, k = Spreads!CallBackStrikes(r), k # None
  PROVE  Fits(r, k)
<1> DEFINE goal == [short_call |-> Spreads!Even(r.price), long_call |-> Spreads!Even(Spreads!Percent(r.price, 105))]
           D == {"short_call", "long_call"}
<1>1. /\ r.chains \subseteq Chain /\ D \in SUBSET Legs /\ D \subseteq D /\ FALSE \in BOOLEAN /\ 60 \in Nat
      /\ goal \in [D -> Int] /\ goal["short_call"] <= goal["long_call"]
  <2>1. r.price \in Int /\ Spreads!Percent(r.price, 105) \in Int /\ r.price <= Spreads!Percent(r.price, 105)
    BY RequestTypes DEF Spreads!Percent
  <2>2. Spreads!Even(r.price) <= Spreads!Even(Spreads!Percent(r.price, 105))
    BY <2>1, EvenGrows
  <2> QED
    BY <2>1, <2>2, EvenIsInt, RequestTypes DEF Legs, Spreads!CallLegs
<1>2. k = Spreads!Given(Spreads!Exact(r, goal, 60, FALSE), None)
  BY DEF Spreads!CallBackStrikes
<1> HIDE DEF goal
<1>3. PICK c \in Chain : /\ Spreads!Matched(goal, c, FALSE) # None
                         /\ k = [chain |-> c, strikes |-> Spreads!Matched(goal, c, FALSE), width |-> None]
  <2>1. PlannedFor(goal, FALSE, None, k)
    BY <1>1, <1>2, ExactPlan
  <2> QED
    BY <2>1 DEF PlannedFor
<1>4. PICK m : m = Spreads!Matched(goal, c, FALSE)
  OBVIOUS
<1>5. /\ DOMAIN m = D /\ \A l \in D : m[l] \in Spreads!Listed(c, l)
      /\ m["short_call"] < m["long_call"]
  <2>1. Strung(D, goal, FALSE, c, m)
    BY <1>1, <1>3, <1>4, MatchedStrikes
  <2> QED
    BY <1>1, <2>1 DEF Strung
<1>6. k.strikes = m /\ \A l \in D : m[l] \in Nat
  <2>1. k = [chain |-> c, strikes |-> m, width |-> None]
    BY <1>3, <1>4, Zenon
  <2>2. \A l \in D : m[l] \in Nat
    BY <1>5, ListedAreNat
  <2> QED
    BY <2>1, <2>2
<1> QED
  BY <1>5, <1>6 DEF Fits, Spreads!PutOrders, Spreads!CallOrders

LEMMA PutBackFits ==
  ASSUME NEW r \in Requests, r.strategy = "long_put_ratio_backspread",
         NEW k, k = Spreads!PutBackStrikes(r), k # None
  PROVE  Fits(r, k)
<1> DEFINE goal == [short_put |-> Spreads!Even(r.price), long_put |-> Spreads!Even(Spreads!Percent(r.price, 95))]
           D == {"short_put", "long_put"}
<1>1. /\ r.chains \subseteq Chain /\ D \in SUBSET Legs /\ D \subseteq D /\ FALSE \in BOOLEAN /\ 60 \in Nat
      /\ goal \in [D -> Int] /\ goal["long_put"] <= goal["short_put"]
  <2>1. r.price \in Int /\ Spreads!Percent(r.price, 95) \in Int /\ Spreads!Percent(r.price, 95) <= r.price
    BY RequestTypes DEF Spreads!Percent
  <2>2. Spreads!Even(Spreads!Percent(r.price, 95)) <= Spreads!Even(r.price)
    BY <2>1, EvenGrows
  <2> QED
    BY <2>1, <2>2, EvenIsInt, RequestTypes DEF Legs, Spreads!PutLegs
<1>2. k = Spreads!Given(Spreads!Exact(r, goal, 60, FALSE), None)
  BY DEF Spreads!PutBackStrikes
<1> HIDE DEF goal
<1>3. PICK c \in Chain : /\ Spreads!Matched(goal, c, FALSE) # None
                         /\ k = [chain |-> c, strikes |-> Spreads!Matched(goal, c, FALSE), width |-> None]
  <2>1. PlannedFor(goal, FALSE, None, k)
    BY <1>1, <1>2, ExactPlan
  <2> QED
    BY <2>1 DEF PlannedFor
<1>4. PICK m : m = Spreads!Matched(goal, c, FALSE)
  OBVIOUS
<1>5. /\ DOMAIN m = D /\ \A l \in D : m[l] \in Spreads!Listed(c, l)
      /\ m["long_put"] < m["short_put"]
  <2>1. Strung(D, goal, FALSE, c, m)
    BY <1>1, <1>3, <1>4, MatchedStrikes
  <2> QED
    BY <1>1, <2>1 DEF Strung
<1>6. k.strikes = m /\ \A l \in D : m[l] \in Nat
  <2>1. k = [chain |-> c, strikes |-> m, width |-> None]
    BY <1>3, <1>4, Zenon
  <2>2. \A l \in D : m[l] \in Nat
    BY <1>5, ListedAreNat
  <2> QED
    BY <2>1, <2>2
<1> QED
  BY <1>5, <1>6 DEF Fits, Spreads!PutOrders, Spreads!CallOrders

\* A put is sold on a strike that is listed for the last expiration in range.
LEMMA SecuredFits ==
  ASSUME NEW r \in Requests, r.strategy = "cash_secured_put",
         NEW k, k = Spreads!SecuredStrikes(r), k # None
  PROVE  Fits(r, k)
<1> DEFINE days == Spreads!InRange(r, 30, Spreads!MaxDte(r, 60))
           d == Spreads!Max(days)
           chain == Spreads!Fetched(r, d)
           strikes == [put_strike |-> Spreads!Even(Spreads!Percent(r.price, 93))]
<1>1. /\ days # {} /\ chain # None
      /\ k = Spreads!Given([chain |-> chain, strikes |-> strikes], None)
  BY DEF Spreads!SecuredStrikes
<1>2. d \in days
  <2>1. days \in SUBSET Nat /\ Spreads!MaxDte(r, 60) \in Nat /\ \A x \in days : x <= Spreads!MaxDte(r, 60)
    BY RequestTypes, DteSet DEF Spreads!InRange, Spreads!Expirations, Chain
  <2> HIDE DEF days
  <2> QED
    BY <1>1, <2>1, GreatestIsMax
<1>3. chain \in Chain
  <2>1. PICK c \in r.chains : c.dte = d
    BY <1>2 DEF Spreads!Expirations, Spreads!InRange
  <2> HIDE DEF d
  <2>2. (CHOOSE x \in r.chains : x.dte = d) \in r.chains
    BY <2>1
  <2> QED
    BY <1>1, <2>2, RequestTypes DEF Spreads!Fetched
<1> HIDE DEF chain
<1>4. /\ k.strikes = strikes
      /\ strikes["put_strike"] \in Spreads!Listed(chain, "put_strike")
  <2> DEFINE found == [chain |-> chain, strikes |-> strikes]
  <2>1. k = Spreads!Given(found, None) /\ k # None
    BY <1>1
  <2>2. found.strikes = strikes /\ found.chain = chain /\ DOMAIN strikes = {"put_strike"}
    OBVIOUS
  <2> HIDE DEF found, strikes
  <2> QED
    BY <2>1, <2>2, GivenStrikes
<1>5. DOMAIN strikes = {"put_strike"} /\ strikes["put_strike"] \in Nat
  BY <1>3, <1>4, ListedAreNat
<1> HIDE DEF strikes
<1> QED
  BY <1>4, <1>5 DEF Fits, Spreads!PutOrders, Spreads!CallOrders

LEMMA StrikesFit ==
  ASSUME NEW r \in Requests, NEW k, k = Spreads!StrikesFor(r), k # None
  PROVE  Fits(r, k)
<1>1. CASE r.strategy = "senex_trident"
  BY <1>1, TridentFits DEF Spreads!StrikesFor
<1>2. CASE r.strategy \in Spreads!PutOrders
  <2>1. PICK otm, width \in Nat, hi \in Nat :
          k = Spreads!Given(Spreads!Best(r, "put", otm, width, hi), width)
    <3>1. CASE r.strategy = "short_put_vertical"
      <4>1. k = Spreads!CreditStrikes(r, "put")
        BY <3>1 DEF Spreads!StrikesFor
      <4> QED
        BY <4>1, WidthSet, DteSet DEF Spreads!CreditStrikes
    <3>2. CASE r.strategy = "long_put_vertical"
      <4>1. k = Spreads!DebitStrikes(r, "put")
        BY <3>2 DEF Spreads!StrikesFor
      <4> QED
        BY <4>1, WidthSet, DteSet DEF Spreads!DebitStrikes
    <3> QED
      BY <1>2, <3>1, <3>2 DEF Spreads!PutOrders
  <2> QED
    BY <1>2, <2>1, CreditFits
<1>3. CASE r.strategy \in Spreads!CallOrders
  <2>1. PICK otm, width \in Nat, hi \in Nat :
          k = Spreads!Given(Spreads!Best(r, "call", otm, width, hi), width)
    <3>1. CASE r.strategy = "short_call_vertical"
      <4>1. k = Spreads!CreditStrikes(r, "call")
        BY <3>1 DEF Spreads!StrikesFor
      <4> QED
        BY <4>1, WidthSet, DteSet DEF Spreads!CreditStrikes
    <3>2. CASE r.strategy = "long_call_vertical"
      <4>1. k = Spreads!DebitStrikes(r, "call")
        BY <3>2 DEF Spreads!StrikesFor
      <4> QED
        BY <4>1, WidthSet, DteSet DEF Spreads!DebitStrikes
    <3> QED
      BY <1>3, <3>1, <3>2 DEF Spreads!CallOrders
  <2> QED
    BY <1>3, <2>1, CreditFits
<1>4. CASE r.strategy \in {"short_iron_condor", "long_iron_condor"}
  BY <1>4, CondorFits DEF Spreads!StrikesFor
<1>5. CASE r.strategy = "iron_butterfly"
  BY <1>5, ButterflyFits DEF Spreads!StrikesFor
<1>6. CASE r.strategy = "long_call_ratio_backspread"
  BY <1>6, CallBackFits DEF Spreads!StrikesFor
<1>7. CASE r.strategy = "long_put_ratio_backspread"
  BY <1>7, PutBackFits DEF Spreads!StrikesFor
<1>8. CASE r.strategy = "cash_secured_put"
  BY <1>8, SecuredFits DEF Spreads!StrikesFor
<1>9. r.strategy \in Spreads!Strategies
  BY RequestTypes
<1> QED
  BY <1>1, <1>2, <1>3, <1>4, <1>5, <1>6, <1>7, <1>8, <1>9
     DEF Spreads!Strategies, Spreads!PutOrders, Spreads!CallOrders

-----------------------------------------------------------------------------
(* What a suggestion says                                                    *)

\* A suggestion is priced from quotes of all its legs.
Offered(r, k, s) ==
    /\ k # None
    /\ \E q \in Quotes : (\A l \in DOMAIN k.strikes : q[l] # None) /\ s = Spreads!Priced(r, k, q)

LEMMA QuotesAreOrdered ==
  ASSUME NEW q \in Quotes, NEW l \in Legs, q[l] # None
  PROVE  /\ q[l].bid \in Nat /\ q[l].ask \in Nat /\ Spreads!MidOf(q[l]) \in Nat
         /\ q[l].bid <= Spreads!MidOf(q[l]) /\ Spreads!MidOf(q[l]) <= q[l].ask
<1>1. q[l] \in [bid : Nat, ask : Nat] /\ q[l].bid <= q[l].ask
  BY MarketAssumption DEF Legs
<1> QED
  BY <1>1 DEF Spreads!MidOf

\* The middle prices of the spreads of a plan.
LEMMA MiddleIsInt ==
  ASSUME NEW D \in SUBSET Legs, NEW q \in Quotes, \A l \in D : q[l] # None
  PROVE  Spreads!Pricing(D, q).putMid \in Int /\ Spreads!Pricing(D, q).callMid \in Int
<1>1. \A l \in D : Spreads!MidOf(q[l]) \in Int
  BY QuotesAreOrdered
<1>2. Spreads!Middle(D, q, "short_put", "long_put") \in Int
  BY <1>1 DEF Spreads!Middle
<1>3. Spreads!Middle(D, q, "short_call", "long_call") \in Int
  BY <1>1 DEF Spreads!Middle
<1>4. D = {"put_strike"} => Spreads!MidOf(q["put_strike"]) \in Int
  BY <1>1
<1> QED
  BY <1>2, <1>3, <1>4 DEF Spreads!Pricing

\* What the suggestions of the strategies have in common: the price, and the risk that
\* is left of the width or the strikes when the price is taken off.
LEMMA SuggestedRisk ==
  ASSUME NEW r \in Requests, NEW k, NEW s, Fits(r, k), Offered(r, k, s),
         r.strategy \notin Spreads!Debits
  PROVE  /\ s.strikes = k.strikes /\ s.mid \in Int
         /\ r.strategy = "senex_trident" => s.risk = 2 * k.width - s.mid
         /\ r.strategy \in {"short_put_vertical", "short_call_vertical", "short_iron_condor",
                            "iron_butterfly"} => s.risk = k.width - s.mid
         /\ r.strategy = "long_iron_condor" => s.risk = -s.mid
         /\ r.strategy = "long_call_ratio_backspread" =>
              s.risk = k.strikes["long_call"] - k.strikes["short_call"] - s.mid
         /\ r.strategy = "long_put_ratio_backspread" =>
              s.risk = k.strikes["short_put"] - k.strikes["long_put"] - s.mid
         /\ r.strategy = "cash_secured_put" => s.risk = k.strikes["put_strike"] - s.mid
<1>1. PICK q \in Quotes : (\A l \in DOMAIN k.strikes : q[l] # None) /\ s = Spreads!Priced(r, k, q)
  BY DEF Offered
<1>2. DOMAIN k.strikes \in SUBSET Legs
  BY RequestTypes DEF Fits, Legs, Spreads!Strategies, Spreads!PutLegs, Spreads!CallLegs,
     Spreads!PutOrders, Spreads!CallOrders
<1>3. PICK p : /\ p = Spreads!Pricing(DOMAIN k.strikes, q) /\ p.putMid \in Int /\ p.callMid \in Int
  BY <1>1, <1>2, MiddleIsInt
<1>4. \A l \in DOMAIN k.strikes : /\ q[l].bid \in Nat /\ q[l].ask \in Nat /\ Spreads!MidOf(q[l]) \in Nat
  BY <1>1, <1>2, QuotesAreOrdered
<1>a. CASE r.strategy = "senex_trident"
  <2>1. s = [Spreads!TridentPriced(k, p) EXCEPT !.strikes = k.strikes]
    BY <1>1, <1>3, <1>a DEF Spreads!Priced
  <2>2. Spreads!Max({2 * k.width, k.width}) = 2 * k.width
    <3>1. k.width \in Nat
      BY <1>a DEF Fits
    <3> QED
      BY <3>1 DEF Spreads!Max
  <2> QED
    BY <1>3, <1>a, <2>1, <2>2 DEF Spreads!TridentPriced, Spreads!Blank
<1>b. CASE r.strategy = "short_put_vertical"
  <2>1. s = [Spreads!CreditPriced(k, p, "put") EXCEPT !.strikes = k.strikes]
    BY <1>1, <1>3, <1>b DEF Spreads!Priced
  <2> QED
    BY <1>3, <1>b, <2>1 DEF Spreads!CreditPriced, Spreads!Blank
<1>c. CASE r.strategy = "short_call_vertical"
  <2>1. s = [Spreads!CreditPriced(k, p, "call") EXCEPT !.strikes = k.strikes]
    BY <1>1, <1>3, <1>c DEF Spreads!Priced
  <2> QED
    BY <1>3, <1>c, <2>1 DEF Spreads!CreditPriced, Spreads!Blank
<1>d. CASE r.strategy = "short_iron_condor"
  <2>1. s = [Spreads!ShortCondorPriced(k, p) EXCEPT !.strikes = k.strikes]
    BY <1>1, <1>3, <1>d DEF Spreads!Priced
  <2> QED
    BY <1>3, <1>d, <2>1 DEF Spreads!ShortCondorPriced, Spreads!Blank
<1>e. CASE r.strategy = "long_iron_condor"
  <2>1. s = [Spreads!LongCondorPriced(k, p, q) EXCEPT !.strikes = k.strikes]
    BY <1>1, <1>3, <1>e DEF Spreads!Priced
  <2>2. DOMAIN k.strikes = {"short_put", "long_put", "short_call", "long_call"}
    BY <1>e DEF Fits
  <2> QED
    BY <1>3, <1>4, <1>e, <2>1, <2>2 DEF Spreads!LongCondorPriced, Spreads!Blank
<1>f. CASE r.strategy = "iron_butterfly"
  <2>1. s = [Spreads!ButterflyPriced(k, p) EXCEPT !.strikes = k.strikes]
    BY <1>1, <1>3, <1>f DEF Spreads!Priced
  <2> QED
    BY <1>3, <1>f, <2>1 DEF Spreads!ButterflyPriced, Spreads!Blank
<1>g. CASE r.strategy = "long_call_ratio_backspread"
  <2>1. s = [Spreads!CallBackPriced(k, q) EXCEPT !.strikes = k.strikes]
    BY <1>1, <1>3, <1>g DEF Spreads!Priced
  <2>2. DOMAIN k.strikes = {"short_call", "long_call"}
    BY <1>g DEF Fits
  <2> QED
    BY <1>4, <1>g, <2>1, <2>2 DEF Spreads!CallBackPriced, Spreads!Blank
<1>h. CASE r.strategy = "long_put_ratio_backspread"
  <2>1. s = [Spreads!PutBackPriced(k, q) EXCEPT !.strikes = k.strikes]
    BY <1>1, <1>3, <1>h DEF Spreads!Priced
  <2>2. DOMAIN k.strikes = {"short_put", "long_put"}
    BY <1>h DEF Fits
  <2> QED
    BY <1>4, <1>h, <2>1, <2>2 DEF Spreads!PutBackPriced, Spreads!Blank
<1>i. CASE r.strategy = "cash_secured_put"
  <2>1. s = [Spreads!SecuredPriced(k, p) EXCEPT !.strikes = k.strikes]
    BY <1>1, <1>3, <1>i DEF Spreads!Priced
  <2> QED
    BY <1>3, <1>i, <2>1 DEF Spreads!SecuredPriced, Spreads!Blank
<1>9. r.strategy \in Spreads!Strategies
  BY RequestTypes
<1> QED
  BY <1>a, <1>b, <1>c, <1>d, <1>e, <1>f, <1>g, <1>h, <1>i, <1>9
     DEF Spreads!Strategies, Spreads!Debits

-----------------------------------------------------------------------------
(* What a position can lose                                                  *)

PutCost(pos, s) ==
    Spreads!Intrinsic("short_put", pos["short_put"], s) - Spreads!Intrinsic("long_put", pos["long_put"], s)

CallCost(pos, s) ==
    Spreads!Intrinsic("short_call", pos["short_call"], s) - Spreads!Intrinsic("long_call", pos["long_call"], s)

\* What a spread costs its seller: never more than its strikes are apart, nor than the
\* price is beyond the sold one.
LEMMA PutSpreadCost ==
  ASSUME NEW pos, pos["short_put"] \in Int, pos["long_put"] \in Int, NEW s \in Int,
         pos["long_put"] < pos["short_put"]
  PROVE  /\ PutCost(pos, s) \in 0..(pos["short_put"] - pos["long_put"])
         /\ s < pos["short_put"] => PutCost(pos, s) <= pos["short_put"] - s
         /\ s >= pos["short_put"] => PutCost(pos, s) = 0
BY DEF PutCost, Spreads!Intrinsic, Spreads!PutLegs

LEMMA CallSpreadCost ==
  ASSUME NEW pos, pos["short_call"] \in Int, pos["long_call"] \in Int, NEW s \in Int
  PROVE  /\ CallCost(pos, s) \in Int
         /\ pos["short_call"] < pos["long_call"] =>
              CallCost(pos, s) \in 0..(pos["long_call"] - pos["short_call"])
         /\ pos["long_call"] <= pos["short_call"] => CallCost(pos, s) <= 0
         /\ s > pos["short_call"] => CallCost(pos, s) <= s - pos["short_call"]
         /\ s <= pos["short_call"] => CallCost(pos, s) <= 0
BY DEF CallCost, Spreads!Intrinsic, Spreads!PutLegs

LEMMA IntrinsicIsNat ==
  ASSUME NEW leg, NEW strike \in Int, NEW s \in Int
  PROVE  Spreads!Intrinsic(leg, strike, s) \in Nat
BY DEF Spreads!Intrinsic

\* The worth of spreads on both sides, and of one sold leg and some bought ones.
LEMMA WorthOfFour ==
  ASSUME NEW pos, NEW s \in Int, NEW a \in {-1, 1, 2}, NEW b \in {-1, 1},
         \A l \in {"short_put", "long_put", "short_call", "long_call"} : pos[l] \in Int
  PROVE  Spreads!Worth([short_put |-> -a, long_put |-> a, short_call |-> -b, long_call |-> b], pos, s)
            = -a * PutCost(pos, s) - b * CallCost(pos, s)
<1>1. \A l \in {"short_put", "long_put", "short_call", "long_call"} : Spreads!Intrinsic(l, pos[l], s) \in Int
  BY IntrinsicIsNat
<1>2. PICK sp, lp, sc, lc :
        /\ sp = Spreads!Intrinsic("short_put", pos["short_put"], s) /\ sp \in Int
        /\ lp = Spreads!Intrinsic("long_put", pos["long_put"], s) /\ lp \in Int
        /\ sc = Spreads!Intrinsic("short_call", pos["short_call"], s) /\ sc \in Int
        /\ lc = Spreads!Intrinsic("long_call", pos["long_call"], s) /\ lc \in Int
  BY <1>1
<1>3. Spreads!Worth([short_put |-> -a, long_put |-> a, short_call |-> -b, long_call |-> b], pos, s)
        = (-a) * sp + a * lp + (-b) * sc + b * lc + 0
  BY <1>2 DEF Spreads!Worth
<1>4. PutCost(pos, s) = sp - lp /\ CallCost(pos, s) = sc - lc
  BY <1>2 DEF PutCost, CallCost
<1>5. (-a) * sp + a * lp + (-b) * sc + b * lc + 0 = -a * (sp - lp) - b * (sc - lc)
  <2>1. ASSUME NEW c \in {-1, 1}, b = c
        PROVE  (-a) * sp + a * lp + (-b) * sc + b * lc + 0 = -a * (sp - lp) - b * (sc - lc)
    <3>1. CASE a = -1 /\ c = -1
      BY <1>2, <2>1, <3>1
    <3>2. CASE a = 1 /\ c = -1
      BY <1>2, <2>1, <3>2
    <3>3. CASE a = 2 /\ c = -1
      BY <1>2, <2>1, <3>3
    <3>4. CASE a = -1 /\ c = 1
      BY <1>2, <2>1, <3>4
    <3>5. CASE a = 1 /\ c = 1
      BY <1>2, <2>1, <3>5
    <3>6. CASE a = 2 /\ c = 1
      BY <1>2, <2>1, <3>6
    <3> QED
      BY <3>1, <3>2, <3>3, <3>4, <3>5, <3>6
  <2> QED
    BY <2>1
<1> QED
  BY <1>3, <1>4, <1>5

LEMMA WorthOfPuts ==
  ASSUME NEW pos, NEW s \in Int, NEW a \in {1, 2}, pos["short_put"] \in Int, pos["long_put"] \in Int
  PROVE  Spreads!Worth([short_put |-> -1, long_put |-> a], pos, s)
           = a * Spreads!Intrinsic("long_put", pos["long_put"], s)
               - Spreads!Intrinsic("short_put", pos["short_put"], s)
<1>1. PICK sp, lp : /\ sp = Spreads!Intrinsic("short_put", pos["short_put"], s) /\ sp \in Int
                    /\ lp = Spreads!Intrinsic("long_put", pos["long_put"], s) /\ lp \in Int
  BY IntrinsicIsNat
<1>2. Spreads!Worth([short_put |-> -1, long_put |-> a], pos, s) = (-1) * sp + a * lp + 0 + 0 + 0
  BY <1>1 DEF Spreads!Worth
<1> QED
  BY <1>1, <1>2

LEMMA WorthOfCalls ==
  ASSUME NEW pos, NEW s \in Int, NEW a \in {1, 2}, pos["short_call"] \in Int, pos["long_call"] \in Int
  PROVE  Spreads!Worth([short_call |-> -1, long_call |-> a], pos, s)
           = a * Spreads!Intrinsic("long_call", pos["long_call"], s)
               - Spreads!Intrinsic("short_call", pos["short_call"], s)
<1>1. PICK sp, lp : /\ sp = Spreads!Intrinsic("short_call", pos["short_call"], s) /\ sp \in Int
                    /\ lp = Spreads!Intrinsic("long_call", pos["long_call"], s) /\ lp \in Int
  BY IntrinsicIsNat
<1>2. Spreads!Worth([short_call |-> -1, long_call |-> a], pos, s) = 0 + 0 + (-1) * sp + a * lp + 0
  BY <1>1 DEF Spreads!Worth
<1> QED
  BY <1>1, <1>2

\* What the positions lose at any price, before the price of the position itself.
LEMMA LossIsBounded ==
  ASSUME NEW r \in Requests, NEW k, Fits(r, k), Spreads!AsNarrow(k), NEW s \in Nat,
         r.strategy \notin Spreads!Debits,
         NEW worth, worth = Spreads!Worth(Spreads!Described(r), k.strikes, s)
  PROVE  /\ worth \in Int
         /\ r.strategy = "senex_trident" => worth >= -2 * k.width
         /\ r.strategy \in {"short_put_vertical", "short_call_vertical", "short_iron_condor",
                            "iron_butterfly"} => worth >= -k.width
         /\ r.strategy = "long_iron_condor" => worth >= 0
         /\ r.strategy = "long_call_ratio_backspread" =>
              worth >= -(k.strikes["long_call"] - k.strikes["short_call"])
         /\ r.strategy = "long_put_ratio_backspread" =>
              worth >= -(k.strikes["short_put"] - k.strikes["long_put"])
         /\ r.strategy = "cash_secured_put" => worth >= -k.strikes["put_strike"]
<1> DEFINE Four == {"short_put", "long_put", "short_call", "long_call"}
<1>0. None \notin Nat
  BY MarketAssumption
<1>1. PICK pos, w : pos = k.strikes /\ w = k.width
  OBVIOUS
<1>2. w \in Nat => /\ {"short_put", "long_put"} \subseteq DOMAIN pos =>
                         Spreads!Distance(pos["short_put"], pos["long_put"]) <= w
                   /\ {"short_call", "long_call"} \subseteq DOMAIN pos =>
                         Spreads!Distance(pos["short_call"], pos["long_call"]) <= w
  BY <1>0, <1>1 DEF Spreads!AsNarrow
<1>a. CASE r.strategy = "senex_trident"
  <2>1. /\ \A l \in Four : pos[l] \in Nat
        /\ pos["long_put"] < pos["short_put"] /\ pos["short_call"] < pos["long_call"]
        /\ pos["short_put"] = pos["short_call"] /\ w \in Nat
        /\ pos["short_put"] - pos["long_put"] = w /\ pos["long_call"] - pos["short_call"] = w
    BY <1>1, <1>a DEF Fits
  <2>2. Spreads!Described(r) = [short_put |-> -2, long_put |-> 2, short_call |-> -1, long_call |-> 1]
    BY <1>a DEF Spreads!Described, Spreads!PutOrders, Spreads!CallOrders
  <2>3. worth = -2 * PutCost(pos, s) - 1 * CallCost(pos, s)
    BY <1>1, <2>1, <2>2, WorthOfFour
  <2>4. /\ PutCost(pos, s) \in 0..w /\ CallCost(pos, s) \in 0..w
        /\ s >= pos["short_put"] => PutCost(pos, s) = 0
        /\ s <= pos["short_put"] => CallCost(pos, s) <= 0
    BY <2>1, PutSpreadCost, CallSpreadCost
  <2>5. worth \in Int /\ worth >= -2 * w
    BY <2>1, <2>3, <2>4
  <2> QED
    BY <1>1, <1>a, <2>5
<1>b. CASE r.strategy = "short_put_vertical"
  <2>1. /\ pos["short_put"] \in Nat /\ pos["long_put"] \in Nat /\ pos["long_put"] < pos["short_put"]
        /\ w \in Nat /\ pos["short_put"] - pos["long_put"] <= w
    BY <1>1, <1>2, <1>b DEF Fits, Spreads!PutOrders, Spreads!Distance
  <2>2. Spreads!Described(r) = [short_put |-> -1, long_put |-> 1]
    BY <1>b DEF Spreads!Described, Spreads!PutOrders, Spreads!CallOrders
  <2>3. worth = 1 * Spreads!Intrinsic("long_put", pos["long_put"], s)
                  - Spreads!Intrinsic("short_put", pos["short_put"], s)
    BY <1>1, <2>1, <2>2, WorthOfPuts
  <2>4. worth \in Int /\ worth >= -w
    BY <2>1, <2>3 DEF Spreads!Intrinsic, Spreads!PutLegs
  <2> QED
    BY <1>1, <1>b, <2>4
<1>c. CASE r.strategy = "short_call_vertical"
  <2>1. /\ pos["short_call"] \in Nat /\ pos["long_call"] \in Nat /\ pos["short_call"] < pos["long_call"]
        /\ w \in Nat /\ pos["long_call"] - pos["short_call"] <= w
    BY <1>1, <1>2, <1>c DEF Fits, Spreads!CallOrders, Spreads!Distance
  <2>2. Spreads!Described(r) = [short_call |-> -1, long_call |-> 1]
    BY <1>c DEF Spreads!Described, Spreads!PutOrders, Spreads!CallOrders
  <2>3. worth = 1 * Spreads!Intrinsic("long_call", pos["long_call"], s)
                  - Spreads!Intrinsic("short_call", pos["short_call"], s)
    BY <1>1, <2>1, <2>2, WorthOfCalls
  <2>4. worth \in Int /\ worth >= -w
    BY <2>1, <2>3 DEF Spreads!Intrinsic, Spreads!PutLegs
  <2> QED
    BY <1>1, <1>c, <2>4
<1>d. CASE r.strategy = "short_iron_condor"
  <2>1. /\ \A l \in Four : pos[l] \in Nat
        /\ pos["long_put"] < pos["short_put"] /\ pos["short_call"] < pos["long_call"]
        /\ w \in Nat /\ pos["short_put"] - pos["short_call"] <= w
        /\ pos["short_put"] - pos["long_put"] <= w /\ pos["long_call"] - pos["short_call"] <= w
    <3>1. /\ \A l \in Four : pos[l] \in Nat
          /\ DOMAIN pos = Four
          /\ pos["long_put"] < pos["short_put"] /\ pos["short_call"] < pos["long_call"]
          /\ w = 500 /\ pos["short_put"] - pos["short_call"] <= w
      BY <1>1, <1>d DEF Fits
    <3> QED
      BY <1>2, <3>1 DEF Spreads!Distance
  <2>2. Spreads!Described(r) = [short_put |-> -1, long_put |-> 1, short_call |-> -1, long_call |-> 1]
    BY <1>d DEF Spreads!Described, Spreads!PutOrders, Spreads!CallOrders
  <2>3. worth = -1 * PutCost(pos, s) - 1 * CallCost(pos, s)
    BY <1>1, <2>1, <2>2, WorthOfFour
  <2>4. /\ PutCost(pos, s) \in 0..w
        /\ s >= pos["short_put"] => PutCost(pos, s) = 0
        /\ s < pos["short_put"] => PutCost(pos, s) <= pos["short_put"] - s
    BY <2>1, PutSpreadCost
  <2>5. /\ CallCost(pos, s) \in 0..w
        /\ s > pos["short_call"] => CallCost(pos, s) <= s - pos["short_call"]
        /\ s <= pos["short_call"] => CallCost(pos, s) <= 0
    BY <2>1, CallSpreadCost
  <2>6. PutCost(pos, s) + CallCost(pos, s) <= w
    BY <2>1, <2>4, <2>5
  <2>7. worth \in Int /\ worth >= -w
    BY <2>1, <2>3, <2>4, <2>5, <2>6
  <2> QED
    BY <1>1, <1>d, <2>7
<1>e. CASE r.strategy = "long_iron_condor"
  <2>1. /\ \A l \in Four : pos[l] \in Nat
        /\ pos["long_put"] < pos["short_put"] /\ pos["short_call"] < pos["long_call"]
    BY <1>1, <1>e DEF Fits
  <2>2. Spreads!Described(r) = [short_put |-> -(-1), long_put |-> -1, short_call |-> -(-1), long_call |-> -1]
    BY <1>e DEF Spreads!Described, Spreads!PutOrders, Spreads!CallOrders
  <2>3. worth = -(-1) * PutCost(pos, s) - (-1) * CallCost(pos, s)
    BY <1>1, <2>1, <2>2, WorthOfFour
  <2>4. PutCost(pos, s) \in Nat /\ CallCost(pos, s) \in Nat
    BY <2>1, PutSpreadCost, CallSpreadCost
  <2>5. worth \in Int /\ worth >= 0
    BY <2>3, <2>4
  <2> QED
    BY <1>e, <2>5
<1>f. CASE r.strategy = "iron_butterfly"
  <2>1. /\ \A l \in Four : pos[l] \in Nat
        /\ pos["long_put"] < pos["short_put"] /\ pos["short_call"] = pos["short_put"]
        /\ w \in Nat /\ pos["short_put"] - pos["long_put"] <= w
        /\ pos["long_call"] - pos["short_call"] <= w
    BY <1>1, <1>2, <1>f DEF Fits, Spreads!Distance
  <2>2. Spreads!Described(r) = [short_put |-> -1, long_put |-> 1, short_call |-> -1, long_call |-> 1]
    BY <1>f DEF Spreads!Described, Spreads!PutOrders, Spreads!CallOrders
  <2>3. worth = -1 * PutCost(pos, s) - 1 * CallCost(pos, s)
    BY <1>1, <2>1, <2>2, WorthOfFour
  <2>4. /\ PutCost(pos, s) \in 0..w /\ CallCost(pos, s) \in Int /\ CallCost(pos, s) <= w
        /\ s >= pos["short_put"] => PutCost(pos, s) = 0
        /\ s <= pos["short_put"] => CallCost(pos, s) <= 0
    BY <2>1, PutSpreadCost, CallSpreadCost
  <2>5. worth \in Int /\ worth >= -w
    BY <2>1, <2>3, <2>4
  <2> QED
    BY <1>1, <1>f, <2>5
<1>g. CASE r.strategy = "long_call_ratio_backspread"
  <2>1. pos["short_call"] \in Nat /\ pos["long_call"] \in Nat /\ pos["short_call"] < pos["long_call"]
    BY <1>1, <1>g DEF Fits
  <2>2. Spreads!Described(r) = [short_call |-> -1, long_call |-> 2]
    BY <1>g DEF Spreads!Described, Spreads!PutOrders, Spreads!CallOrders
  <2>3. worth = 2 * Spreads!Intrinsic("long_call", pos["long_call"], s)
                  - Spreads!Intrinsic("short_call", pos["short_call"], s)
    BY <1>1, <2>1, <2>2, WorthOfCalls
  <2>4. worth \in Int /\ worth >= -(pos["long_call"] - pos["short_call"])
    BY <2>1, <2>3 DEF Spreads!Intrinsic, Spreads!PutLegs
  <2> QED
    BY <1>1, <1>g, <2>4
<1>h. CASE r.strategy = "long_put_ratio_backspread"
  <2>1. pos["short_put"] \in Nat /\ pos["long_put"] \in Nat /\ pos["long_put"] < pos["short_put"]
    BY <1>1, <1>h DEF Fits
  <2>2. Spreads!Described(r) = [short_put |-> -1, long_put |-> 2]
    BY <1>h DEF Spreads!Described, Spreads!PutOrders, Spreads!CallOrders
  <2>3. worth = 2 * Spreads!Intrinsic("long_put", pos["long_put"], s)
                  - Spreads!Intrinsic("short_put", pos["short_put"], s)
    BY <1>1, <2>1, <2>2, WorthOfPuts
  <2>4. worth \in Int /\ worth >= -(pos["short_put"] - pos["long_put"])
    BY <2>1, <2>3 DEF Spreads!Intrinsic, Spreads!PutLegs
  <2> QED
    BY <1>1, <1>h, <2>4
<1>i. CASE r.strategy = "cash_secured_put"
  <2>1. pos["put_strike"] \in Nat
    BY <1>1, <1>i DEF Fits
  <2>2. Spreads!Described(r) = [put_strike |-> -1]
    BY <1>i DEF Spreads!Described, Spreads!PutOrders, Spreads!CallOrders
  <2>3. worth = (-1) * Spreads!Intrinsic("put_strike", pos["put_strike"], s)
    <3>1. Spreads!Intrinsic("put_strike", pos["put_strike"], s) \in Nat
      BY <2>1, IntrinsicIsNat
    <3> QED
      BY <1>1, <2>2, <3>1 DEF Spreads!Worth
  <2>4. worth \in Int /\ worth >= -pos["put_strike"]
    BY <2>1, <2>3 DEF Spreads!Intrinsic, Spreads!PutLegs
  <2> QED
    BY <1>1, <1>i, <2>4
<1>9. r.strategy \in Spreads!Strategies
  BY RequestTypes
<1> QED
  BY <1>a, <1>b, <1>c, <1>d, <1>e, <1>f, <1>g, <1>h, <1>i, <1>9
     DEF Spreads!Strategies, Spreads!Debits

-----------------------------------------------------------------------------
(* From the request to the targets                                           *)

\* What is written down is what the request, the chains and the quotes make of it:
\* the plan is the one for the request, a suggestion is the price of that plan, an
\* order has the legs of the suggestion and brings money, and the targets are those
\* of an order whose quantities and credit were checked.
SpreadsInv ==
    part = "spreads" =>
        /\ request \in Requests
        /\ stage \in {"asked", "prepared", "suggested", "ordered", "targeted", "refused"}
        /\ prepared # None => prepared = Spreads!StrikesFor(request)
        /\ stage = "asked" => prepared = None
        /\ stage \in {"asked", "prepared"} => suggestion = None
        /\ stage = "prepared" => prepared # None
        /\ stage \in {"suggested", "ordered", "targeted"} \/ suggestion # None =>
              Offered(request, prepared, suggestion)
        /\ stage \in {"ordered", "targeted"} =>
              /\ Spreads!ValidTrident(request, suggestion)
              /\ order.legs = Spreads!OrderLegs(request, suggestion)
        /\ stage = "targeted" =>
              /\ request.strategy = "senex_trident"
              /\ targets = Spreads!TridentTargets(suggestion)

LEMMA SpreadsInit == ASSUME InitOfOne PROVE SpreadsInv
BY DEF InitOfOne, Spreads!Init, SpreadsInv

LEMMA SpreadsStep == ASSUME SpreadsInv, [NextOfOne]_allVars PROVE SpreadsInv'
<1>1. CASE UNCHANGED <<part, spreadsVars>>
  BY <1>1 DEF SpreadsInv, spreadsVars, Offered, Spreads!ValidTrident, Spreads!OrderLegs,
     Spreads!TridentTargets
<1>2. CASE part = "spreads" /\ part' = part /\ Spreads!Prepare
  <2>1. stage = "asked" /\ suggestion = None /\ request \in Requests
    BY <1>2 DEF SpreadsInv, Spreads!Prepare
  <2>2. /\ prepared' = Spreads!StrikesFor(request)
        /\ stage' = (IF prepared' = None THEN "refused" ELSE "prepared")
        /\ request' = request /\ suggestion' = suggestion
    BY <1>2 DEF Spreads!Prepare
  <2> QED
    BY <1>2, <2>1, <2>2 DEF SpreadsInv
<1>3. CASE part = "spreads" /\ part' = part
           /\ \E q \in Quotes, canOpen \in BOOLEAN : Spreads!Suggest(q, canOpen)
  <2>1. PICK q \in Quotes, canOpen \in BOOLEAN : Spreads!Suggest(q, canOpen)
    BY <1>3
  <2>2. stage = "prepared" /\ request' = request /\ prepared' = prepared
    BY <2>1 DEF Spreads!Suggest
  <2>3. prepared # None /\ suggestion = None /\ request \in Requests
        /\ prepared = Spreads!StrikesFor(request)
    BY <1>3, <2>2 DEF SpreadsInv
  <2>4. \/ /\ \A l \in DOMAIN prepared.strikes : q[l] # None
           /\ suggestion' = Spreads!Priced(request, prepared, q) /\ stage' = "suggested"
        \/ stage' = "refused" /\ suggestion' = suggestion
    BY <2>1 DEF Spreads!Suggest
  <2>5. CASE stage' = "refused" /\ suggestion' = suggestion
    BY <1>3, <2>2, <2>3, <2>5 DEF SpreadsInv
  <2>6. CASE /\ \A l \in DOMAIN prepared.strikes : q[l] # None
             /\ suggestion' = Spreads!Priced(request, prepared, q) /\ stage' = "suggested"
    <3>1. Offered(request, prepared, suggestion')
      BY <2>3, <2>6 DEF Offered
    <3>2. Offered(request', prepared', suggestion')
      BY <2>2, <3>1
    <3> QED
      BY <1>3, <2>2, <2>3, <2>6, <3>2 DEF SpreadsInv, Offered
  <2> QED
    BY <2>4, <2>5, <2>6
<1>4. CASE part = "spreads" /\ part' = part
           /\ \E custom \in Custom \cup {None} : Spreads!Execute(custom)
  <2>1. PICK custom \in Custom \cup {None} : Spreads!Execute(custom)
    BY <1>4
  <2>2. stage = "suggested" /\ UNCHANGED <<request, prepared, suggestion, targets>>
    BY <2>1 DEF Spreads!Execute
  <2>3. /\ request \in Requests /\ (prepared # None => prepared = Spreads!StrikesFor(request))
        /\ Offered(request, prepared, suggestion)
    BY <1>4, <2>2 DEF SpreadsInv
  <2>4. Offered(request', prepared', suggestion')
    BY <2>2, <2>3
  <2>5. \/ stage' = "refused"
        \/ /\ stage' = "ordered" /\ Spreads!ValidTrident(request, suggestion)
           /\ order'.legs = Spreads!OrderLegs(request, suggestion)
    BY <2>1 DEF Spreads!Execute
  <2>6. stage' = "ordered" => /\ Spreads!ValidTrident(request', suggestion')
                              /\ order'.legs = Spreads!OrderLegs(request', suggestion')
    BY <2>2, <2>5
  <2> QED
    BY <1>4, <2>2, <2>3, <2>4, <2>5, <2>6
       DEF SpreadsInv, Offered, Spreads!ValidTrident, Spreads!OrderLegs
<1>5. CASE part = "spreads" /\ part' = part /\ Spreads!PlaceTargets
  <2>1. /\ stage = "ordered" /\ stage' = "targeted" /\ request.strategy = "senex_trident"
        /\ targets' = Spreads!TridentTargets(suggestion)
        /\ UNCHANGED <<request, prepared, suggestion, order>>
    BY <1>5 DEF Spreads!PlaceTargets, Spreads!Specified
  <2>2. /\ request \in Requests /\ (prepared # None => prepared = Spreads!StrikesFor(request))
        /\ Offered(request, prepared, suggestion)
        /\ Spreads!ValidTrident(request, suggestion)
        /\ order.legs = Spreads!OrderLegs(request, suggestion)
    BY <1>5, <2>1 DEF SpreadsInv
  <2>3. /\ Offered(request', prepared', suggestion')
        /\ Spreads!ValidTrident(request', suggestion')
        /\ order'.legs = Spreads!OrderLegs(request', suggestion')
        /\ targets' = Spreads!TridentTargets(suggestion')
    BY <2>1, <2>2
  <2> QED
    BY <1>5, <2>1, <2>2, <2>3
       DEF SpreadsInv, Offered, Spreads!ValidTrident, Spreads!OrderLegs, Spreads!TridentTargets
<1> QED
  BY <1>1, <1>2, <1>3, <1>4, <1>5
     DEF NextOfOne, allVars, spreadsVars, Spreads!Next

LEMMA SpreadsAlways == SpecOfOne => []SpreadsInv
<1>1. InitOfOne => SpreadsInv
  BY SpreadsInit
<1>2. SpreadsInv /\ [NextOfOne]_allVars => SpreadsInv'
  BY SpreadsStep
<1> QED
  BY <1>1, <1>2, PTL DEF SpecOfOne

-----------------------------------------------------------------------------
(* The risk                                                                  *)

\* The dearest of a plan's strikes is a price.
LEMMA DearestStrike ==
  ASSUME NEW pos, DOMAIN pos \subseteq Legs, DOMAIN pos # {}, \A l \in DOMAIN pos : pos[l] \in Nat
  PROVE  Spreads!Max({pos[l] : l \in DOMAIN pos}) \in Nat
<1> DEFINE At(l) == IF l \in DOMAIN pos THEN pos[l] ELSE 0
           b == At("short_put") + At("long_put") + At("put_strike") + At("short_call") + At("long_call")
           strikes == {pos[l] : l \in DOMAIN pos}
<1>1. \A l \in Legs : At(l) \in Nat
  OBVIOUS
<1>2. {"short_put", "long_put", "put_strike", "short_call", "long_call"} = Legs
  BY DEF Legs, Spreads!PutLegs, Spreads!CallLegs
<1>3. \A l \in DOMAIN pos : pos[l] = At(l)
  OBVIOUS
<1> HIDE DEF At
<1>4. b \in Nat /\ \A l \in Legs : At(l) <= b
  BY <1>1, <1>2
<1>5. strikes \in SUBSET Nat /\ strikes # {} /\ \A x \in strikes : x <= b
  BY <1>3, <1>4
<1> HIDE DEF b, strikes
<1>6. Spreads!Max(strikes) \in strikes
  BY <1>4, <1>5, GreatestIsMax
<1> QED
  BY <1>5, <1>6 DEF strikes

\* The risk is the greatest loss at any price, not only where the position turns.
RiskAtEveryPrice ==
    part = "spreads" /\ suggestion # None /\ request.strategy \notin Spreads!Debits /\ Spreads!AsNarrow(prepared) =>
        \A s \in Nat : Spreads!Worth(Spreads!Described(request), suggestion.strikes, s) + suggestion.mid
                         >= -suggestion.risk

LEMMA RiskIsGreatestLoss ==
  ASSUME SpreadsInv PROVE RiskAtEveryPrice
<1> SUFFICES ASSUME part = "spreads", suggestion # None, request.strategy \notin Spreads!Debits,
                    Spreads!AsNarrow(prepared), NEW s \in Nat
             PROVE  Spreads!Worth(Spreads!Described(request), suggestion.strikes, s) + suggestion.mid
                      >= -suggestion.risk
  BY DEF RiskAtEveryPrice
<1>1. /\ request \in Requests /\ Offered(request, prepared, suggestion)
      /\ prepared = Spreads!StrikesFor(request) /\ prepared # None
  BY DEF SpreadsInv, Offered
<1>2. PICK r, k, g, worth :
        /\ r \in Requests /\ r = request /\ k = prepared /\ g = suggestion
        /\ worth = Spreads!Worth(Spreads!Described(r), k.strikes, s)
        /\ Fits(r, k) /\ Offered(r, k, g)
  BY <1>1, StrikesFit
<1>3. g.strikes = k.strikes /\ g.mid \in Int
  BY <1>2, SuggestedRisk
<1>4. worth \in Int
  BY <1>2, LossIsBounded
<1>5. worth + g.mid >= -g.risk
  <2>a. CASE r.strategy = "senex_trident"
    <3>1. g.risk = 2 * k.width - g.mid /\ worth >= -2 * k.width /\ k.width \in Nat
      BY <1>2, <2>a, SuggestedRisk, LossIsBounded DEF Fits
    <3> QED
      BY <1>3, <1>4, <3>1
  <2>b. CASE r.strategy \in {"short_put_vertical", "short_call_vertical", "short_iron_condor",
                             "iron_butterfly"}
    <3>1. g.risk = k.width - g.mid /\ worth >= -k.width
      BY <1>2, <2>b, SuggestedRisk, LossIsBounded
    <3>2. k.width \in Nat
      BY <1>2, <2>b DEF Fits, Spreads!PutOrders, Spreads!CallOrders
    <3> QED
      BY <1>3, <1>4, <3>1, <3>2
  <2>c. CASE r.strategy = "long_iron_condor"
    <3>1. g.risk = -g.mid /\ worth >= 0
      BY <1>2, <2>c, SuggestedRisk, LossIsBounded
    <3> QED
      BY <1>3, <1>4, <3>1
  <2>d. CASE r.strategy = "long_call_ratio_backspread"
    <3>1. PICK gap \in Int : gap = k.strikes["long_call"] - k.strikes["short_call"]
      BY <1>2, <2>d DEF Fits
    <3>2. g.risk = gap - g.mid /\ worth >= -gap
      BY <1>2, <2>d, <3>1, SuggestedRisk, LossIsBounded
    <3> QED
      BY <1>3, <1>4, <3>2
  <2>e. CASE r.strategy = "long_put_ratio_backspread"
    <3>1. PICK gap \in Int : gap = k.strikes["short_put"] - k.strikes["long_put"]
      BY <1>2, <2>e DEF Fits
    <3>2. g.risk = gap - g.mid /\ worth >= -gap
      BY <1>2, <2>e, <3>1, SuggestedRisk, LossIsBounded
    <3> QED
      BY <1>3, <1>4, <3>2
  <2>f. CASE r.strategy = "cash_secured_put"
    <3>1. PICK strike \in Int : strike = k.strikes["put_strike"]
      BY <1>2, <2>f DEF Fits
    <3>2. g.risk = strike - g.mid /\ worth >= -strike
      BY <1>2, <2>f, <3>1, SuggestedRisk, LossIsBounded
    <3> QED
      BY <1>3, <1>4, <3>2
  <2> QED
    BY <1>2, <2>a, <2>b, <2>c, <2>d, <2>e, <2>f, RequestTypes DEF Spreads!Strategies, Spreads!Debits
<1> QED
  BY <1>2, <1>3, <1>5

LEMMA TurnsAreNat ==
  ASSUME NEW r \in Requests, NEW k, Fits(r, k) PROVE Spreads!Turns(k.strikes) \subseteq Nat
<1>1. /\ DOMAIN k.strikes \subseteq Legs /\ DOMAIN k.strikes # {}
      /\ \A l \in DOMAIN k.strikes : k.strikes[l] \in Nat
  BY RequestTypes DEF Fits, Legs, Spreads!Strategies, Spreads!PutLegs, Spreads!CallLegs,
     Spreads!PutOrders, Spreads!CallOrders
<1>2. Spreads!Max({k.strikes[l] : l \in DOMAIN k.strikes}) \in Nat
  BY <1>1, DearestStrike
<1> QED
  BY <1>1, <1>2 DEF Spreads!Turns

LEMMA RiskHolds == ASSUME SpreadsInv PROVE WithinRisk
<1> SUFFICES ASSUME part = "spreads" PROVE Spreads!StrikesOrdered /\ Spreads!WithinRisk
  BY DEF WithinRisk
<1>1. Spreads!StrikesOrdered
  <2> SUFFICES ASSUME prepared # None PROVE Spreads!StrikesOrdered
    BY DEF Spreads!StrikesOrdered
  <2>1. request \in Requests /\ Fits(request, prepared)
    BY StrikesFit DEF SpreadsInv
  <2> QED
    BY <2>1, RequestTypes
       DEF Fits, Spreads!StrikesOrdered, Spreads!Strategies, Spreads!PutOrders, Spreads!CallOrders
<1>2. Spreads!WithinRisk
  <2> SUFFICES ASSUME suggestion # None, request.strategy \notin Spreads!Debits,
                      Spreads!AsNarrow(prepared), NEW s \in Spreads!Turns(suggestion.strikes)
               PROVE  Spreads!Worth(Spreads!Described(request), suggestion.strikes, s)
                        + suggestion.mid >= -suggestion.risk
    BY DEF Spreads!WithinRisk
  <2>1. /\ request \in Requests /\ Offered(request, prepared, suggestion)
        /\ Fits(request, prepared)
    BY StrikesFit DEF SpreadsInv, Offered
  <2>2. s \in Nat
    BY <2>1, SuggestedRisk, TurnsAreNat
  <2> QED
    BY <2>2, RiskIsGreatestLoss DEF RiskAtEveryPrice
<1> QED
  BY <1>1, <1>2

\* The risk told to the budget is the greatest loss of the position that the strategy
\* describes, wherever the underlying stands at expiration (TradingSuggestion.max_risk).
THEOREM RiskAtAnyPrice == SpecOfOne => []RiskAtEveryPrice
<1>1. SpreadsInv => RiskAtEveryPrice
  BY RiskIsGreatestLoss
<1> QED
  BY <1>1, SpreadsAlways, PTL

\* The risk that the budget is asked for covers the greatest loss of the position, and
\* the two legs of a spread stay on their sides.
THEOREM RiskIsEnough == SpecOfOne => []WithinRisk
<1>1. SpreadsInv => WithinRisk
  BY RiskHolds
<1> QED
  BY <1>1, SpreadsAlways, PTL

-----------------------------------------------------------------------------
(* The targets of a Trident and the order that closes it                     *)

\* What is known of a Trident whose targets have been sent: its prices, its strikes,
\* and the order and targets they were made into.
TridentSent ==
    LET s == suggestion
        k == s.strikes
        Leg(side, leg, n) == [side |-> side, strike |-> k[leg], qty |-> n]
        Undone(a, b, side) == {Leg(side, a, 1), Leg(side, b, -1)}
    IN /\ s.putMid \in Nat \ {0} /\ s.callMid \in Int /\ s.mid = 2 * s.putMid + s.callMid
       /\ {"short_put", "long_put"} \subseteq DOMAIN k
       /\ k["short_put"] \in Nat /\ k["long_put"] \in Nat /\ k["long_put"] < k["short_put"]
       /\ order.legs = {Leg("put", "short_put", -2), Leg("put", "long_put", 2),
                        Leg("call", "short_call", -1), Leg("call", "long_call", 1)}
       /\ targets =
            {[spread |-> "put_spread_1", legs |-> Undone("short_put", "long_put", "put"),
              price |-> Spreads!Rounded(s.putMid, 60)],
             [spread |-> "put_spread_2", legs |-> Undone("short_put", "long_put", "put"),
              price |-> Spreads!Rounded(s.putMid, 40)]}
            \cup (IF s.callMid # 0
                  THEN {[spread |-> "call_spread", legs |-> Undone("short_call", "long_call", "call"),
                         price |-> Spreads!Rounded(s.callMid, 60)]} ELSE {})

LEMMA TargetsOfTrident ==
  ASSUME SpreadsInv, part = "spreads", stage = "targeted" PROVE TridentSent
<1>1. PICK k : k = prepared /\ Fits(request, k) /\ Offered(request, k, suggestion)
               /\ request \in Requests /\ request.strategy = "senex_trident"
  BY StrikesFit DEF SpreadsInv, Offered
<1>2. PICK q \in Quotes : (\A l \in DOMAIN k.strikes : q[l] # None)
                          /\ suggestion = Spreads!Priced(request, k, q)
  BY <1>1 DEF Offered
<1>3. /\ DOMAIN k.strikes = {"short_put", "long_put", "short_call", "long_call"}
      /\ \A l \in DOMAIN k.strikes : k.strikes[l] \in Nat
      /\ k.strikes["long_put"] < k.strikes["short_put"]
  BY <1>1 DEF Fits
<1>4. PICK p : p = Spreads!Pricing(DOMAIN k.strikes, q)
  OBVIOUS
<1>5. \A l \in DOMAIN k.strikes :
        /\ q[l].bid \in Nat /\ q[l].ask \in Nat /\ Spreads!MidOf(q[l]) \in Nat
        /\ q[l].bid <= Spreads!MidOf(q[l]) /\ Spreads!MidOf(q[l]) <= q[l].ask
  <2>1. DOMAIN k.strikes \subseteq Legs
    BY <1>3 DEF Legs, Spreads!PutLegs, Spreads!CallLegs
  <2> QED
    BY <1>2, <2>1, QuotesAreOrdered
<1>6. /\ p.put = q["short_put"].bid - q["long_put"].ask
      /\ p.putMid = Spreads!MidOf(q["short_put"]) - Spreads!MidOf(q["long_put"])
      /\ p.callMid = Spreads!MidOf(q["short_call"]) - Spreads!MidOf(q["long_call"])
  <2>1. DOMAIN k.strikes # {"put_strike"}
        /\ {"short_put", "long_put"} \subseteq DOMAIN k.strikes
        /\ {"short_call", "long_call"} \subseteq DOMAIN k.strikes
    BY <1>3
  <2> QED
    BY <1>4, <2>1 DEF Spreads!Pricing, Spreads!Natural, Spreads!Middle
<1>7. suggestion = [Spreads!TridentPriced(k, p) EXCEPT !.strikes = k.strikes]
  BY <1>1, <1>2, <1>4 DEF Spreads!Priced
<1>8. PICK s : /\ s = suggestion /\ s.strikes = k.strikes /\ s.putQty = 2 /\ s.callQty = 1
               /\ s.putCredit = p.put /\ s.putMid = p.putMid /\ s.callMid = p.callMid
               /\ s.mid = 2 * p.putMid + p.callMid
  <2>1. PICK made : made = Spreads!TridentPriced(k, p)
    OBVIOUS
  <2>2. p.putMid \in Int /\ p.callMid \in Int
    BY <1>3, <1>5, <1>6
  <2>3. DOMAIN made = DOMAIN Spreads!Blank /\ "strikes" \in DOMAIN made
    BY <2>1 DEF Spreads!TridentPriced, Spreads!Blank
  <2>4. made.putQty = 2 /\ made.callQty = 1
    BY <2>1 DEF Spreads!TridentPriced, Spreads!Blank
  <2>5. made.putCredit = p.put /\ made.putMid = p.putMid
    BY <2>1 DEF Spreads!TridentPriced, Spreads!Blank
  <2>6. made.callMid = p.callMid /\ made.mid = 2 * p.putMid + p.callMid
    BY <2>1, <2>2 DEF Spreads!TridentPriced, Spreads!Blank
  <2>7. PICK g : g = suggestion /\ g = [made EXCEPT !.strikes = k.strikes]
    BY <1>7, <2>1
  <2>8. /\ g.strikes = k.strikes /\ g.putQty = made.putQty /\ g.callQty = made.callQty
        /\ g.putCredit = made.putCredit /\ g.putMid = made.putMid /\ g.callMid = made.callMid
        /\ g.mid = made.mid
    BY <2>3, <2>7
  <2> QED
    BY <2>4, <2>5, <2>6, <2>7, <2>8
<1>9. s.putCredit > 0
  BY <1>1, <1>8 DEF SpreadsInv, Spreads!ValidTrident
<1>10. s.putMid \in Nat \ {0} /\ s.callMid \in Int
  BY <1>3, <1>5, <1>6, <1>8, <1>9
<1>11. order.legs = Spreads!SpreadLegs("put", s.strikes, 2) \cup Spreads!SpreadLegs("call", s.strikes, 1)
  <2>1. order.legs = Spreads!OrderLegs(request, s)
    BY <1>8 DEF SpreadsInv
  <2>2. Spreads!OrderLegs(request, s) = Spreads!TridentLegs(s)
    BY <1>1, <1>8 DEF Spreads!OrderLegs, Spreads!PutOrders, Spreads!CallOrders
  <2> QED
    BY <1>8, <2>1, <2>2 DEF Spreads!TridentLegs
<1>12. targets = {Spreads!Target("put_spread_1", "put", s, s.putMid, 40),
                  Spreads!Target("put_spread_2", "put", s, s.putMid, 60)}
                 \cup (IF s.callMid # 0
                       THEN {Spreads!Target("call_spread", "call", s, s.callMid, 40)} ELSE {})
  <2>1. targets = Spreads!TridentTargets(s)
    BY <1>8 DEF SpreadsInv
  <2>2. Spreads!PutTarget("put_spread_1", s, 1, 40) = {Spreads!Target("put_spread_1", "put", s, s.putMid, 40)}
    BY <1>8, <1>10 DEF Spreads!PutTarget
  <2>3. Spreads!PutTarget("put_spread_2", s, 2, 60) = {Spreads!Target("put_spread_2", "put", s, s.putMid, 60)}
    BY <1>8, <1>10 DEF Spreads!PutTarget
  <2>4. Spreads!CallTarget(s) = IF s.callMid # 0
                                THEN {Spreads!Target("call_spread", "call", s, s.callMid, 40)} ELSE {}
    BY <1>8 DEF Spreads!CallTarget
  <2> QED
    BY <2>1, <2>2, <2>3, <2>4 DEF Spreads!TridentTargets
<1>13. \A n \in {1, 2} :
         /\ Spreads!SpreadLegs("put", s.strikes, n) =
              {[side |-> "put", strike |-> s.strikes["short_put"], qty |-> -n],
               [side |-> "put", strike |-> s.strikes["long_put"], qty |-> n]}
         /\ Spreads!SpreadLegs("call", s.strikes, n) =
              {[side |-> "call", strike |-> s.strikes["short_call"], qty |-> -n],
               [side |-> "call", strike |-> s.strikes["long_call"], qty |-> n]}
  BY DEF Spreads!SpreadLegs
<1>14. /\ Spreads!ClosingLegs("put", s.strikes) =
              {[side |-> "put", strike |-> s.strikes["short_put"], qty |-> 1],
               [side |-> "put", strike |-> s.strikes["long_put"], qty |-> -1]}
       /\ Spreads!ClosingLegs("call", s.strikes) =
              {[side |-> "call", strike |-> s.strikes["short_call"], qty |-> 1],
               [side |-> "call", strike |-> s.strikes["long_call"], qty |-> -1]}
  <2>1. \A side, x : /\ [[side |-> side, strike |-> x, qty |-> -1] EXCEPT !.qty = -(-1)]
                          = [side |-> side, strike |-> x, qty |-> 1]
                     /\ [[side |-> side, strike |-> x, qty |-> 1] EXCEPT !.qty = -1]
                          = [side |-> side, strike |-> x, qty |-> -1]
    OBVIOUS
  <2>2. ASSUME NEW side \in {"put", "call"}, NEW a, NEW b,
               Spreads!SpreadLegs(side, s.strikes, 1) =
                 {[side |-> side, strike |-> a, qty |-> -1], [side |-> side, strike |-> b, qty |-> 1]}
        PROVE  Spreads!ClosingLegs(side, s.strikes) =
                 {[side |-> side, strike |-> a, qty |-> 1], [side |-> side, strike |-> b, qty |-> -1]}
    <3> DEFINE x == [side |-> side, strike |-> a, qty |-> -1]
               y == [side |-> side, strike |-> b, qty |-> 1]
    <3>1. Spreads!ClosingLegs(side, s.strikes) = {[x EXCEPT !.qty = -x.qty], [y EXCEPT !.qty = -y.qty]}
      <4> HIDE DEF x, y
      <4> QED
        BY <2>2 DEF Spreads!ClosingLegs, x, y
    <3>2. x.qty = -1 /\ y.qty = 1
      OBVIOUS
    <3> QED
      BY <2>1, <3>1, <3>2
  <2> QED
    BY <1>13, <2>2
<1>15. targets =
            {[spread |-> "put_spread_1", legs |-> Spreads!ClosingLegs("put", s.strikes),
              price |-> Spreads!Rounded(s.putMid, 60)],
             [spread |-> "put_spread_2", legs |-> Spreads!ClosingLegs("put", s.strikes),
              price |-> Spreads!Rounded(s.putMid, 40)]}
            \cup (IF s.callMid # 0
                  THEN {[spread |-> "call_spread", legs |-> Spreads!ClosingLegs("call", s.strikes),
                         price |-> Spreads!Rounded(s.callMid, 60)]} ELSE {})
  BY <1>12 DEF Spreads!Target
<1> QED
  BY <1>3, <1>8, <1>10, <1>11, <1>13, <1>14, <1>15 DEF TridentSent

\* Sets of one, two and three members.
LEMMA FewCount ==
  ASSUME NEW a, NEW b, NEW c
  PROVE  /\ Cardinality({a}) = 1
         /\ Cardinality({a, b}) <= 2
         /\ a # b => Cardinality({a, b}) = 2
         /\ a # b /\ a # c /\ b # c => Cardinality({a, b, c}) = 3
<1>1. IsFiniteSet({a}) /\ Cardinality({a}) = 1
  BY FS_Singleton
<1>2. /\ IsFiniteSet({a, b})
      /\ Cardinality({a, b}) = IF b \in {a} THEN 1 ELSE 1 + 1
  <2>1. {a, b} = {a} \cup {b}
    OBVIOUS
  <2> QED
    BY <1>1, <2>1, FS_AddElement
<1>3. Cardinality({a, b, c}) = IF c \in {a, b} THEN Cardinality({a, b}) ELSE Cardinality({a, b}) + 1
  <2>1. {a, b, c} = {a, b} \cup {c}
    OBVIOUS
  <2> QED
    BY <1>2, <2>1, FS_AddElement
<1> QED
  BY <1>1, <1>2, <1>3

LEMMA TargetsHold == ASSUME SpreadsInv PROVE TargetsUndoTheOrder
<1> SUFFICES ASSUME part = "spreads", stage = "targeted", suggestion.callMid > 0
             PROVE  Spreads!TargetsUndoTheOrder
  BY DEF TargetsUndoTheOrder, Spreads!TargetsUndoTheOrder
<1>1. TridentSent
  BY TargetsOfTrident
<1> DEFINE k == suggestion.strikes
           Leg(side, leg, n) == [side |-> side, strike |-> k[leg], qty |-> n]
           puts == {Leg("put", "short_put", 1), Leg("put", "long_put", -1)}
           calls == {Leg("call", "short_call", 1), Leg("call", "long_call", -1)}
           one == [spread |-> "put_spread_1", legs |-> puts, price |-> Spreads!Rounded(suggestion.putMid, 60)]
           two == [spread |-> "put_spread_2", legs |-> puts, price |-> Spreads!Rounded(suggestion.putMid, 40)]
           three == [spread |-> "call_spread", legs |-> calls, price |-> Spreads!Rounded(suggestion.callMid, 60)]
<1>2. PICK P \in Nat \ {0}, C \in Nat \ {0} :
        P = suggestion.putMid /\ C = suggestion.callMid /\ suggestion.mid = 2 * P + C
  BY <1>1 DEF TridentSent
<1>3. targets = {one, two, three}
  BY <1>1, <1>2 DEF TridentSent
<1>4. order.legs = {Leg("put", "short_put", -2), Leg("put", "long_put", 2),
                    Leg("call", "short_call", -1), Leg("call", "long_call", 1)}
  BY <1>1 DEF TridentSent
<1>5. /\ one.legs = puts /\ two.legs = puts /\ three.legs = calls
      /\ one # two /\ one # three /\ two # three
  OBVIOUS
<1>6. /\ one.price \in Int /\ two.price \in Int /\ three.price \in Int
      /\ one.price + two.price + three.price < 2 * P + C
  <2>1. /\ one.price = Spreads!Rounded(P, 60) /\ two.price = Spreads!Rounded(P, 40)
        /\ three.price = Spreads!Rounded(C, 60)
    BY <1>2
  <2>2. /\ Spreads!Rounded(P, 60) \in Int /\ Spreads!Rounded(P, 60) <= P
        /\ Spreads!Rounded(P, 40) \in Int /\ Spreads!Rounded(P, 40) < P
        /\ Spreads!Rounded(C, 60) \in Int /\ Spreads!Rounded(C, 60) <= C
    BY DEF Spreads!Rounded
  <2> HIDE DEF one, two, three
  <2> QED
    BY <2>1, <2>2
<1>7. /\ Spreads!Back(Leg("put", "short_put", -2)) = Leg("put", "short_put", 1)
      /\ Spreads!Back(Leg("put", "long_put", 2)) = Leg("put", "long_put", -1)
      /\ Spreads!Back(Leg("call", "short_call", -1)) = Leg("call", "short_call", 1)
      /\ Spreads!Back(Leg("call", "long_call", 1)) = Leg("call", "long_call", -1)
  BY DEF Spreads!Back
<1>8. \A leg \in order.legs :
         Spreads!Cardinality({t \in targets : Spreads!Back(leg) \in t.legs}) = Spreads!Distance(leg.qty, 0)
  <2>1. ASSUME NEW leg, Spreads!Back(leg) \in puts, Spreads!Back(leg) \notin calls
        PROVE  Spreads!Cardinality({t \in targets : Spreads!Back(leg) \in t.legs}) = 2
    <3>1. {t \in targets : Spreads!Back(leg) \in t.legs} = {one, two}
      <4> HIDE DEF one, two, three, puts, calls
      <4> QED
        BY <1>3, <1>5, <2>1
    <3> HIDE DEF one, two, three
    <3>2. Cardinality({one, two}) = 2
      BY <1>5, FewCount
    <3>3. Spreads!Cardinality({one, two}) = 2
      BY <3>2, SameCount
    <3> QED
      BY <3>1, <3>3
  <2>2. ASSUME NEW leg, Spreads!Back(leg) \in calls, Spreads!Back(leg) \notin puts
        PROVE  Spreads!Cardinality({t \in targets : Spreads!Back(leg) \in t.legs}) = 1
    <3>1. {t \in targets : Spreads!Back(leg) \in t.legs} = {three}
      <4> HIDE DEF one, two, three, puts, calls
      <4> QED
        BY <1>3, <1>5, <2>2
    <3> HIDE DEF one, two, three
    <3> QED
      BY <3>1, FewCount, SameCount
  <2>3. /\ Leg("put", "short_put", 1) \in puts \ calls /\ Leg("put", "long_put", -1) \in puts \ calls
        /\ Leg("call", "short_call", 1) \in calls \ puts /\ Leg("call", "long_call", -1) \in calls \ puts
    OBVIOUS
  <2>4. /\ Spreads!Distance(Leg("put", "short_put", -2).qty, 0) = 2
        /\ Spreads!Distance(Leg("put", "long_put", 2).qty, 0) = 2
        /\ Spreads!Distance(Leg("call", "short_call", -1).qty, 0) = 1
        /\ Spreads!Distance(Leg("call", "long_call", 1).qty, 0) = 1
    BY DEF Spreads!Distance
  <2> HIDE DEF Leg, puts, calls
  <2> QED
    BY <1>4, <1>7, <2>1, <2>2, <2>3, <2>4
<1>9. \A t \in targets : \A leg \in t.legs : \E opened \in order.legs : leg = Spreads!Back(opened)
  <2>1. \A leg \in puts \cup calls : \E opened \in order.legs : leg = Spreads!Back(opened)
    <3> HIDE DEF Leg
    <3> QED
      BY <1>4, <1>7
  <2>2. \A t \in targets : t.legs \subseteq puts \cup calls
    <3> HIDE DEF one, two, three, puts, calls
    <3> QED
      BY <1>3, <1>5
  <2> HIDE DEF puts, calls
  <2> QED
    BY <2>1, <2>2
<1>10. ASSUME order.credit = suggestion.mid
       PROVE  /\ Spreads!Cardinality(targets) = 3
              /\ \A t, u, v \in targets :
                    Spreads!Cardinality({t, u, v}) = 3 => t.price + u.price + v.price < order.credit
  <2> HIDE DEF one, two, three
  <2>1. Spreads!Cardinality(targets) = 3
    <3>1. one # two /\ one # three /\ two # three
      BY <1>5
    <3>2. Cardinality({one, two, three}) = 3
      BY <3>1, FewCount, Zenon
    <3> QED
      BY <1>3, <3>2, SameCount
  <2>2. ASSUME NEW t \in targets, NEW u \in targets, NEW v \in targets,
               Spreads!Cardinality({t, u, v}) = 3
        PROVE  t.price + u.price + v.price < order.credit
    <3>1. t # u /\ t # v /\ u # v
      <4>1. Cardinality({t, v}) <= 2 /\ Cardinality({t, u}) <= 2 /\ Cardinality({u, v}) <= 2
        BY FewCount
      <4>2. Cardinality({t, u, v}) = 3
        BY <2>2, SameCount
      <4>3. t = u => {t, u, v} = {t, v}
        OBVIOUS
      <4>4. t = v => {t, u, v} = {t, u}
        OBVIOUS
      <4>5. u = v => {t, u, v} = {t, u}
        OBVIOUS
      <4>6. ~(3 <= 2)
        OBVIOUS
      <4> QED
        BY <4>1, <4>2, <4>3, <4>4, <4>5, <4>6
    <3>2. t \in {one, two, three} /\ u \in {one, two, three} /\ v \in {one, two, three}
      BY <1>3
    <3>3. t.price + u.price + v.price = one.price + two.price + three.price
      BY <1>6, <3>1, <3>2
    <3> QED
      BY <1>2, <1>6, <1>10, <3>3
  <2> QED
    BY <2>1, <2>2
<1> QED
  BY <1>8, <1>9, <1>10 DEF Spreads!TargetsUndoTheOrder

\* A filled Trident's targets close what its order opened, contract by contract, and
\* leave a profit.
THEOREM TargetsUndo == SpecOfOne => []TargetsUndoTheOrder
<1>1. SpreadsInv => TargetsUndoTheOrder
  BY TargetsHold
<1> QED
  BY <1>1, SpreadsAlways, PTL

-----------------------------------------------------------------------------
(* The limits of the closing orders from day to day                          *)

\* Rounding to the cent keeps the order of two prices.
LEMMA RoundingKeepsOrder ==
  ASSUME NEW x \in Int, NEW y \in Int, x <= y
  PROVE  Closing!Cents(x) <= Closing!Cents(y)
<1> DEFINE q(n) == n \div 100
           r(n) == n % 100
<1>1. /\ q(x) \in Int /\ r(x) \in 0..99 /\ x = 100 * q(x) + r(x)
      /\ q(y) \in Int /\ r(y) \in 0..99 /\ y = 100 * q(y) + r(y)
  OBVIOUS
<1>2. CASE q(x) = q(y)
  <2>1. r(x) <= r(y)
    BY <1>1, <1>2
  <2> QED
    BY <1>1, <1>2, <2>1 DEF Closing!Cents
<1>3. CASE q(x) < q(y)
  <2>1. q(x) + 1 <= q(y)
    BY <1>1, <1>3
  <2>2. Closing!Cents(x) \in {q(x), q(x) + 1} /\ Closing!Cents(y) \in {q(y), q(y) + 1}
    BY <1>1 DEF Closing!Cents
  <2> QED
    BY <1>1, <2>1, <2>2
<1>4. q(x) <= q(y)
  BY <1>1
<1> QED
  BY <1>1, <1>2, <1>3, <1>4

\* The share of the loss grows as the days go down.
LEMMA ShareGrows ==
  ASSUME NEW d \in Int, NEW e \in Int, d <= e
  PROVE  /\ Closing!LossShare(d) \in 0..100
         /\ Closing!LossShare(e) <= Closing!LossShare(d)
BY DEF Closing!LossShare

\* The limit to buy a credit spread back never falls as expiration comes nearer, and
\* never passes the width (or ten cents), provided the credit is not above the width
\* ("progressively escalating closing prices", DTE_MANAGEMENT_PATTERN.md:5).
THEOREM CreditLimitRises ==
  ASSUME NEW entry \in Nat, NEW width \in Nat, entry <= width,
         NEW d \in Int, NEW e \in Int, d <= e
  PROVE  /\ Closing!CloseLimit(TRUE, entry, width, e, {}) <= Closing!CloseLimit(TRUE, entry, width, d, {})
         /\ Closing!CloseLimit(TRUE, entry, width, d, {}) <= Closing!AtLeast(10, width)
<1> DEFINE loss == width - entry
           now == Closing!LossShare(d)
           before == Closing!LossShare(e)
<1>1. loss \in Nat /\ now \in 0..100 /\ before \in 0..100 /\ before <= now
  BY ShareGrows
<1>2. before * loss <= now * loss
  BY <1>1, SMTT(30)
<1>3. now * loss <= 100 * loss /\ now * loss \in Int /\ before * loss \in Int
  BY <1>1, SMTT(30)
<1>4. Closing!CreditLimit(entry, width, e) <= Closing!CreditLimit(entry, width, d)
  BY <1>2, <1>3 DEF Closing!CreditLimit, Closing!AtLeast
<1>5. Closing!CreditLimit(entry, width, d) <= 100 * Closing!AtLeast(10, width)
  BY <1>3 DEF Closing!CreditLimit, Closing!AtLeast
<1>6. /\ Closing!CreditLimit(entry, width, d) \in Int
      /\ Closing!CreditLimit(entry, width, e) \in Int
      /\ Closing!AtLeast(10, width) \in Int
  BY <1>3 DEF Closing!CreditLimit, Closing!AtLeast
<1>7. Closing!Cents(100 * Closing!AtLeast(10, width)) = Closing!AtLeast(10, width)
  BY <1>6 DEF Closing!Cents
<1>8. \A f \in {d, e} :
        Closing!CloseLimit(TRUE, entry, width, f, {}) = Closing!Cents(Closing!CreditLimit(entry, width, f))
  BY DEF Closing!CloseLimit, Closing!AboveTargets
<1>9. Closing!Cents(Closing!CreditLimit(entry, width, e)) <= Closing!Cents(Closing!CreditLimit(entry, width, d))
  BY <1>4, <1>6, RoundingKeepsOrder
<1>10. Closing!Cents(Closing!CreditLimit(entry, width, d)) <= Closing!Cents(100 * Closing!AtLeast(10, width))
  <2>1. 100 * Closing!AtLeast(10, width) \in Int
    BY <1>6
  <2> QED
    BY <1>5, <1>6, <2>1, RoundingKeepsOrder
<1> QED
  BY <1>7, <1>8, <1>9, <1>10

\* A debit spread is offered for less every day, and never for less than nothing.
THEOREM DebitLimitFalls ==
  ASSUME NEW entry \in Nat, NEW width, NEW d \in Int, NEW e \in Int, d <= e
  PROVE  /\ Closing!CloseLimit(FALSE, entry, width, d, {}) <= Closing!CloseLimit(FALSE, entry, width, e, {})
         /\ 0 <= Closing!CloseLimit(FALSE, entry, width, d, {})
<1>1. Closing!LossShare(d) \in 0..100 /\ Closing!LossShare(e) \in 0..100 /\ Closing!LossShare(e) <= Closing!LossShare(d)
  BY ShareGrows
<1>2. Closing!LossShare(e) * entry <= Closing!LossShare(d) * entry /\ Closing!LossShare(d) * entry \in Int
      /\ Closing!LossShare(e) * entry \in Int
  BY <1>1, SMTT(30)
<1>3. /\ Closing!DebitLimit(entry, d) <= Closing!DebitLimit(entry, e) /\ 0 <= Closing!DebitLimit(entry, d)
      /\ Closing!DebitLimit(entry, d) \in Int /\ Closing!DebitLimit(entry, e) \in Int
  BY <1>2 DEF Closing!DebitLimit, Closing!AtLeast
<1>4. Closing!Cents(0) = 0
  BY DEF Closing!Cents
<1>5. \A f \in {d, e} : Closing!CloseLimit(FALSE, entry, width, f, {}) = Closing!Cents(Closing!DebitLimit(entry, f))
  BY DEF Closing!CloseLimit
<1>6. Closing!Cents(Closing!DebitLimit(entry, d)) <= Closing!Cents(Closing!DebitLimit(entry, e))
  BY <1>3, RoundingKeepsOrder
<1>7. Closing!Cents(0) <= Closing!Cents(Closing!DebitLimit(entry, d))
  BY <1>3, 0 \in Int, RoundingKeepsOrder
<1> QED
  BY <1>4, <1>5, <1>6, <1>7

\* No target asks for so much that the order that closes the position would have to pass it.
LEMMA TargetsAreCheaper ==
  ASSUME TridentSent, suggestion.callMid >= 0, NEW t \in targets
  PROVE  t.price \in Int /\ 110 * t.price <= 100 * suggestion.mid
<1>1. PICK P \in Nat \ {0}, C \in Nat :
        P = suggestion.putMid /\ C = suggestion.callMid /\ suggestion.mid = 2 * P + C
  BY DEF TridentSent
<1>2. t.price \in {Spreads!Rounded(P, 60), Spreads!Rounded(P, 40), Spreads!Rounded(C, 60)}
  BY <1>1 DEF TridentSent
<1>3. /\ Spreads!Rounded(P, 60) \in Int /\ 100 * Spreads!Rounded(P, 60) <= 60 * P + 50
      /\ Spreads!Rounded(P, 40) \in Int /\ 100 * Spreads!Rounded(P, 40) <= 40 * P + 50
      /\ Spreads!Rounded(C, 60) \in Int /\ 100 * Spreads!Rounded(C, 60) <= 60 * C + 50
  BY DEF Spreads!Rounded
<1> QED
  BY <1>1, <1>2, <1>3

LEMMA ClosingHolds == ASSUME SpreadsInv PROVE ClosingRises
<1> DEFINE entry == order.credit
           width == Closing!WidthOf(suggestion.strikes)
<1> SUFFICES ASSUME part = "spreads", stage = "targeted", entry = suggestion.mid,
                    suggestion.callMid >= 0, entry <= width,
                    NEW d \in 0..8, NEW gone \in SUBSET {t.price : t \in targets}
             PROVE  Closing!CloseLimit(TRUE, entry, width, d + 1, gone)
                      <= Closing!CloseLimit(TRUE, entry, width, d, {})
  BY DEF ClosingRises
<1>1. TridentSent
  BY TargetsOfTrident
<1>2. entry \in Nat /\ width \in Nat
  <2>1. entry \in Nat
    BY <1>1 DEF TridentSent
  <2>2. width = suggestion.strikes["short_put"] - suggestion.strikes["long_put"]
    BY <1>1 DEF TridentSent, Closing!WidthOf
  <2>3. width \in Nat
    BY <1>1, <2>2 DEF TridentSent
  <2> QED
    BY <2>1, <2>3
<1>3. \A price \in gone : price \in Int /\ 110 * price <= 100 * entry
  BY <1>1, TargetsAreCheaper
<1> HIDE DEF entry, width
<1>4. PICK limit \in Int : limit = Closing!CreditLimit(entry, width, d + 1) /\ 100 * entry <= limit
  <2>1. Closing!LossShare(d + 1) \in 0..100
    BY ShareGrows
  <2>2. PICK loss \in Nat : loss = width - entry
    BY <1>2
  <2>3. Closing!LossShare(d + 1) * loss \in Nat
    BY <2>1, SMTT(30)
  <2> QED
    BY <1>2, <2>2, <2>3 DEF Closing!CreditLimit, Closing!AtLeast
<1>5. Closing!AboveTargets(gone, limit) = limit
  <2>1. \A price \in gone : 110 * price <= limit
    BY <1>2, <1>3, <1>4
  <2> QED
    BY <2>1 DEF Closing!AboveTargets
<1>6. Closing!CloseLimit(TRUE, entry, width, d + 1, gone)
        = Closing!CloseLimit(TRUE, entry, width, d + 1, {})
  <2>1. Closing!AboveTargets({}, limit) = limit
    BY DEF Closing!AboveTargets
  <2> QED
    BY <1>4, <1>5, <2>1 DEF Closing!CloseLimit
<1>7. Closing!CloseLimit(TRUE, entry, width, d + 1, {}) <= Closing!CloseLimit(TRUE, entry, width, d, {})
  <2>1. d \in Int /\ d + 1 \in Int /\ d <= d + 1
    OBVIOUS
  <2> QED
    BY <1>2, <2>1, CreditLimitRises
<1> QED
  BY <1>6, <1>7

\* Day by day the order that closes a Trident offers more, whichever targets the first
\* run cancelled for it.
THEOREM ClosingOffersMore == SpecOfOne => []ClosingRises
<1>1. SpreadsInv => ClosingRises
  BY ClosingHolds
<1> QED
  BY <1>1, SpreadsAlways, PTL

-----------------------------------------------------------------------------
(* The calendar                                                              *)

\* PriceHistory counts as this module does.
LEMMA CountOfPrices == \A S : Prices!Cardinality(S) = Cardinality(S)
BY DEF Prices!Cardinality, Cardinality

\* The weekdays from day 0 to this one, by which Elapsed counts before holidays.
FirstFive(x) == IF x <= 4 THEN x ELSE 4
Weekdays(d) == 5 * (d \div 7) + FirstFive(d % 7) + 1
HolidaysUntil(d) == {h \in Holidays : h <= d}

LEMMA FirstFiveIsMin ==
  ASSUME NEW x \in Nat PROVE Prices!Min({x, 4}) = FirstFive(x)
<1>1. FirstFive(x) \in {x, 4} /\ \A y \in {x, 4} : FirstFive(x) <= y
  BY DEF FirstFive
<1>2. \A z \in {x, 4} : (\A y \in {x, 4} : z <= y) => z = FirstFive(x)
  BY <1>1
<1> QED
  BY <1>1, <1>2 DEF Prices!Min

LEMMA DaysOfWeeks ==
  ASSUME NEW d \in Int
  PROVE  /\ d \div 7 \in Int /\ d % 7 \in 0..6 /\ d = 7 * (d \div 7) + (d % 7)
         /\ Weekdays(d) \in Int
BY DEF Weekdays, FirstFive

LEMMA UntilFinite ==
  ASSUME NEW d \in Int
  PROVE  IsFiniteSet(HolidaysUntil(d)) /\ Cardinality(HolidaysUntil(d)) \in Nat
<1>1. HolidaysUntil(d) \subseteq Holidays
  BY DEF HolidaysUntil
<1> QED
  BY <1>1, CalendarAssumption, FS_Subset, FS_CardinalityType

LEMMA ElapsedIs ==
  ASSUME NEW d \in Int
  PROVE  /\ Prices!Elapsed(d) = Weekdays(d) - Cardinality(HolidaysUntil(d))
         /\ Prices!Elapsed(d) \in Int
<1>1. Prices!Elapsed(d) = Weekdays(d) - Cardinality(HolidaysUntil(d))
  <2>1. d % 7 \in Nat
    BY DaysOfWeeks
  <2>2. Prices!Min({d % 7, 4}) = FirstFive(d % 7)
    BY <2>1, FirstFiveIsMin
  <2>3. Prices!Cardinality(HolidaysUntil(d)) = Cardinality(HolidaysUntil(d))
    BY CountOfPrices
  <2>4. Prices!Elapsed(d) = 5 * (d \div 7) + Prices!Min({d % 7, 4}) + 1
                              - Prices!Cardinality(HolidaysUntil(d))
    BY DEF Prices!Elapsed, HolidaysUntil
  <2> QED
    BY <2>1, <2>2, <2>3, <2>4, DaysOfWeeks, UntilFinite DEF Weekdays, FirstFive
<1> QED
  BY <1>1, DaysOfWeeks, UntilFinite

\* A day adds one if it is a session.
LEMMA WeekdayStep ==
  ASSUME NEW d \in Int
  PROVE  Weekdays(d + 1) = Weekdays(d) + IF (d + 1) % 7 \in {5, 6} THEN 0 ELSE 1
BY DEF Weekdays, FirstFive

LEMMA HolidayStep ==
  ASSUME NEW d \in Int
  PROVE  Cardinality(HolidaysUntil(d + 1)) =
           Cardinality(HolidaysUntil(d)) + IF d + 1 \in Holidays THEN 1 ELSE 0
<1>1. CASE d + 1 \in Holidays
  <2>1. HolidaysUntil(d + 1) = HolidaysUntil(d) \cup {d + 1} /\ d + 1 \notin HolidaysUntil(d)
    BY <1>1, CalendarAssumption DEF HolidaysUntil
  <2> QED
    BY <1>1, <2>1, UntilFinite, FS_AddElement
<1>2. CASE d + 1 \notin Holidays
  <2>1. HolidaysUntil(d + 1) = HolidaysUntil(d)
    BY <1>2, CalendarAssumption DEF HolidaysUntil
  <2> QED
    BY <1>2, <2>1, UntilFinite
<1> QED
  BY <1>1, <1>2

LEMMA ElapsedStep ==
  ASSUME NEW d \in Int
  PROVE  Prices!Elapsed(d + 1) = Prices!Elapsed(d) + IF Prices!Trading(d + 1) THEN 1 ELSE 0
<1>1. d + 1 \in Int
  OBVIOUS
<1> DEFINE weekend == (d + 1) % 7 \in {5, 6}
<1>2. d + 1 \in Holidays => ~weekend
  BY CalendarAssumption
<1>3. Prices!Trading(d + 1) <=> ~weekend /\ d + 1 \notin Holidays
  BY DEF Prices!Trading
<1>4. Weekdays(d + 1) = Weekdays(d) + IF weekend THEN 0 ELSE 1
  BY WeekdayStep
<1>5. /\ Prices!Elapsed(d) = Weekdays(d) - Cardinality(HolidaysUntil(d))
      /\ Prices!Elapsed(d + 1) = Weekdays(d + 1) - Cardinality(HolidaysUntil(d + 1))
  BY <1>1, ElapsedIs
<1>6. Weekdays(d) \in Int /\ Cardinality(HolidaysUntil(d)) \in Nat
  BY DaysOfWeeks, UntilFinite
<1> HIDE DEF weekend
<1> QED
  BY <1>2, <1>3, <1>4, <1>5, <1>6, HolidayStep

LEMMA SessionsFinite ==
  ASSUME NEW a \in Int, NEW b \in Int
  PROVE  /\ Prices!Sessions(a, b) \subseteq a..b /\ IsFiniteSet(Prices!Sessions(a, b))
         /\ Cardinality(Prices!Sessions(a, b)) \in Nat
<1>1. Prices!Sessions(a, b) \subseteq a..b
  BY DEF Prices!Sessions
<1>2. IsFiniteSet(a..b)
  BY FS_Interval
<1> QED
  BY <1>1, <1>2, FS_Subset, FS_CardinalityType

\* Elapsed counts the sessions: the shortest stretch on which it would not is not empty,
\* and its last day is counted right.
LEMMA ElapsedCounts ==
  ASSUME NEW a \in Int, NEW n \in Nat
  PROVE  Cardinality(Prices!Sessions(a + 1, a + n)) = Prices!Elapsed(a + n) - Prices!Elapsed(a)
<1> DEFINE Right(k) == Cardinality(Prices!Sessions(a + 1, a + k))
                         = Prices!Elapsed(a + k) - Prices!Elapsed(a)
           wrong == {k \in Nat : ~Right(k)}
<1> SUFFICES ASSUME wrong # {} PROVE FALSE
  OBVIOUS
<1>1. PICK k \in wrong : \A m \in wrong : k <= m
  BY Least
<1>2. k # 0
  <2>1. Prices!Sessions(a + 1, a + 0) = {}
    BY DEF Prices!Sessions
  <2>2. Prices!Elapsed(a) - Prices!Elapsed(a) = 0 /\ a + 0 = a
    BY ElapsedIs
  <2>3. Right(0)
    BY <2>1, <2>2, FS_EmptySet
  <2> QED
    BY <1>1, <2>3
<1>3. k - 1 \in Nat /\ k - 1 \notin wrong
  BY <1>1, <1>2
<1>4. Right(k - 1)
  BY <1>3
<1> DEFINE before == Prices!Sessions(a + 1, a + (k - 1))
           d == a + (k - 1)
<1>5. d \in Int /\ d + 1 = a + k /\ a + k \in Int /\ a + 1 \in Int
  BY <1>3
<1>6. IsFiniteSet(before) /\ Cardinality(before) \in Nat /\ before \subseteq a + 1 .. d
  BY <1>5, SessionsFinite
<1>7. Prices!Elapsed(a + k) = Prices!Elapsed(d) + IF Prices!Trading(a + k) THEN 1 ELSE 0
  BY <1>5, ElapsedStep
<1>8. /\ Prices!Elapsed(a) \in Int /\ Prices!Elapsed(d) \in Int
      /\ Cardinality(before) = Prices!Elapsed(d) - Prices!Elapsed(a)
  BY <1>4, <1>5, ElapsedIs
<1>9. Prices!Sessions(a + 1, a + k) =
        IF Prices!Trading(a + k) THEN before \cup {a + k} ELSE before
  BY <1>3 DEF Prices!Sessions
<1>10. a + k \notin before
  BY <1>5, <1>6
<1>11. Cardinality(before \cup {a + k}) = Cardinality(before) + 1
  BY <1>6, <1>10, FS_AddElement
<1> HIDE DEF before, d
<1>12. Cardinality(Prices!Sessions(a + 1, a + k)) = Prices!Elapsed(a + k) - Prices!Elapsed(a)
  BY <1>7, <1>8, <1>9, <1>11
<1> QED
  BY <1>1, <1>12

\* Seven days have five weekdays, and a remainder at most ten sevenths more or less.
LEMMA WeekdaysBetween ==
  ASSUME NEW a \in Int, NEW b \in Int
  PROVE  /\ 5 * (b - a) - 10 <= 7 * (Weekdays(b) - Weekdays(a))
         /\ 7 * (Weekdays(b) - Weekdays(a)) <= 5 * (b - a) + 10
<1> DEFINE Over(r) == 7 * FirstFive(r) - 5 * r
<1>1. \A r \in 0..6 : Over(r) \in -2..8
  BY DEF FirstFive
<1>2. ASSUME NEW d \in Int
      PROVE  7 * Weekdays(d) = 5 * d + Over(d % 7) + 7 /\ Over(d % 7) \in -2..8 /\ Weekdays(d) \in Int
  <2>1. d \div 7 \in Int /\ d % 7 \in 0..6 /\ d = 7 * (d \div 7) + (d % 7) /\ Weekdays(d) \in Int
    BY DaysOfWeeks
  <2>2. FirstFive(d % 7) \in Int
    BY <2>1 DEF FirstFive
  <2>3. Over(d % 7) \in -2..8
    BY <1>1, <2>1
  <2>4. Weekdays(d) = 5 * (d \div 7) + FirstFive(d % 7) + 1
    BY DEF Weekdays
  <2>5. ASSUME NEW q \in Int, NEW r \in Int, NEW f \in Int, d = 7 * q + r
        PROVE  7 * (5 * q + f + 1) = 5 * d + (7 * f - 5 * r) + 7
    BY <2>5
  <2> QED
    BY <2>1, <2>2, <2>3, <2>4, <2>5
<1>3. /\ 7 * Weekdays(a) = 5 * a + Over(a % 7) + 7
      /\ 7 * Weekdays(b) = 5 * b + Over(b % 7) + 7
  BY <1>2
<1>4. Over(a % 7) \in -2..8 /\ Over(b % 7) \in -2..8 /\ Weekdays(a) \in Int /\ Weekdays(b) \in Int
  BY <1>2
<1> HIDE DEF Over
<1> QED
  BY <1>3, <1>4

LEMMA HolidaysBetween ==
  ASSUME NEW a \in Int, NEW b \in Int, a <= b
  PROVE  /\ Cardinality(Holidays \cap a + 1 .. b) \in Nat
         /\ Prices!Elapsed(b) - Prices!Elapsed(a) =
              Weekdays(b) - Weekdays(a) - Cardinality(Holidays \cap a + 1 .. b)
<1> DEFINE U == HolidaysUntil(b)
           V == HolidaysUntil(a)
<1>1. U \ V = Holidays \cap a + 1 .. b /\ U \cap V = V
  BY CalendarAssumption DEF HolidaysUntil
<1>2. IsFiniteSet(U) /\ Cardinality(U) \in Nat /\ Cardinality(V) \in Nat
  BY UntilFinite
<1>3. Cardinality(U \ V) = Cardinality(U) - Cardinality(V) /\ IsFiniteSet(U \ V)
  <2> HIDE DEF U, V
  <2>1. IsFiniteSet(U \ V) /\ Cardinality(U \ V) = Cardinality(U) - Cardinality(U \cap V)
    BY <1>2, FS_Difference, Zenon
  <2> QED
    BY <1>1, <2>1, Zenon
<1>4. Cardinality(U \ V) \in Nat
  BY <1>3, FS_CardinalityType
<1> HIDE DEF U, V
<1>5. /\ Prices!Elapsed(b) = Weekdays(b) - Cardinality(U)
      /\ Prices!Elapsed(a) = Weekdays(a) - Cardinality(V)
      /\ Weekdays(a) \in Int /\ Weekdays(b) \in Int
  BY ElapsedIs, DaysOfWeeks DEF U, V
<1>6. Prices!Elapsed(b) - Prices!Elapsed(a) = Weekdays(b) - Weekdays(a) - Cardinality(U \ V)
  BY <1>2, <1>3, <1>5
<1> QED
  BY <1>1, <1>4, <1>6

LEMMA NeverBack ==
  ASSUME NEW a \in Int, NEW b \in Int, a <= b PROVE Prices!Elapsed(a) <= Prices!Elapsed(b)
<1>1. b - a \in Nat /\ a + (b - a) = b
  OBVIOUS
<1>2. Cardinality(Prices!Sessions(a + 1, b)) = Prices!Elapsed(b) - Prices!Elapsed(a)
  BY <1>1, ElapsedCounts
<1>3. Cardinality(Prices!Sessions(a + 1, b)) \in Nat
  BY SessionsFinite
<1>4. Prices!Elapsed(a) \in Int /\ Prices!Elapsed(b) \in Int
  BY ElapsedIs
<1> QED
  BY <1>2, <1>3, <1>4
\* A set of integers that is bounded has its ends.
LEMMA LeastInt ==
  ASSUME NEW T \in SUBSET Int, T # {}, NEW lo \in Int, \A t \in T : lo <= t
  PROVE  Prices!Min(T) \in T /\ \A y \in T : Prices!Min(T) <= y
<1> DEFINE U == {t - lo : t \in T}
<1>1. U \in SUBSET Nat /\ U # {}
  <2>1. \A t \in T : t - lo \in Nat
    OBVIOUS
  <2> QED
    BY <2>1
<1>2. PICK u \in U : \A v \in U : u <= v
  BY <1>1, Least
<1>3. PICK x \in T : u = x - lo
  OBVIOUS
<1>4. \A y \in T : x - lo <= y - lo
  BY <1>2, <1>3
<1>5. \A y \in T : x <= y
  BY <1>4
<1> QED
  BY <1>5 DEF Prices!Min

LEMMA GreatestInt ==
  ASSUME NEW T \in SUBSET Int, T # {}, NEW hi \in Int, \A t \in T : t <= hi
  PROVE  \E x \in T : \A y \in T : y <= x
<1> DEFINE U == {hi - t : t \in T}
<1>1. U \in SUBSET Nat /\ U # {}
  <2>1. \A t \in T : hi - t \in Nat
    OBVIOUS
  <2> QED
    BY <2>1
<1>2. PICK u \in U : \A v \in U : u <= v
  BY <1>1, Least
<1>3. PICK x \in T : u = hi - x
  OBVIOUS
<1>4. \A y \in T : hi - x <= hi - y
  BY <1>2, <1>3
<1> QED
  BY <1>4

\* How many sessions a stretch of days has at most, and how many the holidays leave.
LEMMA Stretch ==
  ASSUME NEW b \in Start - 1 .. Horizon, NEW n \in 1..90
  PROVE  LET s == Cardinality(Prices!Sessions(b - n + 1, b)) IN
         /\ s = Prices!Elapsed(b) - Prices!Elapsed(b - n) /\ s \in Nat
         /\ 5 * n - 52 <= 7 * s /\ 7 * s <= 5 * n + 10
         /\ n <= 47 => 5 * n - 45 <= 7 * s
<1> DEFINE a == b - n
           off == Cardinality(Holidays \cap a + 1 .. b)
           s == Cardinality(Prices!Sessions(a + 1, b))
<1>1. b \in Int /\ a \in Int /\ n \in Nat /\ a + n = b /\ a <= b /\ a + 1 \in Start - 200 .. Horizon
  BY CalendarAssumption
<1>2. s = Prices!Elapsed(b) - Prices!Elapsed(a) /\ s \in Nat
  <2>1. Cardinality(Prices!Sessions(a + 1, a + n)) = Prices!Elapsed(a + n) - Prices!Elapsed(a)
    BY <1>1, ElapsedCounts
  <2> QED
    BY <1>1, <2>1, SessionsFinite
<1>3. off \in Nat /\ s = Weekdays(b) - Weekdays(a) - off
  <2>1. /\ off \in Nat
        /\ Prices!Elapsed(b) - Prices!Elapsed(a) = Weekdays(b) - Weekdays(a) - off
    BY <1>1, HolidaysBetween
  <2> QED
    BY <1>2, <2>1
<1>4. ASSUME NEW k \in Nat, n <= k + 1,
             NEW m \in Nat, Cardinality(Holidays \cap a + 1 .. a + 1 + k) <= m
      PROVE  off <= m
  <2>1. Holidays \cap a + 1 .. b \subseteq Holidays \cap a + 1 .. a + 1 + k
    BY <1>1, <1>4
  <2>2. IsFiniteSet(Holidays \cap a + 1 .. a + 1 + k)
    BY CalendarAssumption, FS_Subset, Holidays \cap a + 1 .. a + 1 + k \subseteq Holidays
  <2>3. off <= Cardinality(Holidays \cap a + 1 .. a + 1 + k)
    BY <2>1, <2>2, FS_Subset
  <2>4. Cardinality(Holidays \cap a + 1 .. a + 1 + k) \in Nat
    BY <2>2, FS_CardinalityType
  <2> QED
    BY <1>3, <1>4, <2>3, <2>4
<1>5. off <= 6
  <2>1. Cardinality(Holidays \cap a + 1 .. a + 1 + 89) <= 6
    BY <1>1, CalendarAssumption
  <2> QED
    BY <1>4, <2>1, 89 \in Nat, 6 \in Nat
<1>6. n <= 47 => off <= 5
  <2>1. Cardinality(Holidays \cap a + 1 .. a + 1 + 46) <= 5
    BY <1>1, CalendarAssumption
  <2> QED
    BY <1>4, <2>1, 46 \in Nat, 5 \in Nat
<1>7. Weekdays(a) \in Int /\ Weekdays(b) \in Int /\ b - a = n
  BY <1>1, DaysOfWeeks
<1>8. /\ 5 * n - 10 <= 7 * (Weekdays(b) - Weekdays(a))
      /\ 7 * (Weekdays(b) - Weekdays(a)) <= 5 * n + 10
  BY <1>1, <1>7, WeekdaysBetween
<1>9. 5 * n - 52 <= 7 * s /\ 7 * s <= 5 * n + 10 /\ (n <= 47 => 5 * n - 45 <= 7 * s)
  <2> HIDE DEF a, off, s
  <2> QED
    BY <1>2, <1>3, <1>5, <1>6, <1>7, <1>8
<1> QED
  BY <1>2, <1>9

\* The last sessions that a fetch takes start where no session before was left out
\* that does not have as many after it: 18 of a reader's 19, four of the daily update's five.
LEMMA Needed ==
  ASSUME NEW date \in Start..Horizon, NEW days \in {5, 19, 30, 60, 90}
  PROVE  LET lo == Prices!TradingDaysNeeded[date][days] IN
         /\ lo \in Int
         /\ \A h \in Int : h < lo /\ h <= date /\ Prices!Trading(h) =>
              Cardinality(Prices!Sessions(h + 1, date)) >= (IF days = 5 THEN 4 ELSE 18)
<1> DEFINE back == (days * 3) \div 2 + 20
           first == date - back
           schedule == Prices!Sessions(first, date + 1)
           enough == {d \in schedule : Prices!Elapsed(date + 1) - Prices!Elapsed(d) < days}
           lo == Prices!TradingDaysNeeded[date][days]
<1>1. lo = Prices!Min(enough)
  BY DEF Prices!TradingDaysNeeded
<1>2. back \in Nat /\ back >= 27 /\ (days # 5 => back >= 48)
  OBVIOUS
<1>3. date \in Int /\ date + 1 \in Int /\ first \in Int /\ date \in Start - 1 .. Horizon
  BY <1>2, CalendarAssumption
<1>4. schedule \subseteq first .. date + 1 /\ schedule = {d \in first .. date + 1 : Prices!Trading(d)}
  BY DEF Prices!Sessions
<1>5. schedule # {}
  <2>1. LET s == Cardinality(Prices!Sessions(date - 27 + 1, date)) IN s \in Nat /\ 5 * 27 - 52 <= 7 * s
    BY <1>3, Stretch, 27 \in 1..90
  <2>2. Prices!Sessions(date - 27 + 1, date) # {}
    BY <2>1, FS_EmptySet
  <2>3. Prices!Sessions(date - 27 + 1, date) \subseteq schedule
    BY <1>2, <1>3 DEF Prices!Sessions
  <2> QED
    BY <2>2, <2>3
<1>6. enough # {} /\ enough \subseteq Int
  <2>1. schedule \in SUBSET Int /\ \A d \in schedule : d <= date + 1
    BY <1>4
  <2>2. PICK d \in schedule : \A e \in schedule : e <= d
    BY <1>3, <1>5, <2>1, GreatestInt
  <2>3. Prices!Sessions(d + 1, date + 1) = {}
    BY <1>3, <1>4, <2>1, <2>2 DEF Prices!Sessions
  <2>4. d \in Int /\ d + (date + 1 - d) = date + 1 /\ date + 1 - d \in Nat
    BY <1>3, <2>1
  <2>5. Cardinality(Prices!Sessions(d + 1, d + (date + 1 - d))) =
          Prices!Elapsed(d + (date + 1 - d)) - Prices!Elapsed(d)
    BY <2>4, ElapsedCounts
  <2>6. Prices!Elapsed(date + 1) - Prices!Elapsed(d) = 0
    BY <2>3, <2>4, <2>5, FS_EmptySet
  <2>7. d \in enough
    BY <2>2, <2>6
  <2> QED
    BY <1>4, <2>7
<1>7. lo \in enough /\ \A d \in enough : lo <= d
  <2>1. enough \in SUBSET Int /\ \A d \in enough : first <= d
    BY <1>4, <1>6
  <2> HIDE DEF enough, first, lo
  <2> QED
    BY <1>1, <1>3, <1>6, <2>1, LeastInt
<1>8. ASSUME NEW h \in Int, h < lo, h <= date, Prices!Trading(h)
      PROVE  Cardinality(Prices!Sessions(h + 1, date)) >= (IF days = 5 THEN 4 ELSE 18)
  <2>1. /\ Cardinality(Prices!Sessions(h + 1, date)) = Prices!Elapsed(date) - Prices!Elapsed(h)
        /\ Prices!Elapsed(date) \in Int /\ Prices!Elapsed(h) \in Int
    <3>1. date - h \in Nat /\ h + (date - h) = date
      BY <1>3, <1>8
    <3>2. Cardinality(Prices!Sessions(h + 1, h + (date - h))) =
            Prices!Elapsed(h + (date - h)) - Prices!Elapsed(h)
      BY <3>1, ElapsedCounts
    <3> QED
      BY <1>3, <3>1, <3>2, ElapsedIs
  <2>2. CASE h >= first
    <3>1. h \in schedule /\ h \notin enough
      BY <1>3, <1>4, <1>6, <1>7, <1>8, <2>2
    <3>2. Prices!Elapsed(date + 1) - Prices!Elapsed(h) >= days
      <4>1. Prices!Elapsed(date + 1) \in Int
        BY <1>3, ElapsedIs
      <4> QED
        BY <2>1, <3>1, <4>1
    <3>3. Prices!Elapsed(date + 1) <= Prices!Elapsed(date) + 1
      BY <1>3, <2>1, ElapsedStep
    <3>4. Prices!Elapsed(date + 1) \in Int
      BY <1>3, ElapsedIs
    <3> QED
      BY <2>1, <3>2, <3>3, <3>4
  <2>3. ASSUME NEW n \in 1..90, h <= date - n
        PROVE  7 * Cardinality(Prices!Sessions(h + 1, date)) >= 5 * n - 52
    <3>1. LET s == Cardinality(Prices!Sessions(date - n + 1, date)) IN
          s = Prices!Elapsed(date) - Prices!Elapsed(date - n) /\ 5 * n - 52 <= 7 * s
      BY <1>3, Stretch
    <3>2. Prices!Elapsed(h) <= Prices!Elapsed(date - n) /\ Prices!Elapsed(date - n) \in Int
      BY <1>3, <2>3, NeverBack, ElapsedIs, date - n \in Int
    <3> QED
      BY <2>1, <3>1, <3>2
  <2>4. CASE h < first
    <3>1. h <= date - 27 /\ (days # 5 => h <= date - 48)
      BY <1>2, <1>3, <2>4
    <3>2. 7 * Cardinality(Prices!Sessions(h + 1, date)) >= 5 * 27 - 52
      BY <2>3, <3>1, 27 \in 1..90
    <3>3. days # 5 => 7 * Cardinality(Prices!Sessions(h + 1, date)) >= 5 * 48 - 52
      BY <2>3, <3>1, 48 \in 1..90
    <3> QED
      BY <2>1, <3>2, <3>3
  <2> QED
    BY <1>3, <2>2, <2>4
<1> HIDE DEF lo
<1>9. lo \in Int
  BY <1>6, <1>7
<1> QED
  BY <1>8, <1>9 DEF lo

-----------------------------------------------------------------------------
(* Rows and holes                                                            *)

\* Rows are bars of sessions that have begun.
RowsOf(R, t) ==
    /\ \A d \in R : d \in Int /\ d <= t /\ Prices!Trading(d)
    /\ \E lo \in Int : \A d \in R : lo <= d

LatestOf(R, t) == CHOOSE d \in R : \A e \in d + 1 .. t : e \notin R
HolesOf(R, t) == IF R = {} THEN {} ELSE Prices!Sessions(Prices!Min(R), LatestOf(R, t)) \ R
Answer(lo, t, w) == {d \in Prices!Sessions(lo, t) : d < t \/ w}

LEMMA LatestIsLast ==
  ASSUME NEW t \in Int, NEW R, RowsOf(R, t), R # {}
  PROVE  LatestOf(R, t) \in R /\ \A d \in R : d <= LatestOf(R, t)
<1>1. R \in SUBSET Int /\ \A d \in R : d \in Int /\ d <= t
  BY DEF RowsOf
<1>2. PICK d \in R : \A e \in R : e <= d
  BY <1>1, GreatestInt
<1>3. \A e \in d + 1 .. t : e \notin R
  BY <1>1, <1>2
<1> DEFINE l == LatestOf(R, t)
<1>4. l \in R /\ \A e \in l + 1 .. t : e \notin R
  BY <1>3, Zenon DEF LatestOf
<1> HIDE DEF l
<1>5. \A e \in R : e <= l
  BY <1>1, <1>4
<1> QED
  BY <1>4, <1>5 DEF l

LEMMA FirstIsLeast ==
  ASSUME NEW t \in Int, NEW R, RowsOf(R, t), R # {}
  PROVE  Prices!Min(R) \in R /\ \A d \in R : Prices!Min(R) <= d
BY LeastInt DEF RowsOf

LEMMA RowsFinite ==
  ASSUME NEW t \in Int, NEW R, RowsOf(R, t)
  PROVE  IsFiniteSet(R) /\ Cardinality(R) \in Nat
<1>1. PICK lo \in Int : \A d \in R : lo <= d
  BY DEF RowsOf
<1>2. R \subseteq lo .. t
  BY <1>1 DEF RowsOf
<1> QED
  BY <1>1, <1>2, FS_Interval, FS_Subset, FS_CardinalityType

LEMMA RowsJoin ==
  ASSUME NEW t \in Int, NEW R, NEW S, RowsOf(R, t), RowsOf(S, t)
  PROVE  RowsOf(R \cup S, t)
<1>1. PICK lo \in Int : \A d \in R : lo <= d
  BY DEF RowsOf
<1>2. PICK low \in Int : \A d \in S : low <= d
  BY DEF RowsOf
<1> DEFINE least == IF lo <= low THEN lo ELSE low
<1>3. least \in Int /\ \A d \in R \cup S : d \in Int /\ least <= d
  BY <1>1, <1>2 DEF RowsOf
<1> HIDE DEF least
<1> QED
  BY <1>3 DEF RowsOf

LEMMA AnswerRows ==
  ASSUME NEW t \in Int, NEW lo \in Int, NEW w \in BOOLEAN
  PROVE  RowsOf(Answer(lo, t, w), t)
BY DEF Answer, Prices!Sessions, RowsOf

\* What is stored from lo on leaves no session after lo out before the last row, so a new
\* hole lies between the last row of before and lo.
LEMMA NewHole ==
  ASSUME NEW t \in Int, NEW R, RowsOf(R, t), NEW lo \in Int, NEW w \in BOOLEAN,
         NEW h \in HolesOf(R \cup Answer(lo, t, w), t)
  PROVE  /\ h \in Int /\ h <= t /\ h < lo /\ Prices!Trading(h) /\ R # {}
         /\ h \notin HolesOf(R, t) => LatestOf(R, t) < h
<1> DEFINE A == Answer(lo, t, w)
           S == R \cup A
           first == Prices!Min(S)
           last == LatestOf(S, t)
<1>1. RowsOf(A, t) /\ RowsOf(S, t)
  BY AnswerRows, RowsJoin
<1>2. S # {} /\ h \in Prices!Sessions(first, last) /\ h \notin S
  BY DEF HolesOf
<1>3. /\ first \in S /\ \A d \in S : first <= d
      /\ last \in S /\ \A d \in S : d <= last
  BY <1>1, <1>2, FirstIsLeast, LatestIsLast
<1>4. \A d \in S : d \in Int /\ d <= t
  BY <1>1 DEF RowsOf
<1> HIDE DEF A, S, first, last
<1>5. h \in Int /\ first <= h /\ h <= last /\ Prices!Trading(h) /\ h <= t
  BY <1>2, <1>3, <1>4 DEF Prices!Sessions
<1>6. h < lo
  <2> SUFFICES ASSUME lo <= h PROVE FALSE
    BY <1>5
  <2>1. h = t /\ ~w
    <3>1. h \notin A
      BY <1>2 DEF S
    <3>2. h \in Prices!Sessions(lo, t)
      BY <1>5 DEF Prices!Sessions
    <3> QED
      BY <1>5, <3>1, <3>2 DEF A, Answer
  <2>2. last = h
    BY <1>3, <1>4, <1>5, <2>1
  <2> QED
    BY <1>2, <1>3, <2>2
<1>7. \A d \in A : lo <= d /\ d \in Int
  BY DEF A, Answer, Prices!Sessions
<1>8. first \in R
  BY <1>3, <1>5, <1>6, <1>7 DEF S
<1>9. ASSUME h \notin HolesOf(R, t) PROVE LatestOf(R, t) < h
  <2>1. /\ Prices!Min(R) \in R /\ \A d \in R : Prices!Min(R) <= d
        /\ LatestOf(R, t) \in R
    BY <1>8, FirstIsLeast, LatestIsLast
  <2>2. R \subseteq S
    BY DEF S
  <2>3. Prices!Min(R) <= h /\ Prices!Min(R) \in Int /\ LatestOf(R, t) \in Int
    BY <1>3, <1>4, <1>5, <1>8, <2>1, <2>2
  <2>4. h \notin Prices!Sessions(Prices!Min(R), LatestOf(R, t))
    BY <1>2, <1>8, <1>9, <2>2 DEF HolesOf
  <2> QED
    BY <1>5, <2>3, <2>4 DEF Prices!Sessions
<1> QED
  BY <1>5, <1>6, <1>8, <1>9

-----------------------------------------------------------------------------
(* The steps                                                                 *)

PricesInv == today \in Start..Horizon /\ RowsOf(rows, today) /\ partial \subseteq rows

\* The sessions from lo on are stored.
StoredFrom(lo) ==
    \E w \in BOOLEAN :
        /\ rows' = rows \cup Answer(lo, today, w)
        /\ partial' \subseteq (partial \ Answer(lo, today, w)) \cup (Answer(lo, today, w) \cap {today})

LEMMA StoreIs ==
  ASSUME NEW lo, NEW w \in BOOLEAN, Prices!Store(Prices!Served(lo, w))
  PROVE  StoredFrom(lo)
<1>1. Prices!Served(lo, w) = Answer(lo, today, w)
  BY DEF Prices!Served, Answer
<1> DEFINE A == Answer(lo, today, w)
<1>2. rows' = rows \cup A
  BY <1>1 DEF Prices!Store
<1>3. partial' = (partial \ A) \cup (IF evening THEN {} ELSE A \cap {today})
  BY <1>1 DEF Prices!Store
<1>4. partial' \subseteq (partial \ A) \cup (A \cap {today})
  BY <1>3
<1> QED
  BY <1>2, <1>4 DEF StoredFrom

\* Time passes or nothing happens; a reader, the daily task or the daily update fetches
\* what it needs; the daily task goes on from the newest row; rows are deleted or
\* loaded anew.
Passes == rows' = rows /\ partial' = partial /\ today' \in today..Horizon
Fetches == \E days \in {19, 30, 60, 90} : StoredFrom(Prices!TradingDaysNeeded[today][days])
FetchesFive == ~Prices!Enough(5) /\ StoredFrom(Prices!TradingDaysNeeded[today][5])
GoesOn == rows # {} /\ StoredFrom(Prices!Newest)
Deletes == rows' = {} /\ partial' = {}
Reloads ==
    \E w \in BOOLEAN :
        /\ rows' = Answer(Prices!TradingDaysNeeded[today][90], today, w)
        /\ partial' \subseteq rows' \cap {today}

StepKinds == Passes \/ (today' = today /\ (Fetches \/ FetchesFive \/ GoesOn \/ Deletes \/ Reloads))

LEMMA FetchedIs ==
  ASSUME NEW days, Prices!Fetched(days)
  PROVE  StoredFrom(Prices!TradingDaysNeeded[today][days])
BY StoreIs DEF Prices!Fetched

LEMMA EnoughIsSome ==
  ASSUME Prices!Enough(90) PROVE rows # {}
<1>1. Prices!MinAcceptable(90) = 85
  BY DEF Prices!MinAcceptable
<1> QED
  BY <1>1, CountOfPrices, FS_EmptySet DEF Prices!Enough

LEMMA EnsureIs ==
  ASSUME PricesInv, Prices!EnsureMinimumData(90) PROVE StepKinds
<1>1. today' = today /\ today \in today..Horizon
  BY DEF Prices!EnsureMinimumData, PricesInv
<1>2. CASE UNCHANGED <<rows, partial>>
  BY <1>1, <1>2 DEF StepKinds, Passes
<1>3. ASSUME Prices!MissingFrom(90) # None, NEW w \in BOOLEAN,
             Prices!Store(Prices!Served(Prices!MissingFrom(90), w))
      PROVE  StepKinds
  <2>1. StoredFrom(Prices!MissingFrom(90))
    BY <1>3, StoreIs
  <2>2. CASE ~Prices!Enough(90)
    <3>1. Prices!MissingFrom(90) = Prices!TradingDaysNeeded[today][90]
      BY <2>2 DEF Prices!MissingFrom
    <3> QED
      BY <1>1, <2>1, <3>1 DEF StepKinds, Fetches
  <2>3. CASE Prices!Enough(90)
    <3>1. Prices!MissingFrom(90) = Prices!Newest
      BY <1>3, <2>3 DEF Prices!MissingFrom
    <3> QED
      BY <1>1, <2>1, <2>3, <3>1, EnoughIsSome DEF StepKinds, GoesOn
  <2> QED
    BY <2>2, <2>3
<1> QED
  BY <1>2, <1>3 DEF Prices!EnsureMinimumData

LEMMA EachStep ==
  ASSUME PricesInv, [NextOfOne]_allVars PROVE StepKinds
<1>0. today \in today..Horizon
  BY CalendarAssumption DEF PricesInv
<1>1. CASE UNCHANGED pricesVars
  BY <1>0, <1>1 DEF pricesVars, StepKinds, Passes
<1>2. ASSUME NEW days \in {19, 30, 60}, Prices!Read(days) PROVE StepKinds
  BY <1>0, <1>2, FetchedIs DEF Prices!Read, Prices!NotFetched, StepKinds, Passes, Fetches
<1>3. CASE Prices!EnsureHistoricalData \/ Prices!WatchlistAdd
  BY <1>3, EnsureIs DEF Prices!EnsureHistoricalData, Prices!WatchlistAdd
<1>4. CASE Prices!DailyDataUpdate
  <2>1. CASE Prices!NotFetched
    BY <1>0, <1>4, <2>1 DEF Prices!DailyDataUpdate, Prices!NotFetched, StepKinds, Passes
  <2>2. CASE ~Prices!Enough(5) /\ Prices!Fetched(5)
    BY <1>4, <2>2, FetchedIs DEF Prices!DailyDataUpdate, StepKinds, FetchesFive
  <2> QED
    BY <1>4, <2>1, <2>2 DEF Prices!DailyDataUpdate
<1>5. CASE Prices!PreloadForced(90)
  <2>1. today' = today
    BY <1>5 DEF Prices!PreloadForced
  <2>2. CASE rows' = {} /\ partial' = {}
    BY <2>1, <2>2 DEF StepKinds, Deletes
  <2>3. ASSUME NEW w \in BOOLEAN,
               rows' = Prices!Served(Prices!TradingDaysNeeded[today][90], w),
               partial' = IF evening THEN {} ELSE rows' \cap {today}
        PROVE  StepKinds
    <3>1. rows' = Answer(Prices!TradingDaysNeeded[today][90], today, w)
      BY <2>3 DEF Prices!Served, Answer
    <3>2. partial' \subseteq rows' \cap {today}
      BY <2>3
    <3> QED
      BY <2>1, <3>1, <3>2 DEF StepKinds, Reloads
  <2> QED
    BY <1>5, <2>2, <2>3 DEF Prices!PreloadForced
<1>6. CASE Prices!Close
  BY <1>0, <1>6 DEF Prices!Close, StepKinds, Passes
<1>7. CASE Prices!DaysPass
  <2>1. PICK days \in Outages : today + days <= Horizon /\ today' = today + days
    BY <1>7 DEF Prices!DaysPass
  <2>2. today' \in today..Horizon
    BY <2>1, CalendarAssumption DEF PricesInv
  <2> QED
    BY <1>7, <2>2 DEF Prices!DaysPass, StepKinds, Passes
<1> QED
  BY <1>1, <1>2, <1>3, <1>4, <1>5, <1>6, <1>7
  DEF NextOfOne, allVars, Prices!Next, Prices!BollingerBands, Prices!MarketConditions,
      Prices!Indicators

\* Where a fetch starts, and what lies before.
LEMMA NewestIs ==
  ASSUME PricesInv, rows # {}
  PROVE  /\ Prices!Newest = LatestOf(rows, today)
         /\ Prices!Newest \in rows /\ \A d \in rows : d <= Prices!Newest
<1>1. Prices!Newest = LatestOf(rows, today)
  BY DEF Prices!Newest, LatestOf
<1> QED
  BY <1>1, LatestIsLast, CalendarAssumption DEF PricesInv

LEMMA StoredRows ==
  ASSUME PricesInv, NEW lo \in Int, StoredFrom(lo), today' = today
  PROVE  PricesInv'
<1>1. PICK w \in BOOLEAN :
        /\ rows' = rows \cup Answer(lo, today, w)
        /\ partial' \subseteq (partial \ Answer(lo, today, w)) \cup (Answer(lo, today, w) \cap {today})
  BY DEF StoredFrom
<1>2. RowsOf(rows', today)
  BY <1>1, AnswerRows, RowsJoin, CalendarAssumption DEF PricesInv
<1>3. partial' \subseteq rows'
  BY <1>1 DEF PricesInv
<1> QED
  BY <1>2, <1>3 DEF PricesInv

LEMMA PricesStep ==
  ASSUME PricesInv, [NextOfOne]_allVars PROVE PricesInv'
<1>1. today \in Int /\ today \in Start..Horizon
  BY CalendarAssumption DEF PricesInv
<1>2. CASE Passes
  <2>1. today' \in Start..Horizon /\ today <= today'
    BY <1>1, <1>2, CalendarAssumption DEF Passes
  <2>2. RowsOf(rows, today')
    BY <1>1, <2>1, CalendarAssumption DEF PricesInv, RowsOf
  <2> QED
    BY <1>2, <2>1, <2>2 DEF Passes, PricesInv
<1>3. CASE today' = today /\ Fetches
  BY <1>1, <1>3, Needed, StoredRows DEF Fetches
<1>4. CASE today' = today /\ FetchesFive
  BY <1>1, <1>4, Needed, StoredRows DEF FetchesFive
<1>5. CASE today' = today /\ GoesOn
  <2>1. Prices!Newest \in Int
    BY <1>5, NewestIs DEF GoesOn, PricesInv, RowsOf
  <2> QED
    BY <1>5, <2>1, StoredRows DEF GoesOn
<1>6. CASE today' = today /\ Deletes
  <2>1. RowsOf({}, today)
    BY <1>1 DEF RowsOf
  <2> QED
    BY <1>1, <1>6, <2>1 DEF Deletes, PricesInv
<1>7. CASE today' = today /\ Reloads
  <2>1. Prices!TradingDaysNeeded[today][90] \in Int
    BY <1>1, Needed
  <2>2. RowsOf(rows', today)
    BY <1>1, <1>7, <2>1, AnswerRows DEF Reloads
  <2>3. partial' \subseteq rows'
    BY <1>7 DEF Reloads
  <2> QED
    BY <1>1, <1>7, <2>2, <2>3 DEF PricesInv
<1> QED
  BY <1>2, <1>3, <1>4, <1>5, <1>6, <1>7, EachStep DEF StepKinds

LEMMA SameHoles ==
  Prices!Holes = HolesOf(rows, today) /\ Prices!Holes' = HolesOf(rows', today')
BY DEF Prices!Holes, HolesOf, Prices!Newest, LatestOf

\* The sessions since the newest row, of which those after h are some.
LEMMA MissedSince ==
  ASSUME PricesInv, rows # {}, NEW h \in Int, Prices!Newest <= h
  PROVE  /\ Prices!Missed \in Nat
         /\ Cardinality(Prices!Sessions(h + 1, today)) <= Prices!Missed
         /\ h # Prices!Newest /\ h <= today /\ Prices!Trading(h) =>
              Cardinality(Prices!Sessions(h + 1, today)) + 1 <= Prices!Missed
<1> DEFINE n == Prices!Newest
           all == Prices!Sessions(n + 1, today)
           after == Prices!Sessions(h + 1, today)
<1>1. n \in Int /\ today \in Int
  BY NewestIs, CalendarAssumption DEF PricesInv, RowsOf
<1>2. Prices!Missed = Cardinality(all)
  BY CountOfPrices DEF Prices!Missed
<1>3. IsFiniteSet(all) /\ Cardinality(all) \in Nat /\ IsFiniteSet(after)
  BY <1>1, SessionsFinite
<1>4. after \subseteq all
  BY <1>1 DEF Prices!Sessions
<1>5. Cardinality(after) <= Cardinality(all)
  BY <1>3, <1>4, FS_Subset
<1>6. ASSUME h # n, h <= today, Prices!Trading(h)
      PROVE  Cardinality(after) + 1 <= Cardinality(all)
  <2>1. after \cup {h} \subseteq all /\ h \notin after
    BY <1>1, <1>6 DEF Prices!Sessions
  <2>2. Cardinality(after \cup {h}) = Cardinality(after) + 1
    BY <1>3, <2>1, FS_AddElement
  <2>3. Cardinality(after \cup {h}) <= Cardinality(all)
    BY <1>3, <2>1, FS_Subset
  <2> QED
    BY <2>2, <2>3
<1> QED
  BY <1>2, <1>3, <1>5, <1>6

LEMMA HoleStep ==
  ASSUME PricesInv, PricesInv', [NextOfOne]_allVars PROVE Prices!NoNewHole
<1> DEFINE limit == IF Prices!Enough(5) THEN 19 ELSE 5
<1>1. today \in Int /\ today \in Start..Horizon /\ RowsOf(rows, today)
  BY CalendarAssumption DEF PricesInv
<1> SUFFICES ASSUME NEW h \in Prices!Holes', h \notin Prices!Holes PROVE Prices!Missed >= limit
  BY DEF Prices!NoNewHole
<1>2. h \in HolesOf(rows', today') /\ h \notin HolesOf(rows, today)
  BY SameHoles
<1>3. ~Passes
  <2> SUFFICES ASSUME Passes PROVE FALSE
    OBVIOUS
  <2>1. rows' = rows /\ rows # {} /\ today' \in Int
    BY <1>1, <1>2, CalendarAssumption DEF HolesOf, Passes
  <2>2. LatestOf(rows, today') \in rows /\ \A d \in rows : d <= LatestOf(rows, today')
    BY <2>1, LatestIsLast DEF PricesInv
  <2>3. LatestOf(rows, today) \in rows /\ \A d \in rows : d <= LatestOf(rows, today)
    BY <1>1, <2>1, LatestIsLast
  <2>4. \A d \in rows : d \in Int
    BY <1>1 DEF RowsOf
  <2>5. LatestOf(rows, today) = LatestOf(rows, today')
    BY <2>2, <2>3, <2>4
  <2> QED
    BY <1>2, <2>1, <2>5 DEF HolesOf
<1>4. ASSUME today' = today, NEW lo \in Int, StoredFrom(lo)
      PROVE  /\ rows # {} /\ h \in Int /\ h <= today /\ h < lo /\ Prices!Trading(h)
             /\ Prices!Newest < h /\ Prices!Newest <= h
  <2>1. PICK w \in BOOLEAN : rows' = rows \cup Answer(lo, today, w)
    BY <1>4 DEF StoredFrom
  <2>2. h \in HolesOf(rows \cup Answer(lo, today, w), today)
    BY <1>2, <1>4, <2>1
  <2>3. /\ h \in Int /\ h <= today /\ h < lo /\ Prices!Trading(h) /\ rows # {}
        /\ LatestOf(rows, today) < h
    BY <1>1, <1>2, <2>2, NewHole
  <2>4. LatestOf(rows, today) = Prices!Newest /\ Prices!Newest \in Int
    BY <2>3, NewestIs DEF PricesInv, RowsOf
  <2> QED
    BY <2>3, <2>4
<1>5. ASSUME today' = today, NEW days \in {5, 19, 30, 60, 90},
             StoredFrom(Prices!TradingDaysNeeded[today][days])
      PROVE  Prices!Missed \in Nat /\ Prices!Missed >= (IF days = 5 THEN 5 ELSE 19)
  <2> DEFINE lo == Prices!TradingDaysNeeded[today][days]
  <2>1. lo \in Int /\ \A x \in Int : x < lo /\ x <= today /\ Prices!Trading(x) =>
          Cardinality(Prices!Sessions(x + 1, today)) >= (IF days = 5 THEN 4 ELSE 18)
    BY <1>1, Needed
  <2> HIDE DEF lo
  <2>2. /\ rows # {} /\ h \in Int /\ h <= today /\ h < lo /\ Prices!Trading(h)
        /\ Prices!Newest < h /\ Prices!Newest <= h
    BY <1>4, <1>5, <2>1 DEF lo
  <2>3. Cardinality(Prices!Sessions(h + 1, today)) >= (IF days = 5 THEN 4 ELSE 18)
    BY <2>1, <2>2
  <2>4. h # Prices!Newest
    BY <2>2, NewestIs DEF PricesInv, RowsOf
  <2>5. /\ Prices!Missed \in Nat
        /\ Cardinality(Prices!Sessions(h + 1, today)) + 1 <= Prices!Missed
    BY <2>2, <2>4, MissedSince
  <2>6. Cardinality(Prices!Sessions(h + 1, today)) \in Nat
    BY <1>1, <2>2, SessionsFinite, h + 1 \in Int
  <2> QED
    BY <2>3, <2>5, <2>6
<1>6. CASE today' = today /\ Fetches
  BY <1>5, <1>6 DEF Fetches
<1>7. CASE today' = today /\ FetchesFive
  BY <1>5, <1>7 DEF FetchesFive
<1>8. ~(today' = today /\ GoesOn)
  <2> SUFFICES ASSUME today' = today, GoesOn PROVE FALSE
    OBVIOUS
  <2>1. Prices!Newest \in Int
    BY NewestIs DEF GoesOn, PricesInv, RowsOf
  <2> QED
    BY <1>4, <2>1 DEF GoesOn
<1>9. ~(today' = today /\ Deletes)
  BY <1>2 DEF Deletes, HolesOf
<1>10. ~(today' = today /\ Reloads)
  <2> SUFFICES ASSUME today' = today, Reloads PROVE FALSE
    OBVIOUS
  <2>1. PICK w \in BOOLEAN : rows' = {} \cup Answer(Prices!TradingDaysNeeded[today][90], today, w)
    BY DEF Reloads
  <2>2. RowsOf({}, today) /\ Prices!TradingDaysNeeded[today][90] \in Int
    BY <1>1, Needed DEF RowsOf
  <2> QED
    BY <1>1, <1>2, <2>1, <2>2, NewHole
<1> QED
  BY <1>3, <1>6, <1>7, <1>8, <1>9, <1>10, EachStep DEF StepKinds

LEMMA SettleStep ==
  ASSUME PricesInv, PricesInv', [NextOfOne]_allVars PROVE Prices!Settles
<1> DEFINE limit == IF Prices!Enough(5) THEN 18 ELSE 4
<1>1. today \in Int /\ today \in Start..Horizon /\ RowsOf(rows, today)
  BY CalendarAssumption DEF PricesInv
<1> SUFFICES ASSUME NEW d \in Prices!Unsettled', d \notin Prices!Unsettled
             PROVE  Prices!Missed >= limit
  BY DEF Prices!Settles
<1>2. PICK e \in rows' : d \in partial' /\ e > d
  BY DEF Prices!Unsettled
<1>3. ~Passes
  BY <1>2 DEF Passes, Prices!Unsettled
<1>4. ASSUME today' = today, NEW lo \in Int, StoredFrom(lo)
      PROVE  /\ rows # {} /\ d \in Int /\ d < lo /\ d <= today /\ Prices!Trading(d)
             /\ Prices!Newest = d
  <2>1. PICK w \in BOOLEAN :
          /\ rows' = rows \cup Answer(lo, today, w)
          /\ partial' \subseteq (partial \ Answer(lo, today, w)) \cup (Answer(lo, today, w) \cap {today})
    BY <1>4 DEF StoredFrom
  <2>2. d # today
    BY <1>2, <1>4 DEF PricesInv, RowsOf
  <2>3. d \in partial /\ d \notin Answer(lo, today, w)
    BY <1>2, <2>1, <2>2
  <2>4. d \in rows /\ d \in Int /\ d <= today /\ Prices!Trading(d)
    BY <1>1, <2>3 DEF PricesInv, RowsOf
  <2>5. e \notin rows
    BY <1>2, <2>3 DEF Prices!Unsettled
  <2>6. \A x \in rows : x <= d
    BY <1>1, <2>3, <2>4 DEF Prices!Unsettled, RowsOf
  <2>7. Prices!Newest = d
    <3>1. Prices!Newest \in rows /\ \A x \in rows : x <= Prices!Newest
      BY <2>4, NewestIs
    <3>2. Prices!Newest \in Int
      BY <1>1, <3>1 DEF RowsOf
    <3> QED
      BY <2>4, <2>6, <3>1, <3>2
  <2>8. d < lo
    BY <1>1, <2>2, <2>3, <2>4 DEF Answer, Prices!Sessions
  <2> QED
    BY <2>4, <2>7, <2>8
<1>5. ASSUME today' = today, NEW days \in {5, 19, 30, 60, 90},
             StoredFrom(Prices!TradingDaysNeeded[today][days])
      PROVE  Prices!Missed \in Nat /\ Prices!Missed >= (IF days = 5 THEN 4 ELSE 18)
  <2> DEFINE lo == Prices!TradingDaysNeeded[today][days]
  <2>1. lo \in Int /\ \A x \in Int : x < lo /\ x <= today /\ Prices!Trading(x) =>
          Cardinality(Prices!Sessions(x + 1, today)) >= (IF days = 5 THEN 4 ELSE 18)
    BY <1>1, Needed
  <2> HIDE DEF lo
  <2>2. /\ rows # {} /\ d \in Int /\ d < lo /\ d <= today /\ Prices!Trading(d)
        /\ Prices!Newest <= d
    BY <1>4, <1>5, <2>1 DEF lo
  <2>3. Cardinality(Prices!Sessions(d + 1, today)) >= (IF days = 5 THEN 4 ELSE 18)
    BY <2>1, <2>2
  <2>4. Prices!Missed \in Nat /\ Cardinality(Prices!Sessions(d + 1, today)) <= Prices!Missed
    BY <2>2, MissedSince
  <2>5. Cardinality(Prices!Sessions(d + 1, today)) \in Nat
    BY <1>1, <2>2, SessionsFinite, d + 1 \in Int
  <2> QED
    BY <2>3, <2>4, <2>5
<1>6. CASE today' = today /\ Fetches
  BY <1>5, <1>6 DEF Fetches
<1>7. CASE today' = today /\ FetchesFive
  BY <1>5, <1>7 DEF FetchesFive
<1>8. ~(today' = today /\ GoesOn)
  <2> SUFFICES ASSUME today' = today, GoesOn PROVE FALSE
    OBVIOUS
  <2>1. Prices!Newest \in Int
    BY NewestIs DEF GoesOn, PricesInv, RowsOf
  <2> QED
    BY <1>4, <2>1 DEF GoesOn
<1>9. ~(today' = today /\ Deletes)
  BY <1>2 DEF Deletes
<1>10. ~(today' = today /\ Reloads)
  <2> SUFFICES ASSUME today' = today, Reloads PROVE FALSE
    OBVIOUS
  <2>1. d = today
    BY <1>2 DEF Reloads
  <2>2. e <= today /\ e \in Int
    BY <1>2 DEF PricesInv, RowsOf
  <2> QED
    BY <1>1, <1>2, <2>1, <2>2
<1> QED
  BY <1>3, <1>6, <1>7, <1>8, <1>9, <1>10, EachStep DEF StepKinds

LEMMA PricesInit == InitOfOne => PricesInv
<1>1. RowsOf({}, Start)
  BY CalendarAssumption DEF RowsOf
<1> QED
  BY <1>1, CalendarAssumption DEF InitOfOne, Prices!Init, PricesInv

LEMMA PricesAlways == SpecOfOne => []PricesInv
<1>1. PricesInv /\ [NextOfOne]_allVars => PricesInv'
  BY PricesStep
<1> QED
  BY <1>1, PricesInit, PTL DEF SpecOfOne

\* Only an absence of nineteen sessions (five while there are hardly any rows) leaves a
\* hole behind a fetch.
THEOREM HolesComeFromOutages == SpecOfOne => HolesAreOutages
<1>1. PricesInv /\ PricesInv' /\ [NextOfOne]_allVars
        => [part = "prices" => Prices!NoNewHole]_pricesVars
  BY HoleStep
<1> QED
  BY <1>1, PricesAlways, PTL DEF SpecOfOne, HolesAreOutages

\* A bar stored during its session is corrected with the next, unless the absence was
\* as long.
THEOREM LastBarIsSettled == SpecOfOne => LastBarSettles
<1>1. PricesInv /\ PricesInv' /\ [NextOfOne]_allVars
        => [part = "prices" => Prices!Settles]_pricesVars
  BY SettleStep
<1> QED
  BY <1>1, PricesAlways, PTL DEF SpecOfOne, LastBarSettles

\* What a reader finds when the rows have no holes: all sessions of its window.
LEMMA WindowIsFound ==
  ASSUME PricesInv, rows # {}, Prices!Holes = {}, Prices!Fresh, NEW n \in 1..89,
         Prices!Min(rows) <= today - 90
  PROVE  /\ Prices!Sessions(today - 1 - n + 1, today - 1) \subseteq {d \in rows : d >= today - n /\ d <= today}
         /\ Prices!Newest \in {d \in rows : d >= today - n /\ d <= today}
<1>1. today \in Int /\ RowsOf(rows, today)
  BY CalendarAssumption DEF PricesInv
<1>2. Prices!Newest \in rows /\ Prices!Newest \in Int /\ Prices!Newest <= today
  BY <1>1, NewestIs DEF RowsOf
<1>3. Prices!Newest >= today - 1
  BY DEF Prices!Fresh
<1>4. Prices!Min(rows) \in Int
  BY <1>1, FirstIsLeast DEF RowsOf
<1>5. \A d \in Prices!Sessions(Prices!Min(rows), Prices!Newest) : d \in rows
  BY DEF Prices!Holes
<1>6. ASSUME NEW d \in Prices!Sessions(today - 1 - n + 1, today - 1)
      PROVE  d \in rows /\ d >= today - n /\ d <= today
  <2>1. d \in Int /\ today - n <= d /\ d <= today - 1 /\ Prices!Trading(d)
    BY <1>1, <1>6 DEF Prices!Sessions
  <2>2. Prices!Min(rows) <= d /\ d <= Prices!Newest
    BY <1>1, <1>2, <1>3, <1>4, <2>1
  <2>3. d \in Prices!Sessions(Prices!Min(rows), Prices!Newest)
    BY <1>2, <1>4, <2>1, <2>2 DEF Prices!Sessions
  <2> QED
    BY <1>1, <1>5, <2>1, <2>3
<1>7. Prices!Newest >= today - n
  BY <1>1, <1>2, <1>3
<1> QED
  BY <1>2, <1>6, <1>7

LEMMA ReadersServed ==
  ASSUME PricesInv PROVE ReadyForReaders
<1> SUFFICES ASSUME Prices!Enough(90), Prices!Fresh, Prices!Holes = {}, NEW days \in {19, 30, 60}
             PROVE  Prices!Readable(days) /\ Prices!Newest \in Prices!Found(days)
  BY DEF ReadyForReaders, Prices!ReadyForReaders
<1>1. today \in Int /\ RowsOf(rows, today) /\ rows # {} /\ today - 1 \in Start - 1 .. Horizon
      /\ today \in Start - 1 .. Horizon
  BY EnoughIsSome, CalendarAssumption DEF PricesInv
<1>2. Prices!Min(rows) \in rows /\ Prices!Min(rows) \in Int /\ \A d \in rows : Prices!Min(rows) <= d
  BY <1>1, FirstIsLeast DEF RowsOf
<1>3. Cardinality(rows) >= 85
  BY CountOfPrices DEF Prices!Enough, Prices!MinAcceptable
<1>4. Prices!Min(rows) <= today - 90
  <2> SUFFICES ASSUME Prices!Min(rows) >= today - 89 PROVE FALSE
    BY <1>1, <1>2
  <2> DEFINE all == Prices!Sessions(today - 90 + 1, today)
  <2>1. rows \subseteq all
    BY <1>1, <1>2 DEF RowsOf, Prices!Sessions
  <2>2. LET s == Cardinality(all) IN s \in Nat /\ 7 * s <= 5 * 90 + 10
    BY <1>1, Stretch, 90 \in 1..90
  <2>3. IsFiniteSet(all)
    BY <1>1, SessionsFinite, today - 90 + 1 \in Int
  <2>4. Cardinality(rows) <= Cardinality(all) /\ Cardinality(rows) \in Nat
    BY <1>1, <2>1, <2>3, FS_Subset, RowsFinite
  <2> HIDE DEF all
  <2> QED
    BY <1>3, <2>2, <2>4
<1> DEFINE n == IF days = 19 THEN 33 ELSE IF days = 30 THEN 47 ELSE 89
           window == Prices!Sessions(today - 1 - n + 1, today - 1)
<1>5. Prices!Buffer(days) = n - days
  BY DEF Prices!Buffer, Prices!Max
<1>6. n \in 1..89 /\ n \in 1..90
  OBVIOUS
<1>7. Prices!Found(days) = {d \in rows : d >= today - n /\ d <= today}
  <2>1. today - days - Prices!Buffer(days) = today - n
    BY <1>1, <1>5
  <2> QED
    BY <2>1 DEF Prices!Found
<1> HIDE DEF n
<1>8. window \subseteq Prices!Found(days) /\ Prices!Newest \in Prices!Found(days)
  BY <1>1, <1>4, <1>6, <1>7, WindowIsFound
<1>9. LET s == Cardinality(window) IN
      s \in Nat /\ 5 * n - 52 <= 7 * s /\ (n <= 47 => 5 * n - 45 <= 7 * s)
  BY <1>1, <1>6, Stretch
<1>10. Cardinality(window) >= Prices!MinAcceptable(days)
  <2> HIDE DEF window
  <2> QED
    BY <1>9 DEF n, Prices!MinAcceptable
<1>11. Cardinality(window) <= Cardinality(Prices!Found(days)) /\ Cardinality(Prices!Found(days)) \in Nat
  <2>1. IsFiniteSet(Prices!Found(days))
    BY <1>1, <1>7, RowsFinite, FS_Subset, Prices!Found(days) \subseteq rows
  <2> QED
    BY <1>8, <2>1, FS_Subset, FS_CardinalityType
<1>12. Prices!Readable(days)
  <2>1. Prices!MinAcceptable(days) \in Int
    BY DEF Prices!MinAcceptable
  <2> QED
    BY <1>9, <1>10, <1>11, <2>1, CountOfPrices DEF Prices!Readable
<1> QED
  BY <1>8, <1>12

\* Rows that are enough for the daily task, without holes and fresh, are enough for every
\* reader, on every calendar with as few holidays as that of the exchange.
THEOREM ReadersAreServed == SpecOfOne => []ReadyForReaders
BY PricesAlways, ReadersServed, PTL

-----------------------------------------------------------------------------
(* The broker's accounts                                                     *)

\* A row with a token names an account and is active.
Complete(row) == row.token # None => row.number # None /\ row.active

View == [at : Steps, id : {None} \cup Rows, copy : {None} \cup Row,
         next : {"done", "exchange", "session"}]

\* A request that is at work has a copy, and one that is about to save, a complete one.
Whole(x) ==
    /\ x \in View
    /\ x.at \notin {"waiting", "done"} => x.copy \in Row
    /\ x.at \in {"primary", "save", "write"} => Complete(x.copy)

RowsFit ==
    /\ accounts \in [Rows -> {None} \cup Row]
    /\ \A r \in Rows : accounts[r] # None => Complete(accounts[r])

LinkInv ==
    /\ RowsFit
    /\ DOMAIN web = Views /\ web = [v \in Views |-> web[v]] /\ \A v \in Views : Whole(web[v])
    /\ granted \in 0..MaxGrants

\* A set of ids has its least one.
LEMMA LeastRow ==
  ASSUME NEW S \in SUBSET Rows, S # {}
  PROVE  Min(S) \in S
BY Least, LinkAssumption DEF Min

\* The first row is there and complete.
LEMMA FirstFits ==
  ASSUME RowsFit, First # None
  PROVE  First \in Rows /\ accounts[First] \in Row /\ Complete(accounts[First])
<1>1. Present # {} /\ First = Min(Present) /\ Present \subseteq Rows
  BY DEF First, Present
<1>2. First \in Present
  BY <1>1, LeastRow
<1> QED
  BY <1>2 DEF Present, RowsFit

\* One request goes on, and the rows stay complete.
LEMMA RequestFits ==
  ASSUME LinkInv, RowsFit', NEW v \in Views, NEW x, Whole(x),
         web' = [web EXCEPT ![v] = x], granted' \in 0..MaxGrants
  PROVE  LinkInv'
<1>1. web'[v] = x /\ \A u \in Views \ {v} : web'[u] = web[u]
  BY DEF LinkInv
<1>2. DOMAIN web' = Views /\ web' = [u \in Views |-> web'[u]]
  BY DEF LinkInv
<1>3. \A u \in Views : Whole(web'[u])
  BY <1>1 DEF LinkInv
<1> QED
  BY <1>2, <1>3 DEF LinkInv, Whole, Complete, View, RowsFit

\* A request that ends fits.
LEMMA DoneFits == Whole(Waiting) /\ Whole(Done)
BY DEF Whole, Waiting, Done, View, Steps

\* The first statement of a save changes a flag, and marking the rows another.
LEMMA FlagsFit ==
  ASSUME RowsFit,
         \/ \E id, copy : ClearOthers(id, copy)
         \/ MarkInvalid
         \/ UNCHANGED accounts
  PROVE  RowsFit'
<1>1. \A row \in Row :
        /\ [row EXCEPT !.primary = FALSE] \in Row /\ [row EXCEPT !.valid = FALSE] \in Row
        /\ Complete(row) => /\ Complete([row EXCEPT !.primary = FALSE])
                            /\ Complete([row EXCEPT !.valid = FALSE])
  BY DEF Row, Complete
<1>2. accounts \in [Rows -> {None} \cup Row]
  BY DEF RowsFit
<1>3. accounts' = [r \in Rows |-> accounts'[r]]
  BY <1>2 DEF ClearOthers, MarkInvalid
<1>4. \A r \in Rows :
        \/ accounts'[r] = accounts[r]
        \/ accounts[r] \in Row /\ accounts'[r] = [accounts[r] EXCEPT !.primary = FALSE]
        \/ accounts[r] \in Row /\ accounts'[r] = [accounts[r] EXCEPT !.valid = FALSE]
  BY <1>2 DEF ClearOthers, MarkInvalid
<1>5. ASSUME NEW r \in Rows
      PROVE  /\ accounts'[r] \in {None} \cup Row
             /\ accounts'[r] # None => Complete(accounts'[r])
  <2>1. CASE accounts'[r] = accounts[r]
    BY <1>2, <2>1 DEF RowsFit
  <2>2. CASE accounts[r] \in Row
    <3>1. Complete(accounts[r])
      BY <2>2, LinkAssumption DEF RowsFit
    <3> QED
      BY <1>1, <1>2, <1>4, <2>1, <2>2, <3>1
  <2> QED
    BY <1>4, <2>1, <2>2
<1> QED
  BY <1>3, <1>5 DEF RowsFit, Complete

\* A save writes a copy that is complete.
LEMMA SaveFits ==
  ASSUME LinkInv, NEW v \in Views, SaveClears(v) \/ SaveWrites(v)
  PROVE  LinkInv'
<1>1. Whole(web[v]) /\ web[v] \in View /\ RowsFit
  BY DEF LinkInv, Whole
<1>2. granted' \in 0..MaxGrants
  BY DEF LinkInv, SaveClears, SaveWrites
<1>3. CASE SaveClears(v)
  <2> DEFINE x == [web[v] EXCEPT !.at = "write"]
  <2>1. Whole(x)
    BY <1>1, <1>3 DEF SaveClears, Whole, View, Steps
  <2>2. RowsFit'
    BY <1>1, <1>3, FlagsFit DEF SaveClears
  <2> QED
    BY <1>2, <1>3, <2>1, <2>2, RequestFits DEF SaveClears
<1>4. CASE SaveWrites(v)
  <2> DEFINE id == IF web[v].id = None THEN Min(Rows \ Present) ELSE web[v].id
  <2>1. web[v].copy \in Row /\ Complete(web[v].copy)
    BY <1>1, <1>4 DEF SaveWrites, Whole
  <2>2. id \in Rows
    <3>1. CASE web[v].id = None
      <4>1. Rows \ Present # {}
        BY <1>4, <3>1 DEF SaveWrites, Present
      <4> QED
        BY <3>1, <4>1, LeastRow
    <3>2. CASE web[v].id # None
      BY <1>1, <3>2 DEF View
    <3> QED
      BY <3>1, <3>2
  <2>3. Whole(Saved(v))
    BY <1>1, <2>1, DoneFits DEF Saved, Whole, View, Steps
  <2> HIDE DEF id
  <2>4. CASE accounts' = [accounts EXCEPT ![id] = web[v].copy] /\ web' = [web EXCEPT ![v] = Saved(v)]
    <3>1. RowsFit'
      BY <1>1, <2>1, <2>2, <2>4 DEF RowsFit, Complete
    <3> QED
      BY <1>2, <2>3, <2>4, <3>1, RequestFits
  <2>5. CASE UNCHANGED accounts /\ web' = [web EXCEPT ![v] = Done]
    <3>1. RowsFit'
      BY <1>1, <2>5, FlagsFit
    <3> QED
      BY <1>2, <2>5, <3>1, DoneFits, RequestFits
  <2> QED
    BY <1>4, <2>4, <2>5 DEF SaveWrites, Written, id
<1> QED
  BY <1>3, <1>4

\* The callback's copy has a token before it has a number, but no row has it yet.
LEMMA CallbackFits ==
  ASSUME LinkInv, NEW v \in Callbacks,
         CallbackReads(v) \/ CallbackExchanges(v) \/ CallbackFetches(v) \/ CallbackChecksPrimary(v)
  PROVE  LinkInv'
<1> DEFINE c == web[v]
<1>1. v \in Views /\ Whole(c) /\ c \in View /\ RowsFit /\ granted \in 0..MaxGrants
  BY DEF Views, LinkInv, Whole
<1>2. RowsFit'
  BY <1>1, FlagsFit
     DEF CallbackReads, CallbackExchanges, CallbackFetches, CallbackChecksPrimary
<1>3. CASE CallbackReads(v)
  <2> DEFINE row == IF First = None THEN NewRow ELSE accounts[First]
             kept == First = None \/ Configured(row)
             copy == IF kept THEN row ELSE [row EXCEPT !.token = None]
             x == [at |-> IF kept THEN "exchange" ELSE "save", id |-> First, copy |-> copy,
                   next |-> IF kept THEN "done" ELSE "exchange"]
  <2>1. NewRow \in Row /\ Complete(NewRow)
    BY DEF NewRow, Row, Complete
  <2>2. row \in Row /\ Complete(row) /\ First \in {None} \cup Rows
    BY <1>1, <2>1, FirstFits
  <2>3. \A y \in Row : [y EXCEPT !.token = None] \in Row /\ Complete([y EXCEPT !.token = None])
    BY DEF Row, Complete
  <2>4. copy \in Row /\ Complete(copy)
    BY <2>2, <2>3
  <2>5. web' = [web EXCEPT ![v] = x] /\ granted' = granted
    BY <1>3 DEF CallbackReads
  <2> HIDE DEF copy, kept
  <2>6. x.at \in {"exchange", "save"} /\ x.copy = copy /\ x \in View
    BY <2>2, <2>4 DEF View, Steps
  <2>7. Whole(x)
    BY <2>4, <2>6 DEF Whole
  <2> HIDE DEF x
  <2> QED
    BY <1>1, <1>2, <2>5, <2>7, RequestFits
<1>4. CASE web' = [web EXCEPT ![v] = Done] /\ granted' = granted
  BY <1>1, <1>2, <1>4, DoneFits, RequestFits
<1>5. CASE CallbackExchanges(v) /\ granted < MaxGrants /\ granted' = granted + 1
  <2> DEFINE x == [c EXCEPT !.at = "accounts", !.copy.token = granted + 1]
  <2>1. c.at = "exchange" /\ web' = [web EXCEPT ![v] = x]
    BY <1>1, <1>5, LinkAssumption DEF CallbackExchanges
  <2>2. granted' \in 0..MaxGrants
    BY <1>1, <1>5, LinkAssumption
  <2>3. \A y \in Row : [y EXCEPT !.token = granted + 1] \in Row
    BY <1>5, <2>2 DEF Row, Tokens
  <2>4. c.copy \in Row
    BY <1>1, <2>1 DEF Whole
  <2>5. Whole(x)
    BY <1>1, <2>3, <2>4 DEF Whole, View, Steps
  <2> HIDE DEF x
  <2> QED
    BY <1>1, <1>2, <2>1, <2>2, <2>5, RequestFits
<1>6. CASE CallbackFetches(v) /\ web' # [web EXCEPT ![v] = Done]
  <2> PICK n \in Numbers :
        web' = [web EXCEPT ![v] = [c EXCEPT !.at = "primary",
                    !.copy = [c.copy EXCEPT !.number = n, !.active = TRUE, !.valid = TRUE]]]
    BY <1>6 DEF CallbackFetches
  <2> DEFINE copy == [c.copy EXCEPT !.number = n, !.active = TRUE, !.valid = TRUE]
             x == [c EXCEPT !.at = "primary", !.copy = copy]
  <2>1. c.at = "accounts" /\ granted' = granted /\ web' = [web EXCEPT ![v] = x]
    BY <1>6 DEF CallbackFetches
  <2>2. c.copy \in Row
    BY <1>1, <2>1 DEF Whole
  <2>3. copy \in Row /\ Complete(copy)
    BY <2>2, LinkAssumption DEF Row, Complete
  <2> HIDE DEF copy
  <2>4. Whole(x)
    BY <1>1, <2>3 DEF Whole, View, Steps
  <2> HIDE DEF x
  <2> QED
    BY <1>1, <1>2, <2>1, <2>4, RequestFits
<1>7. CASE CallbackChecksPrimary(v)
  <2> DEFINE some == \E r \in Present : accounts[r].primary
             copy == [c.copy EXCEPT !.primary = c.copy.primary \/ ~some]
             x == [c EXCEPT !.at = "save", !.next = "session", !.copy = copy]
  <2>1. c.at = "primary" /\ granted' = granted
    BY <1>7 DEF CallbackChecksPrimary
  <2>2. web' = [web EXCEPT ![v] = x]
    BY <1>7 DEF CallbackChecksPrimary
  <2>3. c.copy \in Row /\ Complete(c.copy)
    BY <1>1, <2>1 DEF Whole
  <2>4. \A y \in Row, b \in BOOLEAN :
          /\ [y EXCEPT !.primary = y.primary \/ ~b] \in Row
          /\ Complete(y) => Complete([y EXCEPT !.primary = y.primary \/ ~b])
    BY DEF Row, Complete
  <2>5. copy \in Row /\ Complete(copy)
    <3>1. some \in BOOLEAN
      OBVIOUS
    <3> HIDE DEF some
    <3> QED
      BY <2>3, <2>4, <3>1
  <2> HIDE DEF copy
  <2>6. Whole(x)
    BY <1>1, <2>5 DEF Whole, View, Steps
  <2> HIDE DEF x
  <2> QED
    BY <1>1, <1>2, <2>1, <2>2, <2>6, RequestFits
<1> QED
  BY <1>3, <1>4, <1>5, <1>6, <1>7 DEF CallbackExchanges, CallbackFetches

\* The selection keeps the token it read and gives the row a number; the disconnection
\* takes token and number together.
LEMMA ViewFits ==
  ASSUME LinkInv, NEW v \in Views, SelectReads(v) \/ DisconnectReads(v)
  PROVE  LinkInv'
<1>1. RowsFit /\ granted' \in 0..MaxGrants
  BY DEF LinkInv, SelectReads, DisconnectReads
<1>2. RowsFit'
  BY <1>1, FlagsFit DEF SelectReads, DisconnectReads
<1>3. First \in Rows /\ accounts[First] \in Row /\ Complete(accounts[First])
  BY <1>1, FirstFits DEF SelectReads, DisconnectReads
<1>4. ASSUME NEW copy \in Row, Complete(copy),
             web' = [web EXCEPT ![v] = [at |-> "save", id |-> First, next |-> "done", copy |-> copy]]
      PROVE  LinkInv'
  <2>1. Whole([at |-> "save", id |-> First, next |-> "done", copy |-> copy])
    BY <1>3, <1>4 DEF Whole, View, Steps
  <2> QED
    BY <1>1, <1>2, <1>4, <2>1, RequestFits
<1>5. CASE SelectReads(v)
  <2>1. \A n \in Numbers : LET copy == [accounts[First] EXCEPT !.number = n, !.primary = TRUE]
                           IN copy \in Row /\ Complete(copy)
    BY <1>3, LinkAssumption DEF Row, Complete
  <2> QED
    BY <1>4, <1>5, <2>1 DEF SelectReads
<1>6. CASE DisconnectReads(v)
  <2>1. LET copy == [accounts[First] EXCEPT !.token = None, !.number = None, !.active = FALSE]
        IN copy \in Row /\ Complete(copy)
    BY <1>3 DEF Row, Complete
  <2> QED
    BY <1>4, <1>6, <2>1 DEF DisconnectReads
<1> QED
  BY <1>5, <1>6

LEMMA LinkStep == ASSUME LinkInv, [NextOfOne]_allVars PROVE LinkInv'
<1>1. CASE UNCHANGED <<accounts, web, granted>>
  BY <1>1 DEF LinkInv, RowsFit, Whole, Complete, View
<1>2. ASSUME NEW token, Outcome(token), UNCHANGED granted,
             UNCHANGED web \/ \E v \in Views : web' = [web EXCEPT ![v] = Done]
      PROVE  LinkInv'
  <2>1. RowsFit' /\ granted' \in 0..MaxGrants
    BY <1>2, FlagsFit DEF LinkInv, Outcome
  <2>2. CASE UNCHANGED web
    BY <2>1, <2>2 DEF LinkInv, Whole, Complete, View
  <2>3. CASE \E v \in Views : web' = [web EXCEPT ![v] = Done]
    BY <2>1, <2>3, DoneFits, RequestFits
  <2> QED
    BY <1>2, <2>2, <2>3
<1>3. CASE Next
  <2>1. ASSUME NEW v \in Callbacks, CallbackSession(v) PROVE LinkInv'
    BY <1>2, <2>1 DEF CallbackSession, Views
  <2>2. ASSUME NEW w \in Workers, SessionEnds(w) PROVE LinkInv'
    BY <1>2, <2>2 DEF SessionEnds
  <2>3. CASE \/ \E w \in Workers : SessionBegins(w) \/ AccountBegins(w)
             \/ \E t \in Revocable : Revoke(t)
    BY <1>1, <2>3 DEF SessionBegins, AccountBegins, Begins, Revoke
  <2>4. ASSUME NEW v \in Selects, SelectReads(v) PROVE LinkInv'
    BY <2>4, ViewFits DEF Views
  <2>5. ASSUME NEW v \in Disconnects, DisconnectReads(v) PROVE LinkInv'
    BY <2>5, ViewFits DEF Views
  <2> QED
    BY <1>3, <2>1, <2>2, <2>3, <2>4, <2>5, SaveFits, CallbackFits DEF Next
<1> QED
  BY <1>1, <1>3 DEF NextOfOne, allVars, vars

\* A row with a token names an account and is active, for any rows, account numbers,
\* grants and requests, although every view saves the whole row it has read and other
\* requests have saved it in between.
THEOREM ConnectedRowsAreComplete == SpecOfOne => []ConnectedIsComplete
<1>1. InitOfOne => LinkInv
  <2>1. CASE Init
    BY <2>1, DoneFits, LinkAssumption DEF Init, LinkInv, RowsFit, Complete, Configured
  <2>2. CASE accounts = [r \in Rows |-> None] /\ web = [v \in Views |-> Waiting] /\ granted = 0
    BY <2>2, DoneFits, LinkAssumption DEF LinkInv, RowsFit
  <2> QED
    BY <2>1, <2>2 DEF InitOfOne
<1>2. LinkInv /\ [NextOfOne]_allVars => LinkInv'
  BY LinkStep
<1>3. LinkInv => ConnectedIsComplete
  BY DEF LinkInv, RowsFit, Complete, ConnectedIsComplete, Present
<1> QED
  BY <1>1, <1>2, <1>3, PTL DEF SpecOfOne

=============================================================================
