----------------------------- MODULE MCSideBySide -----------------------------
(* Five weeks of a symbol with a holiday, and absences as long as the        *)
(* readers' windows; two accounts, two callbacks, a selection, a              *)
(* disconnection and one background session; and the markets, requests and   *)
(* quotes below.                                                             *)
EXTENDS SideBySide

-----------------------------------------------------------------------------
(* Markets: combinations of the values around which the scores change,      *)
(* trends where volatility has a rank between those, and calm markets with  *)
(* every combination of stops.  After a move the live quote may be on the   *)
(* other side of the average than the last close.                           *)

Technical(iv, hvIv, rsi, adx) ==
    {x \in [age : {0}, earnings : {None}, exDiv : {None}, nextDiv : {None}, data : {TRUE},
            iv : iv, hvIv : hvIv, rsi : rsi, close : {-1, 1}, live : {-1, 1}, hist : {-1, 0, 1},
            band : {"within_bands", "above_upper", "below_lower"},
            adx : adx, move : {1, 4, 12}, broken : BOOLEAN, shares : {TRUE}] :
        /\ x.band = "above_upper" => x.close = 1
        /\ x.band = "below_lower" => x.close = -1
        /\ x.live # x.close => x.move = 4}

Around == Technical({8, 24, 30, 33, 42, 52, 65, 80}, {70, 95, 110, 135}, {25, 37, 50, 75},
                    {None, 11, 17, 22, 27, 38, 45})
Trends == Technical({30, 49, 60, 72, 74}, {95, 120, 135}, {25, 50, 75}, {26, 31, 36})

Halted ==
    [age : {None, 5, 6}, earnings : {None, 0, 1, 7, 8}, exDiv : {None, 0, 1, 5, 6},
     nextDiv : {None, 3, 90}, data : BOOLEAN,
     iv : {24, 65}, hvIv : {95}, rsi : {50}, close : {1}, live : {-1, 0, 1}, hist : {1},
     band : {"within_bands"}, adx : {17, 38}, move : {1}, broken : {FALSE}, shares : BOOLEAN]

MCMarkets == Around \cup Trends \cup Halted

-----------------------------------------------------------------------------
(* Requests: every strategy, chains from complete to sparse, supports and   *)
(* resistances on both sides of the price.                                  *)

Dollars(lo, hi, step) == {100 * (lo + step * i) : i \in 0..((hi - lo) \div step)}

Every == Dollars(80, 120, 1)
Fives == Dollars(80, 120, 5)
Sparse == {8500, 9800, 10100, 11500}
Few == {10000}

Chain(dte, puts, calls) == [dte |-> dte, puts |-> puts, calls |-> calls]

\* One chain near the end of each range, chains that list other strikes for the
\* puts than for the calls, and pairs of which the later is worse.
MCChains ==
    {{Chain(d, s, s)} : d \in {29, 30, 45, 50, 60}, s \in {Every}}
    \cup {{Chain(40, s, t)} : s \in {Fives, Sparse, Few, {}}, t \in {Fives, Sparse}}
    \cup {{Chain(40, {8000, 11500}, {10000, 10500, 11500})}}
    \cup {{Chain(35, Every, Every), Chain(44, s, s)} : s \in {Fives, Sparse, Few, {}}}
    \cup {{}}

MCStrategies ==
    {"senex_trident", "short_put_vertical", "short_call_vertical", "long_call_vertical",
     "long_put_vertical", "short_iron_condor", "long_iron_condor", "iron_butterfly",
     "long_call_ratio_backspread", "long_put_ratio_backspread", "cash_secured_put"}

MCRequests ==
    {r \in [strategy : MCStrategies, price : {10000, 9900}, support : {None, 9500, 9900},
            resistance : {None, 10000}, configured : BOOLEAN, capital : {None, 15, 36, 200},
            manual : {None, 500}, force : BOOLEAN, suggesting : BOOLEAN, chains : MCChains] :
        /\ r.manual # None => r.configured
        /\ r.strategy \notin {"short_put_vertical", "long_put_vertical"} => r.support = None
        /\ r.strategy \notin {"short_call_vertical", "long_call_vertical"} => r.resistance = None
        /\ r.strategy = "senex_trident" => ~r.force
        /\ r.capital = None => ~r.configured}

Quote(bid, ask) == [bid |-> bid, ask |-> ask]

\* A calm market, one with wide quotes, one where the long legs cost more, one where
\* only the long call does, and one where a leg has no quote.
MCQuotes ==
    LET q(sp, lp, sc, lc, ps) == [short_put |-> sp, long_put |-> lp, short_call |-> sc,
                                  long_call |-> lc, put_strike |-> ps]
    IN {q(Quote(200, 210), Quote(90, 100), Quote(180, 190), Quote(100, 110), Quote(150, 170)),
        q(Quote(150, 250), Quote(30, 130), Quote(140, 240), Quote(80, 180), Quote(50, 350)),
        q(Quote(210, 220), Quote(60, 80), Quote(200, 220), Quote(60, 70), Quote(10, 30)),
        q(Quote(100, 110), Quote(140, 160), Quote(90, 110), Quote(130, 150), Quote(0, 10)),
        q(Quote(200, 210), Quote(90, 100), Quote(90, 110), Quote(240, 260), Quote(150, 170)),
        q(Quote(200, 210), None, Quote(180, 190), None, None)}
------------------------------------------------------------------------

=============================================================================
