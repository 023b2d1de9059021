---------------------------- MODULE SpreadOrders ----------------------------
(* From the strategy that was picked to the orders at the broker: a          *)
(* strategy looks for strikes in the option chains, prices the legs from the  *)
(* quote cache, writes a suggestion with its risk, the suggestion is executed *)
(* as one opening order, and a filled Trident gets its three profit targets.  *)
(* Money is in cents, and risks are per share: the multiplier of 100 shares   *)
(* is left out. Prices are whole dollars, so percentages of them are exact.   *)
EXTENDS Integers, FiniteSets, FiniteSetsExt

CONSTANTS
    Requests,   \* what is asked: strategy, market levels, settings, chains
    Quotes,     \* a quote for every leg: [bid, ask], or None
    Custom,     \* credits a user or the automation may ask for
    None

VARIABLES
    request,     \* the request being served
    prepared,    \* the expiration and the strikes found for it
    suggestion,  \* TradingSuggestion
    order,       \* the opening order sent to the broker
    targets,     \* the profit targets sent after its fill
    stage

vars == <<request, prepared, suggestion, order, targets, stage>>

Strategies == {"senex_trident", "short_put_vertical", "short_call_vertical", "long_call_vertical",
               "long_put_vertical", "short_iron_condor", "long_iron_condor", "iron_butterfly",
               "long_call_ratio_backspread", "long_put_ratio_backspread", "cash_secured_put"}

-----------------------------------------------------------------------------
(* Strikes.                                                                  *)

\* round(price / 2) * 2 dollars; Python rounds a half to the even neighbour.
Even(cents) ==
    LET q == cents \div 200
        r == cents % 200
    IN 200 * (IF r < 100 \/ (r = 100 /\ q % 2 = 0) THEN q ELSE q + 1)

Percent(x, p) == (x * p) \div 100

Distance(a, b) == IF a < b THEN b - a ELSE a - b

\* The lists are sorted, so the lower of two equally close strikes is found.
Nearest(target, strikes) ==
    CHOOSE s \in strikes : \A t \in strikes \ {s} :
        \/ Distance(s, target) < Distance(t, target)
        \/ Distance(s, target) = Distance(t, target) /\ s < t

PutLegs == {"short_put", "long_put", "put_strike"}
CallLegs == {"short_call", "long_call"}

Listed(chain, leg) == IF leg \in PutLegs THEN chain.puts ELSE chain.calls

\* A chain's strikes for the targets: exact, or else (unless strict) nearest;
\* a spread whose two strikes became one gets the next strike further out.
Matched(goal, chain, strict) ==
    LET absent == {l \in DOMAIN goal : goal[l] \notin Listed(chain, l)}
        near == [l \in DOMAIN goal |->
                   IF l \in absent THEN Nearest(goal[l], Listed(chain, l)) ELSE goal[l]]
        Flat(short, long) == {short, long} \subseteq DOMAIN goal /\ near[short] = near[long]
        below == {s \in chain.puts : s < near["short_put"]}
        above == {s \in chain.calls : s > near["short_call"]}
        flatPut == Flat("short_put", "long_put")
        flatCall == Flat("short_call", "long_call")
    IN IF \/ \E l \in absent : strict \/ Listed(chain, l) = {}
          \/ flatPut /\ below = {}
          \/ flatCall /\ above = {}
       THEN None
       ELSE [l \in DOMAIN goal |->
               IF l = "long_put" /\ flatPut THEN Max(below)
               ELSE IF l = "long_call" /\ flatCall THEN Min(above) ELSE near[l]]

\* The nested chain lists the expirations, here by their days.
Expirations(r) == {c.dte : c \in r.chains}

\* The chain of one expiration; there is none when no strike is listed for it.
Fetched(r, d) ==
    LET c == CHOOSE x \in r.chains : x.dte = d
    IN IF c.puts = {} /\ c.calls = {} THEN None ELSE c

InRange(r, lo, hi) == {d \in Expirations(r) : lo <= d /\ d <= hi}

\* Expirations that are far enough off and have a chain.
Usable(r, hi) == {d \in InRange(r, 30, hi) : Fetched(r, d) # None}

\* The last expiration for whose chain strikes were found.
Expiring(r, found) ==
    LET hits == {d \in DOMAIN found : found[d] # None}
    IN IF hits = {} THEN None
       ELSE [chain |-> Fetched(r, Max(hits)), strikes |-> found[Max(hits)]]

Exact(r, goal, hi, strict) ==
    Expiring(r, [d \in Usable(r, hi) |-> Matched(goal, Fetched(r, d), strict)])

\* Where the short strike should be: a percentage out of the money, but not
\* nearer than two percent to the support or resistance of the price.
Ideal(r, side, otm) ==
    IF side = "put"
    THEN Max({Percent(r.price, 100 - otm)}
             \cup (IF r.support = None THEN {} ELSE {Percent(r.support, 102)}))
    ELSE Min({Percent(r.price, 100 + otm)}
             \cup (IF r.resistance = None THEN {} ELSE {Percent(r.resistance, 98)}))

Within(ideal, strike, percent) == 100 * Distance(ideal, strike) <= percent * ideal

\* StrikeOptimizer: the short strike near its ideal, the long one a width away.
Optimal(r, side, otm, width, chain) ==
    LET strikes == IF side = "put" THEN chain.puts ELSE chain.calls
        ideal == Ideal(r, side, otm)
        short == Nearest(ideal, strikes)
        goal == IF side = "put" THEN short - width ELSE short + width
        long == IF goal \in strikes THEN goal ELSE Nearest(goal, strikes)
        found == IF side = "put" THEN [short_put |-> short, long_put |-> long]
                                 ELSE [short_call |-> short, long_call |-> long]
    IN IF /\ strikes # {}
          /\ Within(ideal, short, IF r.force THEN 15 ELSE 5)
          /\ goal \in strikes \/ Within(goal, long, 10)
          /\ IF side = "put" THEN long < short ELSE long > short
       THEN found ELSE None

Best(r, side, otm, width, hi) ==
    Expiring(r, [d \in Usable(r, hi) |-> Optimal(r, side, otm, width, Fetched(r, d))])

\* The symbols of the legs are taken from the chain, where they must be.
Bundled(found) ==
    IF found # None /\ \A l \in DOMAIN found.strikes :
                          found.strikes[l] \in Listed(found.chain, l)
    THEN found ELSE None

-----------------------------------------------------------------------------
(* Settings.                                                                 *)

\* Capital in thousands of dollars; a width set by hand wins.
SpreadWidth(r, default) ==
    IF ~r.configured \/ r.capital = None THEN default
    ELSE IF r.manual # None THEN r.manual
    ELSE 300 + 200 * Cardinality({t \in {16, 36, 64, 100, 144} : r.capital >= t})

\* A configuration without the strategy's own values has those of the Trident.
MaxDte(r, default) == IF r.configured THEN 50 ELSE default

-----------------------------------------------------------------------------
(* What each strategy asks of the chains: a_prepare_suggestion_context.      *)

Given(found, width) ==
    IF Bundled(found) = None THEN None
    ELSE [chain |-> found.chain, strikes |-> found.strikes, width |-> width]

TridentStrikes(r) ==
    LET inner == Even(r.price)
        width == SpreadWidth(r, 300)
        goal == [short_put |-> inner, long_put |-> inner - width,
                 short_call |-> inner, long_call |-> inner + width]
    IN IF r.configured THEN Given(Exact(r, goal, 50, TRUE), width) ELSE None

CreditStrikes(r, side) ==
    LET width == SpreadWidth(r, 300) IN Given(Best(r, side, 3, width, MaxDte(r, 45)), width)

DebitStrikes(r, side) ==
    LET width == SpreadWidth(r, 500)
        otm == IF side = "call" THEN 5 ELSE 3
    IN Given(Best(r, side, otm, width, MaxDte(r, 45)), width)

CondorStrikes(r) ==
    LET put == Even(Percent(r.price, 92))
        call == Even(Percent(r.price, 108))
        goal == [long_put |-> put - 500, short_put |-> put,
                 short_call |-> call, long_call |-> call + 500]
    IN Given(Exact(r, goal, 60, FALSE), 500)

Wing(price) == IF price < 5000 THEN 250 ELSE IF price < 10000 THEN 500
               ELSE IF price < 20000 THEN 1000 ELSE 1500

\* Both short strikes are recorded as the one found for the put.
ButterflyStrikes(r) ==
    LET atm == Even(r.price)
        wing == Wing(r.price)
        found == Given(Exact(r, [short_put |-> atm, short_call |-> atm, long_put |-> atm - wing,
                                 long_call |-> atm + wing], 60, FALSE), wing)
    IN IF found = None THEN None
       ELSE [found EXCEPT !.strikes["short_call"] = found.strikes["short_put"]]

CallBackStrikes(r) ==
    Given(Exact(r, [short_call |-> Even(r.price), long_call |-> Even(Percent(r.price, 105))],
                60, FALSE), None)

PutBackStrikes(r) ==
    Given(Exact(r, [short_put |-> Even(r.price), long_put |-> Even(Percent(r.price, 95))],
                60, FALSE), None)

\* find_target_expiration: the last day in range, whatever its chain has.
SecuredStrikes(r) ==
    LET days == InRange(r, 30, MaxDte(r, 60))
        chain == Fetched(r, Max(days))
        strikes == [put_strike |-> Even(Percent(r.price, 93))]
    IN IF days = {} \/ chain = None THEN None
       ELSE Given([chain |-> chain, strikes |-> strikes], None)

StrikesFor(r) ==
    CASE r.strategy = "senex_trident" -> TridentStrikes(r)
      [] r.strategy = "short_put_vertical" -> CreditStrikes(r, "put")
      [] r.strategy = "short_call_vertical" -> CreditStrikes(r, "call")
      [] r.strategy = "long_call_vertical" -> DebitStrikes(r, "call")
      [] r.strategy = "long_put_vertical" -> DebitStrikes(r, "put")
      [] r.strategy \in {"short_iron_condor", "long_iron_condor"} -> CondorStrikes(r)
      [] r.strategy = "iron_butterfly" -> ButterflyStrikes(r)
      [] r.strategy = "long_call_ratio_backspread" -> CallBackStrikes(r)
      [] r.strategy = "long_put_ratio_backspread" -> PutBackStrikes(r)
      [] r.strategy = "cash_secured_put" -> SecuredStrikes(r)

-----------------------------------------------------------------------------
(* Prices and suggestions: a_calculate_suggestion_from_cached_data.          *)

MidOf(quote) == (quote.bid + quote.ask) \div 2

\* build_pricing: what selling the short leg and buying the long one brings,
\* at the bid and ask and at the middle; nothing without a spread on that side.
Natural(legs, q, short, long) ==
    IF {short, long} \subseteq legs THEN q[short].bid - q[long].ask ELSE 0

Middle(legs, q, short, long) ==
    IF {short, long} \subseteq legs THEN MidOf(q[short]) - MidOf(q[long]) ELSE 0

Pricing(legs, q) ==
    [put |-> IF legs = {"put_strike"} THEN q["put_strike"].bid
             ELSE Natural(legs, q, "short_put", "long_put"),
     putMid |-> IF legs = {"put_strike"} THEN MidOf(q["put_strike"])
                ELSE Middle(legs, q, "short_put", "long_put"),
     call |-> Natural(legs, q, "short_call", "long_call"),
     callMid |-> Middle(legs, q, "short_call", "long_call")]

Blank == [strikes |-> None, putQty |-> 0, callQty |-> 0, putCredit |-> None, putMid |-> None,
          callMid |-> None, total |-> None, mid |-> None, risk |-> None, profit |-> None]

\* Mutant: the risk of one put spread.
TridentPricedOnce(k, p) ==
    LET mid == 2 * p.putMid + p.callMid
    IN [Blank EXCEPT !.putQty = 2, !.callQty = 1, !.putCredit = p.put, !.putMid = p.putMid,
                     !.callMid = p.callMid, !.total = 2 * p.put + p.call, !.mid = mid,
                     !.risk = k.width - mid, !.profit = 3 * mid]

TridentPriced(k, p) ==
    LET mid == 2 * p.putMid + p.callMid
    IN [Blank EXCEPT !.putQty = 2, !.callQty = 1, !.putCredit = p.put, !.putMid = p.putMid,
                     !.callMid = p.callMid, !.total = 2 * p.put + p.call, !.mid = mid,
                     !.risk = Max({2 * k.width, k.width}) - mid, !.profit = 3 * mid]

CreditPriced(k, p, side) ==
    LET mid == IF side = "put" THEN p.putMid ELSE p.callMid
    IN IF side = "put"
       THEN [Blank EXCEPT !.putQty = 1, !.putCredit = p.put, !.putMid = mid, !.total = p.put,
                          !.mid = mid, !.risk = k.width - mid, !.profit = mid]
       ELSE [Blank EXCEPT !.callQty = 1, !.callMid = mid, !.total = p.call,
                          !.mid = mid, !.risk = k.width - mid, !.profit = mid]

\* The arguments of the call that computes the profit are swapped.
DebitPriced(k, p, side) ==
    LET debit == Distance(IF side = "put" THEN p.putMid ELSE p.callMid, 0)
        paid == [Blank EXCEPT !.total = -debit, !.mid = -debit, !.risk = debit,
                              !.profit = debit - k.width]
    IN IF side = "put"
       THEN [paid EXCEPT !.putQty = 1, !.putCredit = -Distance(p.put, 0), !.putMid = -debit]
       ELSE [paid EXCEPT !.callQty = 1, !.callMid = -debit]

ShortCondorPriced(k, p) ==
    LET mid == p.putMid + p.callMid
    IN [Blank EXCEPT !.putQty = 1, !.callQty = 1, !.putCredit = p.putMid, !.total = p.put + p.call,
                     !.mid = mid, !.risk = k.width - mid, !.profit = mid]

\* Bought at the ask of what it buys and sold at the bid of what it sells.
LongCondorPriced(k, p, q) ==
    LET debit == q["short_put"].ask + q["short_call"].ask - q["long_put"].bid - q["long_call"].bid
    IN [Blank EXCEPT !.putQty = 1, !.callQty = 1, !.putCredit = p.putMid, !.total = -debit,
                     !.mid = -debit, !.risk = debit, !.profit = k.width - debit]

ButterflyPriced(k, p) ==
    LET mid == p.putMid + p.callMid
    IN [Blank EXCEPT !.putQty = 1, !.callQty = 1, !.putCredit = p.putMid, !.total = p.put + p.call,
                     !.mid = mid, !.risk = k.width - mid, !.profit = mid]

CallBackPriced(k, q) ==
    LET net == MidOf(q["short_call"]) - 2 * MidOf(q["long_call"])
    IN [Blank EXCEPT !.callQty = 2, !.total = net, !.mid = net,
                     !.risk = k.strikes["long_call"] - k.strikes["short_call"] - net]

PutBackPriced(k, q) ==
    LET net == MidOf(q["short_put"]) - 2 * MidOf(q["long_put"])
    IN [Blank EXCEPT !.putQty = 2, !.putCredit = net, !.total = net, !.mid = net,
                     !.risk = k.strikes["short_put"] - k.strikes["long_put"] - net]

SecuredPriced(k, p) ==
    [Blank EXCEPT !.putQty = 1, !.putCredit = p.putMid, !.total = p.putMid, !.mid = p.putMid,
                  !.risk = k.strikes["put_strike"] - p.putMid, !.profit = p.putMid]

Priced(r, k, q) ==
    LET p == Pricing(DOMAIN k.strikes, q)
        made == CASE r.strategy = "senex_trident" -> TridentPriced(k, p)
                  [] r.strategy = "short_put_vertical" -> CreditPriced(k, p, "put")
                  [] r.strategy = "short_call_vertical" -> CreditPriced(k, p, "call")
                  [] r.strategy = "long_call_vertical" -> DebitPriced(k, p, "call")
                  [] r.strategy = "long_put_vertical" -> DebitPriced(k, p, "put")
                  [] r.strategy = "short_iron_condor" -> ShortCondorPriced(k, p)
                  [] r.strategy = "long_iron_condor" -> LongCondorPriced(k, p, q)
                  [] r.strategy = "iron_butterfly" -> ButterflyPriced(k, p)
                  [] r.strategy = "long_call_ratio_backspread" -> CallBackPriced(k, q)
                  [] r.strategy = "long_put_ratio_backspread" -> PutBackPriced(k, q)
                  [] r.strategy = "cash_secured_put" -> SecuredPriced(k, p)
    IN [made EXCEPT !.strikes = k.strikes]

\* Forcing a suggestion turns a refusal of the risk manager into a warning,
\* except for the Trident and the debit spreads.
Overrides(r) == r.force /\ r.strategy \notin {"senex_trident", "long_call_vertical", "long_put_vertical"}

-----------------------------------------------------------------------------
(* The opening order.                                                        *)

SpreadLegs(side, strikes, n) ==
    LET short == strikes[IF side = "put" THEN "short_put" ELSE "short_call"]
        long == strikes[IF side = "put" THEN "long_put" ELSE "long_call"]
    IN {[side |-> side, strike |-> short, qty |-> -n], [side |-> side, strike |-> long, qty |-> n]}

TridentLegs(s) ==
    SpreadLegs("put", s.strikes, s.putQty)
        \cup (IF s.callQty > 0 THEN SpreadLegs("call", s.strikes, s.callQty) ELSE {})

PutOrders == {"short_put_vertical", "long_put_vertical"}
CallOrders == {"short_call_vertical", "long_call_vertical"}

\* Every strategy but the verticals goes to the builder of the Trident, which
\* refuses other quantities than two put spreads and at most one call spread.
OrderLegs(r, s) ==
    CASE r.strategy \in PutOrders -> SpreadLegs("put", s.strikes, s.putQty)
      [] r.strategy \in CallOrders -> SpreadLegs("call", s.strikes, s.callQty)
      [] OTHER -> IF s.putQty = 2 /\ s.callQty \in {0, 1} THEN TridentLegs(s) ELSE None

\* ExecutionValidator.validate_senex_trident_structure
ValidTrident(r, s) ==
    r.strategy = "senex_trident" =>
        /\ s.putQty = 2 /\ s.callQty \in {0, 1}
        /\ s.total > 0 /\ s.putCredit > 0

NetCredit(s, custom) == IF custom # None THEN custom ELSE s.mid

\* Order limits are credits: a suggestion that costs money needs a custom one.
Credits(net) == net > 0

-----------------------------------------------------------------------------
(* The Trident's profit targets.                                             *)

ClosingLegs(side, strikes) ==
    {[leg EXCEPT !.qty = -leg.qty] : leg \in SpreadLegs(side, strikes, 1)}

\* round_option_price: to the nearest cent.  No such percentage of whole cents lies
\* halfway, so the tie that goes to the even cent does not arise.
Rounded(x, p) == (x * p + 50) \div 100

Target(spread, side, s, credit, percent) ==
    [spread |-> spread, legs |-> ClosingLegs(side, s.strikes), price |-> Rounded(credit, 100 - percent)]

PutTarget(spread, s, quantity, percent) ==
    IF s.putQty >= quantity /\ s.putMid # 0
    THEN {Target(spread, "put", s, s.putMid, percent)} ELSE {}

CallTarget(s) ==
    IF s.callQty >= 1 /\ s.callMid # 0
    THEN {Target("call_spread", "call", s, s.callMid, 40)} ELSE {}

\* Mutant: the second put spread is left out.
TridentTargetsTwo(s) == PutTarget("put_spread_1", s, 1, 40) \cup CallTarget(s)

\* Prices are taken from the middle at the time of the suggestion.
TridentTargets(s) ==
    PutTarget("put_spread_1", s, 1, 40) \cup PutTarget("put_spread_2", s, 2, 60) \cup CallTarget(s)

\* What the other strategies specify are dictionaries without an order_spec, which
\* the service gives up on.
Specified(r) == r.strategy = "senex_trident"

-----------------------------------------------------------------------------

Init ==
    /\ request \in Requests
    /\ prepared = None /\ suggestion = None /\ order = None /\ targets = {}
    /\ stage = "asked"

Prepare ==
    /\ stage = "asked"
    /\ prepared' = StrikesFor(request)
    /\ stage' = IF prepared' = None THEN "refused" ELSE "prepared"
    /\ UNCHANGED <<request, suggestion, order, targets>>

\* A leg without a quote stops it, and so does a risk that may not be taken;
\* a suggestion that is only shown is not checked.
Suggest(q, canOpen) ==
    /\ stage = "prepared"
    /\ IF /\ \A l \in DOMAIN prepared.strikes : q[l] # None
          /\ request.suggesting \/ canOpen \/ Overrides(request)
       THEN suggestion' = Priced(request, prepared, q) /\ stage' = "suggested"
       ELSE stage' = "refused" /\ UNCHANGED suggestion
    /\ UNCHANGED <<request, prepared, order, targets>>

Execute(custom) ==
    LET legs == OrderLegs(request, suggestion)
        net == NetCredit(suggestion, custom)
    IN /\ stage = "suggested"
       /\ IF ValidTrident(request, suggestion) /\ legs # None /\ Credits(net)
          THEN order' = [legs |-> legs, credit |-> net] /\ stage' = "ordered"
          ELSE stage' = "refused" /\ UNCHANGED order
       /\ UNCHANGED <<request, prepared, suggestion, targets>>

PlaceTargets ==
    /\ stage = "ordered" /\ Specified(request)
    /\ targets' = TridentTargets(suggestion)
    /\ stage' = "targeted"
    /\ UNCHANGED <<request, prepared, suggestion, order>>

Next ==
    \/ Prepare
    \/ \E q \in Quotes, canOpen \in BOOLEAN : Suggest(q, canOpen)
    \/ \E custom \in Custom \cup {None} : Execute(custom)
    \/ PlaceTargets

Spec == Init /\ [][Next]_vars

-----------------------------------------------------------------------------
(* What must hold.                                                           *)

TypeOK ==
    /\ request \in Requests
    /\ stage \in {"asked", "prepared", "suggested", "ordered", "targeted", "refused"}
    /\ stage \in {"prepared", "suggested", "ordered", "targeted"} =>
          DOMAIN prepared.strikes \subseteq PutLegs \cup CallLegs
    /\ stage = "suggested" => suggestion.putQty \in 0..2 /\ suggestion.callQty \in 0..2
    /\ order # None => order.credit > 0 /\ \A leg \in order.legs : leg.qty # 0

\* However far the strikes found are from those asked for, no spread has its
\* two legs on one strike or on the wrong side of each other.  A butterfly, whose
\* short call is put on the strike found for the put, needs a chain that lists puts
\* and calls alike.
StrikesOrdered ==
    prepared # None =>
        LET k == prepared.strikes
            both(a, b) == {a, b} \subseteq DOMAIN k
        IN /\ both("short_put", "long_put") => k["long_put"] < k["short_put"]
           /\ both("short_call", "long_call") =>
                 \/ k["short_call"] < k["long_call"]
                 \/ request.strategy = "iron_butterfly" /\ prepared.chain.puts # prepared.chain.calls

\* The contracts of each leg in the position a strategy's documentation describes.
Described(r) ==
    LET spreads(n, m) == [short_put |-> -n, long_put |-> n, short_call |-> -m, long_call |-> m]
    IN CASE r.strategy = "senex_trident" -> spreads(2, 1)
         [] r.strategy \in PutOrders -> [short_put |-> -1, long_put |-> 1]
         [] r.strategy \in CallOrders -> [short_call |-> -1, long_call |-> 1]
         [] r.strategy \in {"short_iron_condor", "iron_butterfly"} -> spreads(1, 1)
         [] r.strategy = "long_iron_condor" -> spreads(-1, -1)
         [] r.strategy = "long_call_ratio_backspread" -> [short_call |-> -1, long_call |-> 2]
         [] r.strategy = "long_put_ratio_backspread" -> [short_put |-> -1, long_put |-> 2]
         [] r.strategy = "cash_secured_put" -> [put_strike |-> -1]

Intrinsic(leg, strike, s) ==
    LET over == IF leg \in PutLegs THEN strike - s ELSE s - strike IN IF over > 0 THEN over ELSE 0

\* What a position is worth at expiration when the underlying stands at s.
Worth(contracts, k, s) ==
    LET Part(leg) == IF leg \in DOMAIN contracts
                     THEN contracts[leg] * Intrinsic(leg, k[leg], s) ELSE 0
    IN Part("short_put") + Part("long_put") + Part("short_call") + Part("long_call")
         + Part("put_strike")

\* Where that can be smallest: at a strike, at zero or far above.
Turns(k) == LET strikes == {k[l] : l \in DOMAIN k} IN strikes \cup {0, 2 * Max(strikes)}

\* The strikes are no further apart than the width the risk was computed with.
AsNarrow(k) ==
    LET Narrow(a, b) == {a, b} \subseteq DOMAIN k.strikes =>
                            Distance(k.strikes[a], k.strikes[b]) <= k.width
    IN k.width # None => Narrow("short_put", "long_put") /\ Narrow("short_call", "long_call")

Debits == {"long_call_vertical", "long_put_vertical"}

\* The risk the budget is asked for is the most the described position can lose
\* if it opens at the middle price and the strikes are as narrow as planned.
\* (A debit spread has the strikes of a credit spread: its risk means nothing.)
WithinRisk ==
    suggestion # None /\ request.strategy \notin Debits /\ AsNarrow(prepared) =>
        LET k == suggestion.strikes
        IN \A s \in Turns(k) : Worth(Described(request), k, s) + suggestion.mid >= -suggestion.risk

\* The leg that trades one contract of a leg back.
Back(leg) == [leg EXCEPT !.qty = IF leg.qty > 0 THEN -1 ELSE 1]

\* The profit targets of a Trident close exactly what its order opened, contract
\* by contract, and, if it opened at the suggestion's own price, cost less than it
\* brought.
TargetsUndoTheOrder ==
    stage = "targeted" /\ suggestion.callMid > 0 =>
        /\ \A leg \in order.legs :
              Cardinality({t \in targets : Back(leg) \in t.legs}) = Distance(leg.qty, 0)
        /\ \A t \in targets : \A leg \in t.legs : \E opened \in order.legs : leg = Back(opened)
        /\ order.credit = suggestion.mid =>
              /\ Cardinality(targets) = 3
              /\ \A t, u, v \in targets :
                    Cardinality({t, u, v}) = 3 => t.price + u.price + v.price < order.credit

\* An order has the legs its strategy's documentation describes.
OrderIsTheStrategy ==
    order # None =>
        LET n == Described(request)
        IN order.legs = {[side |-> IF l \in PutLegs THEN "put" ELSE "call",
                          strike |-> suggestion.strikes[l], qty |-> n[l]] : l \in DOMAIN n}

=============================================================================
