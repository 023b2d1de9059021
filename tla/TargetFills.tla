----------------------------- MODULE TargetFills -----------------------------
(***************************************************************************)
(* A Senex Trident position with its three profit-target orders working at *)
(* the broker, and the two services that book their fills:                 *)
(*                                                                         *)
(*   Syncs  - runs of sync_all_positions, which finds fills in the cached  *)
(*            order history (services/positions/sync.py);                  *)
(*   Fixers - runs of fix_incomplete_profit_targets, which asks the broker *)
(*            about each order, books what filled and places again what it *)
(*            finds missing (services/positions/lifecycle/                 *)
(*            trade_reconciliation_service.py).                            *)
(*                                                                         *)
(* The position starts as _create_profit_targets_for_trade left it.  Each  *)
(* database statement or broker call is one action; row[p] is the Position *)
(* object process p holds, read earlier and saved later.  Both services    *)
(* run again and again: a process that is done is idle.                    *)
(***************************************************************************)
EXTENDS Integers, Sequences, FiniteSets

CONSTANTS
  Syncs, Fixers,
  Alone,          \* runs that no other run overlaps, as in one orchestrator run
  Failures,       \* which of FailureKinds may happen
  OtherHoldings,  \* does the account hold positions in other underlyings?
  Credits,        \* may original_credit be recorded in the details? \subseteq BOOLEAN
  MaxOrders       \* bound: orders ever placed for the position

FailureKinds ==
  { "partial",   \* some targets were refused when the position was opened
    "cancel",    \* a working target is cancelled, rejected or expires
    "error",     \* get_order fails, or reports a status in transit
    "refuse" }   \* the broker refuses a target that is placed again

Procs == Syncs \cup Fixers

Spreads == {"put_spread_1", "put_spread_2", "call_spread"}
Kinds   == {"put", "call"}

Kind(spread) == IF spread = "call_spread" THEN "call" ELSE "put"

\* Spreads of each kind in the opening order; both put spreads share their legs.
Opened == [put |-> 2, call |-> 1]
Total  == 3

ASSUME TargetFillsAssumption ==
  /\ Syncs \cap Fixers = {}
  /\ Alone \subseteq Procs
  /\ Failures \subseteq FailureKinds
  /\ OtherHoldings \in BOOLEAN
  /\ Credits \subseteq BOOLEAN /\ Credits # {}
  /\ MaxOrders \in Nat /\ MaxOrders >= Total

VARIABLES
  orders,     \* the target orders at the broker, numbered from 1
  history,    \* orders that the local order history shows as Filled
  position,   \* the row of the position
  counted,    \* history: how often each order took a contract off
  pc, row, held, matched, seen, todo, valid, new

local == <<row, held, matched, seen, todo, valid, new>>
vars == <<orders, history, position, counted, pc, local>>

OrderId == 1..MaxOrders
Null    == 0     \* order_id is None
Absent  == -1    \* profit_target_details has no entry

\* An entry of profit_target_details.
Target ==
  [order : OrderId \cup {Null, Absent}, filled : BOOLEAN, credit : BOOLEAN]
NoTarget == [order |-> Absent, filled |-> FALSE, credit |-> FALSE]
NewTarget(o) == [order |-> o, filled |-> FALSE, credit |-> FALSE]

Unknown == -1    \* metadata has no "original_quantity"

PositionRow ==
  [ quantity  : 0..Total,
    lifecycle : {"open_full", "open_partial", "closed"},
    details   : [Spreads -> Target],
    created   : BOOLEAN,
    pnl       : Nat,                       \* fills counted in total_realized_pnl
    legs      : [Kinds -> 0..2],           \* metadata["legs"], as spreads
    original  : 0..Total \cup {Unknown} ]  \* metadata["original_quantity"]

IsOpen(r) == r.lifecycle # "closed"

Held == [k \in Kinds |->
           Opened[k] - Cardinality({o \in DOMAIN orders :
                         orders[o].status = "filled" /\ Kind(orders[o].spread) = k})]

Flat(legs) == \A k \in Kinds : legs[k] = 0

\* The order in which the opening submits the spreads.
Place == [put_spread_1 |-> 1, put_spread_2 |-> 2, call_spread |-> 3]

Locations ==
  { "idle", "holdings", "load", "query", "refresh", "book", "meta", "list", "close",
    "fresh", "check", "submit" } \cup Spreads

\* What the opening left: orders for n accepted spreads, in their order, and the
\* i-th id under the i-th spread.
OpenedWith(n, taken, credit) ==
  /\ n = Total \/ "partial" \in Failures
  /\ \A i, j \in 1..n : i < j => Place[taken[i]] < Place[taken[j]]
  /\ orders = [i \in 1..n |-> [spread |-> taken[i], status |-> "live"]]
  /\ position =
       [ quantity |-> Total, lifecycle |-> "open_full",
         details |-> [s \in Spreads |->
           [ order |-> IF Place[s] <= n THEN Place[s] ELSE Null,
             filled |-> FALSE, credit |-> credit ]],
         created |-> n = Total, pnl |-> 0, legs |-> Opened, original |-> Unknown ]

Init ==
  /\ \E n \in 0..Total : \E taken \in [1..n -> Spreads], credit \in Credits :
       OpenedWith(n, taken, credit)
  /\ history = {}
  /\ counted = [o \in OrderId |-> 0]
  /\ pc = [p \in Procs |-> "idle"]
  /\ row = [p \in Procs |-> position]
  /\ held = [s \in Syncs |-> Opened]
  /\ matched = [s \in Syncs |-> Opened]
  /\ seen = [s \in Syncs |-> {}]
  /\ todo = [f \in Fixers |-> {}]
  /\ valid = [f \in Fixers |-> {}]
  /\ new = [f \in Fixers |-> [s \in Spreads |-> Null]]

Goto(p, l) == pc' = [pc EXCEPT ![p] = l]

\* A run that is alone starts when no other is under way, and none starts meanwhile.
MayStart(p) ==
  \A q \in Procs : pc[q] # "idle" => p \notin Alone /\ q \notin Alone

-----------------------------------------------------------------------------
(* The broker.  An order closes one spread, so it fills only while the     *)
(* account still holds a spread of its kind.                               *)

BrokerFills(o) ==
  /\ orders[o].status = "live"
  /\ Held[Kind(orders[o].spread)] > 0
  /\ orders' = [orders EXCEPT ![o].status = "filled"]
  /\ UNCHANGED <<history, position, counted, pc, local>>

BrokerCancels(o) ==
  /\ "cancel" \in Failures
  /\ orders[o].status = "live"
  /\ orders' = [orders EXCEPT ![o].status = "cancelled"]
  /\ UNCHANGED <<history, position, counted, pc, local>>

-----------------------------------------------------------------------------
(* Booking fills on a row: contracts go, and the lifecycle follows.        *)

Original(r) == IF r.original = Unknown THEN r.quantity ELSE r.original

WithOriginal(r) == [r EXCEPT !.original = Original(r)]

Left(r, hits) ==
  IF Cardinality(hits) > r.quantity THEN 0 ELSE r.quantity - Cardinality(hits)

MarkFilled(details, hits) ==
  [s \in Spreads |-> IF s \in hits THEN [details[s] EXCEPT !.filled = TRUE] ELSE details[s]]

\* Mutant: the last contract but one closes the position.
LifecycleEarly(r, left) ==
  IF left <= 1 THEN "closed"
  ELSE IF left < Original(r) THEN "open_partial" ELSE r.lifecycle

LifecycleFor(r, left) ==
  IF left = 0 THEN "closed"
  ELSE IF left < Original(r) THEN "open_partial" ELSE r.lifecycle

\* Mutant: every fill on the row is taken off, not the new ones alone.
WithFillsRecounted(r, hits) ==
  LET left == r.quantity - Cardinality({s \in Spreads : s \in hits \/ r.details[s].filled})
  IN [r EXCEPT !.quantity = left, !.lifecycle = LifecycleFor(r, left),
               !.details = MarkFilled(r.details, hits), !.original = Original(r)]

\* A fill counts in the realized P&L only if its entry has an original_credit.
WithFills(r, hits) ==
  [ quantity  |-> Left(r, hits),
    lifecycle |-> LifecycleFor(r, Left(r, hits)),
    details   |-> MarkFilled(r.details, hits),
    created   |-> r.created,
    pnl       |-> r.pnl + Cardinality({s \in hits : r.details[s].credit}),
    legs      |-> r.legs,
    original  |-> Original(r) ]

(***************************************************************************)
(* sync_all_positions.                                                     *)
(***************************************************************************)

\* Mutant: every order in a final state goes for filled.
SyncOrdersEnded(s) ==
  /\ pc[s] = "idle" /\ MayStart(s)
  /\ history' = {o \in DOMAIN orders : orders[o].status # "live"}
  /\ Goto(s, "holdings")
  /\ UNCHANGED <<orders, position, counted, local>>

\* It first brings the order history up to date ...
SyncOrders(s) ==
  /\ pc[s] = "idle" /\ MayStart(s)
  /\ history' = {o \in DOMAIN orders : orders[o].status = "filled"}
  /\ Goto(s, "holdings")
  /\ UNCHANGED <<orders, position, counted, local>>

\* Mutant: a position the account no longer holds ends the sync.
SyncHoldingsStops(s) ==
  /\ pc[s] = "holdings"
  /\ held' = [held EXCEPT ![s] = Held]
  /\ Goto(s, IF Flat(Held) THEN "idle" ELSE "load")
  /\ UNCHANGED <<orders, history, position, counted>>
  /\ UNCHANGED <<row, matched, seen, todo, valid, new>>

\* ... then reads what the account holds: nothing at all ends the sync.
SyncHoldings(s) ==
  /\ pc[s] = "holdings"
  /\ held' = [held EXCEPT ![s] = Held]
  /\ Goto(s, IF Flat(Held) /\ ~OtherHoldings THEN "idle" ELSE "load")
  /\ UNCHANGED <<orders, history, position, counted>>
  /\ UNCHANGED <<row, matched, seen, todo, valid, new>>

\* _load_app_managed_positions.
SyncLoad(s) ==
  /\ pc[s] = "load"
  /\ row' = [row EXCEPT ![s] = position]
  /\ Goto(s, IF IsOpen(position) THEN "query" ELSE "list")
  /\ UNCHANGED <<orders, history, position, counted>>
  /\ UNCHANGED <<held, matched, seen, todo, valid, new>>

\* Of some orders, those that the local history shows as Filled.
FilledAmong(ids) == ids \cap history

\* What filled targets took off the legs of one kind: the orders are asked for again,
\* by the ids of the entries that are booked.
ClosedQuantity(r, k) ==
  Cardinality({s \in Spreads :
    /\ Kind(s) = k
    /\ r.details[s].filled
    /\ r.details[s].order \in FilledAmong({r.details[s].order})})

\* The legs of the opening order less those of targets booked as filled, as far
\* as the account still holds the leg.
MatchedLegs(r, holds) ==
  [k \in Kinds |->
     IF holds[k] > 0 /\ ClosedQuantity(r, k) < Opened[k]
       THEN Opened[k] - ClosedQuantity(r, k) ELSE 0]

\* Orders of the row that are not booked and show as Filled in the history.
FilledOrders(r) ==
  FilledAmong({r.details[s].order : s \in {x \in Spreads : ~r.details[x].filled}})

\* A position without matching legs is skipped; targets are only reconciled
\* once all of them were created.
SyncQuery(s) ==
  LET legs == MatchedLegs(row[s], held[s])
      fills == IF row[s].created THEN FilledOrders(row[s]) ELSE {}
  IN /\ pc[s] = "query"
     /\ matched' = [matched EXCEPT ![s] = legs]
     /\ seen' = [seen EXCEPT ![s] = fills]
     /\ Goto(s, IF Flat(legs) THEN "list"
                ELSE IF fills = {} THEN "meta" ELSE "refresh")
     /\ UNCHANGED <<orders, history, position, counted>>
     /\ UNCHANGED <<row, held, todo, valid, new>>

\* The spreads whose recorded order is among the fills, booked or not.
Hits(r, fills) == {s \in Spreads : \E o \in fills : r.details[s].order = o}

\* position.refresh_from_db() without a lock, and the booking on that row, which gets
\* its original quantity in any case.
SyncRefresh(s) ==
  LET hits == Hits(position, seen[s])
  IN /\ pc[s] = "refresh"
     /\ row' = [row EXCEPT ![s] =
                  IF hits = {} THEN WithOriginal(position)
                               ELSE WithFills(position, hits)]
     /\ Goto(s, IF hits = {} THEN "meta" ELSE "book")
     /\ UNCHANGED <<orders, history, position, counted>>
     /\ UNCHANGED <<held, matched, seen, todo, valid, new>>

\* position.save(update_fields=[...]) of the booking.
SyncBook(s) ==
  /\ pc[s] = "book"
  /\ position' = [row[s] EXCEPT !.created = position.created]
  /\ counted' = [o \in OrderId |->
       counted[o] + IF o \in seen[s] /\ \E t \in Spreads : row[s].details[t].order = o
                      THEN 1 ELSE 0]
  /\ Goto(s, "meta")
  /\ UNCHANGED <<orders, history, local>>

\* The metadata of the row in memory is saved with the legs matched above.
SyncMeta(s) ==
  /\ pc[s] = "meta"
  /\ position' = [position EXCEPT !.legs = matched[s], !.original = row[s].original]
  /\ Goto(s, "list")
  /\ UNCHANGED <<orders, history, counted, local>>

\* _close_positions_not_at_broker lists the open positions whose underlying the
\* account does not hold ...
SyncList(s) ==
  /\ pc[s] = "list"
  /\ row' = [row EXCEPT ![s] = position]
  /\ Goto(s, IF IsOpen(position) /\ Flat(held[s]) THEN "close" ELSE "idle")
  /\ UNCHANGED <<orders, history, position, counted>>
  /\ UNCHANGED <<held, matched, seen, todo, valid, new>>

\* Mutant: quantity is missing from update_fields.
SyncCloseKeepsQuantity(s) ==
  /\ pc[s] = "close"
  /\ position' = [position EXCEPT !.lifecycle = "closed",
                    !.legs = row[s].legs, !.original = row[s].original]
  /\ Goto(s, "idle")
  /\ UNCHANGED <<orders, history, counted, local>>

\* ... and closes each of them.
SyncClose(s) ==
  /\ pc[s] = "close"
  /\ position' = [position EXCEPT !.lifecycle = "closed", !.quantity = 0,
                    !.legs = row[s].legs, !.original = row[s].original]
  /\ Goto(s, "idle")
  /\ UNCHANGED <<orders, history, counted, local>>

(***************************************************************************)
(* fix_incomplete_profit_targets.                                          *)
(***************************************************************************)

\* The open positions are listed.
FixList(f) ==
  /\ pc[f] = "idle" /\ MayStart(f)
  /\ IsOpen(position)
  /\ row' = [row EXCEPT ![f] = position]
  /\ Goto(f, "fresh")
  /\ UNCHANGED <<orders, history, position, counted>>
  /\ UNCHANGED <<held, matched, seen, todo, valid, new>>

\* _get_open_spread_types_from_position: by the legs in metadata, counted.
OpenSpreads(legs) ==
  {s \in Spreads :
     \/ s = "call_spread"  /\ legs["call"] >= 1
     \/ s = "put_spread_1" /\ legs["put"] >= 1
     \/ s = "put_spread_2" /\ legs["put"] >= 2}

\* Guard 4 reads the lifecycle anew, and only the lifecycle.
FixFresh(f) ==
  /\ pc[f] = "fresh"
  /\ todo' = [todo EXCEPT ![f] = {s \in Spreads : row[f].details[s] # NoTarget}]
  /\ valid' = [valid EXCEPT ![f] = {}]
  /\ new' = [new EXCEPT ![f] = [s \in Spreads |-> Null]]
  /\ Goto(f, IF IsOpen(position) /\ OpenSpreads(row[f].legs) # {}
               THEN "check" ELSE "idle")
  /\ UNCHANGED <<orders, history, position, counted>>
  /\ UNCHANGED <<row, held, matched, seen>>

StatusOf(o) == IF o \in DOMAIN orders THEN orders[o].status ELSE "unknown"

\* One spread was looked at; good when its order need not be placed again.
Checked(f, s, good) ==
  /\ todo' = [todo EXCEPT ![f] = @ \ {s}]
  /\ valid' = [valid EXCEPT ![f] = IF good THEN @ \cup {s} ELSE @]
  /\ UNCHANGED <<orders, history, row, held, matched, seen, new>>

\* An entry without order id, or whose order is live, counts as valid.
FixKeep(f, s) ==
  LET o == row[f].details[s].order
  IN /\ pc[f] = "check" /\ s \in todo[f]
     /\ o = Null \/ StatusOf(o) = "live"
     /\ Checked(f, s, TRUE)
     /\ UNCHANGED <<position, counted, pc>>

\* The order is cancelled, rejected or expired, or the broker does not say.
FixDrop(f, s) ==
  LET o == row[f].details[s].order
  IN /\ pc[f] = "check" /\ s \in todo[f]
     /\ o # Null
     /\ StatusOf(o) = "cancelled" \/ "error" \in Failures
     /\ Checked(f, s, FALSE)
     /\ UNCHANGED <<position, counted, pc>>

\* get_order says Filled: _process_filled_profit_target comes next.
FixSeesFill(f, s) ==
  LET o == row[f].details[s].order
  IN /\ pc[f] = "check" /\ s \in todo[f]
     /\ StatusOf(o) = "filled"
     /\ Goto(f, s)
     /\ UNCHANGED <<orders, history, position, counted, local>>

\* Mutant: a spread that is booked already is not skipped.
FixBookAgain(f, s) ==
  LET o == row[f].details[s].order
      entry == IF position.details[s] = NoTarget
                 THEN NewTarget(o)
                 ELSE [position.details[s] EXCEPT !.order = o]
  IN /\ pc[f] = s
     /\ position' = WithFills([position EXCEPT !.details[s] = entry], {s})
     /\ counted' = [counted EXCEPT ![o] = @ + 1]
     /\ Checked(f, s, TRUE)
     /\ Goto(f, "check")

\* Mutant: the booking starts from the row listed earlier.
FixBookStale(f, s) ==
  LET o == row[f].details[s].order
  IN /\ pc[f] = s
     /\ IF row[f].details[s].filled
          THEN UNCHANGED <<position, counted>>
          ELSE /\ position' = WithFills(row[f], {s})
               /\ counted' = [counted EXCEPT ![o] = @ + 1]
     /\ Checked(f, s, TRUE)
     /\ Goto(f, "check")

\* _process_filled_profit_target, under the row lock; it skips what is booked.
\* The entry is made if need be and given the order id that was checked.
FixBook(f, s) ==
  LET o == row[f].details[s].order
      entry == IF position.details[s] = NoTarget
                 THEN NewTarget(o)
                 ELSE [position.details[s] EXCEPT !.order = o]
  IN /\ pc[f] = s
     /\ IF position.details[s].filled
          THEN UNCHANGED <<position, counted>>
          ELSE /\ position' = WithFills([position EXCEPT !.details[s] = entry], {s})
               /\ counted' = [counted EXCEPT ![o] = @ + 1]
     /\ Checked(f, s, TRUE)
     /\ Goto(f, "check")

\* _find_existing_live_order_for_spread never finds one: it decorates its query with
\* a sync_to_async that is not in its scope, and catches the NameError.
ExistingOrder(s) == Null

\* Step 3: open spreads without a valid order, nor another live one, are placed again.
FixDecide(f) ==
  LET missing == {s \in OpenSpreads(row[f].legs) \ valid[f] : ExistingOrder(s) = Null}
  IN /\ pc[f] = "check" /\ todo[f] = {}
     /\ todo' = [todo EXCEPT ![f] = missing]
     /\ Goto(f, IF missing = {} THEN "idle" ELSE "submit")
     /\ UNCHANGED <<orders, history, position, counted>>
     /\ UNCHANGED <<row, held, matched, seen, valid, new>>

\* create_profit_targets_sync, filtered to the missing spreads, places them.
FixPlaces(f, s) ==
  /\ pc[f] = "submit" /\ s \in todo[f]
  /\ Len(orders) < MaxOrders
  /\ orders' = Append(orders, [spread |-> s, status |-> "live"])
  /\ new' = [new EXCEPT ![f][s] = Len(orders) + 1]
  /\ todo' = [todo EXCEPT ![f] = @ \ {s}]
  /\ UNCHANGED <<history, position, counted, pc, row, held, matched, seen, valid>>

FixRefused(f, s) ==
  /\ "refuse" \in Failures
  /\ pc[f] = "submit" /\ s \in todo[f]
  /\ todo' = [todo EXCEPT ![f] = @ \ {s}]
  /\ UNCHANGED <<orders, history, position, counted, pc, row, held, matched, seen>>
  /\ UNCHANGED <<valid, new>>

\* With preserve_existing=False the details are replaced by the new entries, and
\* position.save() writes every other field as it was listed.
FixSave(f) ==
  LET placed == {s \in Spreads : new[f][s] # Null}
  IN /\ pc[f] = "submit" /\ todo[f] = {}
     /\ IF placed = {} THEN UNCHANGED position
        ELSE position' =
               [row[f] EXCEPT
                  !.details = [s \in Spreads |->
                     IF s \in placed THEN NewTarget(new[f][s]) ELSE NoTarget],
                  !.created = placed = Spreads]
     /\ Goto(f, "idle")
     /\ UNCHANGED <<orders, history, counted, local>>

-----------------------------------------------------------------------------
SyncStep(s) ==
  \/ SyncOrders(s) \/ SyncHoldings(s) \/ SyncLoad(s) \/ SyncQuery(s)
  \/ SyncRefresh(s) \/ SyncBook(s) \/ SyncMeta(s) \/ SyncList(s) \/ SyncClose(s)

FixStep(f) ==
  \/ FixList(f) \/ FixFresh(f) \/ FixDecide(f) \/ FixSave(f)
  \/ \E s \in Spreads :
       \/ FixKeep(f, s) \/ FixDrop(f, s) \/ FixSeesFill(f, s) \/ FixBook(f, s)
       \/ FixPlaces(f, s) \/ FixRefused(f, s)

Broker == \E o \in DOMAIN orders : BrokerFills(o) \/ BrokerCancels(o)

Next ==
  \/ Broker
  \/ \E s \in Syncs : SyncStep(s)
  \/ \E f \in Fixers : FixStep(f)

Spec == Init /\ [][Next]_vars

\* Celery beat starts the reconciliation again and again; the broker owes nothing.
FairSpec ==
  /\ Spec
  /\ \A s \in Syncs : WF_vars(SyncStep(s))
  /\ \A f \in Fixers : WF_vars(FixStep(f))

-----------------------------------------------------------------------------
(***************************************************************************)
(* Properties.                                                             *)
(***************************************************************************)

\* The rows, the orders and the processes keep their shape.
TypeOK ==
  /\ orders \in Seq([spread : Spreads, status : {"live", "filled", "cancelled"}])
  /\ Len(orders) <= MaxOrders
  /\ history \subseteq DOMAIN orders
  /\ position \in PositionRow
  /\ counted \in [OrderId -> Nat]
  /\ pc \in [Procs -> Locations]
  /\ row \in [Procs -> PositionRow]
  /\ held \in [Syncs -> [Kinds -> Int]]
  /\ matched \in [Syncs -> [Kinds -> 0..2]]
  /\ seen \in [Syncs -> SUBSET OrderId]
  /\ todo \in [Fixers -> SUBSET Spreads]
  /\ valid \in [Fixers -> SUBSET Spreads]
  /\ new \in [Fixers -> [Spreads -> OrderId \cup {Null}]]

\* A spread is only booked as filled when the order recorded for it filled at the
\* broker, whatever stale row was saved in between.
BookedIsFilled ==
  \A s \in Spreads :
    position.details[s].filled =>
      orders[position.details[s].order].status = "filled"

\* A fill takes one contract off the position, however many runs come upon it:
\* "This prevents double-counting P&L or incorrect quantity updates".
CountedOnce == \A o \in OrderId : counted[o] <= 1

\* The position is closed in the database only when the account holds none of
\* its spreads any more.
ClosedMeansFlat == ~IsOpen(position) => Flat(Held)

\* The lifecycle of a row agrees with its quantity.
Agrees(r) == IsOpen(r) <=> r.quantity # 0

\* The lifecycle follows the quantity through every save of a stale row.
ClosedIffEmpty == Agrees(position)

\* A fill that was booked stays booked: no later save takes the entry back.
BookedForGood ==
  [][\A s \in Spreads : position.details[s].filled => position'.details[s].filled]_position

\* Never two working orders for one spread.
OneWorkingOrder ==
  \A i, j \in DOMAIN orders :
    /\ orders[i].status = "live" /\ orders[j].status = "live"
    /\ orders[i].spread = orders[j].spread
    => i = j

\* Every contract taken off has its profit or loss in total_realized_pnl.
RealizedPnl == position.pnl = Total - position.quantity

\* What the two services promise together: see FillLedger.
Ledger == INSTANCE FillLedger WITH
  Contracts <- Spreads,
  booked    <- {s \in Spreads : position.details[s].filled},
  quantity  <- position.quantity,
  lifecycle <- position.lifecycle

BooksLedger == Ledger!LedgerSpec

\* Once all three targets have filled, the position is eventually closed for good.
EventuallyClosed ==
  (\A o \in 1..Total : o \in DOMAIN orders /\ orders[o].status = "filled")
    ~> [](~IsOpen(position))

\* A target that could not be placed at first is placed later, or its position
\* closes: "leave it False so reconciliation can retry".
MissingRetried ==
  (\E s \in Spreads : position.details[s].order = Null)
    ~> (\A s \in Spreads : position.details[s].order # Null)
=============================================================================
