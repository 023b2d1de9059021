------------------------- MODULE TargetFills_proofs -------------------------
(***************************************************************************)
(* Proofs about TargetFills for any number of syncs and reconciliation     *)
(* runs: the types and the two facts about the row that hold through every *)
(* save of a stale copy, whatever overlaps; then the refinement of         *)
(* FillLedger by reconciliation runs that overlap as they like while the   *)
(* syncs run alone.                                                        *)
(***************************************************************************)
EXTENDS TargetFills, FiniteSetTheorems, SequenceTheorems, TLAPS

\* The three spreads are finitely many.
LEMMA SpreadsFinite == IsFiniteSet(Spreads)
<1>1. IsFiniteSet({"put_spread_1"})
  BY FS_EmptySet, FS_AddElement, {} \cup {"put_spread_1"} = {"put_spread_1"}
<1>2. IsFiniteSet({"put_spread_1"} \cup {"put_spread_2"})
  BY <1>1, FS_AddElement
<1>3. IsFiniteSet(({"put_spread_1"} \cup {"put_spread_2"}) \cup {"call_spread"})
  BY <1>2, FS_AddElement
<1> QED
  BY <1>3, ({"put_spread_1"} \cup {"put_spread_2"}) \cup {"call_spread"} = Spreads
     DEF Spreads

\* So a set of them has a size, which is zero only of the empty set.
LEMMA SpreadsCount ==
  ASSUME NEW S \in SUBSET Spreads
  PROVE  Cardinality(S) \in Nat /\ (Cardinality(S) = 0 => S = {})
<1>1. IsFiniteSet(S)
  BY SpreadsFinite, FS_Subset
<1> QED
  BY <1>1, FS_CardinalityType, FS_EmptySet

\* Filling in the original quantity changes nothing else.
LEMMA WithOriginalRow ==
  ASSUME NEW r \in PositionRow
  PROVE  /\ WithOriginal(r) \in PositionRow
         /\ WithOriginal(r).details = r.details
         /\ Agrees(r) => Agrees(WithOriginal(r))
<1>1. Original(r) \in 0..Total \cup {Unknown}
  BY DEF Original, PositionRow
<1>2. WithOriginal(r) \in PositionRow /\ WithOriginal(r).details = r.details
  BY <1>1 DEF WithOriginal, PositionRow
<1>3. WithOriginal(r).quantity = r.quantity /\ WithOriginal(r).lifecycle = r.lifecycle
  BY DEF WithOriginal, PositionRow
<1> QED
  BY <1>2, <1>3 DEF Agrees, IsOpen

\* Booking fills gives a row again, and one whose lifecycle agrees if it did.
LEMMA WithFillsRow ==
  ASSUME NEW r \in PositionRow, NEW hits \in SUBSET Spreads
  PROVE  /\ WithFills(r, hits) \in PositionRow
         /\ Agrees(r) => Agrees(WithFills(r, hits))
<1> DEFINE paid == Cardinality({s \in hits : r.details[s].credit})
<1>1. Cardinality(hits) \in Nat /\ paid \in Nat
  <2>1. {s \in hits : r.details[s].credit} \in SUBSET Spreads
    OBVIOUS
  <2> QED
    BY <2>1, SpreadsCount
<1>2. /\ r.quantity \in 0..Total
      /\ Original(r) \in 0..Total
      /\ Left(r, hits) \in 0..Total
      /\ Left(r, hits) <= r.quantity
  BY <1>1 DEF PositionRow, Unknown, Total, Original, Left
<1>3. MarkFilled(r.details, hits) \in [Spreads -> Target]
  BY DEF PositionRow, Target, MarkFilled
<1>4. LifecycleFor(r, Left(r, hits)) \in {"open_full", "open_partial", "closed"}
  BY DEF PositionRow, LifecycleFor
<1>5. r.pnl + paid \in Nat
  BY <1>1 DEF PositionRow
<1>6. WithFills(r, hits) \in PositionRow
  BY <1>2, <1>3, <1>4, <1>5 DEF WithFills, PositionRow
<1>7. Agrees(r) => Agrees(WithFills(r, hits))
  BY <1>2 DEF WithFills, PositionRow, Agrees, IsOpen, LifecycleFor, Total
<1> QED
  BY <1>6, <1>7

\* What the account holds is counted from finitely many orders.
LEMMA HeldIsInt ==
  ASSUME TypeOK PROVE Held \in [Kinds -> Int]
<1> SUFFICES ASSUME NEW k \in Kinds
             PROVE  Opened[k] - Cardinality({o \in DOMAIN orders :
                        orders[o].status = "filled" /\ Kind(orders[o].spread) = k}) \in Int
  BY DEF Held
<1> DEFINE gone == {o \in DOMAIN orders :
                      orders[o].status = "filled" /\ Kind(orders[o].spread) = k}
<1>1. DOMAIN orders = 1..Len(orders) /\ Len(orders) \in Int
  BY DEF TypeOK
<1>2. IsFiniteSet(gone)
  BY <1>1, FS_Interval, FS_Subset, gone \subseteq 1..Len(orders), 1 \in Int
<1>3. Cardinality(gone) \in Nat
  BY <1>2, FS_CardinalityType
<1>4. Opened[k] \in Int
  BY DEF Opened, Kinds
<1> QED
  BY <1>3, <1>4

\* At most two spreads are of one kind, so that many legs are matched.
LEMMA MatchedLegsType ==
  ASSUME NEW r \in PositionRow, NEW holds
  PROVE  MatchedLegs(r, holds) \in [Kinds -> 0..2]
<1> DEFINE legs(k) == IF holds[k] > 0 /\ ClosedQuantity(r, k) < Opened[k]
                        THEN Opened[k] - ClosedQuantity(r, k) ELSE 0
<1>1. ASSUME NEW k \in Kinds PROVE legs(k) \in 0..2
  <2>1. ClosedQuantity(r, k) \in Nat
    BY SpreadsCount DEF ClosedQuantity
  <2>2. Opened[k] \in 0..2
    BY DEF Opened, Kinds
  <2> QED
    BY <2>1, <2>2
<1>2. MatchedLegs(r, holds) = [k \in Kinds |-> legs(k)]
  BY DEF MatchedLegs
<1> QED
  BY <1>1, <1>2

\* Orders of a row that show in the history are order ids.
LEMMA OrdersAreIds ==
  ASSUME TypeOK
  PROVE  DOMAIN orders = 1..Len(orders) /\ DOMAIN orders \subseteq OrderId
         /\ Len(orders) \in Nat
  BY TargetFillsAssumption DEF TypeOK, OrderId

\* The broker changes the status of an order and nothing else.
LEMMA StatusChange ==
  ASSUME TypeOK, NEW o \in DOMAIN orders, NEW st \in {"live", "filled", "cancelled"},
         orders' = [orders EXCEPT ![o].status = st]
  PROVE  /\ orders' \in Seq([spread : Spreads, status : {"live", "filled", "cancelled"}])
         /\ Len(orders') = Len(orders) /\ DOMAIN orders' = DOMAIN orders
         /\ orders'[o].status = st
         /\ \A p \in DOMAIN orders : p # o => orders'[p] = orders[p]
<1> DEFINE Order == [spread : Spreads, status : {"live", "filled", "cancelled"}]
           changed == [orders[o] EXCEPT !.status = st]
<1>1. orders \in Seq(Order) /\ o \in 1..Len(orders)
  BY DEF TypeOK
<1>2. changed \in Order /\ changed.status = st
  <2>1. orders[o] \in Order
    <3> HIDE DEF Order
    <3> QED
      BY <1>1, ElementOfSeq
  <2>2. changed = [spread |-> orders[o].spread, status |-> st]
    BY <2>1
  <2>3. orders[o].spread \in Spreads
    BY <2>1
  <2> QED
    BY <2>2, <2>3
<1>3. orders' = [orders EXCEPT ![o] = changed]
  BY <1>1
<1> HIDE DEF changed, Order
<1>4. /\ orders' \in Seq(Order) /\ Len(orders') = Len(orders)
      /\ \A j \in 1..Len(orders) : orders'[j] = IF j = o THEN changed ELSE orders[j]
  BY <1>1, <1>2, <1>3, ExceptSeq
<1>5. DOMAIN orders' = DOMAIN orders /\ DOMAIN orders = 1..Len(orders)
  BY <1>1, <1>3
<1> QED
  BY <1>1, <1>2, <1>4, <1>5 DEF Order

-----------------------------------------------------------------------------
\* Every opening leaves rows of the right shape.
LEMMA TypeInit == Init => TypeOK
<1> SUFFICES ASSUME Init PROVE TypeOK
  OBVIOUS
<1>1. PICK n \in 0..Total :
        \E t \in [1..n -> Spreads], c \in Credits : OpenedWith(n, t, c)
  BY DEF Init
<1>2. PICK taken \in [1..n -> Spreads], credit \in Credits : OpenedWith(n, taken, credit)
  BY <1>1
<1>3. /\ Total = 3 /\ MaxOrders \in Nat /\ MaxOrders >= 3 /\ n \in 0..3
      /\ credit \in BOOLEAN
  BY TargetFillsAssumption DEF Total
<1>4. /\ orders \in Seq([spread : Spreads, status : {"live", "filled", "cancelled"}])
      /\ Len(orders) = n
  BY <1>2, <1>3 DEF OpenedWith
<1>5. position \in PositionRow
  <2>1. ASSUME NEW s \in Spreads
        PROVE  [order |-> IF Place[s] <= n THEN Place[s] ELSE Null,
                filled |-> FALSE, credit |-> credit] \in Target
    <3>1. Place[s] \in OrderId
      BY <1>3 DEF Place, OrderId, Spreads
    <3> QED
      BY <3>1, <1>3 DEF Target
  <2>2. (n = Total) \in BOOLEAN /\ Opened \in [Kinds -> 0..2]
    BY DEF Opened, Kinds
  <2> QED
    BY <1>2, <1>3, <2>1, <2>2 DEF OpenedWith, PositionRow
<1>6. Opened \in [Kinds -> Int] /\ Opened \in [Kinds -> 0..2]
  BY DEF Opened, Kinds
<1> QED
  BY <1>3, <1>4, <1>5, <1>6 DEF Init, TypeOK, Locations, Procs

\* Every action keeps the rows, the orders and the processes within their types.
LEMMA TypeStep == TypeOK /\ [Next]_vars => TypeOK'
<1> SUFFICES ASSUME TypeOK, [Next]_vars PROVE TypeOK'
  OBVIOUS
<1> USE DEF TypeOK, local, Procs
<1>1. CASE UNCHANGED vars
  BY <1>1 DEF vars, local
<1>2. ASSUME NEW o \in DOMAIN orders, BrokerFills(o) \/ BrokerCancels(o) PROVE TypeOK'
  <2>1. CASE BrokerFills(o)
    <3>1. orders' = [orders EXCEPT ![o].status = "filled"]
      BY <2>1 DEF BrokerFills
    <3> QED
      BY <2>1, <3>1, StatusChange DEF BrokerFills
  <2>2. CASE BrokerCancels(o)
    <3>1. orders' = [orders EXCEPT ![o].status = "cancelled"]
      BY <2>2 DEF BrokerCancels
    <3> QED
      BY <2>2, <3>1, StatusChange DEF BrokerCancels
  <2> QED
    BY <1>2, <2>1, <2>2
<1>3. ASSUME NEW s \in Syncs, SyncStep(s) PROVE TypeOK'
  <2>1. CASE SyncOrders(s)
    BY <2>1 DEF SyncOrders, Goto, Locations
  <2>2. CASE SyncHoldings(s)
    BY <2>2, HeldIsInt DEF SyncHoldings, Goto, Locations
  <2>3. CASE SyncLoad(s)
    BY <2>3 DEF SyncLoad, Goto, Locations
  <2>4. CASE SyncQuery(s)
    <3>1. MatchedLegs(row[s], held[s]) \in [Kinds -> 0..2]
      BY MatchedLegsType
    <3>2. FilledOrders(row[s]) \subseteq OrderId
      BY OrdersAreIds DEF FilledOrders, FilledAmong
    <3> QED
      BY <2>4, <3>1, <3>2 DEF SyncQuery, Goto, Locations
  <2>5. CASE SyncRefresh(s)
    <3>1. WithFills(position, Hits(position, seen[s])) \in PositionRow
      BY WithFillsRow DEF Hits
    <3>2. WithOriginal(position) \in PositionRow
      BY WithOriginalRow
    <3> QED
      BY <2>5, <3>1, <3>2 DEF SyncRefresh, Goto, Locations
  <2>6. CASE SyncBook(s)
    <3>1. [row[s] EXCEPT !.created = position.created] \in PositionRow
      BY DEF PositionRow
    <3>2. counted' \in [OrderId -> Nat]
      BY <2>6 DEF SyncBook
    <3> QED
      BY <2>6, <3>1, <3>2 DEF SyncBook, Goto, Locations
  <2>7. CASE SyncMeta(s)
    BY <2>7 DEF SyncMeta, PositionRow, Goto, Locations
  <2>8. CASE SyncList(s)
    BY <2>8 DEF SyncList, Goto, Locations
  <2>9. CASE SyncClose(s)
    <3>1. [position EXCEPT !.lifecycle = "closed", !.quantity = 0,
             !.legs = row[s].legs, !.original = row[s].original] \in PositionRow
      <4>1. 0 \in 0..Total
        BY DEF Total
      <4> QED
        BY <4>1 DEF PositionRow
    <3>2. position' \in PositionRow
      BY <2>9, <3>1 DEF SyncClose
    <3> QED
      BY <2>9, <3>2 DEF SyncClose, Goto, Locations
  <2> QED
    BY <1>3, <2>1, <2>2, <2>3, <2>4, <2>5, <2>6, <2>7, <2>8, <2>9 DEF SyncStep
<1>4. ASSUME NEW f \in Fixers, FixStep(f) PROVE TypeOK'
  <2>1. CASE FixList(f)
    BY <2>1 DEF FixList, Goto, Locations
  <2>2. CASE FixFresh(f)
    BY <2>2 DEF FixFresh, Goto, Locations
  <2>3. CASE FixDecide(f)
    BY <2>3 DEF FixDecide, OpenSpreads, Goto, Locations
  <2>4. CASE FixSave(f)
    <3> DEFINE placed == {s \in Spreads : new[f][s] # Null}
               details == [s \in Spreads |->
                  IF s \in placed THEN NewTarget(new[f][s]) ELSE NoTarget]
    <3>1. details \in [Spreads -> Target]
      BY DEF NewTarget, NoTarget, Target
    <3>2. [row[f] EXCEPT !.details = details, !.created = placed = Spreads] \in PositionRow
      BY <3>1 DEF PositionRow
    <3>3. position' \in PositionRow
      BY <2>4, <3>2 DEF FixSave
    <3> QED
      BY <2>4, <3>3 DEF FixSave, Goto, Locations
  <2>5. ASSUME NEW s \in Spreads, FixKeep(f, s) \/ FixDrop(f, s) PROVE TypeOK'
    <3>1. /\ UNCHANGED <<orders, history, row, held, matched, seen, new>>
          /\ UNCHANGED <<position, counted, pc>>
          /\ \E good \in BOOLEAN : Checked(f, s, good)
      BY <2>5 DEF FixKeep, FixDrop, Checked
    <3> QED
      BY <3>1 DEF Checked
  <2>6. ASSUME NEW s \in Spreads, FixSeesFill(f, s) PROVE TypeOK'
    BY <2>6 DEF FixSeesFill, Goto, Locations
  <2>7. ASSUME NEW s \in Spreads, FixBook(f, s) PROVE TypeOK'
    <3> DEFINE o == row[f].details[s].order
               entry == IF position.details[s] = NoTarget
                          THEN NewTarget(o)
                          ELSE [position.details[s] EXCEPT !.order = o]
               given == [position EXCEPT !.details[s] = entry]
    <3>1. o \in OrderId \cup {Null, Absent} /\ position.details[s] \in Target
      BY DEF PositionRow, Target
    <3>2. entry \in Target
      BY <3>1 DEF NewTarget, Target
    <3> HIDE DEF entry
    <3>3. given \in PositionRow
      BY <3>2 DEF PositionRow
    <3>4. WithFills(given, {s}) \in PositionRow
      BY <3>3, WithFillsRow
    <3>5. position' \in PositionRow /\ counted' \in [OrderId -> Nat]
      BY <2>7, <3>4 DEF FixBook, entry
    <3> QED
      BY <2>7, <3>5 DEF FixBook, Checked, Goto, Locations
  <2>8. ASSUME NEW s \in Spreads, FixPlaces(f, s) PROVE TypeOK'
    <3>1. /\ orders' = Append(orders, [spread |-> s, status |-> "live"])
          /\ Len(orders) < MaxOrders
      BY <2>8 DEF FixPlaces
    <3>2. orders' \in Seq([spread : Spreads, status : {"live", "filled", "cancelled"}])
      BY <3>1
    <3>3. /\ Len(orders') = Len(orders) + 1
          /\ Len(orders) + 1 \in OrderId
          /\ DOMAIN orders \subseteq DOMAIN orders'
      BY <3>1, TargetFillsAssumption DEF OrderId
    <3>4. Len(orders') <= MaxOrders
      BY <3>1, <3>3, TargetFillsAssumption
    <3> QED
      BY <2>8, <3>2, <3>3, <3>4 DEF FixPlaces
  <2>9. ASSUME NEW s \in Spreads, FixRefused(f, s) PROVE TypeOK'
    BY <2>9 DEF FixRefused
  <2> QED
    BY <1>4, <2>1, <2>2, <2>3, <2>4, <2>5, <2>6, <2>7, <2>8, <2>9 DEF FixStep
<1> QED
  BY <1>1, <1>2, <1>3, <1>4 DEF Next, Broker

\* The type invariant, for any number of processes and every failure.
THEOREM TypeCorrect == Spec => []TypeOK
  BY TypeInit, TypeStep, PTL DEF Spec
-----------------------------------------------------------------------------
\* The position and every copy of it agree on lifecycle and quantity.
RowsAgree == ClosedIffEmpty /\ \A p \in Procs : Agrees(row[p])

LEMMA AgreeInit == Init => RowsAgree
<1> SUFFICES ASSUME Init PROVE RowsAgree
  OBVIOUS
<1>1. position.quantity = 3 /\ position.lifecycle = "open_full"
  BY DEF Init, OpenedWith, Total
<1>2. Agrees(position)
  BY <1>1 DEF Agrees, IsOpen
<1> QED
  BY <1>2 DEF Init, RowsAgree, ClosedIffEmpty

\* A save writes a row that agrees, or touches neither field.
LEMMA AgreeStep == TypeOK /\ RowsAgree /\ [Next]_vars => RowsAgree'
<1> SUFFICES ASSUME TypeOK, RowsAgree, [Next]_vars PROVE RowsAgree'
  OBVIOUS
<1>0. /\ position \in PositionRow /\ Agrees(position)
      /\ row \in [Procs -> PositionRow] /\ \A p \in Procs : Agrees(row[p])
  BY DEF TypeOK, RowsAgree, ClosedIffEmpty
<1>a. ASSUME UNCHANGED <<position, row>> PROVE RowsAgree'
  BY <1>0, <1>a DEF RowsAgree, ClosedIffEmpty, Agrees, IsOpen
<1>b. ASSUME NEW p \in Procs, NEW r, Agrees(r),
             UNCHANGED position, row' = [row EXCEPT ![p] = r]
      PROVE  RowsAgree'
  BY <1>0, <1>b DEF RowsAgree, ClosedIffEmpty, Agrees, IsOpen
<1>c. ASSUME NEW r, Agrees(r), position' = r, UNCHANGED row PROVE RowsAgree'
  BY <1>0, <1>c DEF RowsAgree, ClosedIffEmpty, Agrees, IsOpen
<1>1. CASE UNCHANGED vars
  BY <1>1, <1>a DEF vars, local
<1>2. CASE Broker
  BY <1>2, <1>a DEF Broker, BrokerFills, BrokerCancels, local
<1>3. ASSUME NEW s \in Syncs, SyncStep(s) PROVE RowsAgree'
  <2> s \in Procs
    BY DEF Procs
  <2>1. CASE SyncOrders(s) \/ SyncHoldings(s) \/ SyncQuery(s)
    BY <2>1, <1>a DEF SyncOrders, SyncHoldings, SyncQuery, local
  <2>2. CASE SyncLoad(s)
    BY <2>2, <1>0, <1>b DEF SyncLoad
  <2>3. CASE SyncRefresh(s)
    <3>1. Agrees(WithFills(position, Hits(position, seen[s])))
      BY <1>0, WithFillsRow DEF Hits
    <3>2. Agrees(WithOriginal(position))
      BY <1>0, WithOriginalRow
    <3> QED
      BY <2>3, <3>1, <3>2, <1>0, <1>b DEF SyncRefresh
  <2>4. CASE SyncBook(s)
    <3>1. Agrees([row[s] EXCEPT !.created = position.created])
      BY <1>0 DEF Agrees, IsOpen, PositionRow
    <3> QED
      BY <2>4, <3>1, <1>c DEF SyncBook, local
  <2>5. CASE SyncMeta(s)
    <3>1. Agrees([position EXCEPT !.legs = matched[s], !.original = row[s].original])
      BY <1>0 DEF Agrees, IsOpen, PositionRow
    <3> QED
      BY <2>5, <3>1, <1>c DEF SyncMeta, local
  <2>6. CASE SyncList(s)
    BY <2>6, <1>0, <1>b DEF SyncList
  <2>7. CASE SyncClose(s)
    <3>1. Agrees([position EXCEPT !.lifecycle = "closed", !.quantity = 0,
                    !.legs = row[s].legs, !.original = row[s].original])
      BY <1>0 DEF Agrees, IsOpen, PositionRow
    <3> QED
      BY <2>7, <3>1, <1>c DEF SyncClose, local
  <2> QED
    BY <1>3, <2>1, <2>2, <2>3, <2>4, <2>5, <2>6, <2>7 DEF SyncStep
<1>4. ASSUME NEW f \in Fixers, FixStep(f) PROVE RowsAgree'
  <2> f \in Procs
    BY DEF Procs
  <2>1. CASE FixList(f)
    BY <2>1, <1>0, <1>b DEF FixList
  <2>2. CASE FixFresh(f) \/ FixDecide(f)
    BY <2>2, <1>a DEF FixFresh, FixDecide
  <2>3. CASE FixSave(f)
    <3> DEFINE placed == {s \in Spreads : new[f][s] # Null}
               saved == [row[f] EXCEPT
                  !.details = [s \in Spreads |->
                     IF s \in placed THEN NewTarget(new[f][s]) ELSE NoTarget],
                  !.created = placed = Spreads]
    <3>1. Agrees(saved)
      BY <1>0 DEF Agrees, IsOpen, PositionRow
    <3>2. UNCHANGED row /\ (UNCHANGED position \/ position' = saved)
      BY <2>3 DEF FixSave, local
    <3> HIDE DEF saved
    <3> QED
      BY <3>1, <3>2, <1>a, <1>c
  <2>4. ASSUME NEW s \in Spreads,
               \/ FixKeep(f, s) \/ FixDrop(f, s) \/ FixSeesFill(f, s)
               \/ FixPlaces(f, s) \/ FixRefused(f, s)
        PROVE  RowsAgree'
    <3>1. UNCHANGED <<position, row>>
      BY <2>4 DEF FixKeep, FixDrop, FixSeesFill, FixPlaces, FixRefused, Checked, local
    <3> QED
      BY <3>1, <1>a
  <2>5. ASSUME NEW s \in Spreads, FixBook(f, s) PROVE RowsAgree'
    <3> DEFINE o == row[f].details[s].order
               entry == IF position.details[s] = NoTarget
                          THEN NewTarget(o)
                          ELSE [position.details[s] EXCEPT !.order = o]
               given == [position EXCEPT !.details[s] = entry]
    <3>1. /\ o \in OrderId \cup {Null, Absent}
          /\ position.details[s] \in Target /\ row[f] \in PositionRow
      BY <1>0 DEF PositionRow, Target
    <3>2. entry \in Target
      BY <3>1 DEF NewTarget, Target
    <3>3. UNCHANGED row /\ (UNCHANGED position \/ position' = WithFills(given, {s}))
      BY <2>5 DEF FixBook, Checked
    <3> HIDE DEF entry
    <3>4. given \in PositionRow /\ Agrees(given)
      BY <3>2, <1>0 DEF PositionRow, Agrees, IsOpen
    <3>5. Agrees(WithFills(given, {s}))
      BY <3>4, WithFillsRow
    <3> QED
      BY <3>3, <3>5, <1>a, <1>c
  <2> QED
    BY <1>4, <2>1, <2>2, <2>3, <2>4, <2>5 DEF FixStep
<1> QED
  BY <1>1, <1>2, <1>3, <1>4 DEF Next

\* The position is closed exactly when no contract is left of it, through every
\* save of a stale row by any number of syncs and reconciliation runs.
THEOREM ClosedExactlyWhenEmpty == Spec => []ClosedIffEmpty
<1>1. RowsAgree => ClosedIffEmpty
  BY DEF RowsAgree
<1> QED
  BY <1>1, AgreeInit, AgreeStep, TypeCorrect, PTL DEF Spec
-----------------------------------------------------------------------------
\* Orders that filled, and rows that book no other.
FilledSet == {o \in DOMAIN orders : orders[o].status = "filled"}

BooksOnly(r, F) == \A s \in Spreads : r.details[s].filled => r.details[s].order \in F

\* What every row in the database or in memory says of fills, and what the
\* processes have read of them, is true of the broker's orders.
FillsAreReal ==
  /\ BooksOnly(position, FilledSet)
  /\ \A p \in Procs : BooksOnly(row[p], FilledSet)
  /\ history \subseteq FilledSet
  /\ \A s \in Syncs : seen[s] \subseteq FilledSet
  /\ \A f \in Fixers, s \in Spreads :
       pc[f] = s => row[f].details[s].order \in FilledSet

\* A filled order stays filled.
LEMMA FilledStays == TypeOK /\ [Next]_vars => FilledSet \subseteq FilledSet'
<1> SUFFICES ASSUME TypeOK, [Next]_vars PROVE FilledSet \subseteq FilledSet'
  OBVIOUS
<1>1. ASSUME UNCHANGED orders PROVE FilledSet \subseteq FilledSet'
  BY <1>1 DEF FilledSet
<1>2. ASSUME NEW o \in DOMAIN orders, BrokerFills(o) \/ BrokerCancels(o)
      PROVE  FilledSet \subseteq FilledSet'
  <2>1. PICK st \in {"live", "filled", "cancelled"} :
          orders' = [orders EXCEPT ![o].status = st]
    BY <1>2 DEF BrokerFills, BrokerCancels
  <2>2. orders[o].status = "live"
    BY <1>2 DEF BrokerFills, BrokerCancels
  <2> QED
    BY <2>1, <2>2, StatusChange DEF FilledSet
<1>3. ASSUME NEW f \in Fixers, NEW s \in Spreads, FixPlaces(f, s)
      PROVE  FilledSet \subseteq FilledSet'
  <2>1. orders' = Append(orders, [spread |-> s, status |-> "live"])
    BY <1>3 DEF FixPlaces
  <2>2. /\ DOMAIN orders \subseteq DOMAIN orders'
        /\ \A o \in DOMAIN orders : orders'[o] = orders[o]
    BY <2>1 DEF TypeOK
  <2> QED
    BY <2>2 DEF FilledSet
<1>4. CASE UNCHANGED vars
  BY <1>4, <1>1 DEF vars
<1>5. ASSUME NEW s \in Syncs, SyncStep(s) PROVE UNCHANGED orders
  BY <1>5 DEF SyncStep, SyncOrders, SyncHoldings, SyncLoad, SyncQuery, SyncRefresh,
       SyncBook, SyncMeta, SyncList, SyncClose
<1>6. ASSUME NEW f \in Fixers, FixStep(f)
      PROVE  UNCHANGED orders \/ \E s \in Spreads : FixPlaces(f, s)
  BY <1>6 DEF FixStep, FixList, FixFresh, FixKeep, FixDrop, FixSeesFill, FixBook,
       FixDecide, FixRefused, FixSave, Checked
<1> QED
  BY <1>1, <1>2, <1>3, <1>4, <1>5, <1>6 DEF Next, Broker

LEMMA FillsInit == Init => FillsAreReal
<1> SUFFICES ASSUME Init PROVE FillsAreReal
  OBVIOUS
<1>1. \A s \in Spreads : ~position.details[s].filled
  BY DEF Init, OpenedWith
<1>2. \A f \in Fixers, s \in Spreads : pc[f] # s
  BY DEF Init, Spreads, Procs
<1> QED
  BY <1>1, <1>2 DEF Init, FillsAreReal, BooksOnly

\* Booking fills whose orders filled keeps a row truthful.
LEMMA BookingIsTrue ==
  ASSUME NEW r \in PositionRow, NEW hits \in SUBSET Spreads, NEW F,
         BooksOnly(r, F), \A s \in hits : r.details[s].order \in F
  PROVE  BooksOnly(WithFills(r, hits), F)
<1>1. WithFills(r, hits).details = MarkFilled(r.details, hits)
  BY DEF WithFills
<1>2. \A s \in Spreads : MarkFilled(r.details, hits)[s].order = r.details[s].order
  BY DEF MarkFilled, PositionRow, Target
<1>3. \A s \in Spreads \ hits : MarkFilled(r.details, hits)[s] = r.details[s]
  BY DEF MarkFilled
<1> QED
  BY <1>1, <1>2, <1>3 DEF BooksOnly

LEMMA FillsStep == TypeOK /\ FillsAreReal /\ [Next]_vars => FillsAreReal'
<1> SUFFICES ASSUME TypeOK, FillsAreReal, [Next]_vars PROVE FillsAreReal'
  OBVIOUS
<1> DEFINE F == FilledSet
           G == FilledSet'
<1>f. F \subseteq G
  BY FilledStays
<1>0. /\ position \in PositionRow /\ row \in [Procs -> PositionRow]
      /\ seen \in [Syncs -> SUBSET OrderId] /\ pc \in [Procs -> Locations]
      /\ BooksOnly(position, G) /\ \A p \in Procs : BooksOnly(row[p], G)
      /\ history \subseteq G /\ \A s \in Syncs : seen[s] \subseteq G
      /\ \A f \in Fixers, s \in Spreads : pc[f] = s => row[f].details[s].order \in G
  BY <1>f DEF TypeOK, FillsAreReal, BooksOnly
<1>r. FillsAreReal' <=>
        /\ BooksOnly(position', G) /\ \A p \in Procs : BooksOnly(row'[p], G)
        /\ history' \subseteq G /\ \A s \in Syncs : seen'[s] \subseteq G
        /\ \A f \in Fixers, s \in Spreads :
             pc'[f] = s => row'[f].details[s].order \in G
  BY DEF FillsAreReal, BooksOnly
<1> HIDE DEF F, G
<1>i. \A s \in Spreads : s \notin {"idle", "holdings", "load", "query", "refresh", "book",
                          "meta", "list", "close", "fresh", "check", "submit"}
  BY DEF Spreads
<1>1. CASE UNCHANGED vars
  BY <1>1, <1>0, <1>r DEF vars, local
<1>2. CASE Broker
  BY <1>2, <1>0, <1>r DEF Broker, BrokerFills, BrokerCancels, local
<1>3. ASSUME NEW s \in Syncs, SyncStep(s) PROVE FillsAreReal'
  <2>0. s \in Procs /\ s \notin Fixers
    BY TargetFillsAssumption DEF Procs
  <2>a. \E l : Goto(s, l)
    BY <1>3 DEF SyncStep, SyncOrders, SyncHoldings, SyncLoad, SyncQuery, SyncRefresh,
       SyncBook, SyncMeta, SyncList, SyncClose
  <2>b. \A f \in Fixers : pc'[f] = pc[f]
    BY <2>0, <2>a, <1>0 DEF Goto, Procs
  <2>1. CASE SyncOrders(s)
    <3>1. history' = F
      BY <2>1 DEF SyncOrders, F, FilledSet
    <3> QED
      BY <2>1, <3>1, <2>b, <1>0, <1>f, <1>r DEF SyncOrders, local
  <2>2. CASE SyncHoldings(s)
    BY <2>2, <2>b, <1>0, <1>r DEF SyncHoldings
  <2>3. CASE SyncLoad(s) \/ SyncList(s)
    <3>1. row' = [row EXCEPT ![s] = position]
          /\ UNCHANGED <<position, history, seen>>
      BY <2>3 DEF SyncLoad, SyncList
    <3> QED
      BY <3>1, <2>0, <2>b, <1>0, <1>r DEF Procs
  <2>4. CASE SyncQuery(s)
    <3>1. FilledOrders(row[s]) \subseteq G
      BY <1>0 DEF FilledOrders, FilledAmong
    <3>2. \E q \in SUBSET G : seen' = [seen EXCEPT ![s] = q]
      BY <2>4, <3>1 DEF SyncQuery
    <3>3. UNCHANGED <<position, history, row>>
      BY <2>4 DEF SyncQuery
    <3> QED
      BY <3>2, <3>3, <2>b, <1>0, <1>r
  <2>5. CASE SyncRefresh(s)
    <3> DEFINE hits == Hits(position, seen[s])
    <3>1. hits \in SUBSET Spreads /\ \A t \in hits : position.details[t].order \in G
      BY <1>0 DEF Hits
    <3>2. BooksOnly(WithFills(position, hits), G)
      BY <3>1, <1>0, BookingIsTrue
    <3>2a. BooksOnly(WithOriginal(position), G)
      BY <1>0, WithOriginalRow DEF BooksOnly
    <3>3. \E r : BooksOnly(r, G) /\ row' = [row EXCEPT ![s] = r]
      BY <2>5, <3>2, <3>2a, <1>0 DEF SyncRefresh
    <3>4. UNCHANGED <<position, history, seen>>
      BY <2>5 DEF SyncRefresh
    <3> QED
      BY <3>3, <3>4, <2>0, <2>b, <1>0, <1>r DEF Procs
  <2>6. CASE SyncBook(s)
    <3>1. position'.details = row[s].details
      BY <2>6, <2>0, <1>0 DEF SyncBook, PositionRow
    <3>2. UNCHANGED <<history, row, seen>>
      BY <2>6 DEF SyncBook, local
    <3> QED
      BY <3>1, <3>2, <2>0, <2>b, <1>0, <1>r DEF BooksOnly
  <2>7. CASE SyncMeta(s) \/ SyncClose(s)
    <3>1. position'.details = position.details
      BY <2>7, <1>0 DEF SyncMeta, SyncClose, PositionRow
    <3>2. UNCHANGED <<history, row, seen>>
      BY <2>7 DEF SyncMeta, SyncClose, local
    <3> QED
      BY <3>1, <3>2, <2>b, <1>0, <1>r DEF BooksOnly
  <2> QED
    BY <1>3, <2>1, <2>2, <2>3, <2>4, <2>5, <2>6, <2>7 DEF SyncStep
<1>4. ASSUME NEW f \in Fixers, FixStep(f) PROVE FillsAreReal'
  <2>0. f \in Procs
    BY DEF Procs
  <2>a. ASSUME pc' = pc \/ \E l : Goto(f, l) /\ l \notin Spreads,
               row' = row \/ (/\ row' = [row EXCEPT ![f] = position]
                              /\ \E l : Goto(f, l) /\ l \notin Spreads),
               BooksOnly(position', G), UNCHANGED <<history, seen>>
        PROVE  FillsAreReal'
    BY <2>a, <2>0, <1>0, <1>r DEF Goto, Procs
  <2>1. CASE FixList(f)
    BY <2>1, <2>a, <1>0, <1>i DEF FixList
  <2>2. CASE FixFresh(f) \/ FixDecide(f)
    <3>1. \E l : Goto(f, l) /\ l \notin Spreads
      BY <2>2, <1>i DEF FixFresh, FixDecide
    <3> QED
      BY <2>2, <3>1, <2>a, <1>0 DEF FixFresh, FixDecide
  <2>3. CASE FixSave(f)
    <3> DEFINE placed == {s \in Spreads : new[f][s] # Null}
               details == [s \in Spreads |->
                     IF s \in placed THEN NewTarget(new[f][s]) ELSE NoTarget]
    <3>1. \A s \in Spreads : ~details[s].filled
      BY DEF NewTarget, NoTarget
    <3>2. UNCHANGED position \/ position'.details = details
      BY <2>3, <2>0, <1>0 DEF FixSave, PositionRow
    <3>3. BooksOnly(position', G)
      BY <3>1, <3>2, <1>0 DEF BooksOnly
    <3> QED
      BY <2>3, <3>3, <2>a, <1>i DEF FixSave, local
  <2>4. ASSUME NEW s \in Spreads,
               \/ FixKeep(f, s) \/ FixDrop(f, s) \/ FixPlaces(f, s) \/ FixRefused(f, s)
        PROVE  FillsAreReal'
    <3>1. UNCHANGED <<pc, row, position, history, seen>>
      BY <2>4 DEF FixKeep, FixDrop, FixPlaces, FixRefused, Checked
    <3> QED
      BY <3>1, <1>0, <1>r
  <2>5. ASSUME NEW s \in Spreads, FixSeesFill(f, s) PROVE FillsAreReal'
    <3>1. row[f].details[s].order \in F
      BY <2>5 DEF FixSeesFill, StatusOf, F, FilledSet
    <3>2. pc' = [pc EXCEPT ![f] = s] /\ UNCHANGED <<row, position, history, seen>>
      BY <2>5 DEF FixSeesFill, Goto, local
    <3> QED
      BY <3>1, <3>2, <1>f, <1>0, <1>r
  <2>6. ASSUME NEW s \in Spreads, FixBook(f, s) PROVE FillsAreReal'
    <3> DEFINE o == row[f].details[s].order
               entry == IF position.details[s] = NoTarget
                          THEN NewTarget(o)
                          ELSE [position.details[s] EXCEPT !.order = o]
               given == [position EXCEPT !.details[s] = entry]
    <3>0. pc[f] = s /\ row[f] \in PositionRow
      BY <2>6, <2>0, <1>0 DEF FixBook
    <3>1. /\ o \in OrderId \cup {Null, Absent} /\ position.details[s] \in Target
          /\ o \in G
      <4>1. o \in OrderId \cup {Null, Absent} /\ position.details[s] \in Target
        BY <3>0, <1>0 DEF PositionRow, Target
      <4> QED
        BY <4>1, <3>0, <1>0
    <3>2. entry \in Target /\ entry.order = o
      BY <3>1 DEF NewTarget, Target
    <3>3. /\ UNCHANGED <<row, history, seen>> /\ Goto(f, "check")
          /\ UNCHANGED position \/ position' = WithFills(given, {s})
      BY <2>6 DEF FixBook, Checked
    <3> HIDE DEF entry, o
    <3>4. /\ given \in PositionRow /\ given.details[s].order \in G
          /\ BooksOnly(given, G)
      BY <3>1, <3>2, <1>0 DEF PositionRow, BooksOnly
    <3>5. BooksOnly(WithFills(given, {s}), G)
      BY <3>4, BookingIsTrue
    <3> QED
      BY <3>3, <3>5, <2>a, <1>0, <1>i
  <2> QED
    BY <1>4, <2>1, <2>2, <2>3, <2>4, <2>5, <2>6 DEF FixStep
<1> QED
  BY <1>1, <1>2, <1>3, <1>4 DEF Next

\* No spread is booked as filled unless its order filled at the broker, whatever
\* stale rows are saved in between and whatever fails.
THEOREM OnlyFillsAreBooked == Spec => []BookedIsFilled
<1>1. FillsAreReal => BookedIsFilled
  BY DEF FillsAreReal, BookedIsFilled, BooksOnly, FilledSet
<1> QED
  BY <1>1, FillsInit, FillsStep, TypeCorrect, PTL DEF Spec
-----------------------------------------------------------------------------
(***************************************************************************)
(* Runs that do not disturb each other: every sync has the position to     *)
(* itself, as in the orchestrator, and so has every reconciliation run,    *)
(* unless no target is cancelled, refused or unanswered, when it has       *)
(* nothing to place and its bookings under the row lock may overlap.       *)
(***************************************************************************)
Apart == Syncs \subseteq Alone /\ (Fixers \subseteq Alone \/ Failures \subseteq {"partial"})

Working == {"check"} \cup Spreads

\* A run that is alone has no other beside it.
Exclusive ==
  \A p, q \in Procs : p # q /\ p \in Alone => pc[p] = "idle" \/ pc[q] = "idle"

AllEntered(r) == \A s \in Spreads : r.details[s].order # Absent

\* Every target has its entry and no order was cancelled, so a run that checks a
\* spread finds it valid and nothing is missing.
NothingMissing ==
  /\ \A o \in DOMAIN orders : orders[o].status # "cancelled"
  /\ AllEntered(position)
  /\ \A p \in Procs : AllEntered(row[p])
  /\ \A f \in Fixers :
       /\ pc[f] # "submit"
       /\ pc[f] \in Working => todo[f] \cup valid[f] = Spreads

\* A spread is no location of a run's own.
LEMMA SpreadsApart ==
  /\ \A s \in Spreads : s \notin {"idle", "holdings", "load", "query", "refresh", "book",
                          "meta", "list", "close", "fresh", "check", "submit"}
  /\ \A l \in {"idle", "holdings", "load", "query", "refresh", "book", "meta", "list",
               "close", "fresh", "submit"} : l \notin Working
  BY DEF Spreads, Working

\* Booking changes no entry but for its mark.
LEMMA WithFillsDetails ==
  ASSUME NEW r \in PositionRow, NEW hits \in SUBSET Spreads
  PROVE  /\ \A s \in Spreads :
              /\ WithFills(r, hits).details[s].order = r.details[s].order
              /\ s \in hits => WithFills(r, hits).details[s].filled
              /\ s \notin hits => WithFills(r, hits).details[s] = r.details[s]
         /\ WithFills(r, hits).quantity = Left(r, hits)
         /\ WithFills(r, hits).lifecycle = LifecycleFor(r, Left(r, hits))
         /\ WithFills(r, hits).original = Original(r)
<1>1. WithFills(r, hits).details = MarkFilled(r.details, hits)
  BY DEF WithFills
<1>2. ASSUME NEW s \in Spreads
      PROVE  /\ MarkFilled(r.details, hits)[s].order = r.details[s].order
             /\ s \in hits => MarkFilled(r.details, hits)[s].filled
             /\ s \notin hits => MarkFilled(r.details, hits)[s] = r.details[s]
  BY DEF MarkFilled, PositionRow, Target
<1> QED
  BY <1>1, <1>2 DEF WithFills

\* A step of a run moves that run alone, and out of "idle" only when it may start.
LEMMA OwnStep ==
  ASSUME TypeOK, NEW p \in Procs,
         (p \in Syncs /\ SyncStep(p)) \/ (p \in Fixers /\ FixStep(p))
  PROVE  /\ pc[p] # "idle" \/ MayStart(p)
         /\ \A q \in Procs : q # p => pc'[q] = pc[q] /\ row'[q] = row[q]
         /\ \A q \in Syncs : q # p => /\ held'[q] = held[q] /\ seen'[q] = seen[q]
         /\ \A q \in Fixers : q # p => /\ todo'[q] = todo[q] /\ valid'[q] = valid[q]
                                       /\ new'[q] = new[q]
<1> USE SpreadsApart
<1>0. /\ pc \in [Procs -> Locations] /\ row \in [Procs -> PositionRow]
      /\ held \in [Syncs -> [Kinds -> Int]] /\ seen \in [Syncs -> SUBSET OrderId]
      /\ todo \in [Fixers -> SUBSET Spreads] /\ valid \in [Fixers -> SUBSET Spreads]
      /\ new \in [Fixers -> [Spreads -> OrderId \cup {Null}]]
  BY DEF TypeOK
<1>1. ASSUME p \in Syncs, SyncStep(p)
      PROVE  /\ pc[p] # "idle" \/ MayStart(p)
             /\ \E l : pc' = [pc EXCEPT ![p] = l]
             /\ \E r : row' = [row EXCEPT ![p] = r] \/ row' = row
             /\ \E h : held' = [held EXCEPT ![p] = h] \/ held' = held
             /\ \E h : seen' = [seen EXCEPT ![p] = h] \/ seen' = seen
             /\ UNCHANGED <<todo, valid, new>>
  <2>1. CASE SyncOrders(p)
    BY <2>1 DEF SyncOrders, Goto, local
  <2>2. CASE SyncHoldings(p)
    BY <2>2 DEF SyncHoldings, Goto
  <2>3. CASE SyncLoad(p)
    BY <2>3 DEF SyncLoad, Goto
  <2>4. CASE SyncQuery(p)
    BY <2>4 DEF SyncQuery, Goto
  <2>5. CASE SyncRefresh(p)
    BY <2>5 DEF SyncRefresh, Goto
  <2>6. CASE SyncBook(p)
    BY <2>6 DEF SyncBook, Goto, local
  <2>7. CASE SyncMeta(p)
    BY <2>7 DEF SyncMeta, Goto, local
  <2>8. CASE SyncList(p)
    BY <2>8 DEF SyncList, Goto
  <2>9. CASE SyncClose(p)
    BY <2>9 DEF SyncClose, Goto, local
  <2> QED
    BY <1>1, <2>1, <2>2, <2>3, <2>4, <2>5, <2>6, <2>7, <2>8, <2>9 DEF SyncStep
<1>2. ASSUME p \in Fixers, FixStep(p)
      PROVE  /\ pc[p] # "idle" \/ MayStart(p)
             /\ \E l : pc' = [pc EXCEPT ![p] = l] \/ pc' = pc
             /\ \E r : row' = [row EXCEPT ![p] = r] \/ row' = row
             /\ UNCHANGED <<held, seen>>
             /\ \E t : todo' = [todo EXCEPT ![p] = t] \/ todo' = todo
             /\ \E v : valid' = [valid EXCEPT ![p] = v] \/ valid' = valid
             /\ \E n : new' = [new EXCEPT ![p] = n] \/ new' = new
  <2>1. CASE FixList(p)
    BY <2>1 DEF FixList, Goto
  <2>2. CASE FixFresh(p)
    BY <2>2 DEF FixFresh, Goto
  <2>3. CASE FixDecide(p)
    BY <2>3 DEF FixDecide, Goto
  <2>4. CASE FixSave(p)
    BY <2>4 DEF FixSave, Goto, local
  <2>5. ASSUME NEW s \in Spreads, FixKeep(p, s) \/ FixDrop(p, s)
        PROVE  /\ pc[p] # "idle" /\ UNCHANGED <<pc, row, held, seen, new>>
               /\ \E t : todo' = [todo EXCEPT ![p] = t]
               /\ \E v : valid' = [valid EXCEPT ![p] = v]
    BY <2>5 DEF FixKeep, FixDrop, Checked
  <2>6. ASSUME NEW s \in Spreads, FixSeesFill(p, s)
        PROVE  /\ pc[p] # "idle" /\ UNCHANGED <<row, held, seen, todo, valid, new>>
               /\ \E l : pc' = [pc EXCEPT ![p] = l]
    BY <2>6 DEF FixSeesFill, Goto, local
  <2>7. ASSUME NEW s \in Spreads, FixBook(p, s)
        PROVE  /\ pc[p] # "idle" /\ UNCHANGED <<row, held, seen, new>>
               /\ \E l : pc' = [pc EXCEPT ![p] = l]
               /\ \E t : todo' = [todo EXCEPT ![p] = t]
               /\ \E v : valid' = [valid EXCEPT ![p] = v]
    BY <2>7 DEF FixBook, Checked, Goto
  <2>8. ASSUME NEW s \in Spreads, FixPlaces(p, s) \/ FixRefused(p, s)
        PROVE  /\ pc[p] # "idle" /\ UNCHANGED <<pc, row, held, seen, valid>>
               /\ \E t : todo' = [todo EXCEPT ![p] = t]
               /\ \E n : new' = [new EXCEPT ![p] = n] \/ new' = new
    BY <2>8 DEF FixPlaces, FixRefused
  <2> QED
    BY <1>2, <2>1, <2>2, <2>3, <2>4, <2>5, <2>6, <2>7, <2>8 DEF FixStep
<1>3. CASE p \in Syncs /\ SyncStep(p)
  BY <1>0, <1>1, <1>3
<1>4. CASE p \in Fixers /\ FixStep(p)
  BY <1>0, <1>2, <1>4
<1> QED
  BY <1>3, <1>4

LEMMA ExclusiveInit == Init => Exclusive
  BY DEF Init, Exclusive

LEMMA ExclusiveStep == TypeOK /\ Exclusive /\ [Next]_vars => Exclusive'
<1> SUFFICES ASSUME TypeOK, Exclusive, [Next]_vars PROVE Exclusive'
  OBVIOUS
<1>1. CASE UNCHANGED pc
  BY <1>1 DEF Exclusive
<1>2. ASSUME NEW p \in Procs,
             (p \in Syncs /\ SyncStep(p)) \/ (p \in Fixers /\ FixStep(p))
      PROVE  Exclusive'
  <2>1. /\ pc[p] # "idle" \/ MayStart(p)
        /\ \A q \in Procs : q # p => pc'[q] = pc[q]
    BY <1>2, OwnStep
  <2> QED
    BY <2>1 DEF Exclusive, MayStart
<1>3. CASE Broker
  BY <1>3, <1>1 DEF Broker, BrokerFills, BrokerCancels
<1>4. CASE UNCHANGED vars
  BY <1>4, <1>1 DEF vars
<1> QED
  BY <1>2, <1>3, <1>4 DEF Next, Procs

LEMMA NothingMissingInit ==
  ASSUME Failures \subseteq {"partial"}, Init PROVE NothingMissing
<1>1. PICK n \in 0..Total :
        \E t \in [1..n -> Spreads], c \in Credits : OpenedWith(n, t, c)
  BY DEF Init
<1>2. PICK taken \in [1..n -> Spreads], credit \in Credits : OpenedWith(n, taken, credit)
  BY <1>1
<1>3. \A o \in DOMAIN orders : orders[o].status # "cancelled"
  BY <1>2 DEF OpenedWith
<1>4. AllEntered(position)
  BY <1>2 DEF OpenedWith, AllEntered, Place, Null, Absent, Spreads
<1> QED
  BY <1>3, <1>4, SpreadsApart DEF Init, NothingMissing, Procs

LEMMA NothingMissingStep ==
  ASSUME Failures \subseteq {"partial"}, TypeOK, NothingMissing, [Next]_vars
  PROVE  NothingMissing'
<1> USE SpreadsApart
<1>0. /\ position \in PositionRow /\ row \in [Procs -> PositionRow]
      /\ pc \in [Procs -> Locations]
      /\ todo \in [Fixers -> SUBSET Spreads] /\ valid \in [Fixers -> SUBSET Spreads]
      /\ new \in [Fixers -> [Spreads -> OrderId \cup {Null}]]
      /\ "cancel" \notin Failures /\ "error" \notin Failures
  BY DEF TypeOK
<1>w. ASSUME NEW r \in PositionRow, AllEntered(r), NEW hits \in SUBSET Spreads
      PROVE  AllEntered(WithFills(r, hits))
  BY <1>w, WithFillsDetails DEF AllEntered
<1>k. ASSUME NEW f \in Fixers
      PROVE  /\ pc[f] # "submit"
             /\ pc[f] \in Working => todo[f] \cup valid[f] = Spreads
  BY DEF NothingMissing
<1>a. ASSUME UNCHANGED orders, AllEntered(position'), \A p \in Procs : AllEntered(row'[p]),
             \A f \in Fixers :
               /\ pc'[f] # "submit"
               /\ pc'[f] \in Working => todo'[f] \cup valid'[f] = Spreads
      PROVE  NothingMissing'
  BY <1>a DEF NothingMissing, AllEntered
<1>e. AllEntered(position) /\ \A p \in Procs : AllEntered(row[p])
  BY DEF NothingMissing
<1>1. CASE UNCHANGED vars
  BY <1>1, <1>a, <1>e, <1>k DEF vars, local, AllEntered
<1>2. CASE Broker
  <2>1. PICK o \in DOMAIN orders : BrokerFills(o)
    BY <1>2, <1>0 DEF Broker, BrokerCancels
  <2>2. \A p \in DOMAIN orders' : orders'[p].status # "cancelled"
    BY <2>1, StatusChange DEF BrokerFills, NothingMissing
  <2>3. UNCHANGED <<position, row, pc, todo, valid>>
    BY <2>1 DEF BrokerFills, local
  <2> QED
    BY <2>2, <2>3, <1>e, <1>k DEF NothingMissing, AllEntered
<1>3. ASSUME NEW s \in Syncs, SyncStep(s) PROVE NothingMissing'
  <2>0. s \in Procs /\ s \notin Fixers
    BY TargetFillsAssumption DEF Procs
  <2>1. /\ \A q \in Procs : q # s => pc'[q] = pc[q] /\ row'[q] = row[q]
        /\ \A q \in Fixers : todo'[q] = todo[q] /\ valid'[q] = valid[q]
    BY <1>3, <2>0, OwnStep
  <2>2. \A f \in Fixers : /\ pc'[f] # "submit"
                          /\ pc'[f] \in Working => todo'[f] \cup valid'[f] = Spreads
    BY <2>0, <2>1, <1>k DEF Procs
  <2>b. ASSUME UNCHANGED orders, AllEntered(position'), AllEntered(row'[s])
        PROVE  NothingMissing'
    <3>1. \A p \in Procs : AllEntered(row'[p])
      BY <2>b, <2>1, <1>e
    <3> QED
      BY <2>b, <2>2, <3>1, <1>a
  <2>3. CASE SyncOrders(s) \/ SyncHoldings(s) \/ SyncQuery(s)
    BY <2>3, <2>b, <2>0, <1>e DEF SyncOrders, SyncHoldings, SyncQuery, local, AllEntered
  <2>4. CASE SyncLoad(s) \/ SyncList(s)
    BY <2>4, <2>b, <2>0, <1>0, <1>e DEF SyncLoad, SyncList, AllEntered
  <2>5. CASE SyncRefresh(s)
    <3>1. AllEntered(WithFills(position, Hits(position, seen[s])))
      BY <1>w, <1>0, <1>e DEF Hits
    <3>2. \/ row'[s] = WithOriginal(position)
          \/ row'[s] = WithFills(position, Hits(position, seen[s]))
      BY <2>5, <2>0, <1>0 DEF SyncRefresh
    <3>3. UNCHANGED <<orders, position>>
      BY <2>5 DEF SyncRefresh
    <3>3a. AllEntered(WithOriginal(position))
      BY <1>0, <1>e, WithOriginalRow DEF AllEntered
    <3>4. AllEntered(row'[s]) /\ AllEntered(position')
      BY <3>1, <3>2, <3>3, <3>3a, <1>e
    <3> QED
      BY <3>3, <3>4, <2>b
  <2>6. CASE SyncBook(s)
    <3>1. position'.details = row[s].details
      BY <2>6, <2>0, <1>0 DEF SyncBook, PositionRow
    <3> QED
      BY <2>6, <3>1, <2>b, <2>0, <1>e DEF SyncBook, local, AllEntered
  <2>7. CASE SyncMeta(s) \/ SyncClose(s)
    <3>1. position'.details = position.details
      BY <2>7, <1>0 DEF SyncMeta, SyncClose, PositionRow
    <3> QED
      BY <2>7, <3>1, <2>b, <2>0, <1>e DEF SyncMeta, SyncClose, local, AllEntered
  <2> QED
    BY <1>3, <2>3, <2>4, <2>5, <2>6, <2>7 DEF SyncStep
<1>4. ASSUME NEW f \in Fixers, FixStep(f) PROVE NothingMissing'
  <2>0. f \in Procs /\ f \notin Syncs
    BY TargetFillsAssumption DEF Procs
  <2>1. /\ \A q \in Procs : q # f => pc'[q] = pc[q] /\ row'[q] = row[q]
        /\ \A q \in Fixers : q # f => todo'[q] = todo[q] /\ valid'[q] = valid[q]
    BY <1>4, <2>0, OwnStep
  <2>b. ASSUME UNCHANGED orders, AllEntered(position'), AllEntered(row'[f]),
               pc'[f] # "submit",
               pc'[f] \in Working => todo'[f] \cup valid'[f] = Spreads
        PROVE  NothingMissing'
    <3>1. \A p \in Procs : AllEntered(row'[p])
      BY <2>b, <2>1, <1>e
    <3>2. \A q \in Fixers : /\ pc'[q] # "submit"
                            /\ pc'[q] \in Working => todo'[q] \cup valid'[q] = Spreads
      BY <2>b, <2>1, <1>k DEF Procs
    <3> QED
      BY <2>b, <3>1, <3>2, <1>a
  <2>2. CASE FixList(f)
    BY <2>2, <2>b, <2>0, <1>0, <1>e DEF FixList, Goto, AllEntered
  <2>3. CASE FixFresh(f)
    <3>1. todo'[f] = {s \in Spreads : row[f].details[s] # NoTarget}
      BY <2>3, <1>0 DEF FixFresh
    <3>2. todo'[f] = Spreads
      BY <3>1, <2>0, <1>e DEF AllEntered, NoTarget
    <3>3. valid'[f] = {} /\ pc'[f] \in {"check", "idle"}
      BY <2>3, <2>0, <1>0 DEF FixFresh, Goto
    <3> QED
      BY <2>3, <3>2, <3>3, <2>b, <2>0, <1>e DEF FixFresh, AllEntered
  <2>4. CASE FixDecide(f)
    <3>1. pc[f] \in Working /\ todo[f] = {}
      BY <2>4 DEF FixDecide, Working
    <3>2. valid[f] = Spreads
      BY <3>1, <1>k
    <3>3. pc'[f] = "idle"
      BY <2>4, <3>2, <2>0, <1>0 DEF FixDecide, Goto, OpenSpreads
    <3> QED
      BY <2>4, <3>3, <2>b, <2>0, <1>e DEF FixDecide, AllEntered
  <2>5. CASE FixSave(f)
    BY <2>5, <1>k DEF FixSave
  <2>6. ASSUME NEW s \in Spreads, FixKeep(f, s) PROVE NothingMissing'
    <3>1. todo'[f] = todo[f] \ {s} /\ valid'[f] = valid[f] \cup {s}
      BY <2>6, <1>0 DEF FixKeep, Checked
    <3>2. pc[f] \in Working /\ UNCHANGED <<orders, position, row, pc>>
      BY <2>6 DEF FixKeep, Checked, Working
    <3>3. todo'[f] \cup valid'[f] = Spreads
      BY <3>1, <3>2, <1>0, <1>k
    <3> QED
      BY <3>2, <3>3, <2>b, <2>0, <1>e, <1>k DEF AllEntered
  <2>7. ASSUME NEW s \in Spreads, FixDrop(f, s) PROVE FALSE
    <3>1. row[f].details[s].order \in OrderId \cup {Null, Absent}
      BY <2>0, <1>0 DEF PositionRow, Target
    <3>2. StatusOf(row[f].details[s].order) # "cancelled"
      BY DEF StatusOf, NothingMissing
    <3> QED
      BY <2>7, <3>2, <1>0 DEF FixDrop
  <2>8. ASSUME NEW s \in Spreads, FixSeesFill(f, s) PROVE NothingMissing'
    <3>1. /\ pc[f] \in Working /\ pc'[f] = s
          /\ UNCHANGED <<orders, position, row, todo, valid>>
      BY <2>8, <2>0, <1>0 DEF FixSeesFill, Goto, local, Working
    <3> QED
      BY <3>1, <2>b, <2>0, <1>e, <1>k DEF AllEntered
  <2>9. ASSUME NEW s \in Spreads, FixBook(f, s) PROVE NothingMissing'
    <3> DEFINE o == row[f].details[s].order
               entry == IF position.details[s] = NoTarget
                          THEN NewTarget(o)
                          ELSE [position.details[s] EXCEPT !.order = o]
               given == [position EXCEPT !.details[s] = entry]
    <3>1. /\ o \in OrderId \cup {Null, Absent} /\ o # Absent
          /\ position.details[s] \in Target
      BY <2>0, <1>0, <1>e DEF PositionRow, Target, AllEntered
    <3>2. entry \in Target /\ entry.order # Absent
      BY <3>1 DEF NewTarget, Target
    <3>3. /\ UNCHANGED <<orders, row>>
          /\ UNCHANGED position \/ position' = WithFills(given, {s})
          /\ todo'[f] = todo[f] \ {s} /\ valid'[f] = valid[f] \cup {s}
          /\ pc[f] \in Working /\ pc'[f] = "check"
      BY <2>9, <2>0, <1>0 DEF FixBook, Checked, Goto, Working
    <3> HIDE DEF entry, o
    <3>4. given \in PositionRow /\ AllEntered(given)
      BY <3>2, <1>0, <1>e DEF PositionRow, AllEntered
    <3>5. AllEntered(WithFills(given, {s}))
      BY <3>4, <1>w
    <3>6. AllEntered(position') /\ AllEntered(row'[f])
      BY <3>3, <3>5, <2>0, <1>e DEF AllEntered
    <3>7. todo'[f] \cup valid'[f] = Spreads
      BY <3>3, <1>0, <1>k
    <3> QED
      BY <3>3, <3>6, <3>7, <2>b
  <2>10. ASSUME NEW s \in Spreads, FixPlaces(f, s) \/ FixRefused(f, s) PROVE FALSE
    BY <2>10, <1>k DEF FixPlaces, FixRefused
  <2> QED
    BY <1>4, <2>2, <2>3, <2>4, <2>5, <2>6, <2>7, <2>8, <2>9, <2>10 DEF FixStep
<1> QED
  BY <1>1, <1>2, <1>3, <1>4 DEF Next

\* So whoever places a target again has the position to itself.
LEMMA SubmitsAlone ==
  ASSUME Apart
  PROVE  Spec => [](\A f \in Fixers : pc[f] = "submit" => f \in Alone)
<1>1. CASE Fixers \subseteq Alone
  <2>1. \A f \in Fixers : pc[f] = "submit" => f \in Alone
    BY <1>1
  <2> QED
    BY <2>1, PTL
<1>2. CASE Failures \subseteq {"partial"}
  <2>1. NothingMissing => \A f \in Fixers : pc[f] = "submit" => f \in Alone
    BY DEF NothingMissing
  <2>2. Init => NothingMissing
    BY <1>2, NothingMissingInit
  <2>3. TypeOK /\ NothingMissing /\ [Next]_vars => NothingMissing'
    BY <1>2, NothingMissingStep
  <2> QED
    BY <2>1, <2>2, <2>3, TypeCorrect, PTL DEF Spec
<1> QED
  BY <1>1, <1>2 DEF Apart
-----------------------------------------------------------------------------
\* The filled orders for spreads of one kind; Held is what they leave.
FilledOf(k) == {o \in DOMAIN orders : orders[o].status = "filled" /\ Kind(orders[o].spread) = k}

NotOversold == \A k \in Kinds : Held[k] >= 0

LEMMA FilledFinite ==
  ASSUME TypeOK
  PROVE  /\ IsFiniteSet(FilledSet) /\ Cardinality(FilledSet) \in Nat
         /\ \A k \in Kinds : /\ IsFiniteSet(FilledOf(k)) /\ Cardinality(FilledOf(k)) \in Nat
                             /\ Held[k] = Opened[k] - Cardinality(FilledOf(k))
                             /\ Held[k] \in Int
<1>1. IsFiniteSet(DOMAIN orders)
  <2>1. DOMAIN orders = 1..Len(orders) /\ Len(orders) \in Int /\ 1 \in Int
    BY OrdersAreIds
  <2> QED
    BY <2>1, FS_Interval
<1>2. IsFiniteSet(FilledSet) /\ Cardinality(FilledSet) \in Nat
  BY <1>1, FS_Subset, FS_CardinalityType, FilledSet \in SUBSET DOMAIN orders DEF FilledSet
<1>3. ASSUME NEW k \in Kinds
      PROVE  /\ IsFiniteSet(FilledOf(k)) /\ Cardinality(FilledOf(k)) \in Nat
             /\ Held[k] = Opened[k] - Cardinality(FilledOf(k)) /\ Held[k] \in Int
  <2>1. FilledOf(k) \in SUBSET DOMAIN orders
    BY DEF FilledOf
  <2>2. Held[k] = Opened[k] - Cardinality(FilledOf(k))
    BY DEF Held, FilledOf
  <2> QED
    BY <1>1, <2>1, <2>2, FS_Subset, FS_CardinalityType, HeldIsInt
<1> QED
  BY <1>2, <1>3

\* What the account holds only falls, and never below nothing.
LEMMA HeldStep ==
  ASSUME TypeOK, TypeOK', NotOversold, [Next]_vars
  PROVE  NotOversold' /\ \A k \in Kinds : Held'[k] \in Int /\ Held'[k] <= Held[k]
<1>0. ASSUME NEW k \in Kinds
      PROVE  /\ IsFiniteSet(FilledOf(k)) /\ Cardinality(FilledOf(k)) \in Nat
             /\ Held[k] = Opened[k] - Cardinality(FilledOf(k))
             /\ Held'[k] = Opened[k] - Cardinality(FilledOf(k)')
             /\ Opened[k] \in Int
  <2>1. Held'[k] = Opened[k] - Cardinality(FilledOf(k)')
    BY DEF Held, FilledOf
  <2>2. Opened[k] \in Int
    BY DEF Opened, Kinds
  <2> QED
    BY <2>1, <2>2, FilledFinite
<1>a. ASSUME \A k \in Kinds : FilledOf(k)' = FilledOf(k)
      PROVE  NotOversold' /\ \A k \in Kinds : Held'[k] \in Int /\ Held'[k] <= Held[k]
  <2>1. \A k \in Kinds : Held'[k] = Held[k]
    BY <1>0, <1>a
  <2> QED
    BY <2>1, FilledFinite DEF NotOversold
<1>1. ASSUME NEW o \in DOMAIN orders, BrokerFills(o)
      PROVE  NotOversold' /\ \A k \in Kinds : Held'[k] \in Int /\ Held'[k] <= Held[k]
  <2>1. orders' = [orders EXCEPT ![o].status = "filled"] /\ orders[o].status = "live"
    BY <1>1 DEF BrokerFills
  <2>2. /\ DOMAIN orders' = DOMAIN orders
        /\ orders'[o].status = "filled" /\ orders'[o].spread = orders[o].spread
        /\ \A p \in DOMAIN orders : p # o => orders'[p] = orders[p]
    <3>1. orders'[o] = [orders[o] EXCEPT !.status = "filled"]
      BY <2>1
    <3> DEFINE Order == [spread : Spreads, status : {"live", "filled", "cancelled"}]
    <3>2. orders[o] \in Order
      <4>1. orders \in Seq(Order) /\ o \in 1..Len(orders)
        BY OrdersAreIds DEF TypeOK
      <4> HIDE DEF Order
      <4> QED
        BY <4>1, ElementOfSeq
    <3>3. orders'[o].spread = orders[o].spread
      BY <3>1, <3>2
    <3> QED
      BY <2>1, <3>3, StatusChange
  <2>3. ASSUME NEW k \in Kinds, Kind(orders[o].spread) = k
        PROVE  /\ Cardinality(FilledOf(k)') = Cardinality(FilledOf(k)) + 1
               /\ Held[k] > 0
    <3>1. FilledOf(k)' = FilledOf(k) \cup {o} /\ o \notin FilledOf(k)
      BY <2>1, <2>2, <2>3 DEF FilledOf
    <3>2. Held[k] > 0
      BY <1>1, <2>3 DEF BrokerFills
    <3> QED
      BY <3>1, <3>2, <1>0, FS_AddElement
  <2>4. ASSUME NEW k \in Kinds, Kind(orders[o].spread) # k
        PROVE  FilledOf(k)' = FilledOf(k)
    BY <2>1, <2>2, <2>4 DEF FilledOf
  <2>5. ASSUME NEW k \in Kinds PROVE Held'[k] \in Int /\ Held'[k] <= Held[k] /\ Held'[k] >= 0
    <3>1. CASE Kind(orders[o].spread) = k
      BY <3>1, <2>3, <1>0
    <3>2. CASE Kind(orders[o].spread) # k
      BY <3>2, <2>4, <1>0, FilledFinite DEF NotOversold
    <3> QED
      BY <3>1, <3>2
  <2> QED
    BY <2>5 DEF NotOversold
<1>2. ASSUME NEW o \in DOMAIN orders, BrokerCancels(o)
      PROVE  \A k \in Kinds : FilledOf(k)' = FilledOf(k)
  <2>1. orders' = [orders EXCEPT ![o].status = "cancelled"] /\ orders[o].status = "live"
    BY <1>2 DEF BrokerCancels
  <2> QED
    BY <2>1, StatusChange DEF FilledOf
<1>3. ASSUME NEW f \in Fixers, NEW s \in Spreads, FixPlaces(f, s)
      PROVE  \A k \in Kinds : FilledOf(k)' = FilledOf(k)
  <2>1. orders' = Append(orders, [spread |-> s, status |-> "live"])
    BY <1>3 DEF FixPlaces
  <2>2. /\ DOMAIN orders' = DOMAIN orders \cup {Len(orders) + 1}
        /\ \A o \in DOMAIN orders : orders'[o] = orders[o]
        /\ orders'[Len(orders) + 1].status = "live"
    BY <2>1, OrdersAreIds DEF TypeOK
  <2> QED
    BY <2>2 DEF FilledOf
<1>4. ASSUME UNCHANGED orders PROVE \A k \in Kinds : FilledOf(k)' = FilledOf(k)
  BY <1>4 DEF FilledOf
<1>5. ASSUME NEW s \in Syncs, SyncStep(s) PROVE UNCHANGED orders
  BY <1>5 DEF SyncStep, SyncOrders, SyncHoldings, SyncLoad, SyncQuery, SyncRefresh,
       SyncBook, SyncMeta, SyncList, SyncClose
<1>6. ASSUME NEW f \in Fixers, FixStep(f)
      PROVE  UNCHANGED orders \/ \E s \in Spreads : FixPlaces(f, s)
  BY <1>6 DEF FixStep, FixList, FixFresh, FixKeep, FixDrop, FixSeesFill, FixBook,
       FixDecide, FixRefused, FixSave, Checked
<1>7. CASE UNCHANGED vars
  BY <1>7, <1>4, <1>a DEF vars
<1> QED
  BY <1>1, <1>2, <1>3, <1>4, <1>5, <1>6, <1>7, <1>a DEF Next, Broker

\* Three fills leave nothing: two are of put spreads and one is of the call spread.
LEMMA ThreeFillsAreAll ==
  ASSUME TypeOK, NotOversold, Cardinality(FilledSet) >= Total
  PROVE  Flat(Held)
<1>1. "put" \in Kinds /\ "call" \in Kinds /\ Kinds = {"put", "call"}
      /\ Opened["put"] = 2 /\ Opened["call"] = 1 /\ Total = 3
  BY DEF Kinds, Opened, Total
<1>2. /\ FilledSet = FilledOf("put") \cup FilledOf("call")
      /\ FilledOf("put") \cap FilledOf("call") = {}
  <2>1. \A o \in DOMAIN orders : Kind(orders[o].spread) \in {"put", "call"}
    BY DEF Kind
  <2> QED
    BY <2>1 DEF FilledSet, FilledOf
<1>3. Cardinality(FilledSet) = Cardinality(FilledOf("put")) + Cardinality(FilledOf("call"))
  <2>1. IsFiniteSet(FilledOf("put")) /\ IsFiniteSet(FilledOf("call"))
    BY <1>1, FilledFinite
  <2>2. Cardinality(FilledOf("put") \cap FilledOf("call")) = 0
    BY <1>2, FS_EmptySet
  <2>3. Cardinality(FilledSet) = Cardinality(FilledOf("put")) + Cardinality(FilledOf("call"))
          - Cardinality(FilledOf("put") \cap FilledOf("call"))
    BY <1>2, <2>1, FS_Union
  <2>4. Cardinality(FilledOf("put")) \in Nat /\ Cardinality(FilledOf("call")) \in Nat
    BY <1>1, FilledFinite
  <2> QED
    BY <2>2, <2>3, <2>4
<1>4. /\ Held["put"] = 2 - Cardinality(FilledOf("put"))
      /\ Held["call"] = 1 - Cardinality(FilledOf("call"))
      /\ Cardinality(FilledOf("put")) \in Nat /\ Cardinality(FilledOf("call")) \in Nat
  BY <1>1, FilledFinite
<1>5. Held["put"] >= 0 /\ Held["call"] >= 0
  BY <1>1 DEF NotOversold
<1>6. Held["put"] = 0 /\ Held["call"] = 0
  BY <1>1, <1>3, <1>4, <1>5
<1> QED
  BY <1>1, <1>6 DEF Flat

-----------------------------------------------------------------------------
\* The orders whose fill has been booked, however often.
Counted == {o \in OrderId : counted[o] # 0}

\* The entries of the row: no two record one order, and one whose order has been
\* counted is marked.
Entries ==
  \A s \in Spreads :
    /\ position.details[s].order \in DOMAIN orders \cup {Null, Absent}
    /\ position.details[s].order = Absent => position.details[s] = NoTarget
    /\ position.details[s].order \in Counted => position.details[s].filled
    /\ \A t \in Spreads :
         position.details[t].order = position.details[s].order
         /\ position.details[s].order \in OrderId => t = s

\* The contracts missing from a row were counted.
Covers(r) == r.quantity + Cardinality(Counted) >= Total

Unbooked(o) ==
  \E t \in Spreads : position.details[t].order = o /\ ~position.details[t].filled

\* What a sync has read still holds when it writes.
SyncKnows(s) ==
  /\ pc[s] \in {"query", "close"} => row[s] = position
  /\ pc[s] \in {"query", "refresh", "book", "close"} => IsOpen(position)
  /\ pc[s] \in {"refresh", "book"} => seen[s] # {} /\ \A o \in seen[s] : Unbooked(o)
  /\ pc[s] = "book" => row[s] = WithFills(position, Hits(position, seen[s]))
  /\ pc[s] = "meta" => row[s].original = position.original
  /\ pc[s] \notin {"idle", "holdings"} => \A k \in Kinds : Held[k] <= held[s][k]
  /\ pc[s] = "close" => Flat(held[s])

\* So does what a reconciliation run has read of the entries it still has to check,
\* and nobody has booked an order it placed.
FixKnows(f) ==
  /\ pc[f] # "idle" => IsOpen(row[f]) /\ Covers(row[f])
  /\ pc[f] = "fresh" => \A s \in Spreads :
       /\ row[f].details[s].order = position.details[s].order
       /\ row[f].details[s].order = Absent => row[f].details[s] = NoTarget
  /\ pc[f] \in Working =>
       /\ \A s \in todo[f] : /\ row[f].details[s].order = position.details[s].order
                             /\ row[f].details[s].order # Absent
       /\ \A s \in Spreads : new[f][s] = Null
  /\ pc[f] \in Spreads => pc[f] \in todo[f]
  /\ pc[f] = "submit" =>
       \A s \in Spreads : new[f][s] # Null =>
         /\ new[f][s] \in DOMAIN orders \ Counted
         /\ \A t \in Spreads : new[f][t] = new[f][s] => t = s

\* The row and the counts.
RowCounts ==
  /\ CountedOnce
  /\ Counted \subseteq FilledSet
  /\ Entries
  /\ IsOpen(position) => Covers(position)
  /\ ClosedMeansFlat
  /\ NotOversold

Counting ==
  /\ RowCounts
  /\ \A s \in Syncs : SyncKnows(s)
  /\ \A f \in Fixers : FixKnows(f)

\* Counted orders are finitely many, and no more than the filled ones.
LEMMA CountedFinite ==
  /\ IsFiniteSet(Counted) /\ Cardinality(Counted) \in Nat
  /\ TypeOK /\ Counted \subseteq FilledSet => Cardinality(Counted) <= Cardinality(FilledSet)
<1>1. IsFiniteSet(OrderId)
  BY FS_Interval, TargetFillsAssumption, 1 \in Int DEF OrderId
<1>2. IsFiniteSet(Counted) /\ Cardinality(Counted) \in Nat
  BY <1>1, FS_Subset, FS_CardinalityType, Counted \in SUBSET OrderId DEF Counted
<1> QED
  BY <1>2, FS_Subset, FilledFinite

LEMMA CountingInit == Init => Counting
<1> SUFFICES ASSUME Init PROVE Counting
  OBVIOUS
<1> USE SpreadsApart
<1>1. PICK n \in 0..Total :
        \E t \in [1..n -> Spreads], c \in Credits : OpenedWith(n, t, c)
  BY DEF Init
<1>2. PICK taken \in [1..n -> Spreads], credit \in Credits : OpenedWith(n, taken, credit)
  BY <1>1
<1>3. \A p \in Procs : pc[p] = "idle"
  BY DEF Init
<1>4. (\A s \in Syncs : SyncKnows(s)) /\ (\A f \in Fixers : FixKnows(f))
  BY <1>3 DEF SyncKnows, FixKnows, Procs
<1>5. Counted = {} /\ CountedOnce
  BY DEF Init, Counted, CountedOnce
<1>6. /\ DOMAIN orders = 1..n /\ \A o \in DOMAIN orders : orders[o].status = "live"
      /\ position.quantity = Total /\ position.lifecycle = "open_full"
      /\ position.details = [s \in Spreads |->
           [ order |-> IF Place[s] <= n THEN Place[s] ELSE Null,
             filled |-> FALSE, credit |-> credit ]]
  BY <1>2 DEF OpenedWith
<1>7. Entries
  BY <1>5, <1>6 DEF Entries, Place, Spreads, Null, Absent, OrderId, Total
<1>8. NotOversold
  <2>1. \A k \in Kinds : FilledOf(k) = {}
    BY <1>6 DEF FilledOf
  <2>2. \A k \in Kinds : Held[k] = Opened[k] - Cardinality(FilledOf(k))
    BY DEF Held, FilledOf
  <2>3. Cardinality({}) = 0
    BY FS_EmptySet
  <2>4. ASSUME NEW k \in Kinds PROVE Held[k] = Opened[k] - 0
    BY <2>1, <2>2, <2>3
  <2> QED
    BY <2>4 DEF NotOversold, Opened, Kinds
<1>9. Covers(position) /\ IsOpen(position)
  BY <1>5, <1>6, FS_EmptySet DEF Covers, IsOpen, Total
<1> QED
  BY <1>4, <1>5, <1>7, <1>8, <1>9 DEF Counting, RowCounts, ClosedMeansFlat

PlacesAlone == \A f \in Fixers : pc[f] = "submit" => f \in Alone

\* Fills of unbooked entries, booked on the row itself, are counted once and leave the
\* row covered.
LEMMA BookingCounts ==
  ASSUME TypeOK, RowCounts, ClosedIffEmpty, NEW hits \in SUBSET Spreads,
         \A t \in hits : /\ ~position.details[t].filled
                         /\ position.details[t].order \in FilledSet,
         UNCHANGED orders,
         position'.details = WithFills(position, hits).details,
         position'.quantity = WithFills(position, hits).quantity,
         position'.lifecycle = WithFills(position, hits).lifecycle,
         counted' = [o \in OrderId |-> counted[o] +
                       IF \E t \in hits : position.details[t].order = o THEN 1 ELSE 0]
  PROVE  RowCounts' /\ Cardinality(Counted') >= Cardinality(Counted)
<1> DEFINE ids == {position.details[t].order : t \in hits}
           payer == [t \in hits |-> position.details[t].order]
<1>0. /\ position \in PositionRow /\ counted \in [OrderId -> Nat]
      /\ FilledSet \subseteq DOMAIN orders /\ DOMAIN orders \subseteq OrderId
      /\ FilledSet' = FilledSet /\ Held' = Held
  BY OrdersAreIds DEF TypeOK, FilledSet, Held
<1>1. ids \subseteq FilledSet /\ ids \subseteq OrderId /\ ids \cap Counted = {}
  BY <1>0 DEF RowCounts, Entries
<1>2. /\ Counted' = Counted \cup ids
      /\ \A o \in ids : counted[o] = 0
      /\ CountedOnce'
  <2>1. \A o \in OrderId : counted'[o] = counted[o] + IF o \in ids THEN 1 ELSE 0
    BY <1>0
  <2>2. \A o \in ids : counted[o] = 0
    BY <1>1 DEF Counted
  <2>3. \A o \in OrderId : counted[o] \in Nat /\ counted[o] <= 1
    BY <1>0 DEF RowCounts, CountedOnce
  <2> HIDE DEF ids
  <2>4. Counted' = Counted \cup ids
    BY <1>1, <2>1, <2>3 DEF Counted
  <2>5. CountedOnce'
    BY <2>1, <2>2, <2>3 DEF CountedOnce
  <2> QED
    BY <2>2, <2>4, <2>5
<1>3. /\ IsFiniteSet(ids) /\ Cardinality(ids) \in Nat
      /\ Cardinality(Counted') = Cardinality(Counted) + Cardinality(ids)
  <2>1. IsFiniteSet(ids)
    BY <1>0, <1>1, FilledFinite, FS_Subset
  <2>2. Cardinality(ids) \in Nat /\ Cardinality(Counted \cap ids) = 0
    BY <2>1, <1>1, FS_CardinalityType, FS_EmptySet, Counted \cap ids = {}
  <2>3. Cardinality(Counted') =
          Cardinality(Counted) + Cardinality(ids) - Cardinality(Counted \cap ids)
    BY <1>2, <2>1, CountedFinite, FS_Union
  <2> QED
    BY <2>1, <2>2, <2>3, CountedFinite
<1>4. Cardinality(hits) <= Cardinality(ids) /\ Cardinality(hits) \in Nat
  <2>1. \A s, t \in hits : payer[s] = payer[t] => s = t
    BY <1>0 DEF RowCounts, Entries
  <2>2. payer \in [hits -> ids]
    OBVIOUS
  <2>3. payer \in Injection(hits, ids)
    BY <2>1, <2>2 DEF Injection, IsInjective
  <2> QED
    BY <2>3, <1>3, FS_Injection, SpreadsCount
<1>5. Cardinality(Counted') >= Cardinality(Counted) + Cardinality(hits)
  BY <1>3, <1>4, CountedFinite
<1>6. Entries'
  <2>1. ASSUME NEW s \in Spreads
        PROVE  /\ position'.details[s].order = position.details[s].order
               /\ s \in hits => position'.details[s].filled
               /\ s \notin hits => position'.details[s] = position.details[s]
    BY <1>0, WithFillsDetails
  <2>2. \A s \in Spreads : position'.details[s].order = Absent
          => position'.details[s] = NoTarget
    BY <2>1, <1>0 DEF RowCounts, Entries, OrderId, Absent
  <2>3. ASSUME NEW s \in Spreads, position'.details[s].order \in Counted'
        PROVE  position'.details[s].filled
    <3>1. CASE s \in hits
      BY <3>1, <2>1
    <3>2. CASE s \notin hits /\ position.details[s].order \in Counted
      BY <3>2, <2>1 DEF RowCounts, Entries
    <3>3. CASE s \notin hits /\ position.details[s].order \in ids
      <4>1. PICK t \in hits : position.details[t].order = position.details[s].order
        BY <3>3
      <4>2. t = s
        BY <4>1, <3>3, <1>1 DEF RowCounts, Entries
      <4> QED
        BY <4>1, <4>2, <3>3
    <3> QED
      BY <3>1, <3>2, <3>3, <2>1, <2>3, <1>2
  <2> QED
    BY <2>1, <2>2, <2>3 DEF RowCounts, Entries
<1>7. Counted' \subseteq FilledSet'
  BY <1>0, <1>1, <1>2 DEF RowCounts
<1>8. /\ position.quantity \in 0..Total /\ Left(position, hits) \in Int
      /\ Left(position, hits) >= position.quantity - Cardinality(hits)
      /\ Left(position, hits) >= 0 /\ Left(position, hits) <= position.quantity
  BY <1>0, <1>4 DEF PositionRow, Left, Total
<1>9. /\ position'.quantity = Left(position, hits)
      /\ position'.lifecycle = LifecycleFor(position, Left(position, hits))
  BY <1>0, WithFillsDetails
<1>10. CASE IsOpen(position)
  <2>1. Left(position, hits) + Cardinality(Counted') >= Total
    <3>1. position.quantity + Cardinality(Counted) >= Total
      BY <1>10 DEF RowCounts, Covers
    <3> QED
      BY <3>1, <1>3, <1>4, <1>5, <1>8, CountedFinite DEF Total
  <2>2. ASSUME ~IsOpen(position') PROVE Flat(Held')
    <3>1. Left(position, hits) = 0
      BY <2>2, <1>9, <1>10 DEF IsOpen, LifecycleFor
    <3>2. Cardinality(Counted') <= Cardinality(FilledSet)
      <4>1. Counted' \in SUBSET FilledSet
        BY <1>0, <1>7
      <4> QED
        BY <4>1, FilledFinite, FS_Subset
    <3>3. Cardinality(FilledSet) >= Total
      BY <2>1, <3>1, <3>2, <1>3, CountedFinite, FilledFinite DEF Total
    <3> QED
      BY <3>3, <1>0, ThreeFillsAreAll DEF RowCounts
  <2>3. Covers(position)'
    BY <2>1, <1>9 DEF Covers
  <2> QED
    BY <2>2, <2>3, <1>0, <1>2, <1>5, <1>6, <1>7, <1>4, CountedFinite, <1>3
       DEF RowCounts, ClosedMeansFlat, NotOversold
<1>11. CASE ~IsOpen(position)
  <2>1. position.quantity = 0
    BY <1>11 DEF ClosedIffEmpty, Agrees
  <2>2. Left(position, hits) = 0
    BY <2>1, <1>8
  <2>3. ~IsOpen(position')
    BY <2>2, <1>9 DEF IsOpen, LifecycleFor
  <2>4. Flat(Held')
    BY <1>0, <1>11 DEF RowCounts, ClosedMeansFlat
  <2> QED
    BY <2>3, <2>4, <1>0, <1>2, <1>5, <1>6, <1>7, <1>4, CountedFinite, <1>3
       DEF RowCounts, ClosedMeansFlat, NotOversold
<1> QED
  BY <1>10, <1>11

\* A step that leaves row and counts alone keeps what they say.
LEMMA QuietRow ==
  ASSUME TypeOK, RowCounts, UNCHANGED <<position, counted>>,
         FilledSet \subseteq FilledSet', DOMAIN orders \subseteq DOMAIN orders',
         NotOversold', \A k \in Kinds : Held'[k] \in Int /\ Held'[k] <= Held[k]
  PROVE  RowCounts' /\ Counted' = Counted
<1>1. Counted' = Counted /\ CountedOnce'
  BY DEF RowCounts, Counted, CountedOnce
<1>2. Entries'
  BY <1>1 DEF RowCounts, Entries
<1>3. \A k \in Kinds : Held[k] \in Int
  BY FilledFinite
<1>4. Flat(Held) => Flat(Held')
  BY <1>3 DEF Flat, NotOversold
<1>5. ClosedMeansFlat'
  BY <1>4 DEF RowCounts, ClosedMeansFlat
<1>6. (IsOpen(position) => Covers(position))'
  BY <1>1 DEF RowCounts, Covers
<1> QED
  BY <1>1, <1>2, <1>5, <1>6 DEF RowCounts

\* What a run knows survives the steps of others that leave its own state alone.
LEMMA FixRemembers ==
  ASSUME NEW q \in Fixers, FixKnows(q), row \in [Procs -> PositionRow],
         todo \in [Fixers -> SUBSET Spreads],
         pc'[q] = pc[q], row'[q] = row[q], todo'[q] = todo[q], new'[q] = new[q],
         \A s \in Spreads : position'.details[s].order = position.details[s].order,
         DOMAIN orders \subseteq DOMAIN orders',
         Cardinality(Counted') >= Cardinality(Counted), Cardinality(Counted') \in Nat,
         pc[q] = "submit" => Counted' = Counted
  PROVE  FixKnows(q)'
<1>1. pc[q] # "idle" => IsOpen(row'[q]) /\ row'[q].quantity + Cardinality(Counted') >= Total
  <2>1. row[q].quantity \in Int
    BY DEF PositionRow, Procs
  <2> QED
    BY <2>1, CountedFinite DEF FixKnows, Covers, Total
<1>2. pc'[q] = "fresh" => \A s \in Spreads :
        /\ row'[q].details[s].order = position'.details[s].order
        /\ row'[q].details[s].order = Absent => row'[q].details[s] = NoTarget
  BY DEF FixKnows
<1>3. pc'[q] \in Working =>
        /\ \A s \in todo'[q] : /\ row'[q].details[s].order = position'.details[s].order
                               /\ row'[q].details[s].order # Absent
        /\ \A s \in Spreads : new'[q][s] = Null
  BY DEF FixKnows
<1>4. pc'[q] \in Spreads => pc'[q] \in todo'[q]
  BY DEF FixKnows
<1>5. pc'[q] = "submit" =>
        \A s \in Spreads : new'[q][s] # Null =>
          /\ new'[q][s] \in DOMAIN orders' \ Counted'
          /\ \A t \in Spreads : new'[q][t] = new'[q][s] => t = s
  BY DEF FixKnows
<1> QED
  BY <1>1, <1>2, <1>3, <1>4, <1>5 DEF FixKnows, Covers

\* Entries are the same in a row that has the same details.
LEMMA SameEntries ==
  ASSUME RowCounts, UNCHANGED <<orders, counted>>, position'.details = position.details
  PROVE  Entries' /\ Counted' = Counted /\ CountedOnce' /\ Counted' \subseteq FilledSet'
         /\ NotOversold' /\ Held' = Held
<1>1. Counted' = Counted /\ CountedOnce'
  BY DEF RowCounts, Counted, CountedOnce
<1>2. Held' = Held /\ FilledSet' = FilledSet
  BY DEF Held, FilledSet
<1> QED
  BY <1>1, <1>2 DEF RowCounts, Entries, NotOversold

\* Each step of a sync that is alone.
LEMMA SyncCounting ==
  ASSUME Apart, TypeOK, RowsAgree, FillsAreReal, Exclusive, Counting,
         NEW s \in Syncs, SyncStep(s)
  PROVE  Counting'
<1> USE SpreadsApart
<1>0. /\ s \in Procs /\ s \notin Fixers /\ s \in Alone /\ Syncs \subseteq Procs
      /\ position \in PositionRow /\ row \in [Procs -> PositionRow]
      /\ pc \in [Procs -> Locations] /\ seen \in [Syncs -> SUBSET OrderId]
      /\ held \in [Syncs -> [Kinds -> Int]] /\ counted \in [OrderId -> Nat]
      /\ RowCounts /\ SyncKnows(s) /\ ClosedIffEmpty
  BY TargetFillsAssumption DEF Procs, Apart, TypeOK, Counting, RowsAgree
<1>1. \A q \in Procs : q # s => pc'[q] = "idle"
  <2>1. /\ pc[s] # "idle" \/ MayStart(s)
        /\ \A q \in Procs : q # s => pc'[q] = pc[q]
    BY <1>0, OwnStep
  <2> QED
    BY <2>1, <1>0 DEF Exclusive, MayStart
<1>2. /\ \A q \in Syncs : q # s => SyncKnows(q)'
      /\ \A q \in Fixers : FixKnows(q)'
  BY <1>0, <1>1 DEF SyncKnows, FixKnows, Procs
<1>a. ASSUME RowCounts', SyncKnows(s)' PROVE Counting'
  BY <1>a, <1>2 DEF Counting
<1>3. UNCHANGED orders
  BY DEF SyncStep, SyncOrders, SyncHoldings, SyncLoad, SyncQuery, SyncRefresh,
       SyncBook, SyncMeta, SyncList, SyncClose
<1>4. /\ FilledSet' = FilledSet /\ Held' = Held /\ NotOversold'
      /\ \A k \in Kinds : Held[k] \in Int
  BY <1>0, <1>3, FilledFinite DEF FilledSet, Held, NotOversold, RowCounts
<1>q. ASSUME UNCHANGED <<position, counted>> PROVE RowCounts'
  BY <1>q, <1>0, <1>3, <1>4, QuietRow
<1>5. CASE SyncOrders(s)
  <2>1. pc'[s] = "holdings" /\ UNCHANGED <<position, counted>>
    BY <1>5, <1>0 DEF SyncOrders, Goto
  <2>2. SyncKnows(s)'
    BY <2>1 DEF SyncKnows
  <2> QED
    BY <2>1, <2>2, <1>q, <1>a
<1>6. CASE SyncHoldings(s)
  <2>1. /\ pc'[s] \in {"idle", "load"} /\ held'[s] = Held /\ UNCHANGED <<position, counted>>
    BY <1>6, <1>0 DEF SyncHoldings, Goto
  <2>2. SyncKnows(s)'
    BY <2>1, <1>4 DEF SyncKnows
  <2> QED
    BY <2>1, <2>2, <1>q, <1>a
<1>7. CASE SyncLoad(s)
  <2>1. /\ pc[s] = "load" /\ row'[s] = position
        /\ pc'[s] = IF IsOpen(position) THEN "query" ELSE "list"
        /\ UNCHANGED <<position, counted, held>>
    BY <1>7, <1>0 DEF SyncLoad, Goto
  <2>2. SyncKnows(s)'
    BY <2>1, <1>0, <1>4 DEF SyncKnows, IsOpen
  <2> QED
    BY <2>1, <2>2, <1>q, <1>a
<1>8. CASE SyncQuery(s)
  <2>1. /\ pc[s] = "query" /\ UNCHANGED <<position, counted, held, row>>
        /\ pc'[s] \in {"list", "meta", "refresh"}
        /\ pc'[s] = "refresh" => seen'[s] # {} /\ seen'[s] \subseteq FilledOrders(row[s])
    BY <1>8, <1>0 DEF SyncQuery, Goto
  <2>2. row[s] = position /\ IsOpen(position)
    BY <2>1, <1>0 DEF SyncKnows
  <2>3. \A o \in FilledOrders(position) : Unbooked(o)
    BY DEF FilledOrders, FilledAmong, Unbooked
  <2>4. pc'[s] = "refresh" => seen'[s] # {} /\ \A o \in seen'[s] : Unbooked(o)'
    BY <2>1, <2>2, <2>3 DEF Unbooked
  <2>5. SyncKnows(s)'
    BY <2>1, <2>2, <2>4, <1>0, <1>4 DEF SyncKnows, IsOpen
  <2> QED
    BY <2>1, <2>5, <1>q, <1>a
<1>9. CASE SyncRefresh(s)
  <2> DEFINE hits == Hits(position, seen[s])
  <2>1. /\ pc[s] = "refresh" /\ UNCHANGED <<position, counted, held, seen>>
        /\ row'[s] = IF hits = {} THEN WithOriginal(position) ELSE WithFills(position, hits)
        /\ pc'[s] = IF hits = {} THEN "meta" ELSE "book"
    BY <1>9, <1>0 DEF SyncRefresh, Goto
  <2>2. hits # {}
    BY <2>1, <1>0 DEF SyncKnows, Unbooked, Hits
  <2>3. \A o \in seen'[s] : Unbooked(o)'
    BY <2>1, <1>0 DEF SyncKnows, Unbooked
  <2>4. SyncKnows(s)'
    <3> DEFINE booked == WithFills(position, hits)
    <3>1. booked = WithFills(position', Hits(position', seen'[s]))
      BY <2>1
    <3>2. row'[s] = booked /\ pc'[s] = "book"
      BY <2>1, <2>2
    <3> HIDE DEF hits, booked
    <3> QED
      BY <2>1, <2>3, <3>1, <3>2, <1>0, <1>4 DEF SyncKnows, IsOpen
  <2> QED
    BY <2>1, <2>4, <1>q, <1>a
<1>10. CASE SyncBook(s)
  <2> DEFINE hits == Hits(position, seen[s])
  <2>1. /\ pc[s] = "book" /\ pc'[s] = "meta" /\ UNCHANGED <<row, held>>
        /\ row[s] = WithFills(position, hits)
        /\ \A o \in seen[s] : Unbooked(o)
    BY <1>10, <1>0 DEF SyncBook, Goto, local, SyncKnows
  <2>2. hits \in SUBSET Spreads
    BY DEF Hits
  <2>3. \A t \in hits : /\ ~position.details[t].filled
                        /\ position.details[t].order \in FilledSet
    <3>1. ASSUME NEW t \in hits PROVE position.details[t].order \in seen[s]
      BY DEF Hits
    <3>2. seen[s] \subseteq FilledSet /\ seen[s] \subseteq OrderId
      BY <1>0 DEF FillsAreReal
    <3>3. ASSUME NEW t \in hits PROVE ~position.details[t].filled
      <4>1. PICK x \in Spreads : /\ position.details[x].order = position.details[t].order
                                 /\ ~position.details[x].filled
        BY <3>1, <2>1 DEF Unbooked
      <4>2. x = t
        BY <4>1, <3>1, <3>2, <2>2, <1>0 DEF RowCounts, Entries
      <4> QED
        BY <4>1, <4>2
    <3> QED
      BY <3>1, <3>2, <3>3
  <2>4. /\ position' = [row[s] EXCEPT !.created = position.created]
        /\ counted' = [o \in OrderId |-> counted[o] +
             IF o \in seen[s] /\ \E t \in Spreads : row[s].details[t].order = o THEN 1 ELSE 0]
    BY <1>10 DEF SyncBook
  <2>5. /\ position'.details = row[s].details /\ position'.quantity = row[s].quantity
        /\ position'.lifecycle = row[s].lifecycle /\ position'.original = row[s].original
    BY <2>4, <1>0 DEF PositionRow
  <2>6. \A t \in Spreads : row[s].details[t].order = position.details[t].order
    BY <2>1, <2>2, <1>0, WithFillsDetails
  <2>7. counted' = [o \in OrderId |-> counted[o] +
                      IF \E t \in hits : position.details[t].order = o THEN 1 ELSE 0]
    <3>1. ASSUME NEW o \in OrderId
          PROVE  (o \in seen[s] /\ \E t \in Spreads : row[s].details[t].order = o)
                   <=> (\E t \in hits : position.details[t].order = o)
      BY <2>6 DEF Hits
    <3> QED
      BY <2>4, <3>1
  <2> HIDE DEF hits
  <2>8. RowCounts'
    BY <2>1, <2>2, <2>3, <2>5, <2>7, <1>0, <1>3, BookingCounts
  <2>9. SyncKnows(s)'
    BY <2>1, <2>5, <1>0, <1>4 DEF SyncKnows
  <2> QED
    BY <2>8, <2>9, <1>a
<1>11. CASE SyncMeta(s)
  <2>1. /\ pc[s] = "meta" /\ pc'[s] = "list" /\ UNCHANGED <<row, held, counted>>
        /\ position' = [position EXCEPT !.legs = matched[s], !.original = row[s].original]
    BY <1>11, <1>0 DEF SyncMeta, Goto, local
  <2>2. /\ position'.details = position.details /\ position'.quantity = position.quantity
        /\ position'.lifecycle = position.lifecycle
    BY <2>1, <1>0 DEF PositionRow
  <2>3. RowCounts'
    <3>1. Entries' /\ Counted' = Counted /\ CountedOnce' /\ Counted' \subseteq FilledSet'
      BY <2>1, <2>2, <1>0, <1>3, SameEntries
    <3> QED
      BY <3>1, <2>2, <1>0, <1>4 DEF RowCounts, Covers, IsOpen, ClosedMeansFlat
  <2>4. SyncKnows(s)'
    BY <2>1, <1>0, <1>4 DEF SyncKnows
  <2> QED
    BY <2>3, <2>4, <1>a
<1>12. CASE SyncList(s)
  <2>1. /\ pc[s] = "list" /\ row'[s] = position /\ UNCHANGED <<position, counted, held>>
        /\ pc'[s] = IF IsOpen(position) /\ Flat(held[s]) THEN "close" ELSE "idle"
    BY <1>12, <1>0 DEF SyncList, Goto
  <2>2. SyncKnows(s)'
    BY <2>1, <1>0, <1>4 DEF SyncKnows, IsOpen, Flat
  <2> QED
    BY <2>1, <2>2, <1>q, <1>a
<1>13. CASE SyncClose(s)
  <2>1. /\ pc[s] = "close" /\ pc'[s] = "idle" /\ UNCHANGED counted
        /\ position' = [position EXCEPT !.lifecycle = "closed", !.quantity = 0,
                          !.legs = row[s].legs, !.original = row[s].original]
    BY <1>13, <1>0 DEF SyncClose, Goto
  <2>2. position'.details = position.details /\ position'.lifecycle = "closed"
    BY <2>1, <1>0 DEF PositionRow
  <2>3. Flat(Held)
    <3>1. Flat(held[s]) /\ \A k \in Kinds : Held[k] <= held[s][k]
      BY <2>1, <1>0 DEF SyncKnows
    <3> QED
      BY <3>1, <1>0, <1>4 DEF Flat, RowCounts, NotOversold
  <2>4. RowCounts'
    <3>1. Entries' /\ Counted' = Counted /\ CountedOnce' /\ Counted' \subseteq FilledSet'
      BY <2>1, <2>2, <1>0, <1>3, SameEntries
    <3> QED
      BY <3>1, <2>2, <2>3, <1>4 DEF RowCounts, IsOpen, ClosedMeansFlat
  <2>5. SyncKnows(s)'
    BY <2>1 DEF SyncKnows
  <2> QED
    BY <2>4, <2>5, <1>a
<1> QED
  BY <1>5, <1>6, <1>7, <1>8, <1>9, <1>10, <1>11, <1>12, <1>13 DEF SyncStep

\* Orders are only ever added.
LEMMA OrdersGrow == ASSUME TypeOK, [Next]_vars PROVE DOMAIN orders \subseteq DOMAIN orders'
<1>1. CASE UNCHANGED orders
  BY <1>1
<1>2. ASSUME NEW o \in DOMAIN orders, BrokerFills(o) \/ BrokerCancels(o)
      PROVE  DOMAIN orders' = DOMAIN orders
  BY <1>2, StatusChange DEF BrokerFills, BrokerCancels
<1>3. ASSUME NEW f \in Fixers, NEW s \in Spreads, FixPlaces(f, s)
      PROVE  DOMAIN orders \subseteq DOMAIN orders'
  <2>1. orders' = Append(orders, [spread |-> s, status |-> "live"])
    BY <1>3 DEF FixPlaces
  <2> QED
    BY <2>1 DEF TypeOK
<1>4. ASSUME NEW s \in Syncs, SyncStep(s) PROVE UNCHANGED orders
  BY <1>4 DEF SyncStep, SyncOrders, SyncHoldings, SyncLoad, SyncQuery, SyncRefresh,
       SyncBook, SyncMeta, SyncList, SyncClose
<1>5. ASSUME NEW f \in Fixers, FixStep(f)
      PROVE  UNCHANGED orders \/ \E s \in Spreads : FixPlaces(f, s)
  BY <1>5 DEF FixStep, FixList, FixFresh, FixKeep, FixDrop, FixSeesFill, FixBook,
       FixDecide, FixRefused, FixSave, Checked
<1>6. CASE UNCHANGED vars
  BY <1>6 DEF vars
<1> QED
  BY <1>1, <1>2, <1>3, <1>4, <1>5, <1>6 DEF Next, Broker

\* Each step of a reconciliation run that has no sync beside it.
LEMMA FixCounting ==
  ASSUME Apart, TypeOK, TypeOK', RowsAgree, FillsAreReal, Exclusive, PlacesAlone, Counting,
         NEW f \in Fixers, FixStep(f)
  PROVE  Counting'
<1> USE SpreadsApart
<1>0. /\ f \in Procs /\ f \notin Syncs /\ Fixers \subseteq Procs /\ Syncs \subseteq Procs
      /\ position \in PositionRow /\ row \in [Procs -> PositionRow]
      /\ pc \in [Procs -> Locations] /\ counted \in [OrderId -> Nat]
      /\ todo \in [Fixers -> SUBSET Spreads] /\ valid \in [Fixers -> SUBSET Spreads]
      /\ new \in [Fixers -> [Spreads -> OrderId \cup {Null}]]
      /\ RowCounts /\ FixKnows(f) /\ ClosedIffEmpty /\ NotOversold
  BY TargetFillsAssumption DEF Procs, TypeOK, Counting, RowsAgree, RowCounts
<1>1. /\ pc[f] # "idle" \/ MayStart(f)
      /\ \A q \in Procs : q # f => pc'[q] = pc[q] /\ row'[q] = row[q]
      /\ \A q \in Fixers : q # f => todo'[q] = todo[q] /\ new'[q] = new[q]
  BY <1>0, OwnStep
<1>2. \A s \in Syncs : SyncKnows(s)'
  <2>1. \A s \in Syncs : pc'[s] = "idle"
    BY <1>0, <1>1 DEF Apart, Exclusive, MayStart
  <2> QED
    BY <2>1 DEF SyncKnows
<1>3. f \in Alone => \A q \in Fixers : q # f => FixKnows(q)'
  <2>1. f \in Alone => \A q \in Fixers : q # f => pc'[q] = "idle"
    BY <1>0, <1>1 DEF Exclusive, MayStart
  <2> QED
    BY <2>1 DEF FixKnows
<1>4. \A q \in Fixers : q # f /\ pc[q] = "submit" => pc[f] = "idle"
  BY <1>0 DEF PlacesAlone, Exclusive
<1>h. [Next]_vars /\ NotOversold' /\ \A k \in Kinds : Held'[k] \in Int /\ Held'[k] <= Held[k]
  <2>1. [Next]_vars
    BY DEF Next
  <2> QED
    BY <2>1, <1>0, HeldStep
<1>s. /\ FilledSet \subseteq FilledSet' /\ DOMAIN orders \subseteq DOMAIN orders'
      /\ \A q \in Fixers : FixKnows(q)
      /\ Cardinality(Counted) \in Nat /\ Cardinality(Counted') \in Nat
  <2>2. DOMAIN orders \subseteq DOMAIN orders'
    BY <1>h, OrdersGrow
  <2>3. Cardinality(Counted) \in Nat /\ Cardinality(Counted') \in Nat
    <3>1. IsFiniteSet(OrderId)
      BY FS_Interval, TargetFillsAssumption, 1 \in Int DEF OrderId
    <3>2. Counted' \in SUBSET OrderId
      BY DEF Counted
    <3> QED
      BY <3>1, <3>2, FS_Subset, FS_CardinalityType, CountedFinite
  <2> QED
    BY <2>2, <2>3, <1>h, FilledStays DEF Counting
\* Steps that leave row and counts alone.
<1>q. ASSUME UNCHANGED <<position, counted>>, FixKnows(f)' PROVE Counting'
  <2>1. RowCounts' /\ Counted' = Counted
    BY <1>q, <1>0, <1>h, <1>s, QuietRow
  <2>2. ASSUME NEW q \in Fixers, q # f PROVE FixKnows(q)'
    BY <1>q, <2>1, <2>2, <1>0, <1>1, <1>s, FixRemembers
  <2> QED
    BY <2>1, <2>2, <1>q, <1>2 DEF Counting
<1>c. ASSUME UNCHANGED counted PROVE Counted' = Counted
  BY <1>c DEF Counted
<1>5. CASE FixList(f)
  <2>1. /\ pc'[f] = "fresh" /\ row'[f] = position /\ IsOpen(position)
        /\ UNCHANGED <<position, counted>>
    BY <1>5, <1>0 DEF FixList, Goto
  <2>2. FixKnows(f)'
    BY <2>1, <1>c, <1>0 DEF FixKnows, RowCounts, Entries, Covers, IsOpen
  <2> QED
    BY <2>1, <2>2, <1>q
<1>6. CASE FixFresh(f)
  <2>1. /\ pc[f] = "fresh" /\ pc'[f] \in {"check", "idle"}
        /\ todo'[f] = {s \in Spreads : row[f].details[s] # NoTarget}
        /\ new'[f] = [s \in Spreads |-> Null]
        /\ UNCHANGED <<position, counted, row>>
    BY <1>6, <1>0 DEF FixFresh, Goto
  <2>2. FixKnows(f)'
    BY <2>1, <1>c, <1>0 DEF FixKnows, Covers, IsOpen
  <2> QED
    BY <2>1, <2>2, <1>q
<1>7. ASSUME NEW s \in Spreads, FixKeep(f, s) \/ FixDrop(f, s) PROVE Counting'
  <2>1. /\ pc[f] = "check" /\ todo'[f] \subseteq todo[f]
        /\ UNCHANGED <<position, counted, row, pc, new>>
    BY <1>7, <1>0 DEF FixKeep, FixDrop, Checked
  <2>2. FixKnows(f)'
    BY <2>1, <1>c, <1>0 DEF FixKnows, Covers, IsOpen, Working
  <2> QED
    BY <2>1, <2>2, <1>q
<1>8. ASSUME NEW s \in Spreads, FixSeesFill(f, s) PROVE Counting'
  <2>1. /\ pc[f] = "check" /\ pc'[f] = s /\ s \in todo[f]
        /\ UNCHANGED <<position, counted, row, todo, new>>
    BY <1>8, <1>0 DEF FixSeesFill, Goto, local
  <2>2. FixKnows(f)'
    BY <2>1, <1>c, <1>0 DEF FixKnows, Covers, IsOpen, Working
  <2> QED
    BY <2>1, <2>2, <1>q
<1>9. ASSUME NEW s \in Spreads, FixBook(f, s) PROVE Counting'
  <2> DEFINE o == row[f].details[s].order
             entry == IF position.details[s] = NoTarget
                        THEN NewTarget(o)
                        ELSE [position.details[s] EXCEPT !.order = o]
             given == [position EXCEPT !.details[s] = entry]
  <2>1. /\ pc[f] = s /\ s \in todo[f] /\ pc[f] \in Working
        /\ pc'[f] = "check" /\ todo'[f] = todo[f] \ {s}
        /\ UNCHANGED <<orders, row, new>>
    BY <1>9, <1>0 DEF FixBook, Checked, Goto, FixKnows, Working
  <2>2. o = position.details[s].order /\ o # Absent /\ o \in FilledSet /\ o \in OrderId
    <3>1. o = position.details[s].order /\ o # Absent
      BY <2>1, <1>0 DEF FixKnows
    <3>2. o \in FilledSet
      BY <2>1 DEF FillsAreReal
    <3>3. FilledSet \subseteq OrderId
      BY OrdersAreIds DEF FilledSet
    <3> QED
      BY <3>1, <3>2, <3>3
  <2>3. given = position
    <3>1. position.details[s] # NoTarget
      BY <2>2 DEF NoTarget
    <3>2. position.details[s] \in Target
      BY <1>0 DEF PositionRow
    <3>3. entry = position.details[s]
      BY <2>2, <3>1, <3>2 DEF Target
    <3> HIDE DEF entry
    <3>4. [position.details EXCEPT ![s] = position.details[s]] = position.details
      BY <1>0 DEF PositionRow
    <3> QED
      BY <3>3, <3>4, <1>0 DEF PositionRow
  <2>4. CASE position.details[s].filled
    <3>1. UNCHANGED <<position, counted>>
      BY <1>9, <2>4 DEF FixBook
    <3>2. FixKnows(f)'
      BY <2>1, <3>1, <1>c, <1>0 DEF FixKnows, Covers, IsOpen, Working
    <3> QED
      BY <3>1, <3>2, <1>q
  <2>5. CASE ~position.details[s].filled
    <3>1. position' = WithFills(given, {s}) /\ counted' = [counted EXCEPT ![o] = @ + 1]
      BY <1>9, <2>5 DEF FixBook
    <3> HIDE DEF given, entry
    <3>2. position' = WithFills(position, {s})
      BY <3>1, <2>3
    <3>3. counted' = [x \in OrderId |-> counted[x] +
                        IF \E t \in {s} : position.details[t].order = x THEN 1 ELSE 0]
      <4>1. \A x : (\E t \in {s} : position.details[t].order = x) <=> x = o
        BY <2>2
      <4> HIDE DEF o
      <4>2. \A x \in OrderId : counted'[x] = counted[x] + IF x = o THEN 1 ELSE 0
        BY <3>1, <2>2, <1>0
      <4>3. counted' = [x \in OrderId |-> counted'[x]]
        BY <3>1, <1>0
      <4> QED
        BY <4>1, <4>2, <4>3
    <3>4. /\ {s} \in SUBSET Spreads
          /\ \A t \in {s} : /\ ~position.details[t].filled
                            /\ position.details[t].order \in FilledSet
      BY <2>2, <2>5
    <3>5. RowCounts' /\ Cardinality(Counted') >= Cardinality(Counted)
      BY <2>1, <3>2, <3>3, <3>4, <1>0, BookingCounts
    <3>6. \A t \in Spreads : position'.details[t].order = position.details[t].order
      BY <3>2, <3>4, <1>0, WithFillsDetails
    <3>7. ASSUME NEW q \in Fixers, q # f PROVE FixKnows(q)'
      <4>1. pc[q] # "submit"
        BY <1>4, <2>1, <3>7
      <4> QED
        BY <3>5, <3>6, <3>7, <4>1, <1>0, <1>1, <1>s, FixRemembers
    <3>8. FixKnows(f)'
      <4>1. IsOpen(row[f]) /\ Covers(row[f])'
        <5>1. row[f].quantity \in Int
          BY <1>0 DEF PositionRow
        <5> QED
          BY <5>1, <2>1, <3>5, <1>0, <1>s DEF FixKnows, Covers, Total
      <4> QED
        BY <2>1, <3>6, <4>1, <1>0 DEF FixKnows, IsOpen, Covers
    <3> QED
      BY <3>5, <3>7, <3>8, <1>2 DEF Counting
  <2> QED
    BY <2>4, <2>5
<1>10. CASE FixDecide(f)
  <2>1. /\ pc[f] \in Working /\ pc'[f] \in {"idle", "submit"}
        /\ UNCHANGED <<position, counted, row, new>>
    BY <1>10, <1>0 DEF FixDecide, Goto, Working
  <2>2. FixKnows(f)'
    BY <2>1, <1>c, <1>0 DEF FixKnows, Covers, IsOpen
  <2> QED
    BY <2>1, <2>2, <1>q
<1>11. ASSUME NEW s \in Spreads, FixPlaces(f, s) PROVE Counting'
  <2>1. /\ pc[f] = "submit" /\ UNCHANGED <<position, counted, row, pc>>
        /\ orders' = Append(orders, [spread |-> s, status |-> "live"])
        /\ new' = [new EXCEPT ![f][s] = Len(orders) + 1]
    BY <1>11 DEF FixPlaces
  <2>2. /\ \A t \in Spreads : new'[f][t] = IF t = s THEN Len(orders) + 1 ELSE new[f][t]
        /\ Len(orders) + 1 \in DOMAIN orders' /\ Len(orders) + 1 \notin DOMAIN orders
    BY <2>1, <1>0, OrdersAreIds DEF TypeOK
  <2>3. Counted \subseteq DOMAIN orders
    BY <1>0 DEF RowCounts, FilledSet
  <2>4. \A t \in Spreads : new'[f][t] # Null =>
          /\ new'[f][t] \in DOMAIN orders' \ Counted'
          /\ \A u \in Spreads : new'[f][u] = new'[f][t] => u = t
    BY <2>1, <2>2, <2>3, <1>c, <1>0, <1>s DEF FixKnows, Null
  <2>5. FixKnows(f)'
    BY <2>1, <2>4, <1>c, <1>0 DEF FixKnows, Covers, IsOpen
  <2> QED
    BY <2>1, <2>5, <1>q
<1>12. ASSUME NEW s \in Spreads, FixRefused(f, s) PROVE Counting'
  <2>1. pc[f] = "submit" /\ UNCHANGED <<position, counted, row, pc, new, orders>>
    BY <1>12 DEF FixRefused
  <2>2. FixKnows(f)'
    BY <2>1, <1>c, <1>0 DEF FixKnows, Covers, IsOpen
  <2> QED
    BY <2>1, <2>2, <1>q
<1>13. CASE FixSave(f)
  <2> DEFINE placed == {s \in Spreads : new[f][s] # Null}
             details == [s \in Spreads |->
                  IF s \in placed THEN NewTarget(new[f][s]) ELSE NoTarget]
  <2>1. /\ pc[f] = "submit" /\ pc'[f] = "idle" /\ UNCHANGED <<orders, counted>>
    BY <1>13, <1>0 DEF FixSave, Goto
  <2>2. FixKnows(f)' /\ f \in Alone
    BY <2>1 DEF FixKnows, PlacesAlone
  <2>3. CASE UNCHANGED position
    BY <2>1, <2>2, <2>3, <1>q
  <2>4. CASE position' = [row[f] EXCEPT !.details = details, !.created = placed = Spreads]
    <3>1. /\ position'.details = details /\ position'.quantity = row[f].quantity
          /\ position'.lifecycle = row[f].lifecycle
      BY <2>4, <1>0 DEF PositionRow
    <3>2. Counted' = Counted /\ CountedOnce' /\ FilledSet' = FilledSet
      BY <2>1, <1>c, <1>0 DEF RowCounts, CountedOnce, FilledSet
    <3>3. IsOpen(position') /\ Covers(position)'
      BY <2>1, <3>1, <3>2, <1>0 DEF FixKnows, Covers, IsOpen
    <3>4. ASSUME NEW s \in Spreads
          PROVE  /\ s \in placed => /\ details[s].order = new[f][s]
                                    /\ new[f][s] \in DOMAIN orders \ Counted
                 /\ s \notin placed => details[s] = NoTarget /\ details[s].order = Absent
      BY <2>1, <1>0 DEF FixKnows, NewTarget, NoTarget
    <3>5. \A s, t \in placed : new[f][s] = new[f][t] => s = t
      BY <2>1, <1>0 DEF FixKnows
    <3>6. /\ Absent \notin OrderId /\ Absent \notin DOMAIN orders /\ Absent \notin Counted
      BY OrdersAreIds DEF Absent, OrderId, Counted
    <3> HIDE DEF details, placed
    <3>7. Entries'
      BY <2>1, <3>1, <3>2, <3>4, <3>5, <3>6 DEF Entries
    <3>8. RowCounts'
      BY <3>2, <3>3, <3>7, <1>h, <1>0 DEF RowCounts, ClosedMeansFlat
    <3> QED
      BY <3>8, <2>2, <1>2, <1>3 DEF Counting
  <2>5. UNCHANGED position
        \/ position' = [row[f] EXCEPT !.details = details, !.created = placed = Spreads]
    BY <1>13 DEF FixSave
  <2> QED
    BY <2>3, <2>4, <2>5
<1> QED
  BY <1>5, <1>6, <1>7, <1>8, <1>9, <1>10, <1>11, <1>12, <1>13 DEF FixStep

LEMMA CountingStep ==
  ASSUME Apart, TypeOK, TypeOK', RowsAgree, FillsAreReal, Exclusive, PlacesAlone, Counting,
         [Next]_vars
  PROVE  Counting'
<1>1. ASSUME UNCHANGED <<position, counted, pc, local>> PROVE Counting'
  <2>1. /\ FilledSet \subseteq FilledSet' /\ NotOversold'
        /\ \A k \in Kinds : /\ Held'[k] \in Int /\ Held[k] \in Int
                            /\ Held'[k] <= Held[k]
    BY FilledStays, HeldStep, FilledFinite DEF Counting, RowCounts
  <2>2. DOMAIN orders \subseteq DOMAIN orders'
    BY OrdersGrow
  <2>3. RowCounts' /\ Counted' = Counted
    BY <1>1, <2>1, <2>2, QuietRow DEF Counting
  <2>4. ASSUME NEW s \in Syncs PROVE SyncKnows(s)'
    <3>1. \A k \in Kinds : held[s][k] \in Int
      BY DEF TypeOK
    <3>2. SyncKnows(s) /\ UNCHANGED <<position, pc, row, held, seen>>
      BY <1>1 DEF Counting, local
    <3>3. pc'[s] \in {"refresh", "book"} =>
            seen'[s] # {} /\ \A o \in seen'[s] : Unbooked(o)'
      BY <3>2 DEF SyncKnows, Unbooked
    <3>4. pc'[s] = "book" => row'[s] = WithFills(position', Hits(position', seen'[s]))
      BY <3>2 DEF SyncKnows
    <3>5. pc'[s] \notin {"idle", "holdings"} => \A k \in Kinds : Held'[k] <= held'[s][k]
      BY <3>1, <3>2, <2>1 DEF SyncKnows
    <3> QED
      BY <3>2, <3>3, <3>4, <3>5 DEF SyncKnows, IsOpen, Flat
  <2>5. ASSUME NEW f \in Fixers PROVE FixKnows(f)'
    <3>1. FixKnows(f) /\ UNCHANGED <<position, pc, row, todo, new>>
      BY <1>1 DEF Counting, local
    <3>2. row \in [Procs -> PositionRow] /\ todo \in [Fixers -> SUBSET Spreads]
      BY DEF TypeOK
    <3>3. Cardinality(Counted) \in Nat
      BY CountedFinite
    <3> QED
      BY <3>1, <3>2, <3>3, <2>2, <2>3, FixRemembers
  <2> QED
    BY <2>3, <2>4, <2>5 DEF Counting
<1>2. CASE UNCHANGED vars
  BY <1>2, <1>1 DEF vars
<1>3. CASE Broker
  BY <1>3, <1>1 DEF Broker, BrokerFills, BrokerCancels
<1> QED
  BY <1>2, <1>3, SyncCounting, FixCounting DEF Next

LEMMA CountingHolds ==
  ASSUME Apart
  PROVE  Spec => /\ []TypeOK /\ []RowsAgree /\ []FillsAreReal
                 /\ []Exclusive /\ []PlacesAlone /\ []Counting
<1>1. Spec => []PlacesAlone
  BY SubmitsAlone DEF PlacesAlone
<1>2. Spec => []TypeOK /\ []RowsAgree /\ []FillsAreReal /\ []Exclusive
  BY TypeCorrect, AgreeInit, AgreeStep, FillsInit, FillsStep, ExclusiveInit,
     ExclusiveStep, PTL DEF Spec
<1>3. TypeOK /\ TypeOK' /\ RowsAgree /\ FillsAreReal /\ Exclusive /\ PlacesAlone /\ Counting
        /\ [Next]_vars => Counting'
  BY CountingStep
<1> QED
  BY <1>1, <1>2, <1>3, CountingInit, PTL DEF Spec

-----------------------------------------------------------------------------
(***************************************************************************)
(* The refinement of FillLedger.  It needs more than Apart: a target that  *)
(* is placed again replaces the details, and with them what was booked.    *)
(***************************************************************************)
Booked == {s \in Spreads : position.details[s].filled}

\* The row is the ledger, and once it is closed nobody is left to book on it.
Exact ==
  /\ IsOpen(position) => position.quantity = Total - Cardinality(Booked)
  /\ position.original = Unknown \/ position.original >= position.quantity
  /\ IsOpen(position) \/ Booked = Spreads \/ \A f \in Fixers : pc[f] = "idle"

LEMMA SpreadsAreThree == Cardinality(Spreads) = Total
<1> DEFINE A == {"put_spread_1"}
           B == A \cup {"put_spread_2"}
<1>1. IsFiniteSet(A) /\ Cardinality(A) = 1
  BY FS_Singleton
<1>2. IsFiniteSet(B) /\ Cardinality(B) = 2
  <2>1. "put_spread_2" \notin A
    OBVIOUS
  <2> HIDE DEF A
  <2> QED
    BY <1>1, <2>1, FS_AddElement
<1>3. Cardinality(B \cup {"call_spread"}) = 3
  <2>1. "call_spread" \notin B
    OBVIOUS
  <2> HIDE DEF B
  <2> QED
    BY <1>2, <2>1, FS_AddElement
<1>4. B \cup {"call_spread"} = Spreads
  BY DEF Spreads
<1> QED
  BY <1>3, <1>4 DEF Total

\* FillLedger counts as this module does.
LEMMA SameCount == ASSUME NEW S PROVE Ledger!Cardinality(S) = Cardinality(S)
  BY DEF Ledger!Cardinality, Cardinality

LEMMA LedgerStarts == Init => Exact /\ Ledger!LedgerInit
<1> SUFFICES ASSUME Init PROVE Exact /\ Ledger!LedgerInit
  OBVIOUS
<1>1. PICK n \in 0..Total :
        \E t \in [1..n -> Spreads], c \in Credits : OpenedWith(n, t, c)
  BY DEF Init
<1>2. PICK taken \in [1..n -> Spreads], credit \in Credits : OpenedWith(n, taken, credit)
  BY <1>1
<1>3. /\ Booked = {} /\ position.quantity = Total /\ position.lifecycle = "open_full"
      /\ position.original = Unknown
  BY <1>2 DEF OpenedWith, Booked
<1>4. Cardinality({}) = 0
  BY FS_EmptySet
<1>5. Total - 0 = Total
  BY DEF Total
<1> QED
  BY <1>3, <1>4, <1>5, SpreadsAreThree, SameCount DEF Exact, IsOpen, Ledger!LedgerInit, Booked

\* Booking unbooked fills on an open row is what the ledger calls Book.
LEMMA BookingIsBook ==
  ASSUME TypeOK, Exact, IsOpen(position),
         NEW hits \in SUBSET Spreads, hits # {}, hits \cap Booked = {},
         position'.details = WithFills(position, hits).details,
         position'.quantity = WithFills(position, hits).quantity,
         position'.lifecycle = WithFills(position, hits).lifecycle,
         position'.original = WithFills(position, hits).original
  PROVE  Exact' /\ Ledger!LedgerNext
<1>0. /\ position \in PositionRow /\ position.quantity \in 0..Total
      /\ position.quantity = Total - Cardinality(Booked)
      /\ position.original \in 0..Total \cup {Unknown}
  BY DEF TypeOK, PositionRow, Exact
<1>1. /\ Cardinality(hits) \in Nat /\ Cardinality(hits) # 0
      /\ Cardinality(Booked) \in Nat
  BY SpreadsCount, Booked \in SUBSET Spreads DEF Booked
<1>2. Booked' = Booked \cup hits
  <2>1. ASSUME NEW s \in Spreads
        PROVE  /\ s \in hits => position'.details[s].filled
               /\ s \notin hits => position'.details[s] = position.details[s]
    BY <1>0, WithFillsDetails
  <2> QED
    BY <2>1 DEF Booked
<1>3. /\ Cardinality(Booked') = Cardinality(Booked) + Cardinality(hits)
      /\ Cardinality(Booked') <= Total
      /\ Cardinality(Booked') = Total => Booked' = Spreads
  <2>1. IsFiniteSet(Booked) /\ IsFiniteSet(hits) /\ Booked' \in SUBSET Spreads
    BY <1>2, SpreadsFinite, FS_Subset, Booked \in SUBSET Spreads DEF Booked
  <2>2. Cardinality(Booked \cap hits) = 0
    BY FS_EmptySet, Booked \cap hits = {}
  <2>3. Cardinality(Booked \cup hits) =
          Cardinality(Booked) + Cardinality(hits) - Cardinality(Booked \cap hits)
    BY <2>1, FS_Union
  <2>4. /\ Cardinality(Booked') <= Cardinality(Spreads)
        /\ Cardinality(Spreads) = Cardinality(Booked') => Spreads = Booked'
    BY <2>1, SpreadsFinite, FS_Subset
  <2> QED
    BY <2>2, <2>3, <2>4, <1>1, <1>2, SpreadsAreThree
<1>4. /\ position'.quantity = position.quantity - Cardinality(hits)
      /\ position'.quantity \in Nat /\ position'.quantity < position.quantity
      /\ position'.quantity = Total - Cardinality(Booked')
  <2>1. Cardinality(hits) <= position.quantity
    BY <1>0, <1>1, <1>3 DEF Total
  <2>2. position'.quantity = Left(position, hits)
    BY <1>0, WithFillsDetails
  <2> QED
    BY <2>1, <2>2, <1>0, <1>1, <1>3 DEF Left, Total
<1>5. /\ position'.original = Original(position)
      /\ Original(position) >= position.quantity /\ Original(position) \in Int
  BY <1>0, WithFillsDetails DEF Exact, Original, Unknown, Total
<1>6. position'.lifecycle = IF position'.quantity = 0 THEN "closed" ELSE "open_partial"
  <2>1. position'.lifecycle = LifecycleFor(position, position'.quantity)
    BY <1>0, WithFillsDetails
  <2> QED
    BY <2>1, <1>0, <1>4, <1>5 DEF LifecycleFor
<1>7. Exact'
  <2>1. IsOpen(position') \/ Booked' = Spreads
    <3>1. CASE position'.quantity = 0
      BY <3>1, <1>1, <1>3, <1>4 DEF Total
    <3>2. CASE position'.quantity # 0
      BY <3>2, <1>6 DEF IsOpen
    <3> QED
      BY <3>1, <3>2
  <2>2. position'.original >= position'.quantity
    BY <1>0, <1>4, <1>5
  <2> QED
    BY <2>1, <2>2, <1>4 DEF Exact
<1>8. Ledger!Book(hits)
  <2>1. {s \in Spreads : position'.details[s].filled} = Booked'
    BY DEF Booked
  <2> QED
    BY <2>1, <1>2, <1>4, <1>6, SameCount DEF Ledger!Book, Booked
<1> QED
  BY <1>7, <1>8 DEF Ledger!LedgerNext, IsOpen

\* Every step of the services is a step of the ledger, or leaves it as it is.
LEMMA LedgerGoesOn ==
  ASSUME Apart, Failures \subseteq {"partial"}, TypeOK, FillsAreReal, RowsAgree, Exclusive,
         NothingMissing, Counting, Exact, [Next]_vars
  PROVE  Exact' /\ [Ledger!LedgerNext]_(Ledger!ledger)
<1> USE SpreadsApart
<1>0. /\ position \in PositionRow /\ row \in [Procs -> PositionRow]
      /\ pc \in [Procs -> Locations] /\ seen \in [Syncs -> SUBSET OrderId]
      /\ Syncs \subseteq Procs /\ Fixers \subseteq Procs /\ RowCounts
  BY DEF TypeOK, Procs, Counting
\* Steps that leave all of the row alone that the ledger shows.
<1>a. ASSUME position'.details = position.details,
             position'.quantity = position.quantity,
             position'.lifecycle = position.lifecycle,
             position'.original = position.original,
             IsOpen(position) \/ \A f \in Fixers : pc[f] = "idle" => pc'[f] = "idle"
      PROVE  Exact' /\ [Ledger!LedgerNext]_(Ledger!ledger)
  <2>1. Booked' = Booked
    BY <1>a DEF Booked
  <2>2. Exact'
    BY <2>1, <1>a DEF Exact, IsOpen
  <2>3. UNCHANGED Ledger!ledger
    BY <2>1, <1>a DEF Ledger!ledger, Booked
  <2> QED
    BY <2>2, <2>3
<1>1. CASE UNCHANGED vars
  BY <1>1, <1>a DEF vars
<1>2. CASE Broker
  BY <1>2, <1>a DEF Broker, BrokerFills, BrokerCancels
<1>3. ASSUME NEW s \in Syncs, SyncStep(s)
      PROVE  Exact' /\ [Ledger!LedgerNext]_(Ledger!ledger)
  <2>0. /\ s \in Procs /\ s \notin Fixers /\ s \in Alone /\ SyncKnows(s)
        /\ pc[s] # "idle" \/ MayStart(s)
        /\ \A q \in Procs : q # s => pc'[q] = pc[q]
    BY <1>3, TargetFillsAssumption, OwnStep DEF Procs, Apart, Counting
  <2>1. \A f \in Fixers : pc[f] = "idle" /\ pc'[f] = "idle"
    BY <2>0, <1>0 DEF Exclusive, MayStart
  <2>2. CASE UNCHANGED position
    BY <2>1, <2>2, <1>a
  <2>3. CASE SyncBook(s)
    <3> DEFINE hits == Hits(position, seen[s])
    <3>1. /\ pc[s] = "book" /\ position' = [row[s] EXCEPT !.created = position.created]
          /\ row[s] = WithFills(position, hits) /\ IsOpen(position)
          /\ seen[s] # {} /\ \A o \in seen[s] : Unbooked(o)
      BY <2>3, <2>0 DEF SyncBook, SyncKnows
    <3>2. /\ position'.details = row[s].details /\ position'.quantity = row[s].quantity
          /\ position'.lifecycle = row[s].lifecycle /\ position'.original = row[s].original
      BY <3>1, <2>0, <1>0 DEF PositionRow
    <3>3. hits \in SUBSET Spreads /\ hits # {}
      BY <3>1 DEF Hits, Unbooked
    <3>4. hits \cap Booked = {}
      <4>1. ASSUME NEW t \in hits PROVE ~position.details[t].filled
        <5>1. position.details[t].order \in seen[s] /\ seen[s] \subseteq OrderId
          BY <1>0 DEF Hits
        <5>2. PICK x \in Spreads : /\ position.details[x].order = position.details[t].order
                                   /\ ~position.details[x].filled
          BY <5>1, <3>1 DEF Unbooked
        <5>3. x = t
          BY <5>1, <5>2, <3>3, <1>0 DEF RowCounts, Entries
        <5> QED
          BY <5>2, <5>3
      <4> QED
        BY <4>1 DEF Booked
    <3> HIDE DEF hits
    <3> QED
      BY <3>1, <3>2, <3>3, <3>4, BookingIsBook
  <2>4. CASE SyncMeta(s)
    <3>1. /\ position' = [position EXCEPT !.legs = matched[s], !.original = row[s].original]
          /\ row[s].original = position.original
      BY <2>4, <2>0 DEF SyncMeta, SyncKnows
    <3>2. /\ position'.details = position.details /\ position'.quantity = position.quantity
          /\ position'.lifecycle = position.lifecycle /\ position'.original = position.original
      BY <3>1, <1>0 DEF PositionRow
    <3> QED
      BY <3>2, <2>1, <1>a
  <2>5. CASE SyncClose(s)
    <3>1. /\ position' = [position EXCEPT !.lifecycle = "closed", !.quantity = 0,
                            !.legs = row[s].legs, !.original = row[s].original]
          /\ row[s] = position /\ IsOpen(position)
      BY <2>5, <2>0 DEF SyncClose, SyncKnows
    <3>2. /\ position'.details = position.details /\ position'.quantity = 0
          /\ position'.lifecycle = "closed" /\ position'.original = position.original
      BY <3>1, <1>0 DEF PositionRow
    <3>3. Booked' = Booked
      BY <3>2 DEF Booked
    <3>4. Ledger!LedgerNext
      BY <3>1, <3>2, <3>3 DEF Ledger!LedgerNext, Ledger!CloseOut, IsOpen, Booked
    <3>5. Exact'
      <4>1. position.original \in 0..Total \cup {Unknown} /\ position.quantity \in 0..Total
        BY <1>0 DEF PositionRow
      <4> QED
        BY <4>1, <3>2, <2>1 DEF Exact, IsOpen, Total
    <3> QED
      BY <3>4, <3>5
  <2>6. UNCHANGED position \/ SyncBook(s) \/ SyncMeta(s) \/ SyncClose(s)
    BY <1>3 DEF SyncStep, SyncOrders, SyncHoldings, SyncLoad, SyncQuery, SyncRefresh,
       SyncList
  <2> QED
    BY <2>2, <2>3, <2>4, <2>5, <2>6
<1>4. ASSUME NEW f \in Fixers, FixStep(f)
      PROVE  Exact' /\ [Ledger!LedgerNext]_(Ledger!ledger)
  <2>0. /\ f \in Procs /\ FixKnows(f) /\ pc[f] # "submit"
        /\ \A q \in Procs : q # f => pc'[q] = pc[q]
    BY <1>4, <1>0, TargetFillsAssumption, OwnStep DEF Counting, NothingMissing
  <2>1. CASE UNCHANGED position
    <3>1. IsOpen(position) \/ pc[f] # "idle"
      BY <1>4 DEF FixStep, FixList, FixFresh, FixKeep, FixDrop, FixSeesFill, FixBook,
         FixDecide, FixPlaces, FixRefused, FixSave
    <3>2. IsOpen(position) \/ \A q \in Fixers : pc[q] = "idle" => pc'[q] = "idle"
      BY <3>1, <2>0, <1>0
    <3> QED
      BY <2>1, <3>2, <1>a
  <2>2. ASSUME NEW s \in Spreads, FixBook(f, s), ~position.details[s].filled
        PROVE  Exact' /\ Ledger!LedgerNext
    <3> DEFINE o == row[f].details[s].order
               entry == IF position.details[s] = NoTarget
                          THEN NewTarget(o)
                          ELSE [position.details[s] EXCEPT !.order = o]
               given == [position EXCEPT !.details[s] = entry]
    <3>1. pc[f] = s /\ position' = WithFills(given, {s})
      BY <2>2 DEF FixBook
    <3>2. o = position.details[s].order /\ o # Absent
      BY <3>1, <2>0 DEF FixKnows, Working
    <3>3. given = position
      <4>1. position.details[s] # NoTarget
        BY <3>2 DEF NoTarget
      <4>2. position.details[s] \in Target
        BY <1>0 DEF PositionRow
      <4>3. entry = position.details[s]
        BY <3>2, <4>1, <4>2 DEF Target
      <4> HIDE DEF entry
      <4>4. [position.details EXCEPT ![s] = position.details[s]] = position.details
        BY <1>0 DEF PositionRow
      <4> QED
        BY <4>3, <4>4, <1>0 DEF PositionRow
    <3> HIDE DEF given, entry, o
    <3>4. position' = WithFills(position, {s})
      BY <3>1, <3>3
    <3>5. IsOpen(position)
      BY <3>1, <2>0, <2>2 DEF Exact, Booked
    <3>6. {s} \in SUBSET Spreads /\ {s} # {} /\ {s} \cap Booked = {}
      BY <2>2 DEF Booked
    <3> QED
      BY <3>4, <3>5, <3>6, BookingIsBook
  <2>3. \/ UNCHANGED position
        \/ \E s \in Spreads : FixBook(f, s) /\ ~position.details[s].filled
    BY <1>4, <2>0 DEF FixStep, FixList, FixFresh, FixKeep, FixDrop, FixSeesFill, FixBook,
       FixDecide, FixPlaces, FixRefused, FixSave
  <2> QED
    BY <2>1, <2>2, <2>3
<1> QED
  BY <1>1, <1>2, <1>3, <1>4 DEF Next

\* While no target is cancelled, refused or unanswered, the syncs, one at a time, and
\* any number of overlapping reconciliation runs implement FillLedger: each fill is
\* booked once and for good, and quantity and lifecycle follow.
THEOREM ServicesKeepTheLedger ==
  ASSUME Syncs \subseteq Alone, Failures \subseteq {"partial"}
  PROVE  Spec => BooksLedger
<1>1. Apart
  BY DEF Apart
<1>2. Spec => []TypeOK /\ []RowsAgree /\ []FillsAreReal /\ []Exclusive /\ []Counting
  BY <1>1, CountingHolds, PTL
<1>3. Spec => []NothingMissing
  <2>1. Init => NothingMissing
    BY NothingMissingInit
  <2>2. TypeOK /\ NothingMissing /\ [Next]_vars => NothingMissing'
    BY NothingMissingStep
  <2> QED
    BY <2>1, <2>2, TypeCorrect, PTL DEF Spec
<1>4. TypeOK /\ RowsAgree /\ FillsAreReal /\ Exclusive /\ Counting /\ NothingMissing
        /\ Exact /\ [Next]_vars
        => Exact' /\ [Ledger!LedgerNext]_(Ledger!ledger)
  BY <1>1, LedgerGoesOn
<1>5. Spec => Ledger!LedgerInit /\ [][Ledger!LedgerNext]_(Ledger!ledger)
  BY <1>2, <1>3, <1>4, LedgerStarts, PTL DEF Spec
<1> QED
  BY <1>5 DEF BooksLedger, Ledger!LedgerSpec

-----------------------------------------------------------------------------
(***************************************************************************)
(* What a service that implements FillLedger may rely on, for every finite *)
(* set of contracts: the ledger by itself, not as this module keeps it.    *)
(***************************************************************************)
CONSTANT Contracts
VARIABLES booked, quantity, lifecycle
AnyLedger == INSTANCE FillLedger

\* The parts that are inductive together.
LedgerInv ==
  /\ AnyLedger!LedgerTypeOK
  /\ AnyLedger!QuantityIsWhatIsLeft
  /\ lifecycle = "closed" => quantity = 0
  /\ lifecycle # "closed" => quantity # 0 \/ Contracts = {}

LEMMA AnyCount == ASSUME NEW S PROVE AnyLedger!Cardinality(S) = Cardinality(S)
  BY DEF AnyLedger!Cardinality, Cardinality

\* Booking fills adds up: what is left after S is what was left less S.
LEMMA BookingAddsUp ==
  ASSUME IsFiniteSet(Contracts), NEW B \in SUBSET Contracts, NEW S \in SUBSET Contracts,
         S \cap B = {}
  PROVE  /\ Cardinality(Contracts) \in Nat /\ Cardinality(B) \in Nat /\ Cardinality(S) \in Nat
         /\ Cardinality(B \cup S) = Cardinality(B) + Cardinality(S)
         /\ Cardinality(B \cup S) <= Cardinality(Contracts)
<1>1. IsFiniteSet(B) /\ IsFiniteSet(S) /\ IsFiniteSet(B \cup S)
  BY FS_Subset, FS_Union
<1>2. /\ Cardinality(Contracts) \in Nat
      /\ Cardinality(B) \in Nat
      /\ Cardinality(S) \in Nat
  BY <1>1, FS_CardinalityType
<1>3. Cardinality(B \cup S) =
        Cardinality(B) + Cardinality(S) - Cardinality(B \cap S)
  BY <1>1, FS_Union
<1>4. Cardinality(B \cap S) = 0
  BY FS_EmptySet, B \cap S = {}
<1>5. Cardinality(B \cup S) <= Cardinality(Contracts)
  BY FS_Subset, B \cup S \in SUBSET Contracts
<1> QED
  BY <1>2, <1>3, <1>4, <1>5

\* The first row counts every contract and is open.
LEMMA AnyLedgerStarts ==
  ASSUME IsFiniteSet(Contracts), AnyLedger!LedgerInit PROVE LedgerInv
<1>1. Cardinality(Contracts) \in Nat
  BY FS_CardinalityType
<1>2. Cardinality({}) = 0 /\ (Cardinality(Contracts) = 0 => Contracts = {})
  BY FS_EmptySet
<1>3. Cardinality(Contracts) - 0 = Cardinality(Contracts)
  BY <1>1
<1> QED
  BY <1>1, <1>2, <1>3, AnyCount
     DEF AnyLedger!LedgerInit, LedgerInv, AnyLedger!LedgerTypeOK, AnyLedger!QuantityIsWhatIsLeft

\* A booking or a close-out leaves what is left in agreement with the lifecycle.
LEMMA AnyLedgerGoesOn ==
  ASSUME IsFiniteSet(Contracts), LedgerInv, [AnyLedger!LedgerNext]_(AnyLedger!ledger)
  PROVE  LedgerInv'
<1>1. CASE UNCHANGED AnyLedger!ledger
  BY <1>1 DEF AnyLedger!ledger, LedgerInv, AnyLedger!LedgerTypeOK, AnyLedger!QuantityIsWhatIsLeft
<1>2. ASSUME NEW S \in SUBSET Contracts, AnyLedger!Book(S), lifecycle # "closed" PROVE LedgerInv'
  <2>1. booked \in SUBSET Contracts /\ S \cap booked = {} /\ booked' = booked \cup S
    BY <1>2 DEF LedgerInv, AnyLedger!LedgerTypeOK, AnyLedger!Book
  <2>2. /\ Cardinality(Contracts) \in Nat /\ Cardinality(booked) \in Nat
        /\ Cardinality(S) \in Nat
        /\ Cardinality(booked') = Cardinality(booked) + Cardinality(S)
        /\ Cardinality(booked') <= Cardinality(Contracts)
    BY <2>1, BookingAddsUp
  <2>3. quantity = Cardinality(Contracts) - Cardinality(booked)
    BY <1>2, AnyCount DEF LedgerInv, AnyLedger!QuantityIsWhatIsLeft
  <2>4. quantity' = quantity - Cardinality(S)
    BY <1>2, AnyCount DEF AnyLedger!Book
  <2>5. quantity' = Cardinality(Contracts) - Cardinality(booked') /\ quantity' \in Nat
    BY <2>2, <2>3, <2>4
  <2>6. lifecycle' = IF quantity' = 0 THEN "closed" ELSE "open_partial"
    BY <1>2 DEF AnyLedger!Book
  <2> QED
    BY <2>1, <2>5, <2>6, AnyCount DEF LedgerInv, AnyLedger!LedgerTypeOK, AnyLedger!QuantityIsWhatIsLeft
<1>3. CASE AnyLedger!CloseOut
  BY <1>3 DEF AnyLedger!CloseOut, LedgerInv, AnyLedger!LedgerTypeOK, AnyLedger!QuantityIsWhatIsLeft
<1> QED
  BY <1>1, <1>2, <1>3 DEF AnyLedger!LedgerNext

\* While the position is open, its quantity is the number of spreads whose fill
\* has not been booked; it is closed exactly when that number is zero.
THEOREM LedgerAddsUp ==
  ASSUME IsFiniteSet(Contracts)
  PROVE  AnyLedger!LedgerSpec =>
           [](AnyLedger!LedgerTypeOK /\ AnyLedger!QuantityIsWhatIsLeft /\ AnyLedger!ClosedWhenEmpty)
<1>1. AnyLedger!LedgerInit => LedgerInv
  BY AnyLedgerStarts
<1>2. LedgerInv /\ [AnyLedger!LedgerNext]_(AnyLedger!ledger) => LedgerInv'
  BY AnyLedgerGoesOn
<1>3. LedgerInv =>
        AnyLedger!LedgerTypeOK /\ AnyLedger!QuantityIsWhatIsLeft /\ AnyLedger!ClosedWhenEmpty
  BY DEF LedgerInv, AnyLedger!ClosedWhenEmpty
<1> QED
  BY <1>1, <1>2, <1>3, PTL DEF AnyLedger!LedgerSpec

\* Under this specification a booked fill stays booked.
THEOREM LedgerKeeps == AnyLedger!LedgerSpec => AnyLedger!BookedForGood
<1>1. [AnyLedger!LedgerNext]_(AnyLedger!ledger) => [booked \subseteq booked']_booked
  BY DEF AnyLedger!LedgerNext, AnyLedger!Book, AnyLedger!CloseOut, AnyLedger!ledger
<1> QED
  BY <1>1, PTL DEF AnyLedger!LedgerSpec, AnyLedger!BookedForGood
=============================================================================
