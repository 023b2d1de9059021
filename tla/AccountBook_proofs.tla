-------------------------- MODULE AccountBook_proofs --------------------------
(***************************************************************************)
(* Proofs about AccountBook: for any orders, contracts, underlyings and    *)
(* workers, whatever calls fail and however the workers overlap, with all  *)
(* that one of them read before another wrote.                             *)
(***************************************************************************)
EXTENDS AccountBook, FiniteSetTheorems, TLAPS

Stages == {"unplaced", "working", "filled", "ended"}
Steps == {"idle", "transactions", "import", "link", "discover", "fetch", "sync", "list", "close",
          "closing"}

\* The types of the tables, on which the arguments rest.
Typed ==
    /\ stage \in [Orders -> Stages]
    /\ tape \subseteq Transactions
    /\ row \in [Ids -> {None} \cup Records]
    /\ DOMAIN ledger \subseteq Trades
    /\ \A t \in DOMAIN ledger : ledger[t] \in {None} \cup Rows
    /\ seen \in [Workers -> SUBSET Symbols]
    /\ shares \subseteq Underlyings
    /\ at \in [Workers -> Steps]

\* An order has a row, and a transaction on the tape, only once it was placed.
PlacedFirst ==
    /\ \A o \in Orders : stage[o] = "unplaced" => row[o] = None
    /\ \A t \in tape : stage[t.order] # "unplaced"

\* The transaction of an opening is linked to the row of its order or to none.
LinkedHome ==
    \A t \in DOMAIN ledger : t.kind = "open" /\ ledger[t] # None => ledger[t] = t.order

\* What a worker has listed and read while it imports, links and closes: rows and
\* transactions that are still there, with a link an opening may have.
Importing(w) ==
    /\ todo[w] \subseteq Trades
    /\ hold[w] # None =>
         /\ hold[w].of \in Trades /\ hold[w].to \in Rows \cup {None, "new"}
         /\ hold[w].of.kind = "open" => hold[w].to \in {None, "new", hold[w].of.order}
Linking(w) ==
    /\ todo[w] \subseteq Trades
    /\ hold[w] # None =>
         /\ hold[w].of \in Trades /\ hold[w].to \in Rows
         /\ hold[w].of.kind = "open" => hold[w].to = hold[w].of.order
Closing(w) ==
    /\ todo[w] \subseteq [of : Rows, was : Records]
    /\ hold[w] # None => hold[w].of \in Rows /\ hold[w].as \in Records
Doing(w) ==
    /\ at[w] = "import" => Importing(w)
    /\ at[w] = "link" => Linking(w)
    /\ at[w] = "closing" => Closing(w)
    /\ at[w] \notin {"import", "link", "closing"} => Done(w)

Items ==
    /\ todo = [w \in Workers |-> todo[w]] /\ hold = [w \in Workers |-> hold[w]]
    /\ \A w \in Workers : Doing(w)

BookInv == Typed /\ PlacedFirst /\ LinkedHome /\ Items

LEMMA BookInit == ASSUME BookAssumption, Init PROVE BookInv
<1>1. Typed
    BY DEF Init, Typed, BookAssumption, Stages, Steps, Symbols, Ids, Workers
<1>2. PlacedFirst /\ LinkedHome
    BY DEF Init, PlacedFirst, LinkedHome, Ids
<1>3. Items
    BY DEF Init, Items, Doing, Done, Workers
<1> QED
    BY <1>1, <1>2, <1>3 DEF BookInv

\* A row as a place of the code makes it is a row.
LEMMA NewRow ==
    ASSUME BookAssumption, NEW state \in {"pending_entry", "open", "closed"},
           NEW managed \in BOOLEAN, NEW legs \in SUBSET Symbols
    PROVE  /\ Row(state, managed, legs) \in Records
           /\ Row(state, managed, legs) # None
    BY DEF Row, Records, BookAssumption

\* The transactions of one order.
LEMMA FillsTyped ==
    ASSUME BookAssumption, NEW o \in Orders, NEW kind \in Kinds
    PROVE  /\ Fills(o, kind) \subseteq Transactions
           /\ \A t \in Fills(o, kind) : t.order = o /\ t.kind = kind
    BY DEF Fills, Transactions, BookAssumption

\* What a step may do to the rows: a row stays, and a new one has been placed.
RowsGrow ==
    /\ row' \in [Ids -> {None} \cup Records]
    /\ \A r \in Rows : row'[r] # None
    /\ \A r \in Ids \ Rows : row'[r] # None => (r \in Orders => stage[r] # "unplaced")

\* What a step may do to the ledger: transactions come in from the tape, and the
\* link of an opening leads home, though a link may be lost.
LedgerMoves ==
    /\ DOMAIN ledger' \subseteq Trades
    /\ \A t \in DOMAIN ledger' :
         /\ ledger'[t] \in {None} \cup Rows \cup Rows'
         /\ t.kind = "open" /\ ledger'[t] # None => ledger'[t] = t.order

LEMMA GrownRows == ASSUME RowsGrow PROVE Rows \subseteq Rows'
    BY DEF RowsGrow, Rows

\* Whoever changes the rows and the ledger no more than that keeps the invariant.
LEMMA BookKeeps ==
    ASSUME BookAssumption, BookInv, RowsGrow, LedgerMoves, UNCHANGED <<stage, tape, shares>>,
           seen' \in [Workers -> SUBSET Symbols], at' \in [Workers -> Steps], Items'
    PROVE  BookInv'
<1>1. Typed'
    BY GrownRows DEF BookInv, Typed, RowsGrow, LedgerMoves, Trades
<1>2. PlacedFirst'
    BY DEF BookInv, PlacedFirst, RowsGrow, Rows, Ids
<1>3. LinkedHome'
    BY DEF LinkedHome, LedgerMoves
<1> QED
    BY <1>1, <1>2, <1>3 DEF BookInv

LEMMA LedgerStays == ASSUME BookInv, UNCHANGED ledger PROVE LedgerMoves
    BY DEF BookInv, Typed, LinkedHome, LedgerMoves

LEMMA RowsStay == ASSUME BookInv, UNCHANGED row PROVE RowsGrow
    BY DEF BookInv, Typed, RowsGrow, Rows

\* What a worker has in hand stays what it is while rows and transactions come.
LEMMA DoingKept ==
    ASSUME BookInv, NEW w \in Workers, Rows \subseteq Rows', Trades \subseteq Trades',
           at'[w] = at[w], todo'[w] = todo[w], hold'[w] = hold[w]
    PROVE  Doing(w)'
<1>1. Doing(w)
    BY DEF BookInv, Items
<1>2. [of : Rows, was : Records] \subseteq [of : Rows', was : Records]
    OBVIOUS
<1> QED
    BY <1>1, <1>2 DEF Doing, Importing, Linking, Closing, Done

LEMMA ItemsStay ==
    ASSUME BookInv, UNCHANGED <<at, todo, hold>>, Rows \subseteq Rows', Trades \subseteq Trades'
    PROVE  Items'
    BY DoingKept DEF BookInv, Items

\* A step of one worker changes what that one has in hand.
LEMMA ItemsMove ==
    ASSUME BookInv, NEW w \in Workers, Rows \subseteq Rows', Trades \subseteq Trades',
           NEW a, NEW d, NEW h, at' = [at EXCEPT ![w] = a], todo' = [todo EXCEPT ![w] = d],
           hold' = [hold EXCEPT ![w] = h], Doing(w)'
    PROVE  Items'
<1>1. ASSUME NEW v \in Workers, v # w PROVE Doing(v)'
    <2>1. at'[v] = at[v] /\ todo'[v] = todo[v] /\ hold'[v] = hold[v]
        BY <1>1 DEF BookInv, Items, Typed
    <2> QED
        BY <2>1, DoingKept
<1> QED
    BY <1>1 DEF BookInv, Items

\* What is unchanged for the worker may be written as a change of it to itself.
LEMMA SameItems ==
    ASSUME BookInv, NEW w \in Workers
    PROVE  /\ at = [at EXCEPT ![w] = at[w]] /\ todo = [todo EXCEPT ![w] = todo[w]]
           /\ hold = [hold EXCEPT ![w] = hold[w]]
<1>1. at = [at EXCEPT ![w] = at[w]]
    BY DEF BookInv, Typed
<1> QED
    BY <1>1 DEF BookInv, Items

\* Changing the state, the legs or the reason of a row makes no new row of it.
LEMMA RowKept ==
    ASSUME BookAssumption, NEW rec \in Records, NEW state \in {"pending_entry", "open", "closed"},
           NEW legs \in SUBSET Symbols
    PROVE  /\ [rec EXCEPT !.state = state] \in Records
           /\ [rec EXCEPT !.legs = legs] \in Records
           /\ [rec EXCEPT !.state = state, !.legs = legs] \in Records
    BY DEF Records

\* Steps that leave rows and ledger alone and only add to the tape keep the
\* invariant.
LEMMA TapeGrows ==
    ASSUME BookAssumption, BookInv, UNCHANGED <<row, ledger, seen, at, todo, hold>>,
           shares' \subseteq Underlyings, stage' \in [Orders -> Stages],
           \A o \in Orders : stage'[o] = "unplaced" => stage[o] = "unplaced",
           tape \subseteq tape', tape' \subseteq Transactions,
           \A t \in tape' \ tape : stage'[t.order] # "unplaced"
    PROVE  BookInv'
<1>1. Typed'
    BY DEF BookInv, Typed, Trades, Rows
<1>2. \A t \in tape : t.order \in Orders
    BY DEF BookInv, Typed, Transactions
<1>3. PlacedFirst'
    BY <1>2 DEF BookInv, PlacedFirst
<1>4. LinkedHome'
    BY DEF BookInv, LinkedHome
<1>5. Items'
    BY ItemsStay DEF Rows, Trades
<1> QED
    BY <1>1, <1>3, <1>4, <1>5 DEF BookInv

LEMMA TradingKeeps == ASSUME BookAssumption, BookInv, Trading PROVE BookInv'
<1> USE DEF Stages
<1>1. ASSUME NEW o \in Orders, PlaceManaged(o) PROVE BookInv'
    <2>1. row[o] = None /\ Row("pending_entry", TRUE, {}) \in Records
          /\ Row("pending_entry", TRUE, {}) # None
        BY <1>1, NewRow DEF PlaceManaged, BookInv, PlacedFirst
    <2>2. \A p \in Ids : p # o => row'[p] = row[p]
        BY <1>1 DEF PlaceManaged, BookInv, Typed
    <2>3. Rows \subseteq Rows' /\ Trades' = Trades
        BY <1>1, <2>1, <2>2 DEF PlaceManaged, Rows, Trades
    <2>4. Typed'
        BY <1>1, <2>1, <2>3 DEF PlaceManaged, BookInv, Typed, items
    <2>5. \A t \in tape : t.order \in Orders /\ t.order # o
        BY <1>1 DEF PlaceManaged, BookInv, PlacedFirst, Typed, Transactions
    <2>6. PlacedFirst'
        <3>1. /\ stage'[o] = "working"
              /\ \A p \in Orders : p # o => stage'[p] = stage[p] /\ row'[p] = row[p]
            BY <1>1, <2>2 DEF PlaceManaged, BookInv, Typed, Ids
        <3>2. tape' = tape
            BY <1>1 DEF PlaceManaged
        <3> QED
            BY <2>5, <3>1, <3>2 DEF BookInv, PlacedFirst
    <2>7. LinkedHome'
        BY <1>1 DEF PlaceManaged, BookInv, LinkedHome
    <2>8. Items'
        BY <1>1, <2>3, ItemsStay DEF PlaceManaged, items
    <2> QED
        BY <2>4, <2>6, <2>7, <2>8 DEF BookInv
<1>2. ASSUME NEW o \in Orders, PlaceForgotten(o) \/ PlaceAtBroker(o) PROVE BookInv'
    BY <1>2, TapeGrows DEF PlaceForgotten, PlaceAtBroker, BookInv, Typed, items
<1>3. ASSUME NEW o \in Orders, Fill(o) PROVE BookInv'
    <2>1. "open" \in Kinds
        BY DEF Kinds
    <2> QED
        BY <1>3, <2>1, FillsTyped, TapeGrows DEF Fill, BookInv, Typed, items
<1>4. ASSUME NEW o \in Orders, Assign(o) PROVE BookInv'
    <2>1. "assigned" \in Kinds
        BY DEF Kinds
    <2>2. UnderlyingOf(o) \in Underlyings
        BY DEF UnderlyingOf, BookAssumption
    <2> QED
        BY <1>4, <2>1, <2>2, FillsTyped, TapeGrows DEF Assign, BookInv, Typed, items
<1>5. ASSUME NEW o \in Orders, NEW kind \in Own \cup {"hand"}, CloseOut(o, kind) PROVE BookInv'
    <2>1. kind \in Kinds
        BY DEF Kinds
    <2> QED
        BY <1>5, <2>1, FillsTyped, TapeGrows DEF CloseOut, BookInv, Typed, items
<1>6. ASSUME NEW u \in Underlyings, Expire(u) PROVE BookInv'
    BY <1>6, TapeGrows DEF Expire, BookInv, Typed, PlacedFirst, items
<1> QED
    BY <1>1, <1>2, <1>3, <1>4, <1>5, <1>6 DEF Trading

-----------------------------------------------------------------------------
(* The steps of the reconciliation.                                        *)

LEMMA OpenedKeeps == ASSUME BookAssumption, BookInv, NEW o \in Orders, Opened(o) PROVE BookInv'
<1> DEFINE opened == [row[o] EXCEPT !.state = "open"]
<1>1. row[o] \in Records /\ o \in Rows
    BY DEF Opened, Rows, Ids, BookInv, Typed
<1>2. opened \in Records
    BY <1>1, RowKept
<1>3. row' = [row EXCEPT ![o] = opened]
    BY DEF Opened
<1> HIDE DEF opened
<1>4. RowsGrow
    BY <1>1, <1>2, <1>3 DEF RowsGrow, BookInv, Typed, Rows, BookAssumption
<1>5. Items'
    BY <1>4, GrownRows, ItemsStay DEF Opened, broker, items, Trades
<1> QED
    BY <1>4, <1>5, LedgerStays, BookKeeps DEF Opened, broker, BookInv, Typed

\* Listing, reading, and what else leaves the tables alone.
LEMMA ReadingKeeps ==
    ASSUME BookAssumption, BookInv, UNCHANGED <<stage, tape, shares, row, ledger>>,
           seen' \in [Workers -> SUBSET Symbols], at' \in [Workers -> Steps],
           NEW w \in Workers, NEW a, NEW d, NEW h, at' = [at EXCEPT ![w] = a],
           todo' = [todo EXCEPT ![w] = d], hold' = [hold EXCEPT ![w] = h], Doing(w)'
    PROVE  BookInv'
<1>1. Items'
    BY ItemsMove DEF Rows, Trades
<1> QED
    BY <1>1, RowsStay, LedgerStays, BookKeeps

LEMMA FirstOf == ASSUME NEW S, S # {} PROVE First(S) \in S /\ S \ {First(S)} \subseteq S
    BY DEF First

\* A worker that takes up the next transaction or row.
LEMMA TakenUp ==
    ASSUME BookAssumption, BookInv, NEW w \in Workers, Begin(w), Taken(w), NEW h, Holds(w, h),
           UNCHANGED <<stage, tape, shares, row, ledger, at, seen>>,
           at[w] \in {"import", "link", "closing"},
           at[w] = "import" => Importing(w)', at[w] = "link" => Linking(w)',
           at[w] = "closing" => Closing(w)'
    PROVE  BookInv'
<1>1. Doing(w)'
    BY DEF Doing
<1>2. at' \in [Workers -> Steps] /\ at' = [at EXCEPT ![w] = at[w]]
    BY SameItems DEF BookInv, Typed
<1>3. /\ todo' = [todo EXCEPT ![w] = todo[w] \ {First(todo[w])}]
      /\ hold' = [hold EXCEPT ![w] = h]
    BY DEF Taken, Holds
<1> QED
    BY <1>1, <1>2, <1>3, ReadingKeeps DEF BookInv, Typed

LEMMA ImportingKeeps ==
    ASSUME BookAssumption, BookInv, NEW w \in Workers, ImportReads(w) PROVE BookInv'
<1> DEFINE t == First(todo[w])
           h == [of |-> t, to |-> IF t \in DOMAIN ledger THEN ledger[t] ELSE "new"]
<1>1. Importing(w) /\ todo[w] # {} /\ at[w] = "import"
    BY DEF ImportReads, Begin, BookInv, Items, Doing
<1>2. t \in Trades /\ todo[w] \ {t} \subseteq Trades
    BY <1>1, FirstOf DEF Importing
<1>3. hold'[w] = h /\ todo'[w] = todo[w] \ {t} /\ Rows' = Rows /\ Trades' = Trades
    BY DEF ImportReads, Holds, Taken, BookInv, Items, Rows, Trades, broker
<1>4. Importing(w)'
    <2>1. h.of = t /\ h.to \in Rows \cup {None, "new"}
          /\ (t.kind = "open" => h.to \in {None, "new", t.order})
        BY DEF BookInv, Typed, LinkedHome
    <2> HIDE DEF h, t
    <2> QED
        BY <1>2, <1>3, <2>1 DEF Importing
<1> QED
    BY <1>1, <1>4, TakenUp DEF ImportReads, broker

\* The link step finds a row that is there, and for an opening that of its order.
LEMMA HomesLeadHome ==
    ASSUME BookAssumption, BookInv, NEW t \in Trades, NEW h \in Homes(t)
    PROVE  /\ h \in {None} \cup Rows
           /\ t.kind = "open" /\ h # None => h = t.order
<1>1. "open" \notin Own
    BY DEF BookAssumption
<1>2. SameSymbol(t) \subseteq Rows /\ (t.kind = "open" => SameSymbol(t) = {})
    BY DEF SameSymbol
<1>3. Named(t) \subseteq Rows /\ (t.kind = "open" => Named(t) = {})
    BY <1>1 DEF Named
<1> QED
    BY <1>2, <1>3 DEF Homes

LEMMA LinkingKeeps ==
    ASSUME BookAssumption, BookInv, NEW w \in Workers, LinkFinds(w) PROVE BookInv'
<1> DEFINE t == First(todo[w])
<1>1. Linking(w) /\ todo[w] # {} /\ at[w] = "link"
    BY DEF LinkFinds, Begin, BookInv, Items, Doing
<1>2. t \in Trades /\ todo[w] \ {t} \subseteq Trades
    BY <1>1, FirstOf DEF Linking
<1>3. PICK home \in Homes(t) : Holds(w, IF home = None THEN None ELSE [of |-> t, to |-> home])
    BY DEF LinkFinds
<1>4. home \in {None} \cup Rows /\ (t.kind = "open" /\ home # None => home = t.order)
    BY <1>2, HomesLeadHome
<1> DEFINE h == IF home = None THEN None ELSE [of |-> t, to |-> home]
<1>5. hold'[w] = h /\ todo'[w] = todo[w] \ {t} /\ Rows' = Rows /\ Trades' = Trades
    BY <1>3 DEF LinkFinds, Holds, Taken, BookInv, Items, Rows, Trades, broker
<1>6. Linking(w)'
    <2>1. h # None => h.of = t /\ h.to = home /\ home # None
        OBVIOUS
    <2> HIDE DEF h, t
    <2> QED
        BY <1>2, <1>4, <1>5, <2>1 DEF Linking
<1> QED
    BY <1>1, <1>3, <1>6, TakenUp DEF LinkFinds, broker

\* The reason a row is closed for is one of those the column may hold: an
\* assignment is never imported.
LEMMA ReasonsTyped ==
    ASSUME BookAssumption, BookInv, NEW r, NEW was
    PROVE  Reasons(r, was) \subseteq {None, "profit_target", "manual_close", "expired_worthless", "unknown"}
    BY DEF Reasons, Linked, BookInv, Typed, Trades

LEMMA ClosureReadKeeps ==
    ASSUME BookAssumption, BookInv, NEW w \in Workers, CloseReads(w) PROVE BookInv'
<1> DEFINE copy == First(todo[w])
<1>1. Closing(w) /\ todo[w] # {} /\ at[w] = "closing"
    BY DEF CloseReads, Begin, BookInv, Items, Doing
<1>2. copy.of \in Rows /\ copy.was \in Records
      /\ todo[w] \ {copy} \subseteq [of : Rows, was : Records]
    BY <1>1, FirstOf DEF Closing
<1>3. PICK reason \in Reasons(copy.of, copy.was) :
        Holds(w, [of |-> copy.of, as |-> [copy.was EXCEPT !.state = "closed", !.reason = reason]])
    BY DEF CloseReads
<1> DEFINE as == [copy.was EXCEPT !.state = "closed", !.reason = reason]
           h == [of |-> copy.of, as |-> as]
<1>4. as \in Records
    BY <1>2, ReasonsTyped DEF Records
<1> HIDE DEF as, copy
<1>5. h.of \in Rows /\ h.as \in Records /\ hold' = [hold EXCEPT ![w] = h]
    BY <1>2, <1>3, <1>4 DEF Holds, as
<1> HIDE DEF h
<1>6. hold'[w] = h /\ todo'[w] = todo[w] \ {copy} /\ Rows' = Rows
    BY <1>5 DEF CloseReads, Taken, BookInv, Items, Rows, copy
<1>7. Closing(w)'
    BY <1>2, <1>5, <1>6 DEF Closing
<1>8. Holds(w, h)
    BY <1>5 DEF Holds
<1> QED
    BY <1>1, <1>7, <1>8, TakenUp DEF CloseReads, broker

\* A worker that saves what it read of a transaction.
LEMMA SavingKeeps ==
    ASSUME BookAssumption, BookInv, NEW w \in Workers, ImportSaves(w) \/ LinkSaves(w)
    PROVE  BookInv'
<1> DEFINE t == hold[w].of
           to == hold[w].to
<1>1. /\ hold[w] # None /\ hold' = [hold EXCEPT ![w] = None]
      /\ UNCHANGED <<stage, tape, shares, row, at, seen, todo>>
    BY DEF ImportSaves, LinkSaves, Holds, broker
<1>2. /\ t \in Trades
      /\ todo[w] \subseteq Trades
      /\ at[w] \in {"import", "link"}
      /\ at[w] = "import" => to \in Rows \cup {None, "new"} /\ (t.kind = "open" => to \in {None, "new", t.order})
      /\ at[w] = "link" => to \in Rows /\ (t.kind = "open" => to = t.order)
    BY <1>1 DEF ImportSaves, LinkSaves, BookInv, Items, Doing, Importing, Linking
<1>3. \/ UNCHANGED ledger
      \/ \E home : /\ ledger' = Saved(t, home) /\ home \in {None} \cup Rows
                   /\ t.kind = "open" /\ home # None => home = t.order
    <2>1. CASE ImportSaves(w)
        <3>1. at[w] = "import"
            BY <2>1 DEF ImportSaves
        <3>2. ledger' = IF to # "new" THEN Saved(t, to)
                        ELSE IF t \in DOMAIN ledger THEN ledger ELSE Saved(t, None)
            BY <2>1 DEF ImportSaves
        <3> HIDE DEF t, to
        <3> QED
            BY <1>2, <3>1, <3>2
    <2>2. CASE LinkSaves(w)
        BY <1>2, <2>2 DEF LinkSaves
    <2> QED
        BY <2>1, <2>2
<1> HIDE DEF t, to
<1>4. LedgerMoves
    <2>1. CASE UNCHANGED ledger
        BY <2>1, LedgerStays
    <2>2. ASSUME NEW home, ledger' = Saved(t, home), home \in {None} \cup Rows,
                 t.kind = "open" /\ home # None => home = t.order
          PROVE  LedgerMoves
        <3>1. DOMAIN ledger' = DOMAIN ledger \cup {t}
              /\ \A s \in DOMAIN ledger' : ledger'[s] = IF s = t THEN home ELSE ledger[s]
            BY <2>2 DEF Saved
        <3>2. DOMAIN ledger \subseteq Trades /\ \A s \in DOMAIN ledger : ledger[s] \in {None} \cup Rows
            BY DEF BookInv, Typed
        <3>3. \A s \in DOMAIN ledger : s.kind = "open" /\ ledger[s] # None => ledger[s] = s.order
            BY DEF BookInv, LinkedHome
        <3>4. ASSUME NEW s \in DOMAIN ledger'
              PROVE  /\ ledger'[s] \in {None} \cup Rows
                     /\ s.kind = "open" /\ ledger'[s] # None => ledger'[s] = s.order
            <4>1. CASE s = t
                BY <2>2, <3>1, <4>1
            <4>2. CASE s # t
                BY <3>1, <3>2, <3>3, <4>2
            <4> QED
                BY <4>1, <4>2
        <3> QED
            BY <1>2, <3>1, <3>2, <3>4 DEF LedgerMoves
    <2> QED
        BY <1>3, <2>1, <2>2
<1>5. Doing(w)'
    BY <1>1, <1>2 DEF Doing, Importing, Linking, BookInv, Items, Trades
<1>6. Items'
    BY <1>1, <1>5, SameItems, ItemsMove DEF Rows, Trades
<1>7. seen' \in [Workers -> SUBSET Symbols] /\ at' \in [Workers -> Steps]
    BY <1>1 DEF BookInv, Typed
<1> QED
    BY <1>1, <1>4, <1>6, <1>7, RowsStay, BookKeeps

LEMMA DiscoverKeeps ==
    ASSUME BookAssumption, BookInv, NEW w \in Workers, Discover(w) PROVE BookInv'
<1>1. \A t \in Openings(ledger) :
        t \in DOMAIN ledger /\ ledger[t] = None /\ t.kind = "open" /\ t \in tape /\ t.order \in Orders
    BY DEF Openings, Unlinked, BookInv, Typed, Trades, Transactions
<1>2. \A r \in WithoutRow : r \in Orders /\ row[r] = None /\ stage[r] # "unplaced"
    BY <1>1 DEF WithoutRow, Rows, Ids, BookInv, PlacedFirst
<1>3. \A r \in WithoutRow : /\ Row("open", FALSE, Legs[r]) \in Records
                            /\ Row("open", FALSE, Legs[r]) # None
    BY <1>2, NewRow DEF BookAssumption, Symbols
<1>4. row' = [r \in Ids |-> IF r \in WithoutRow THEN Row("open", FALSE, Legs[r]) ELSE row[r]]
    BY DEF Discover
<1>5. RowsGrow
    BY <1>2, <1>3, <1>4 DEF RowsGrow, Rows, BookInv, Typed
<1>6. \A t \in Openings(ledger) : t.order \in Rows'
    <2>1. ASSUME NEW t \in Openings(ledger), t.order \in WithoutRow PROVE t.order \in Rows'
        BY <1>2, <1>3, <1>4, <2>1 DEF Rows, Ids
    <2>2. ASSUME NEW t \in Openings(ledger), t.order \in Rows PROVE t.order \in Rows'
        BY <1>5, <2>2, GrownRows
    <2> QED
        BY <2>1, <2>2 DEF WithoutRow
<1>7. LedgerMoves
    <2>1. ledger' = [t \in DOMAIN ledger |-> IF t \in Openings(ledger) THEN t.order ELSE ledger[t]]
        BY DEF Discover
    <2> QED
        BY <1>1, <1>6, <2>1 DEF LedgerMoves, BookInv, Typed, LinkedHome
<1>8. at[w] = "discover" /\ at' = [at EXCEPT ![w] = "fetch"] /\ UNCHANGED <<todo, hold, tape, stage, shares, seen>>
    BY DEF Discover, Step, broker, items
<1>9. Doing(w)'
    BY <1>8 DEF Doing, Done, BookInv, Items, Typed
<1>10. Items'
    BY <1>5, <1>8, <1>9, GrownRows, SameItems, ItemsMove DEF Trades
<1>11. at' \in [Workers -> Steps]
    BY <1>8 DEF BookInv, Typed, Steps
<1> QED
    BY <1>5, <1>7, <1>8, <1>10, <1>11, BookKeeps DEF BookInv, Typed

\* What the sync makes of a row, whatever it has fetched.
LEMMA SyncedRow ==
    ASSUME BookAssumption, BookInv, NEW holdings \in SUBSET Symbols, NEW r \in Ids
    PROVE  LET new == NotAtBroker(r, WithGroup(r, holdings), holdings) IN
             /\ new \in {None} \cup Records
             /\ r \in Rows => new # None
             /\ r \notin Rows /\ new # None => r \notin Orders
<1> DEFINE group == WithGroup(r, holdings)
<1>1. row[r] \in {None} \cup Records
    BY DEF BookInv, Typed
<1>2. \A u : LegsIn(u, holdings) \subseteq Symbols
    BY DEF LegsIn
<1>3. r \in Rows => group \in Records
    <2> SUFFICES ASSUME r \in Rows PROVE group \in Records
        OBVIOUS
    <2>1. row[r] \in Records /\ row[r] # None
        BY <1>1 DEF Rows
    <2>2. WithOrderLegs(r, holdings) \in Records
        BY <2>1, RowKept DEF WithOrderLegs
    <2>3. [row[r] EXCEPT !.state = "open", !.legs = LegsIn(Symbol(r), holdings)] \in Records
        BY <1>2, <2>1, RowKept
    <2> QED
        BY <2>1, <2>2, <2>3 DEF WithGroup
<1>4. r \notin Rows => \/ group = None
                       \/ group \in Records /\ r \notin Orders
    <2> SUFFICES ASSUME r \notin Rows, group # None
                 PROVE  group \in Records /\ r \notin Orders
        OBVIOUS
    <2>1. row[r] = None
        BY DEF Rows
    <2>2. CASE Symbol(r) \in LeftToTier2(holdings) /\ Takes(r)
        <3>1. Row("open", FALSE, LegsIn(Symbol(r), holdings)) \in Records
            BY <1>2, NewRow
        <3>2. r \notin Orders
            BY <2>2 DEF Takes, BookAssumption
        <3>3. group = Row("open", FALSE, LegsIn(Symbol(r), holdings))
            BY <2>1, <2>2 DEF WithGroup
        <3> QED
            BY <3>1, <3>2, <3>3
    <2>3. CASE ~(Symbol(r) \in LeftToTier2(holdings) /\ Takes(r))
        BY <2>1, <2>3 DEF WithGroup, WithOrderLegs
    <2> QED
        BY <2>2, <2>3
<1> HIDE DEF group
<1>5. None \notin Records
    BY DEF BookAssumption
<1>6. \A rec \in Records : NotAtBroker(r, rec, holdings) \in Records
    BY RowKept DEF NotAtBroker
<1>7. NotAtBroker(r, None, holdings) = None
    BY DEF NotAtBroker
<1> QED
    BY <1>3, <1>4, <1>5, <1>6, <1>7 DEF group

\* A step of a worker that changes rows, and neither the ledger nor the broker.
LEMMA RowsKeep ==
    ASSUME BookAssumption, BookInv, RowsGrow, UNCHANGED <<stage, tape, shares, ledger>>,
           seen' \in [Workers -> SUBSET Symbols], NEW w \in Workers, NEW l \in Steps, NEW h,
           at' = [at EXCEPT ![w] = l], UNCHANGED todo, hold' = [hold EXCEPT ![w] = h], Doing(w)'
    PROVE  BookInv'
<1>1. Items'
    BY GrownRows, SameItems, ItemsMove DEF Trades
<1>2. at' \in [Workers -> Steps]
    BY DEF BookInv, Typed
<1> QED
    BY <1>1, <1>2, LedgerStays, BookKeeps

LEMMA SyncingKeeps ==
    ASSUME BookAssumption, BookInv, NEW w \in Workers, SyncApply(w) PROVE BookInv'
<1> DEFINE synced(r) == NotAtBroker(r, WithGroup(r, seen[w]), seen[w])
<1>1. seen[w] \in SUBSET Symbols
    BY DEF BookInv, Typed
<1>2. \A r \in Ids :
        /\ synced(r) \in {None} \cup Records
        /\ r \in Rows => synced(r) # None
        /\ r \notin Rows /\ synced(r) # None => r \notin Orders
    BY <1>1, SyncedRow
<1>3. row' = [r \in Ids |-> synced(r)]
    BY DEF SyncApply
<1> HIDE DEF synced
<1>4. RowsGrow
    BY <1>2, <1>3 DEF RowsGrow, Rows
<1>5. /\ at[w] = "sync" /\ AfterSync(w) \in {"list", "idle"} /\ at' = [at EXCEPT ![w] = AfterSync(w)]
      /\ UNCHANGED <<stage, tape, shares, ledger, todo, hold>>
    BY DEF SyncApply, Step, AfterSync, broker, items
<1>6. Doing(w)'
    BY <1>5 DEF Doing, Done, BookInv, Items, Typed
<1>7. seen' \in [Workers -> SUBSET Symbols] /\ AfterSync(w) \in Steps
    BY <1>5 DEF SyncApply, BookInv, Typed, Steps
<1> QED
    BY <1>4, <1>5, <1>6, <1>7, SameItems, RowsKeep

LEMMA ClosureSaveKeeps ==
    ASSUME BookAssumption, BookInv, NEW w \in Workers, CloseSaves(w) PROVE BookInv'
<1> DEFINE o == hold[w].of
           rec == hold[w].as
           l == IF todo[w] = {} THEN "idle" ELSE "closing"
<1>1. /\ at[w] = "closing" /\ hold[w] # None /\ at' = [at EXCEPT ![w] = l]
      /\ hold' = [hold EXCEPT ![w] = None] /\ row' = [row EXCEPT ![o] = rec]
      /\ UNCHANGED <<stage, tape, shares, ledger, todo, seen>>
    BY DEF CloseSaves, Step, Holds, broker
<1>2. o \in Rows /\ rec \in Records /\ todo[w] \subseteq [of : Rows, was : Records]
    BY <1>1 DEF BookInv, Items, Doing, Closing
<1> HIDE DEF o, rec
<1>3. RowsGrow
    BY <1>1, <1>2 DEF RowsGrow, Rows, BookInv, Typed, BookAssumption
<1>4. at'[w] = l /\ hold'[w] = None /\ todo'[w] = todo[w] /\ Rows \subseteq Rows'
    BY <1>1, <1>3, GrownRows DEF BookInv, Typed, Items
<1>5. Doing(w)'
    <2>1. [of : Rows, was : Records] \subseteq [of : Rows', was : Records]
        BY <1>4
    <2> QED
        BY <1>2, <1>4, <2>1 DEF Doing, Closing, Done
<1>6. seen' \in [Workers -> SUBSET Symbols] /\ l \in Steps
    BY <1>1 DEF BookInv, Typed, Steps
<1> QED
    BY <1>1, <1>3, <1>5, <1>6, RowsKeep

LEMMA HeldTyped == ASSUME BookAssumption, BookInv PROVE Held \subseteq Symbols
<1> SUFFICES ASSUME NEW s \in Held PROVE s \in Symbols
    OBVIOUS
<1>1. s \in shares \/ \E o \in Orders : s \in Legs[o]
    <2> DEFINE filled == {p \in Orders : stage[p] = "filled"}
               legs == UNION {Legs[o] : o \in filled}
    <2>1. \A x \in legs : \E o \in Orders : x \in Legs[o]
        OBVIOUS
    <2>2. Held = legs \cup shares
        BY DEF Held
    <2> HIDE DEF legs
    <2> QED
        BY <2>1, <2>2
<1>2. \A o \in Orders : Legs[o] \subseteq Contracts
    <2>1. \A o \in Orders : Legs[o] \in (SUBSET Contracts) \ {{}}
        BY DEF BookAssumption
    <2> QED
        BY <2>1
<1> QED
    BY <1>1, <1>2 DEF Symbols, BookInv, Typed

\* Phases that begin or end, and what they list.
LEMMA ListingKeeps ==
    ASSUME BookAssumption, BookInv, NEW w \in Workers,
           \/ SyncOrderHistory(w) \/ ImportFetches(w) \/ ImportFails(w) \/ LinkLists(w) \/ LinkEnds(w)
           \/ SyncFetch(w) \/ SyncFails(w) \/ CloseFetch(w) \/ CloseFails(w) \/ CloseLists(w)
    PROVE  BookInv'
<1>1. /\ UNCHANGED <<stage, tape, shares, row, ledger>>
      /\ seen' \in [Workers -> SUBSET Symbols]
      /\ hold' = [hold EXCEPT ![w] = hold[w]]
    BY HeldTyped, SameItems
       DEF SyncOrderHistory, ImportFetches, ImportFails, LinkLists, LinkEnds, SyncFetch, SyncFails,
           CloseFetch, CloseFails, CloseLists, broker, items, BookInv, Typed
<1>2. PICK l \in Steps, d \in SUBSET (Trades \cup [of : Rows, was : Records]) :
        /\ at' = [at EXCEPT ![w] = l] /\ todo' = [todo EXCEPT ![w] = d]
        /\ \/ l \in {"import", "link"} /\ d \subseteq Trades
           \/ l = "closing" /\ d \subseteq [of : Rows, was : Records]
           \/ l \notin {"import", "link", "closing"} /\ d = {}
    <2>1. CASE SyncOrderHistory(w) \/ ImportFails(w) \/ LinkEnds(w) \/ SyncFetch(w) \/ SyncFails(w)
               \/ CloseFetch(w) \/ CloseFails(w)
        <3>1. todo' = [todo EXCEPT ![w] = todo[w]]
            BY <2>1, SameItems
               DEF SyncOrderHistory, ImportFails, LinkEnds, SyncFetch, SyncFails, CloseFetch, CloseFails,
                   items
        <3>2. todo[w] = {}
            BY <2>1
               DEF SyncOrderHistory, ImportFails, LinkEnds, SyncFetch, SyncFails, CloseFetch, CloseFails,
                   Step, Done, BookInv, Items, Doing
        <3>3. \E l \in Steps \ {"link", "closing"} : at' = [at EXCEPT ![w] = l]
            BY <2>1
               DEF SyncOrderHistory, ImportFails, LinkEnds, SyncFetch, SyncFails, CloseFetch, CloseFails,
                   Step, AfterSync, Steps
        <3> QED
            BY <3>1, <3>2, <3>3
    <2>2. CASE ImportFetches(w)
        BY <2>2 DEF ImportFetches, Step, Steps
    <2>3. CASE LinkLists(w)
        <3>1. Unlinked(ledger) \subseteq Trades
            BY DEF Unlinked, BookInv, Typed
        <3> QED
            BY <2>3, <3>1 DEF LinkLists, Step, Steps
    <2>4. CASE CloseLists(w)
        <3> DEFINE d == {[of |-> r, was |-> row[r]] : r \in Gone(w)}
                   l == IF Gone(w) = {} THEN "idle" ELSE "closing"
        <3>1. \A r \in Gone(w) : r \in Rows /\ row[r] \in Records
            BY DEF Gone, OpenRows, Rows, BookInv, Typed
        <3>2. d \subseteq [of : Rows, was : Records] /\ (Gone(w) = {} => d = {})
            BY <3>1
        <3>3. at' = [at EXCEPT ![w] = l] /\ todo' = [todo EXCEPT ![w] = d]
            BY <2>4 DEF CloseLists, Step
        <3> HIDE DEF d
        <3> QED
            BY <3>2, <3>3 DEF Steps
    <2> QED
        BY <2>1, <2>2, <2>3, <2>4
<1>3. at'[w] = l /\ todo'[w] = d /\ hold'[w] = hold[w] /\ Rows' = Rows /\ Trades' = Trades
    BY <1>1, <1>2 DEF BookInv, Typed, Items, Rows, Trades
<1>4. hold[w] = None
    <2>1. CASE LinkLists(w) \/ LinkEnds(w)
        BY <2>1 DEF LinkLists, LinkEnds, Done
    <2>2. CASE ~(LinkLists(w) \/ LinkEnds(w))
        <3>1. at[w] \notin {"import", "link", "closing"}
            BY <2>2
               DEF SyncOrderHistory, ImportFetches, ImportFails, SyncFetch, SyncFails, CloseFetch,
                   CloseFails, CloseLists, Step
        <3> QED
            BY <3>1 DEF BookInv, Items, Doing, Done
    <2> QED
        BY <2>1, <2>2
<1>5. Doing(w)'
    BY <1>2, <1>3, <1>4 DEF Doing, Importing, Linking, Closing, Done
<1>6. at' \in [Workers -> Steps]
    BY <1>2 DEF BookInv, Typed
<1> QED
    BY <1>1, <1>2, <1>5, <1>6, ReadingKeeps

LEMMA WorkKeeps == ASSUME BookAssumption, BookInv, NEW w \in Workers, Work(w) PROVE BookInv'
    BY ListingKeeps, ImportingKeeps, LinkingKeeps, SavingKeeps, DiscoverKeeps, SyncingKeeps,
       ClosureReadKeeps, ClosureSaveKeeps DEF Work

LEMMA BookNext == ASSUME BookAssumption, BookInv, [Next]_vars PROVE BookInv'
<1>1. CASE UNCHANGED vars
    <2>1. UNCHANGED <<stage, tape, shares, row, ledger, seen, at, todo, hold>>
        BY <1>1 DEF vars
    <2>2. Items'
        BY <2>1, ItemsStay DEF Rows, Trades
    <2> QED
        BY <2>1, <2>2, RowsStay, LedgerStays, BookKeeps DEF BookInv, Typed
<1> QED
    BY <1>1, TradingKeeps, OpenedKeeps, WorkKeeps DEF Next

LEMMA AlwaysBook == Spec => []BookInv
    BY BookInit, BookNext, BookAssumption, PTL DEF Spec

\* However many runs overlap and write back what they read earlier, the transaction
\* of an opening may lose its link but is never linked to the row of another order,
\* though both hold the same contract (transactions.py:424-430, 466-497;
\* position_discovery.py:177-227).
THEOREM OpeningsStayHome ==
    Spec => [](\A t \in DOMAIN ledger : t.kind = "open" => ledger[t] \in {None, t.order})
<1>1. BookInv => \A t \in DOMAIN ledger : t.kind = "open" => ledger[t] \in {None, t.order}
    BY DEF BookInv, LinkedHome
<1> QED
    BY <1>1, AlwaysBook, PTL

-----------------------------------------------------------------------------
(* The types, and the rows in the order of their primary keys.             *)

\* Every row is in the list of its table once.
Listed ==
    /\ made \in Seq(Ids)
    /\ \A r \in Ids : r \in Rows <=> \E i \in 1..Len(made) : made[i] = r
    /\ \A i, j \in 1..Len(made) : made[i] = made[j] => i = j

\* What Typed leaves out.
TypedToo ==
    /\ expired \subseteq Underlyings
    /\ late \in [Orders -> SUBSET Orders]
    /\ history \subseteq Orders

\* Two lists without a row in common, one after the other.
LEMMA ListsJoin ==
    ASSUME NEW s \in Seq(Ids), NEW n \in Seq(Ids),
           \A i, j \in 1..Len(s) : s[i] = s[j] => i = j,
           \A i, j \in 1..Len(n) : n[i] = n[j] => i = j,
           \A i \in 1..Len(s), j \in 1..Len(n) : s[i] # n[j]
    PROVE  /\ s \o n \in Seq(Ids)
           /\ \A i, j \in 1..Len(s \o n) : (s \o n)[i] = (s \o n)[j] => i = j
           /\ \A r : (\E i \in 1..Len(s \o n) : (s \o n)[i] = r) <=>
                     (\E i \in 1..Len(s) : s[i] = r) \/ (\E i \in 1..Len(n) : n[i] = r)
<1> DEFINE u == s \o n
<1>1. /\ u \in Seq(Ids) /\ Len(u) = Len(s) + Len(n)
      /\ Len(s) \in Nat /\ Len(n) \in Nat
      /\ \A i \in 1..Len(s) : u[i] = s[i]
    OBVIOUS
<1>2. ASSUME NEW i \in 1..Len(n) PROVE u[Len(s) + i] = n[i]
    OBVIOUS
<1>3. ASSUME NEW i \in 1..Len(u)
      PROVE  i \in 1..Len(s) \/ (i - Len(s) \in 1..Len(n) /\ u[i] = n[i - Len(s)])
    <2>1. CASE i > Len(s)
        <3>1. i - Len(s) \in 1..Len(n) /\ Len(s) + (i - Len(s)) = i
            BY <1>1, <2>1
        <3> QED
            BY <1>2, <3>1
    <2> QED
        BY <1>1, <2>1
<1> HIDE DEF u
<1>4. ASSUME NEW i \in 1..Len(u), NEW j \in 1..Len(u), u[i] = u[j] PROVE i = j
    <2>1. CASE i \in 1..Len(s) /\ j \in 1..Len(s)
        BY <1>1, <1>4, <2>1
    <2>2. CASE i \notin 1..Len(s) /\ j \notin 1..Len(s)
        <3>1. i - Len(s) = j - Len(s)
            BY <1>3, <1>4, <2>2
        <3> QED
            BY <1>1, <3>1
    <2>3. CASE i \in 1..Len(s) /\ j \notin 1..Len(s)
        BY <1>1, <1>3, <1>4, <2>3
    <2>4. CASE i \notin 1..Len(s) /\ j \in 1..Len(s)
        BY <1>1, <1>3, <1>4, <2>4
    <2> QED
        BY <2>1, <2>2, <2>3, <2>4
<1>5. ASSUME NEW i \in 1..Len(n) PROVE Len(s) + i \in 1..Len(u)
    BY <1>1
<1>6. ASSUME NEW r, NEW i \in 1..Len(u), u[i] = r
      PROVE  (\E k \in 1..Len(s) : s[k] = r) \/ (\E k \in 1..Len(n) : n[k] = r)
    BY <1>1, <1>3, <1>6
<1>7. ASSUME NEW r, NEW i \in 1..Len(s), s[i] = r PROVE \E k \in 1..Len(u) : u[k] = r
    BY <1>1, <1>7
<1>8. ASSUME NEW r, NEW i \in 1..Len(n), n[i] = r PROVE \E k \in 1..Len(u) : u[k] = r
    BY <1>2, <1>5, <1>8
<1> QED
    BY <1>1, <1>4, <1>6, <1>7, <1>8 DEF u

\* The lists of a set name each of its members once.
LEMMA ListsOfSet ==
    ASSUME BookAssumption, NEW new \in SUBSET Ids, NEW n \in SetToSeqs(new)
    PROVE  /\ n \in Seq(Ids)
           /\ \A i, j \in 1..Len(n) : n[i] = n[j] => i = j
           /\ \A r : r \in new <=> \E i \in 1..Len(n) : n[i] = r
<1>1. IsFiniteSet(new) /\ Cardinality(new) \in Nat
    <2>1. IsFiniteSet(Ids)
        BY FS_Union DEF BookAssumption, Ids
    <2>2. IsFiniteSet(new)
        BY <2>1, FS_Subset
    <2> QED
        BY <2>2, FS_CardinalityType
<1> DEFINE D == 1..Cardinality(new)
<1>2. n \in [D -> new] /\ \A i, j \in D : i # j => n[i] # n[j]
    BY DEF SetToSeqs
<1>3. n \in Seq(Ids) /\ Len(n) = Cardinality(new)
    BY <1>1, <1>2
<1>4. n \in Injection(D, new)
    BY <1>2 DEF Injection, IsInjective
<1>5. Cardinality(D) = Cardinality(new)
    BY <1>1, FS_Interval
<1>6. n \in Surjection(D, new)
    BY <1>1, <1>4, <1>5, FS_Injection
<1>7. \A r \in new : \E i \in D : n[i] = r
    BY <1>6 DEF Surjection
<1> QED
    BY <1>2, <1>3, <1>7

\* Rows that are listed as they come keep the list of all rows.
LEMMA ListGrows ==
    ASSUME BookAssumption, Listed, NEW new \in SUBSET Ids, new \cap Rows = {},
           Rows' = Rows \cup new, \E n \in SetToSeqs(new) : made' = made \o n
    PROVE  Listed'
<1>1. PICK n \in SetToSeqs(new) : made' = made \o n
    OBVIOUS
<1>2. /\ n \in Seq(Ids)
      /\ \A i, j \in 1..Len(n) : n[i] = n[j] => i = j
      /\ \A r : r \in new <=> \E i \in 1..Len(n) : n[i] = r
    BY ListsOfSet
<1>3. made \in Seq(Ids) /\ \A i \in 1..Len(made) : made[i] \in Rows
    BY DEF Listed
<1>4. \A i \in 1..Len(made), j \in 1..Len(n) : made[i] # n[j]
    BY <1>2, <1>3
<1>5. \A i, j \in 1..Len(made) : made[i] = made[j] => i = j
    BY DEF Listed
<1>j. /\ made \o n \in Seq(Ids)
      /\ \A i, j \in 1..Len(made \o n) : (made \o n)[i] = (made \o n)[j] => i = j
      /\ \A r : (\E i \in 1..Len(made \o n) : (made \o n)[i] = r) <=>
                (\E i \in 1..Len(made) : made[i] = r) \/ (\E i \in 1..Len(n) : n[i] = r)
    BY <1>2, <1>3, <1>4, <1>5, ListsJoin
<1>6. /\ made' \in Seq(Ids)
      /\ \A i, j \in 1..Len(made') : made'[i] = made'[j] => i = j
      /\ \A r : (\E i \in 1..Len(made') : made'[i] = r) <=>
                (\E i \in 1..Len(made) : made[i] = r) \/ (\E i \in 1..Len(n) : n[i] = r)
    BY <1>1, <1>j, Zenon
<1>7. ASSUME NEW r \in Ids PROVE r \in Rows' <=> \E i \in 1..Len(made') : made'[i] = r
    <2>1. r \in Rows' <=> r \in Rows \/ r \in new
        OBVIOUS
    <2>2. r \in Rows <=> \E i \in 1..Len(made) : made[i] = r
        BY DEF Listed
    <2>3. r \in new <=> \E i \in 1..Len(n) : n[i] = r
        BY <1>2
    <2>4. (\E i \in 1..Len(made') : made'[i] = r) <=>
            (\E i \in 1..Len(made) : made[i] = r) \/ (\E i \in 1..Len(n) : n[i] = r)
        BY <1>6
    <2> QED
        BY <2>1, <2>2, <2>3, <2>4
<1> QED
    BY <1>6, <1>7 DEF Listed

\* What a step does to the rows: they stay, and new ones are listed as they come.
ListMoves ==
    \/ Rows' = Rows /\ UNCHANGED made
    \/ \E new \in SUBSET Ids :
         /\ new \cap Rows = {} /\ Rows' = Rows \cup new
         /\ \E n \in SetToSeqs(new) : made' = made \o n

\* Writing over a row that is there makes none and removes none.
LEMMA RowWritten ==
    ASSUME BookAssumption, BookInv, NEW o \in Rows, NEW rec \in Records,
           row' = [row EXCEPT ![o] = rec], UNCHANGED made
    PROVE  ListMoves
<1>1. rec # None
    BY DEF BookAssumption
<1>2. o \in Ids /\ row'[o] = rec /\ \A r \in Ids : r # o => row'[r] = row[r]
    BY DEF BookInv, Typed, Rows
<1>3. Rows' = Rows
    BY <1>1, <1>2 DEF Rows
<1> QED
    BY <1>3 DEF ListMoves

LEMMA PlaceLists ==
    ASSUME BookAssumption, BookInv, Listed, NEW o \in Orders, PlaceManaged(o)
    PROVE  ListMoves
<1>1. row[o] = None /\ o \in Ids /\ Row("pending_entry", TRUE, {}) # None
    BY NewRow DEF PlaceManaged, BookInv, PlacedFirst, Ids
<1>2. row' = [row EXCEPT ![o] = Row("pending_entry", TRUE, {})] /\ made' = Append(made, o)
    BY DEF PlaceManaged
<1>3. row'[o] # None /\ \A r \in Ids : r # o => row'[r] = row[r]
    BY <1>1, <1>2 DEF BookInv, Typed
<1>4. Rows' = Rows \cup {o} /\ {o} \cap Rows = {}
    BY <1>1, <1>3 DEF Rows
<1>5. <<o>> \in SetToSeqs({o})
    <2>1. Cardinality({o}) = 1
        BY FS_Singleton
    <2>2. <<o>> \in [1..1 -> {o}]
        OBVIOUS
    <2> QED
        BY <2>1, <2>2 DEF SetToSeqs
<1>6. made' = made \o <<o>>
    BY <1>1, <1>2 DEF Listed
<1>7. {o} \in SUBSET Ids
    BY <1>1
<1> QED
    BY <1>4, <1>5, <1>6, <1>7 DEF ListMoves

LEMMA TradingLists ==
    ASSUME BookAssumption, BookInv, Listed, Trading \/ \E o \in Orders : Opened(o)
    PROVE  ListMoves
<1>1. ASSUME NEW o \in Orders,
             PlaceForgotten(o) \/ PlaceAtBroker(o) \/ Fill(o) \/ Assign(o)
      PROVE  ListMoves
    BY <1>1 DEF PlaceForgotten, PlaceAtBroker, Fill, Assign, ListMoves, Rows
<1>2. ASSUME NEW o \in Orders, NEW kind \in Own \cup {"hand"}, CloseOut(o, kind) PROVE ListMoves
    BY <1>2 DEF CloseOut, ListMoves, Rows
<1>3. ASSUME NEW u \in Underlyings, Expire(u) PROVE ListMoves
    BY <1>3 DEF Expire, ListMoves, Rows
<1>4. ASSUME NEW o \in Orders, Opened(o) PROVE ListMoves
    <2>1. row[o] \in Records /\ o \in Rows
        BY <1>4 DEF Opened, Rows, Ids, BookInv, Typed
    <2>2. [row[o] EXCEPT !.state = "open"] \in Records
        BY <2>1, RowKept
    <2> QED
        BY <1>4, <2>1, <2>2, RowWritten DEF Opened
<1> QED
    BY <1>1, <1>2, <1>3, <1>4, PlaceLists DEF Trading

LEMMA WorkLists ==
    ASSUME BookAssumption, BookInv, NEW w \in Workers, Work(w) PROVE ListMoves
<1>1. CASE UNCHANGED <<row, made>>
    BY <1>1 DEF ListMoves, Rows
<1>2. CASE Discover(w)
    <2>1. WithoutRow \in SUBSET Ids /\ WithoutRow \cap Rows = {}
        BY DEF WithoutRow, Openings, Unlinked, BookInv, Typed, Trades, Transactions, Ids
    <2>2. row' = [r \in Ids |-> IF r \in WithoutRow THEN Row("open", FALSE, Legs[r]) ELSE row[r]]
        BY <1>2 DEF Discover
    <2>3. \A r \in WithoutRow : Row("open", FALSE, Legs[r]) # None
        <3>1. \A r \in WithoutRow : r \in Orders
            BY DEF WithoutRow, Openings, Unlinked, BookInv, Typed, Trades, Transactions
        <3> QED
            BY <3>1, NewRow DEF BookAssumption, Symbols
    <2>4. Rows' = Rows \cup WithoutRow
        BY <2>1, <2>2, <2>3 DEF Rows
    <2> QED
        BY <1>2, <2>1, <2>4 DEF Discover, ListMoves
<1>3. CASE SyncApply(w)
    <2> DEFINE synced(r) == NotAtBroker(r, WithGroup(r, seen[w]), seen[w])
               new == {r \in Ids : row[r] = None /\ row'[r] # None}
    <2>1. seen[w] \in SUBSET Symbols
        BY DEF BookInv, Typed
    <2>2. \A r \in Rows : synced(r) # None
        BY <2>1, SyncedRow DEF Rows
    <2>3. row' = [r \in Ids |-> synced(r)]
        BY <1>3 DEF SyncApply
    <2>4. \A r \in Rows : row'[r] # None
        BY <2>2, <2>3 DEF Rows
    <2>5. Rows' = Rows \cup new /\ new \cap Rows = {} /\ new \in SUBSET Ids
        BY <2>4 DEF Rows
    <2>6. \E n \in SetToSeqs(new) : made' = made \o n
        BY <1>3 DEF SyncApply
    <2> HIDE DEF new
    <2> QED
        BY <2>5, <2>6 DEF ListMoves
<1>4. CASE CloseSaves(w)
    <2> DEFINE o == hold[w].of
               rec == hold[w].as
    <2>1. at[w] = "closing" /\ hold[w] # None /\ row' = [row EXCEPT ![o] = rec] /\ UNCHANGED made
        BY <1>4 DEF CloseSaves, Step
    <2>2. o \in Rows /\ rec \in Records
        BY <2>1 DEF BookInv, Items, Doing, Closing
    <2> HIDE DEF o, rec
    <2> QED
        BY <2>1, <2>2, RowWritten
<1> QED
    BY <1>1, <1>2, <1>3, <1>4
       DEF Work, SyncOrderHistory, ImportFetches, ImportFails, ImportReads, ImportSaves, LinkLists,
           LinkFinds, LinkSaves, LinkEnds, SyncFetch, SyncFails, CloseFetch, CloseFails, CloseLists,
           CloseReads

LEMMA ListedStep ==
    ASSUME BookAssumption, BookInv, Listed, [Next]_vars PROVE Listed'
<1>1. ListMoves
    <2>1. CASE UNCHANGED vars
        BY <2>1 DEF vars, ListMoves, Rows
    <2> QED
        BY <2>1, TradingLists, WorkLists DEF Next
<1>2. ASSUME Rows' = Rows, UNCHANGED made PROVE Listed'
    BY <1>2 DEF Listed
<1>3. ASSUME NEW new \in SUBSET Ids, new \cap Rows = {}, Rows' = Rows \cup new,
             \E n \in SetToSeqs(new) : made' = made \o n
      PROVE  Listed'
    BY <1>3, ListGrows
<1> QED
    BY <1>1, <1>2, <1>3 DEF ListMoves

LEMMA TypedTooStep ==
    ASSUME BookAssumption, BookInv, TypedToo, [Next]_vars PROVE TypedToo'
<1>1. /\ expired \subseteq Underlyings /\ late \in [Orders -> SUBSET Orders]
      /\ history \subseteq Orders
    BY DEF TypedToo
<1>2. ASSUME Trading PROVE TypedToo'
    <2>1. expired' \subseteq Underlyings
        BY <1>1, <1>2
           DEF Trading, PlaceManaged, PlaceForgotten, PlaceAtBroker, Fill, CloseOut, Expire,
               Assign, broker
    <2>2. late' = late \/ \E o \in Orders : late' = [late EXCEPT ![o] = NotYetOpened]
        BY <1>2
           DEF Trading, PlaceManaged, PlaceForgotten, PlaceAtBroker, Fill, CloseOut, Expire,
               Assign, broker
    <2>3. late' \in [Orders -> SUBSET Orders]
        BY <1>1, <2>2 DEF NotYetOpened
    <2>4. UNCHANGED history
        BY <1>2 DEF Trading, PlaceManaged, PlaceForgotten, PlaceAtBroker, Fill, CloseOut, Expire, Assign
    <2> QED
        BY <1>1, <2>1, <2>3, <2>4 DEF TypedToo
<1>3. ASSUME NEW o \in Orders, Opened(o) PROVE TypedToo'
    BY <1>1, <1>3 DEF Opened, broker, TypedToo
<1>4. ASSUME NEW w \in Workers, Work(w) PROVE TypedToo'
    <2>1. UNCHANGED <<expired, late>> /\ history' \in {history, Cached}
        BY <1>4
           DEF Work, SyncOrderHistory, ImportFetches, ImportFails, ImportReads, ImportSaves,
               LinkLists, LinkFinds, LinkSaves, LinkEnds, Discover, SyncFetch, SyncFails, SyncApply,
               CloseFetch, CloseFails, CloseLists, CloseReads, CloseSaves, broker
    <2>2. Cached \subseteq Orders
        BY <1>1 DEF Cached, AtBroker, BookAssumption
    <2> QED
        BY <1>1, <2>1, <2>2 DEF TypedToo
<1>5. CASE UNCHANGED vars
    BY <1>1, <1>5 DEF vars, TypedToo
<1> QED
    BY <1>2, <1>3, <1>4, <1>5 DEF Next

\* A list that names each of the rows once is as long as there are rows.
LEMMA ListIsAsLong ==
    ASSUME Listed PROVE ToSet(made) = Rows /\ Len(made) = Cardinality(Rows)
<1>1. made \in Seq(Ids) /\ Len(made) \in Nat /\ DOMAIN made = 1..Len(made)
    BY DEF Listed
<1>2. \A i \in 1..Len(made) : made[i] \in Ids
    BY <1>1
<1>3. ToSet(made) = Rows
    <2>1. \A r \in Rows : r \in Ids
        BY DEF Rows
    <2> QED
        BY <1>1, <1>2, <2>1 DEF Listed, ToSet
<1>4. made \in [1..Len(made) -> Rows]
    BY <1>1, <1>2 DEF Listed
<1>5. made \in Bijection(1..Len(made), Rows)
    <2>1. \A r \in Rows : \E i \in 1..Len(made) : made[i] = r
        BY DEF Listed, Rows
    <2> QED
        BY <1>4, <2>1 DEF Listed, Bijection, Injection, Surjection, IsInjective
<1>6. IsFiniteSet(1..Len(made)) /\ Cardinality(1..Len(made)) = Len(made)
    BY <1>1, FS_Interval
<1>7. Cardinality(Rows) = Cardinality(1..Len(made))
    BY <1>5, <1>6, FS_Bijection DEF ExistsBijection
<1> QED
    BY <1>3, <1>6, <1>7

BookTypes == BookInv /\ Listed /\ TypedToo

LEMMA AlwaysTyped == Spec => []BookTypes
<1>1. Init => BookTypes
    <2> SUFFICES ASSUME Init PROVE Listed /\ TypedToo
        BY BookInit, BookAssumption DEF BookTypes
    <2>1. Listed
        BY DEF Init, Listed, Rows
    <2>2. TypedToo
        BY DEF Init, TypedToo
    <2> QED
        BY <2>1, <2>2
<1>2. BookTypes /\ [Next]_vars => BookTypes'
    BY BookNext, ListedStep, TypedTooStep, BookAssumption DEF BookTypes
<1> QED
    BY <1>1, <1>2, PTL DEF Spec

\* Whatever fails and overlaps, and whatever is written from a copy read earlier,
\* the tables keep their types: a transaction is only ever linked to a row that is
\* there, no row is lost, each row has one place in the order of the primary keys,
\* and what a worker has in hand is a transaction or a row that is still there.
THEOREM TypeCorrect == Spec => []TypeOK
<1>1. ASSUME BookTypes, NEW w \in Workers
      PROVE  /\ at[w] \in {"import", "link"} =>
                  /\ todo[w] \subseteq Trades
                  /\ hold[w] = None \/ (hold[w].of \in Trades /\ hold[w].to \in Rows \cup {None, "new"})
             /\ at[w] = "closing" =>
                  /\ todo[w] \subseteq [of : Rows, was : Records]
                  /\ hold[w] = None \/ (hold[w].of \in Rows /\ hold[w].as \in Records)
             /\ at[w] \notin {"import", "link", "closing"} => Done(w)
    BY <1>1 DEF BookTypes, BookInv, Items, Doing, Importing, Linking, Closing
<1>2. BookTypes => TypeOK
    BY <1>1, ListIsAsLong
       DEF BookTypes, BookInv, Typed, TypedToo, TypeOK, Stages, Steps
<1> QED
    BY <1>2, AlwaysTyped, PTL
=============================================================================
