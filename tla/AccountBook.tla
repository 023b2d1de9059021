---------------------------- MODULE AccountBook ----------------------------
(***************************************************************************)
(* How the rows of an account follow what the broker holds: the scheduled  *)
(* reconciliation (services/reconciliation/orchestrator.py) with its       *)
(* phases that import transactions, link them to positions, discover       *)
(* positions opened at the broker, sync the rows with the holdings and     *)
(* close the rows of what is gone, and the position syncs that run by      *)
(* themselves (the sync button, the start of a stream).                    *)
(*                                                                         *)
(* An opening order o buys or sells Legs[o]; it is the application's own   *)
(* (Managed) or was sent at the broker.  Its row has the id o, because     *)
(* opening_order_id is unique; a row the sync imports for an underlying u  *)
(* has the id u.  A transaction is one leg of an order that filled, or of  *)
(* the assignment of a leg; a sum of transactions is the set of them.      *)
(* The booking of single profit targets is the subject of TargetFills.     *)
(***************************************************************************)
EXTENDS Integers, Sequences, SequencesExt, FiniteSets

CONSTANTS
    Orders,       \* opening orders
    Managed,      \* those of them the application sends
    Contracts,    \* option contracts
    Underlyings,
    Of,           \* the underlying of each contract
    Legs,         \* the contracts of each opening order
    Stock,        \* underlyings whose shares the account holds from the start
    Own,          \* kinds of closing orders the application sends: targets, DTE closes
    Runs,         \* workers of batch_sync_data_task; two may overlap
    Syncs,        \* callers of sync_all_positions alone
    None

Ids == Orders \cup Underlyings
Symbols == Contracts \cup Underlyings     \* shares have the symbol of the underlying
Kinds == {"open", "hand", "assigned"} \cup Own
Transactions == [order : Orders, kind : Kinds, leg : Contracts]

\* What a Position row may hold.
Records == [state : {"pending_entry", "open", "closed"}, managed : BOOLEAN, legs : SUBSET Symbols,
            reason : {None, "profit_target", "manual_close", "expired_worthless", "unknown"}]

ASSUME BookAssumption ==
    /\ IsFiniteSet(Orders) /\ IsFiniteSet(Underlyings)
    /\ Managed \subseteq Orders /\ Of \in [Contracts -> Underlyings]
    /\ Legs \in [Orders -> (SUBSET Contracts) \ {{}}]
    /\ Stock \subseteq Underlyings /\ Own \subseteq {"target", "dte"}
    /\ \A o \in Orders : \A c, d \in Legs[o] : Of[c] = Of[d]
    /\ Runs \cap Syncs = {}
    /\ Orders \cap Underlyings = {} /\ Contracts \cap Underlyings = {}
    /\ None \notin Ids \cup Records

VARIABLES
    stage,     \* the broker: what became of each opening order and its holding
    tape,      \* the broker: its transactions
    shares,    \* the broker: underlyings whose shares an assignment left
    expired,   \* underlyings whose options are past their expiration date
    late,      \* the orders that were opened only after an order's holding ended
    row,       \* Position rows by id, None when there is none
    made,      \* their ids in the order of their primary keys
    history,   \* TastyTradeOrderHistory: opening orders in the cache
    ledger,    \* TastyTradeTransaction: imported ones with their related_position
    at,        \* the step of each worker
    seen,      \* the holdings each worker last fetched
    todo,      \* the transactions or rows a worker has listed and not yet done
    hold       \* what a worker read of one of them and will save

vars == <<stage, tape, shares, expired, late, row, made, history, ledger, at, seen, todo, hold>>
broker == <<stage, tape, shares, expired, late>>
items == <<todo, hold>>

Workers == Runs \cup Syncs
UnderlyingOf(o) == Of[CHOOSE c \in Legs[o] : TRUE]
Symbol(r) == IF r \in Orders THEN UnderlyingOf(r) ELSE r
Fills(o, kind) == [order : {o}, kind : {kind}, leg : Legs[o]]

Held == (UNION {Legs[o] : o \in {p \in Orders : stage[p] = "filled"}}) \cup shares
UnderlyingsIn(S) == {Of[c] : c \in S \cap Contracts} \cup (S \cap Underlyings)

Rows == {r \in Ids : row[r] # None}
OpenRows == {r \in Rows : row[r].state = "open"}
Row(state, managed, legs) ==
    [state |-> state, managed |-> managed, legs |-> legs, reason |-> None]

Init ==
    /\ stage = [o \in Orders |-> "unplaced"]
    /\ shares = Stock
    /\ tape = {} /\ expired = {} /\ history = {}
    /\ late = [o \in Orders |-> {}]
    /\ row = [r \in Ids |-> None] /\ made = <<>>
    /\ ledger = [t \in {} |-> None]
    /\ at = [w \in Workers |-> "idle"]
    /\ seen = [w \in Workers |-> {}]
    /\ todo = [w \in Workers |-> {}]
    /\ hold = [w \in Workers |-> None]

-----------------------------------------------------------------------------
(* The account outside the reconciliation.                                 *)

\* The application's row is written before the order is sent and names no legs.
PlaceManaged(o) ==
    /\ o \in Managed /\ stage[o] = "unplaced" /\ UnderlyingOf(o) \notin expired
    /\ stage' = [stage EXCEPT ![o] = "working"]
    /\ row' = [row EXCEPT ![o] = Row("pending_entry", TRUE, {})]
    /\ made' = Append(made, o)
    /\ UNCHANGED <<tape, shares, expired, late, history, ledger, at, seen, items>>

\* The answer to a submission is lost: the records are deleted, the order is not.
PlaceForgotten(o) ==
    /\ o \in Managed /\ stage[o] = "unplaced" /\ UnderlyingOf(o) \notin expired
    /\ stage' = [stage EXCEPT ![o] = "working"]
    /\ UNCHANGED <<tape, shares, expired, late, row, made, history, ledger, at, seen, items>>

PlaceAtBroker(o) ==
    /\ o \notin Managed /\ stage[o] = "unplaced" /\ UnderlyingOf(o) \notin expired
    /\ stage' = [stage EXCEPT ![o] = "working"]
    /\ UNCHANGED <<tape, shares, expired, late, row, made, history, ledger, at, seen, items>>

Fill(o) ==
    /\ stage[o] = "working" /\ UnderlyingOf(o) \notin expired
    /\ stage' = [stage EXCEPT ![o] = "filled"]
    /\ tape' = tape \cup Fills(o, "open")
    /\ UNCHANGED <<shares, expired, late, row, made, history, ledger, at, seen, items>>

\* One of the five paths that learn of the fill.
Opened(o) ==
    /\ stage[o] \in {"filled", "ended"}
    /\ row[o] # None /\ row[o].state = "pending_entry"
    /\ row' = [row EXCEPT ![o].state = "open"]
    /\ UNCHANGED <<broker, made, history, ledger, at, seen, items>>

NotYetOpened == {p \in Orders : stage[p] = "unplaced" \/ (stage[p] = "working" /\ row[p] = None)}

\* The holding of o is closed, by the user or by an order the application sent.
CloseOut(o, kind) ==
    /\ stage[o] = "filled"
    /\ kind \in Own => row[o] # None /\ row[o].managed /\ row[o].state # "pending_entry"
    /\ stage' = [stage EXCEPT ![o] = "ended"]
    /\ tape' = tape \cup Fills(o, kind)
    /\ late' = [late EXCEPT ![o] = NotYetOpened]
    /\ UNCHANGED <<shares, expired, row, made, history, ledger, at, seen, items>>

\* An expiration matters when something expires.
Expire(u) ==
    /\ u \notin expired /\ \E o \in Orders : stage[o] = "filled" /\ UnderlyingOf(o) = u
    /\ expired' = expired \cup {u}
    /\ stage' = [o \in Orders |-> IF stage[o] = "filled" /\ UnderlyingOf(o) = u
                                  THEN "ended" ELSE stage[o]]
    /\ UNCHANGED <<tape, shares, late, row, made, history, ledger, at, seen, items>>

\* An assignment is a transaction without an order; it leaves shares.
Assign(o) ==
    /\ stage[o] = "filled"
    /\ stage' = [stage EXCEPT ![o] = "ended"]
    /\ tape' = tape \cup Fills(o, "assigned")
    /\ shares' = shares \cup {UnderlyingOf(o)}
    /\ UNCHANGED <<expired, late, row, made, history, ledger, at, seen, items>>

-----------------------------------------------------------------------------
(* Phases 1 to 3: orders, transactions, discovery.                         *)

Step(w, from, to) == at[w] = from /\ at' = [at EXCEPT ![w] = to]

\* Every order of the last days, working or not, is written over its cached copy;
\* the sync looks up those of the application.
AtBroker == {o \in Managed : stage[o] # "unplaced"}
Cached == history \cup AtBroker

\* sync_order_history: what fails is logged and the next phase runs.
SyncOrderHistory(w) ==
    /\ w \in Runs /\ Step(w, "idle", "transactions")
    /\ history' \in {history, Cached}
    /\ UNCHANGED <<broker, row, made, ledger, seen, items>>

\* Only transactions of type "Trade" are asked for.
Trades == {t \in tape : t.kind # "assigned"}

\* What is listed is worked on one by one; in which order matters to no property.
First(S) == CHOOSE s \in S : TRUE
Done(w) == todo[w] = {} /\ hold[w] = None
Begin(w) == todo[w] # {} /\ hold[w] = None
Taken(w) == todo' = [todo EXCEPT ![w] = @ \ {First(@)}]
Holds(w, what) == hold' = [hold EXCEPT ![w] = what]

ImportFetches(w) ==
    /\ Step(w, "transactions", "import")
    /\ todo' = [todo EXCEPT ![w] = Trades]
    /\ UNCHANGED <<broker, row, made, history, ledger, seen, hold>>

\* An import that fails is logged; what is there is linked.
ImportFails(w) ==
    /\ Step(w, "transactions", "import")
    /\ UNCHANGED <<broker, row, made, history, ledger, seen, items>>

\* The row of a transaction is looked up, and saved whole: with the related
\* position it had when it was read.
ImportReads(w) ==
    /\ at[w] = "import" /\ Begin(w) /\ Taken(w)
    /\ LET t == First(todo[w]) IN
         Holds(w, [of |-> t, to |-> IF t \in DOMAIN ledger THEN ledger[t] ELSE "new"])
    /\ UNCHANGED <<broker, row, made, history, ledger, at, seen>>

Saved(t, home) == [s \in DOMAIN ledger \cup {t} |-> IF s = t THEN home ELSE ledger[s]]

\* transaction_id is unique: creating a row that another run made meanwhile fails.
ImportSaves(w) ==
    /\ at[w] = "import" /\ hold[w] # None /\ Holds(w, None)
    /\ LET t == hold[w].of IN
         ledger' = IF hold[w].to # "new" THEN Saved(t, hold[w].to)
                   ELSE IF t \in DOMAIN ledger THEN ledger ELSE Saved(t, None)
    /\ UNCHANGED <<broker, row, made, history, at, seen, todo>>

Unlinked(book) == {t \in DOMAIN book : book[t] = None}

LinkLists(w) ==
    /\ Step(w, "import", "link") /\ Done(w)
    /\ todo' = [todo EXCEPT ![w] = Unlinked(ledger)]
    /\ UNCHANGED <<broker, row, made, history, ledger, seen, hold>>

\* _match_by_symbol: closings only; open and closed rows not opened after it.
SameSymbol(t) ==
    IF t.kind = "open" THEN {}
    ELSE {r \in Rows : /\ row[r].state \in {"open", "closed"}
                       /\ Symbol(r) = Of[t.leg] /\ t.leg \in row[r].legs
                       /\ r \notin late[t.order]}

\* The row records the closing orders of the application, but a row saved whole
\* after it was read earlier, or details that are replaced, may leave an id out.
Named(t) == IF t.kind \in Own /\ t.order \in Rows THEN {t.order} ELSE {}

\* _find_position_for_transaction: the order's id decides before the symbol does.
\* Rows come in no particular order, so any that matches may be the first.
Homes(t) ==
    IF t.kind = "open" /\ t.order \in Rows THEN {t.order}
    ELSE Named(t) \cup (IF SameSymbol(t) # {} THEN SameSymbol(t) ELSE {None})

LinkFinds(w) ==
    /\ at[w] = "link" /\ Begin(w) /\ Taken(w)
    /\ \E home \in Homes(First(todo[w])) :
         Holds(w, IF home = None THEN None ELSE [of |-> First(todo[w]), to |-> home])
    /\ UNCHANGED <<broker, row, made, history, ledger, at, seen>>

\* Only the related position is saved, whatever it has become meanwhile.
LinkSaves(w) ==
    /\ at[w] = "link" /\ hold[w] # None /\ Holds(w, None)
    /\ ledger' = Saved(hold[w].of, hold[w].to)
    /\ UNCHANGED <<broker, row, made, history, at, seen, todo>>

LinkEnds(w) ==
    /\ Step(w, "link", "discover") /\ Done(w)
    /\ UNCHANGED <<broker, row, made, history, ledger, seen, items>>

\* Mutant: an order is thought known when its underlying has a row.
OpeningsElsewhere(book) ==
    {t \in Unlinked(book) : t.kind = "open" /\ \A r \in Rows : Symbol(r) # Of[t.leg]}

Openings(book) == {t \in Unlinked(book) : t.kind = "open"}

\* An order that has a row is only linked to it; opening_order_id is unique.
WithoutRow == {t.order : t \in Openings(ledger)} \ Rows

Discover(w) ==
    /\ Step(w, "discover", "fetch")
    /\ row' = [r \in Ids |-> IF r \in WithoutRow THEN Row("open", FALSE, Legs[r]) ELSE row[r]]
    /\ \E order \in SetToSeqs(WithoutRow) : made' = made \o order
    /\ ledger' = [t \in DOMAIN ledger |->
                    IF t \in Openings(ledger) THEN t.order ELSE ledger[t]]
    /\ UNCHANGED <<broker, history, seen, items>>

-----------------------------------------------------------------------------
(* Phase 4: sync_all_positions, also called by itself.                     *)

AfterSync(w) == IF w \in Runs THEN "list" ELSE "idle"

\* The order history is fetched again, which may fail.  Nothing held ends the sync.
SyncFetch(w) ==
    /\ at[w] = IF w \in Runs THEN "fetch" ELSE "idle"
    /\ history' \in {history, Cached}
    /\ seen' = [seen EXCEPT ![w] = Held]
    /\ at' = [at EXCEPT ![w] = IF Held = {} THEN AfterSync(w) ELSE "sync"]
    /\ UNCHANGED <<broker, row, made, ledger, items>>

SyncFails(w) ==
    /\ w \in Runs /\ Step(w, "fetch", AfterSync(w))
    /\ UNCHANGED <<broker, row, made, history, ledger, seen, items>>

\* Tier 1: the application's rows take the legs of their order that are held.
WithOrderLegs(r, holdings) ==
    IF /\ r \in Orders /\ row[r] # None /\ row[r].managed /\ row[r].state # "closed"
       /\ r \in history /\ Legs[r] \cap holdings # {}
    THEN [row[r] EXCEPT !.legs = Legs[r] \cap holdings]
    ELSE row[r]

\* Tier 2: the oldest row of an underlying takes everything held in it and is
\* open again, unless the application has a row in that underlying, of any state.
LeftToTier2(holdings) ==
    {u \in UnderlyingsIn(holdings) : \A r \in Rows : Symbol(r) = u => ~row[r].managed}
Older(r, s) == \E i, j \in DOMAIN made : i < j /\ made[i] = r /\ made[j] = s
Takes(r) ==
    IF r \in Rows THEN \A s \in Rows \ {r} : Symbol(s) = Symbol(r) => Older(r, s)
    ELSE r \in Underlyings /\ \A s \in Rows : Symbol(s) # r
LegsIn(u, holdings) == {s \in holdings : s = u \/ (s \in Contracts /\ Of[s] = u)}

\* Mutant: a closed row that takes what is held stays closed.
WithGroupClosed(r, holdings) ==
    LET u == Symbol(r) IN
    IF u \in LeftToTier2(holdings) /\ Takes(r)
    THEN IF row[r] = None THEN Row("open", FALSE, LegsIn(u, holdings))
         ELSE [row[r] EXCEPT !.legs = LegsIn(u, holdings)]
    ELSE WithOrderLegs(r, holdings)

WithGroup(r, holdings) ==
    LET u == Symbol(r) IN
    IF u \in LeftToTier2(holdings) /\ Takes(r)
    THEN IF row[r] = None THEN Row("open", FALSE, LegsIn(u, holdings))
         ELSE [row[r] EXCEPT !.state = "open", !.legs = LegsIn(u, holdings)]
    ELSE WithOrderLegs(r, holdings)

\* _close_positions_not_at_broker: by underlying, and without a profit or a loss.
NotAtBroker(r, record, holdings) ==
    IF record # None /\ record.state = "open" /\ Symbol(r) \notin UnderlyingsIn(holdings)
    THEN [record EXCEPT !.state = "closed"] ELSE record

SyncApply(w) ==
    /\ Step(w, "sync", AfterSync(w))
    /\ row' = [r \in Ids |-> NotAtBroker(r, WithGroup(r, seen[w]), seen[w])]
    /\ \E order \in SetToSeqs({r \in Ids : row[r] = None /\ row'[r] # None}) :
         made' = made \o order
    /\ seen' = [seen EXCEPT ![w] = {}]
    /\ UNCHANGED <<broker, history, ledger, items>>

-----------------------------------------------------------------------------
(* Phase 5: process_closed_positions.                                      *)

\* The symbols the broker holds are fetched before the rows are read.
CloseFetch(w) ==
    /\ Step(w, "list", "close")
    /\ seen' = [seen EXCEPT ![w] = Held]
    /\ UNCHANGED <<broker, row, made, history, ledger, items>>

CloseFails(w) ==
    /\ Step(w, "list", "idle")
    /\ seen' = [seen EXCEPT ![w] = {}]
    /\ UNCHANGED <<broker, row, made, history, ledger, items>>

\* Mutant: a row without legs is taken for open.
LeglessIsOpen(r, holdings) == row[r].legs = {} \/ row[r].legs \cap holdings # {}

\* _position_has_open_legs: a row without legs is looked up by its underlying.
HasOpenLegs(r, holdings) ==
    IF row[r].legs = {} THEN Symbol(r) \in holdings ELSE row[r].legs \cap holdings # {}

Gone(w) == {r \in OpenRows : ~HasOpenLegs(r, seen[w])}

\* The open rows are read after the holdings were fetched.
CloseLists(w) ==
    /\ Step(w, "close", IF Gone(w) = {} THEN "idle" ELSE "closing")
    /\ todo' = [todo EXCEPT ![w] = {[of |-> r, was |-> row[r]] : r \in Gone(w)}]
    /\ seen' = [seen EXCEPT ![w] = {}]
    /\ UNCHANGED <<broker, row, made, history, ledger, hold>>

Linked(r) == {t \in DOMAIN ledger : ledger[t] = r}

\* Only a discovered row has the expiration_date the service looks for, and a
\* target is known for one only while the row names it.
Reasons(r, was) ==
    LET closings == {t \in Linked(r) : t.kind # "open"} IN
    CASE \E t \in closings : t.kind = "assigned" -> {"assignment"}
      [] \E t \in closings : t.kind = "target" /\ t.order = r -> {"profit_target", "manual_close"}
      [] closings # {} -> {"manual_close"}
      [] r \in Orders /\ ~was.managed /\ Symbol(r) \in expired -> {"expired_worthless"}
      [] OTHER -> {"unknown"}

\* Its transactions are read, reason and profit computed on the copy of the row,
CloseReads(w) ==
    /\ at[w] = "closing" /\ Begin(w) /\ Taken(w)
    /\ LET copy == First(todo[w]) IN \E reason \in Reasons(copy.of, copy.was) :
         Holds(w, [of |-> copy.of, as |-> [copy.was EXCEPT !.state = "closed", !.reason = reason]])
    /\ UNCHANGED <<broker, row, made, history, ledger, at, seen>>

\* and the copy is saved whole, whatever the row has become meanwhile.
CloseSaves(w) ==
    /\ Step(w, "closing", IF todo[w] = {} THEN "idle" ELSE "closing")
    /\ hold[w] # None /\ Holds(w, None)
    /\ row' = [row EXCEPT ![hold[w].of] = hold[w].as]
    /\ UNCHANGED <<broker, made, history, ledger, seen, todo>>

-----------------------------------------------------------------------------

Work(w) ==
    \/ SyncOrderHistory(w)
    \/ ImportFetches(w) \/ ImportFails(w) \/ ImportReads(w) \/ ImportSaves(w)
    \/ LinkLists(w) \/ LinkFinds(w) \/ LinkSaves(w) \/ LinkEnds(w)
    \/ Discover(w)
    \/ SyncFetch(w) \/ SyncFails(w) \/ SyncApply(w)
    \/ CloseFetch(w) \/ CloseFails(w) \/ CloseLists(w) \/ CloseReads(w) \/ CloseSaves(w)

Trading ==
    \/ \E o \in Orders :
         \/ PlaceManaged(o) \/ PlaceForgotten(o) \/ PlaceAtBroker(o) \/ Fill(o) \/ Assign(o)
         \/ \E kind \in Own \cup {"hand"} : CloseOut(o, kind)
    \/ \E u \in Underlyings : Expire(u)

Next ==
    \/ Trading
    \/ \E o \in Orders : Opened(o)
    \/ \E w \in Workers : Work(w)

(* The scheduler starts the reconciliation again and again, and its calls do *)
(* not fail for ever.                                                        *)
Fairness ==
    \A w \in Runs :
        WF_vars(Work(w)) /\ SF_vars(ImportFetches(w)) /\ SF_vars(SyncFetch(w)) /\ SF_vars(CloseFetch(w))

Spec == Init /\ [][Next]_vars
FairSpec == Spec /\ Fairness

-----------------------------------------------------------------------------
(* Properties                                                              *)

TypeOK ==
    /\ stage \in [Orders -> {"unplaced", "working", "filled", "ended"}]
    /\ tape \subseteq Transactions /\ shares \subseteq Underlyings /\ expired \subseteq Underlyings
    /\ late \in [Orders -> SUBSET Orders] /\ history \subseteq Orders
    /\ \A r \in Ids : row[r] = None \/ row[r] \in Records
    /\ DOMAIN ledger \subseteq Trades /\ \A t \in DOMAIN ledger : ledger[t] \in Rows \cup {None}
    /\ ToSet(made) = Rows /\ Len(made) = Cardinality(Rows)
    /\ at \in [Workers -> {"idle", "transactions", "import", "link", "discover", "fetch", "sync",
                         "list", "close", "closing"}]
    /\ seen \in [Workers -> SUBSET Symbols]
    /\ \A w \in Workers :
         /\ at[w] \in {"import", "link"} =>
              /\ todo[w] \subseteq Trades
              /\ hold[w] = None \/ (hold[w].of \in Trades /\ hold[w].to \in Rows \cup {None, "new"})
         /\ at[w] = "closing" =>
              /\ todo[w] \subseteq [of : Rows, was : Records]
              /\ hold[w] = None \/ (hold[w].of \in Rows /\ hold[w].as \in Records)
         /\ at[w] \notin {"import", "link", "closing"} => Done(w)

(* What was opened at the broker, or by an order whose submission seemed to  *)
(* fail, gets a row, and the transactions of every opening reach the row of  *)
(* their own order (position_discovery.py:66-227).                           *)
OpeningsAreFound ==
    []<>(\A t \in tape : t.kind = "open" => t \in DOMAIN ledger /\ ledger[t] = t.order)

(* When nothing is held in an underlying any more its rows do not stay open, *)
(* whichever of the sync and the closure service sees it, with fetches that  *)
(* fail and a sync that writes what it fetched earlier                       *)
(* (sync.py:812-917, closure_service.py:67-180).                             *)
Nothing(u) == u \notin UnderlyingsIn(Held)
GoneIsClosed == []<>(\A r \in OpenRows : ~Nothing(Symbol(r)))

(* What the account holds of an underlying, shares that an assignment left   *)
(* included, is sooner or later among the legs of an open row, although the  *)
(* closure service closes the row whose contracts are gone: unless the       *)
(* application has a row in that underlying (sync.py:123-155, 376-635).      *)
ByApplication(u) == \E r \in Rows : Symbol(r) = u /\ row[r].managed
HeldIsShown ==
    []<>(\A s \in Held : \/ \E r \in OpenRows : s \in row[r].legs
                        \/ \E u \in UnderlyingsIn({s}) : ByApplication(u))

(* What does not hold.                                                       *)

(* A transaction that is linked keeps its related position, as the profit of *)
(* a closed row is the sum of what was linked to it.  It does not: of two    *)
(* runs that overlap, one saves the position that the other has meanwhile    *)
(* changed (transactions.py:178, 214, 337-342).                              *)
LinksStay ==
    [][\A t \in DOMAIN ledger : ledger[t] # None => ledger'[t] = ledger[t]]_vars

(* The closure service "detects positions that have been closed at the       *)
(* broker" (closure_service.py:4): it closes no row whose contracts the      *)
(* broker listed when it was asked.  It does: a row of the application has   *)
(* no legs until a sync matched it, and is looked up by its underlying.      *)
ClosesOnlyTheGone ==
    [][\A w \in Workers : CloseLists(w) =>
         \A o \in Orders \cap Gone(w) : Legs[o] \cap seen[w] = {}]_vars

(* A row the reconciliation closed has its reason and profit                 *)
(* (PNL_CALCULATION_ARCHITECTURE.md:15-17).  It does not: phase 4 closes     *)
(* by underlying before phase 5 looks.                                       *)
ClosedIsBooked == \A r \in Rows : row[r].state = "closed" => row[r].reason # None
=============================================================================
