------------------------------ MODULE EntryOrder ------------------------------
(***************************************************************************)
(* The life of one opening order: how the request that places it records   *)
(* it, and how the position and the trade follow the order to its end.     *)
(* Two kinds of process watch the order besides that request:              *)
(*                                                                         *)
(*   Handlers - the order listeners, one for each container that streams   *)
(*              for the user; each hears every change of the order once,   *)
(*              in order (streaming/services/order_event_processor.py);    *)
(*   Workers  - the Celery workers, each of which runs one task at a time: *)
(*              monitor_open_orders (trading/tasks.py), a position sync    *)
(*              (services/positions/sync.py), reconcile_trades and         *)
(*              fix_stuck_positions (trade_reconciliation_service.py), or  *)
(*              cancel_trade for the automated cycle or the user           *)
(*              (services/orders/cancellation.py).                         *)
(*                                                                         *)
(* A handler runs a position sync inside its own call when the order fills.*)
(* Each database statement and each broker call is one action.  What a     *)
(* process p has read is in seenPos[p], seenTrade[p] and got[p].  A save   *)
(* with update_fields writes those fields of the row as it is now and      *)
(* fails if the row is gone; a full save() writes every field as p read    *)
(* it, and writes the row anew if it is gone.  How the profit targets are   *)
(* created is EntryFill's subject: here a process that would create them   *)
(* either saves what it read, or finds that there is nothing to do.        *)
(***************************************************************************)
EXTENDS Integers

CONSTANTS Handlers, Workers,
  OtherHoldings,  \* the account holds positions in other symbols
  Failures        \* the failures that may happen, a subset of FailureKinds

FailureKinds ==
  { "refused",    \* the broker takes no order, or no profit target
    "lost",       \* the order is placed, its response does not arrive
    "unsaved",    \* a database write after the placement raises
    "dies",       \* the process that executes the suggestion dies
    "missed",     \* a stream is down when the order changes
    "error",      \* a query of the broker fails
    "early" }     \* the trade is cancelled before the order has an id

Ended    == {"cancelled", "rejected", "expired"}
Terminal == Ended \cup {"filled"}
OrderStatuses == {"none", "live"} \cup Terminal

Procs == Handlers \cup Workers

ASSUME EntryOrderAssumption ==
  /\ OtherHoldings \in BOOLEAN
  /\ Failures \subseteq FailureKinds
  /\ Handlers \cap Workers = {}

VARIABLES
  request,      \* where execute_suggestion_async is
  order,        \* the order at the broker
  listed,       \* the broker's list of live orders still has it
  history,      \* its status in the order history table
  position,     \* lifecycle_state of the position row, "none" without a row
  trade,        \* the row of the opening trade; id "none" means no row
  pc,           \* where each process is
  heard,        \* how many changes of the order each handler has heard
  seenPos, seenTrade,  \* the rows as each process last read them
  got,          \* the order status each process acts on
  holds         \* did the holdings a sync fetched include this symbol

broker == <<order, listed>>
local  == <<seenPos, seenTrade, got, holds>>
vars   == <<request, broker, history, position, trade, pc, heard, local>>

Lifecycles == {"none", "pending_entry", "open_full", "closed", "expired"}

Polled == {"pending", "submitted", "live"}

TradeRow ==
  [ id     : {"none", "temporary", "order"},
    status : Polled \cup Terminal \cup {"none", "error"} ]

NoTrade == [id |-> "none", status |-> "none"]

Init ==
  /\ request = "approved"
  /\ order = "none" /\ listed = TRUE /\ history = "none"
  /\ position = "none" /\ trade = NoTrade
  /\ pc = [p \in Procs |-> "idle"]
  /\ heard = [h \in Handlers |-> 0]
  /\ seenPos = [p \in Procs |-> "none"]
  /\ seenTrade = [p \in Procs |-> NoTrade]
  /\ got = [p \in Procs |-> "none"]
  /\ holds = [p \in Procs |-> FALSE]

-----------------------------------------------------------------------------
HasPosition == position # "none"
HasTrade    == trade.id # "none"

\* p goes to l with what it has read by now; idle again, it forgets that.
MoveWith(p, l, pos, tr, s, h) ==
  /\ pc' = [pc EXCEPT ![p] = l]
  /\ seenPos' = [seenPos EXCEPT ![p] = IF l = "idle" THEN "none" ELSE pos]
  /\ seenTrade' = [seenTrade EXCEPT ![p] = IF l = "idle" THEN NoTrade ELSE tr]
  /\ got' = [got EXCEPT ![p] = IF l = "idle" THEN "none" ELSE s]
  /\ holds' = [holds EXCEPT ![p] = l # "idle" /\ h]

Goto(p, l)     == MoveWith(p, l, seenPos[p], seenTrade[p], got[p], holds[p])
Learn(p, l, s) == MoveWith(p, l, seenPos[p], seenTrade[p], s, holds[p])
Read(p, l)     == MoveWith(p, l, position, trade, got[p], holds[p])

\* update_fields=["lifecycle_state", ...]: the row goes to state s and p to l,
\* or, if the row is gone, the save raises and p ends up at e.
SetLifecycle(p, s, l, e) ==
  IF HasPosition
  THEN position' = s /\ Goto(p, l)
  ELSE UNCHANGED position /\ Goto(p, e)

\* What a query of the order returns, failures included.
Answers == {order} \cup (IF "error" \in Failures THEN {"error"} ELSE {})

-----------------------------------------------------------------------------
(***************************************************************************)
(* The request.                                                            *)
(***************************************************************************)
CreateRecords ==
  /\ request = "approved"
  /\ request' = "created"
  /\ position' = "pending_entry"
  /\ trade' = [id |-> "temporary", status |-> "pending"]
  /\ UNCHANGED <<broker, history, pc, heard, local>>

\* a_place_order returns, or raises after the broker took the order.
PlaceOrder ==
  /\ request = "created"
  /\ order' = "live"
  /\ \/ request' = "placed"
     \/ "lost" \in Failures /\ request' = "undo"
  /\ UNCHANGED <<listed, history, position, trade, pc, heard, local>>

NotPlaced ==
  /\ request = "created" /\ "refused" \in Failures
  /\ request' = "undo"
  /\ UNCHANGED <<broker, history, position, trade, pc, heard, local>>

\* position.asave(): the row as it was created.
FinalizePosition ==
  /\ request = "placed"
  /\ request' = "finalized"
  /\ position' = "pending_entry"
  /\ UNCHANGED <<broker, history, trade, pc, heard, local>>

\* Mutant: the id of the order is not stored.
FinalizeTradeStatus ==
  /\ request = "finalized"
  /\ request' = "recorded"
  /\ trade' = [trade EXCEPT !.status = "submitted"]
  /\ UNCHANGED <<broker, history, position, pc, heard, local>>

FinalizeTrade ==
  /\ request = "finalized"
  /\ request' = "recorded"
  /\ trade' = [id |-> "order", status |-> "submitted"]
  /\ UNCHANGED <<broker, history, position, pc, heard, local>>

MarkExecuted ==
  /\ request = "recorded"
  /\ request' = "executed"
  /\ UNCHANGED <<broker, history, position, trade, pc, heard, local>>

SaveFails ==
  /\ request \in {"placed", "finalized", "recorded"} /\ "unsaved" \in Failures
  /\ request' = "undo"
  /\ UNCHANGED <<broker, history, position, trade, pc, heard, local>>

\* _delete_pending_records: first the trade, then the position.
DeleteTrade ==
  /\ request = "undo"
  /\ request' = "undone"
  /\ trade' = NoTrade
  /\ UNCHANGED <<broker, history, position, pc, heard, local>>

DeletePosition ==
  /\ request = "undone"
  /\ request' = "failed"
  /\ position' = "none" /\ trade' = NoTrade
  /\ UNCHANGED <<broker, history, pc, heard, local>>

Dies ==
  /\ request \notin {"approved", "executed", "failed", "dead"}
  /\ "dies" \in Failures
  /\ request' = "dead"
  /\ UNCHANGED <<broker, history, position, trade, pc, heard, local>>

Request ==
  \/ CreateRecords \/ PlaceOrder \/ NotPlaced \/ FinalizePosition
  \/ FinalizeTrade \/ MarkExecuted \/ SaveFails \/ DeleteTrade
  \/ DeletePosition \/ Dies

-----------------------------------------------------------------------------
(***************************************************************************)
(* The broker.                                                             *)
(***************************************************************************)
OrderEnds ==
  /\ order = "live"
  /\ order' \in Terminal
  /\ UNCHANGED <<request, listed, history, position, trade, pc, heard, local>>

\* An order that is over leaves the list of live orders the next day.
DayPasses ==
  /\ order \in Terminal /\ listed
  /\ listed' = FALSE
  /\ UNCHANGED <<request, order, history, position, trade, pc, heard, local>>

-----------------------------------------------------------------------------
(***************************************************************************)
(* handle_order_event.                                                     *)
(***************************************************************************)
\* The change a handler hears next, once it has happened.
Changed(h)    == order \in (IF heard[h] = 0 THEN {"live"} \cup Terminal
                           ELSE IF heard[h] = 1 THEN Terminal ELSE {})
NextChange(h) == IF heard[h] = 0 THEN "live" ELSE order

\* Orders without a trade, and statuses the trade has already, are ignored.
Hear(h) ==
  /\ pc[h] = "idle"
  /\ Changed(h)
  /\ heard' = [heard EXCEPT ![h] = @ + 1]
  /\ MoveWith(h,
       IF trade.id # "order" \/ trade.status = NextChange(h) THEN "idle"
       ELSE IF heard[h] = 0 THEN "hear save" ELSE "hear position",
       position, trade, NextChange(h), FALSE)
  /\ UNCHANGED <<request, broker, history, position, trade>>

Miss(h) ==
  /\ "missed" \in Failures /\ pc[h] = "idle"
  /\ Changed(h)
  /\ heard' = [heard EXCEPT ![h] = @ + 1]
  /\ UNCHANGED <<request, broker, history, position, trade, pc, local>>

HearFill(h) ==
  /\ pc[h] = "hear position" /\ got[h] = "filled"
  /\ SetLifecycle(h, "open_full", "orders", "idle")
  /\ UNCHANGED <<request, broker, history, trade, heard>>

HearEnd(h) ==
  /\ pc[h] = "hear position" /\ got[h] # "filled"
  /\ IF seenPos[h] = "pending_entry"
     THEN SetLifecycle(h, "closed", "hear save", "idle")
     ELSE UNCHANGED position /\ Goto(h, "hear save")
  /\ UNCHANGED <<request, broker, history, trade, heard>>

\* trade.asave(): every field as read at the start of the handler.  The saves of the
\* targets that it then creates have update_fields with none of these fields.
HearSave(h) ==
  /\ pc[h] = "hear save"
  /\ trade' = IF HasPosition THEN [seenTrade[h] EXCEPT !.status = got[h]] ELSE trade
  /\ Goto(h, "idle")
  /\ UNCHANGED <<request, broker, history, position, heard>>

Handle(h) == HearFill(h) \/ HearEnd(h) \/ HearSave(h)

-----------------------------------------------------------------------------
(***************************************************************************)
(* monitor_open_orders.                                                    *)
(***************************************************************************)
MonitorList(m) ==
  /\ pc[m] = "idle" /\ trade.status \in Polled
  /\ Read(m, "poll")
  /\ UNCHANGED <<request, broker, history, position, trade, heard>>

\* check_order_status.  The price in a first answer counts as a change, so
\* that a status which has not changed may be written as well.
MonitorPoll(m) ==
  /\ pc[m] = "poll"
  /\ \E s \in IF seenTrade[m].id = "order" THEN Answers ELSE {"error"} :
       \/ Learn(m, "poll write", s)
       \/ s = seenTrade[m].status /\ Goto(m, "idle")
  /\ UNCHANGED <<request, broker, history, position, trade, heard>>

MonitorWrite(m) ==
  /\ pc[m] = "poll write"
  /\ IF HasTrade
     THEN /\ trade' = [trade EXCEPT !.status = got[m]]
          /\ Goto(m, CASE got[m] = "expired" -> "poll expired"
                       [] got[m] = "filled"  -> "poll filled"
                       [] OTHER              -> "idle")
     ELSE UNCHANGED trade /\ Goto(m, "idle")
  /\ UNCHANGED <<request, broker, history, position, heard>>

MonitorExpired(m) ==
  /\ pc[m] = "poll expired"
  /\ Goto(m, IF position = "pending_entry" THEN "poll delete" ELSE "idle")
  /\ UNCHANGED <<request, broker, history, position, trade, heard>>

\* position.adelete(), which takes the trade along.
MonitorDelete(m) ==
  /\ pc[m] = "poll delete"
  /\ position' = "none" /\ trade' = NoTrade
  /\ Goto(m, "idle")
  /\ UNCHANGED <<request, broker, history, heard>>

\* _handle_order_fill, up to its call of create_profit_targets_sync.
MonitorFilled(m) ==
  /\ pc[m] = "poll filled"
  /\ \E l \in {"create", "idle"} : Read(m, IF HasPosition /\ HasTrade THEN l ELSE "idle")
  /\ UNCHANGED <<request, broker, history, position, trade, heard>>

\* create_profit_targets_sync: no target is accepted, or position.save().
SavePosition(p) ==
  /\ pc[p] = "create"
  /\ \/ position' = seenPos[p] /\ Goto(p, "create trade")
     \/ "refused" \in Failures /\ UNCHANGED position /\ Goto(p, "idle")
  /\ UNCHANGED <<request, broker, history, trade, heard>>

\* trade.save(), likewise with every field as read.  Only the monitor, which
\* has polled the order, goes on to open the position.
SaveTrade(p) ==
  /\ pc[p] = "create trade"
  /\ trade' = IF HasPosition THEN seenTrade[p] ELSE trade
  /\ Goto(p, IF HasPosition /\ got[p] = "filled" /\ seenPos[p] = "pending_entry"
             THEN "create open" ELSE "idle")
  /\ UNCHANGED <<request, broker, history, position, heard>>

MonitorOpen(m) ==
  /\ pc[m] = "create open"
  /\ SetLifecycle(m, "open_full", "idle", "idle")
  /\ UNCHANGED <<request, broker, history, trade, heard>>

Monitor(m) ==
  \/ MonitorPoll(m) \/ MonitorWrite(m) \/ MonitorExpired(m)
  \/ MonitorDelete(m) \/ MonitorFilled(m) \/ MonitorOpen(m)

-----------------------------------------------------------------------------
(***************************************************************************)
(* sync_all_positions, as far as it touches positions that wait for their  *)
(* order or have just opened.                                              *)
(***************************************************************************)
SyncStart(s) ==
  /\ pc[s] = "idle"
  /\ Goto(s, "orders")
  /\ UNCHANGED <<request, broker, history, position, trade, heard>>

\* A sync on its own is done; a handler goes on to save its trade.
Back(p) == IF p \in Handlers THEN "hear save" ELSE "idle"

SyncOrders(p) ==
  /\ pc[p] = "orders"
  /\ history' = order
  /\ Goto(p, "holdings")
  /\ UNCHANGED <<request, broker, position, trade, heard>>

\* With no holdings at all the sync returns at once.
SyncHoldings(p) ==
  /\ pc[p] = "holdings"
  /\ MoveWith(p, IF order = "filled" \/ OtherHoldings THEN "pending" ELSE Back(p),
              seenPos[p], seenTrade[p], got[p], order = "filled")
  /\ UNCHANGED <<request, broker, history, position, trade, heard>>

SyncFails(p) ==
  /\ pc[p] \in {"orders", "holdings"} /\ "error" \in Failures
  /\ Goto(p, Back(p))
  /\ UNCHANGED <<request, broker, history, position, trade, heard>>

\* _sync_pending_order_statuses.  Nothing becomes of an order that is still
\* in the list: for one that ended, saving the unknown field "status" raises.
SyncPending(p) ==
  /\ pc[p] = "pending"
  /\ Goto(p, IF position = "pending_entry" /\ ~listed
             THEN "lookup" ELSE "close list")
  /\ UNCHANGED <<request, broker, history, position, trade, heard>>

\* Mutant: an order that is over is taken for filled.
SyncLookupOver(p) ==
  /\ pc[p] = "lookup"
  /\ \E s \in IF trade.id = "order" THEN Answers ELSE {"error"} :
       Goto(p, IF s \in Terminal THEN "lookup open" ELSE "close list")
  /\ UNCHANGED <<request, broker, history, position, trade, heard>>

\* Mutant: only a filled order is dealt with.
SyncLookupFilled(p) ==
  /\ pc[p] = "lookup"
  /\ \E s \in IF trade.id = "order" THEN Answers ELSE {"error"} :
       Goto(p, IF s = "filled" THEN "lookup open" ELSE "close list")
  /\ UNCHANGED <<request, broker, history, position, trade, heard>>

\* An order that is not among the live ones is looked up by itself.
SyncLookup(p) ==
  /\ pc[p] = "lookup"
  /\ \E s \in IF trade.id = "order" THEN Answers ELSE {"error"} :
       Goto(p, IF s = "filled" THEN "lookup open"
               ELSE IF s \in Ended THEN "lookup drop" ELSE "close list")
  /\ UNCHANGED <<request, broker, history, position, trade, heard>>

SyncOpen(p) ==
  /\ pc[p] = "lookup open"
  /\ SetLifecycle(p, "open_full", "lookup trade", "close list")
  /\ UNCHANGED <<request, broker, history, trade, heard>>

SyncDrop(p) ==
  /\ pc[p] = "lookup drop"
  /\ SetLifecycle(p, "closed", "lookup trade", "close list")
  /\ UNCHANGED <<request, broker, history, trade, heard>>

\* The trade follows the position; the order that was looked up is over.
SyncTrade(p) ==
  /\ pc[p] = "lookup trade"
  /\ trade' = IF HasTrade THEN [trade EXCEPT !.status = order] ELSE trade
  /\ Goto(p, "close list")
  /\ UNCHANGED <<request, broker, history, position, heard>>

\* _close_positions_not_at_broker compares with the holdings fetched earlier.
SyncList(p) ==
  /\ pc[p] = "close list"
  /\ Goto(p, IF position = "open_full" /\ ~holds[p] THEN "close" ELSE Back(p))
  /\ UNCHANGED <<request, broker, history, position, trade, heard>>

SyncClose(p) ==
  /\ pc[p] = "close"
  /\ SetLifecycle(p, "closed", Back(p), Back(p))
  /\ UNCHANGED <<request, broker, history, trade, heard>>

Sync(p) ==
  \/ SyncOrders(p) \/ SyncHoldings(p) \/ SyncFails(p) \/ SyncPending(p) \/ SyncLookup(p)
  \/ SyncOpen(p) \/ SyncDrop(p) \/ SyncTrade(p) \/ SyncList(p) \/ SyncClose(p)

-----------------------------------------------------------------------------
(***************************************************************************)
(* reconcile_trades and fix_stuck_positions.                               *)
(***************************************************************************)
\* Mutant: only trades that are still polled count.
ReconcileReadPolled(f) ==
  /\ pc[f] = "idle"
  /\ order = "filled" /\ trade.id = "order" /\ trade.status \in Polled
  /\ Read(f, "reconcile")
  /\ UNCHANGED <<request, broker, history, position, trade, heard>>

\* A filled order of the broker's history whose trade is not filled.
ReconcileRead(f) ==
  /\ pc[f] = "idle"
  /\ order = "filled" /\ trade.id = "order" /\ trade.status # "filled"
  /\ Read(f, "reconcile")
  /\ UNCHANGED <<request, broker, history, position, trade, heard>>

ReconcileTrade(f) ==
  /\ pc[f] = "reconcile"
  /\ trade' = [seenTrade[f] EXCEPT !.status = "filled"]
  /\ Goto(f, IF seenPos[f] = "pending_entry" THEN "reconcile open" ELSE "idle")
  /\ UNCHANGED <<request, broker, history, position, heard>>

ReconcileOpen(f) ==
  /\ pc[f] = "reconcile open"
  /\ SetLifecycle(f, "open_full", "idle", "idle")
  /\ UNCHANGED <<request, broker, history, trade, heard>>

StuckRead(f) ==
  /\ pc[f] = "idle"
  /\ position = "pending_entry" /\ trade.id = "order" /\ history = "filled"
  /\ Read(f, "stuck")
  /\ UNCHANGED <<request, broker, history, position, trade, heard>>

StuckTrade(f) ==
  /\ pc[f] = "stuck"
  /\ \/ /\ trade' = IF HasTrade THEN [trade EXCEPT !.status = "filled"] ELSE trade
        /\ Goto(f, IF HasTrade THEN "stuck open" ELSE "idle")
     \/ /\ seenTrade[f].status = "filled" /\ UNCHANGED trade
        /\ Goto(f, "stuck open")
  /\ UNCHANGED <<request, broker, history, position, heard>>

\* The listed row is opened and goes on into create_profit_targets_sync.
StuckOpen(f) ==
  /\ pc[f] = "stuck open"
  /\ position' = IF HasPosition THEN "open_full" ELSE position
  /\ \E l \in {"create", "idle"} :
       MoveWith(f, IF HasPosition /\ HasTrade THEN l ELSE "idle",
                "open_full", trade, got[f], holds[f])
  /\ UNCHANGED <<request, broker, history, trade, heard>>

Reconcile(f) == ReconcileTrade(f) \/ ReconcileOpen(f) \/ StuckTrade(f) \/ StuckOpen(f)

-----------------------------------------------------------------------------
(***************************************************************************)
(* cancel_trade.                                                           *)
(***************************************************************************)
CancelRead(c) ==
  /\ pc[c] = "idle"
  /\ HasTrade /\ trade.status \notin {"filled", "cancelled", "rejected"}
  /\ trade.id = "order" \/ "early" \in Failures
  /\ Read(c, "cancel check")
  /\ UNCHANGED <<request, broker, history, position, trade, heard>>

\* An id that the broker does not know is taken for a filled order.
CancelCheck(c) ==
  /\ pc[c] = "cancel check"
  /\ \E s \in IF seenTrade[c].id = "order" THEN Answers ELSE {"filled"} :
       Learn(c, IF s = "error" THEN "idle"
                ELSE IF s = "live" THEN "cancel" ELSE "cancel save", s)
  /\ UNCHANGED <<request, broker, history, position, trade, heard>>

\* The broker cancels now, later, or not at all if the order has ended.
CancelOrder(c) ==
  /\ pc[c] = "cancel"
  /\ IF order = "live"
     THEN order' \in {"live", "cancelled"} /\ Goto(c, "cancel verify")
     ELSE UNCHANGED order /\ Goto(c, "idle")
  /\ UNCHANGED <<request, listed, history, position, trade, heard>>

CancelVerify(c) ==
  /\ pc[c] = "cancel verify"
  /\ \E s \in Answers :
       Learn(c, IF s = "error" THEN "idle" ELSE "cancel save", s)
  /\ UNCHANGED <<request, broker, history, position, trade, heard>>

\* trade.asave(): every field as read before the broker was asked.
CancelSave(c) ==
  /\ pc[c] = "cancel save"
  /\ IF HasPosition
     THEN /\ trade' = [seenTrade[c] EXCEPT !.status = got[c]]
          /\ Goto(c, IF got[c] \in Ended /\ seenPos[c] = "pending_entry"
                     THEN "archive" ELSE "idle")
     ELSE UNCHANGED trade /\ Goto(c, "idle")
  /\ UNCHANGED <<request, broker, history, position, heard>>

CancelArchive(c) ==
  /\ pc[c] = "archive"
  /\ SetLifecycle(c, "expired", "idle", "idle")
  /\ UNCHANGED <<request, broker, history, trade, heard>>

Cancel(c) ==
  \/ CancelCheck(c) \/ CancelOrder(c) \/ CancelVerify(c)
  \/ CancelSave(c) \/ CancelArchive(c)

-----------------------------------------------------------------------------
\* A worker takes up a task; the three Celery beat starts again and again.
Start(w) == MonitorList(w) \/ SyncStart(w) \/ ReconcileRead(w) \/ StuckRead(w)

\* What a process has begun.
Continue(p) ==
  \/ Handle(p) \/ Monitor(p) \/ SavePosition(p) \/ SaveTrade(p)
  \/ Sync(p) \/ Reconcile(p) \/ Cancel(p)

Next ==
  \/ Request \/ OrderEnds \/ DayPasses
  \/ \E h \in Handlers : Hear(h) \/ Miss(h)
  \/ \E w \in Workers : Start(w) \/ CancelRead(w)
  \/ \E p \in Procs : Continue(p)

Spec == Init /\ [][Next]_vars

\* The broker answers the query of an order that is over.
SyncAnswered(p) == SyncLookup(p) /\ pc'[p] # "close list"

\* Celery beat queues every task again and again and the workers take them in
\* turn; what has started runs on, and days pass.  A sync's queries may fail
\* now and then but not for ever.  That the order ends, that a stream
\* delivers, that the monitor or the repair of stuck positions runs, or that
\* somebody cancels is not assumed.
FairSpec ==
  /\ Spec
  /\ \A w \in Workers :
       SF_vars(SyncOrders(w)) /\ SF_vars(SyncHoldings(w)) /\ SF_vars(SyncAnswered(w))
  /\ WF_vars(Request) /\ WF_vars(DayPasses)
  /\ \A p \in Procs : WF_vars(Continue(p))
  /\ SF_vars(\E w \in Workers : SyncStart(w))
  /\ SF_vars(\E w \in Workers : ReconcileRead(w))

-----------------------------------------------------------------------------
(***************************************************************************)
(* Properties.                                                             *)
(***************************************************************************)
Locations ==
  { "idle", "hear position", "hear save", "poll", "poll write",
    "poll expired", "poll delete", "poll filled", "create", "create trade",
    "create open", "orders", "holdings", "pending", "lookup", "lookup open",
    "lookup drop", "lookup trade", "close list", "close", "reconcile",
    "reconcile open", "stuck", "stuck open", "cancel check", "cancel",
    "cancel verify", "cancel save", "archive" }

TypeOK ==
  /\ request \in {"approved", "created", "placed", "finalized", "recorded",
                 "executed", "undo", "undone", "failed", "dead"}
  /\ order \in OrderStatuses /\ history \in OrderStatuses /\ listed \in BOOLEAN
  /\ position \in Lifecycles /\ trade \in TradeRow
  /\ pc \in [Procs -> Locations]
  /\ heard \in [Handlers -> 0..2]
  /\ seenPos \in [Procs -> Lifecycles]
  /\ seenTrade \in [Procs -> TradeRow]
  /\ got \in [Procs -> OrderStatuses \cup {"error"}]
  /\ holds \in [Procs -> BOOLEAN]

\* Of all that open a position - events, polls, syncs, the reconciliation and
\* full saves of rows read long ago - none opens one whose order is not filled.
OpenMeansFilled == position = "open_full" => order = "filled"

\* The id of the order, once the request has stored it, is not lost while the
\* order works or is filled: no full save of a row read before brings the
\* temporary id back, and nobody deletes the trade (order_service.py:437-457,
\* tasks.py:268).
PlacedIsKnown ==
  order \in {"live", "filled"} /\ request \in {"recorded", "executed"}
    => trade.id = "order"

\* Once a recorded order filled, its position waits or is open until it is
\* traded out of: the sync closes positions "that don't exist at broker"
\* (sync.py:816), and the other writers only what never opened.
FilledIsKept ==
  order = "filled" /\ request = "executed"
    => position \notin {"none", "closed", "expired"}

\* Once an executed order is over, its position does not wait for it for ever.
EntryResolved ==
  <>[](request = "executed" /\ order \in Terminal => position # "pending_entry")

\* The trade of a filled order ends up filled and its position open, unless
\* a sync closed it.
FillRecorded ==
  <>[](request = "executed" /\ order = "filled"
         => trade.status = "filled" /\ position \in {"open_full", "closed"})

=============================================================================
