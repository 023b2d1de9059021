-------------------------- MODULE EntryOrder_proofs --------------------------
(***************************************************************************)
(* Proofs about EntryOrder for any number of listeners and workers and     *)
(* every failure.                                                          *)
(***************************************************************************)
EXTENDS EntryOrder, TLAPS

Outcomes == OrderStatuses \cup {"error"}

\* What TypeOK says of the places and the copies of the processes.
LocalTypeOK ==
  /\ pc \in [Procs -> Locations]
  /\ seenPos \in [Procs -> Lifecycles]
  /\ seenTrade \in [Procs -> TradeRow]
  /\ got \in [Procs -> Outcomes]
  /\ holds \in [Procs -> BOOLEAN]

\* A process that moves on with typed values leaves the types intact.
LEMMA Moving ==
  ASSUME LocalTypeOK, NEW p \in Procs, NEW l \in Locations, NEW pos \in Lifecycles,
         NEW tr \in TradeRow, NEW s \in Outcomes, NEW h \in BOOLEAN,
         MoveWith(p, l, pos, tr, s, h)
  PROVE  LocalTypeOK'
<1>1. "none" \in Lifecycles /\ NoTrade \in TradeRow /\ "none" \in Outcomes
  BY DEF Lifecycles, NoTrade, TradeRow, Outcomes, OrderStatuses
<1>2. (l # "idle" /\ h) \in BOOLEAN
  OBVIOUS
<1> QED
  BY <1>1, <1>2 DEF LocalTypeOK, MoveWith

LEMMA Going ==
  ASSUME LocalTypeOK, NEW p \in Procs, NEW l \in Locations, Goto(p, l)
  PROVE  LocalTypeOK'
<1>1. /\ seenPos[p] \in Lifecycles /\ seenTrade[p] \in TradeRow
      /\ got[p] \in Outcomes /\ holds[p] \in BOOLEAN
  BY DEF LocalTypeOK
<1> QED
  BY <1>1, Moving DEF Goto

LEMMA Learning ==
  ASSUME LocalTypeOK, NEW p \in Procs, NEW l \in Locations, NEW s \in Outcomes, Learn(p, l, s)
  PROVE  LocalTypeOK'
<1>1. seenPos[p] \in Lifecycles /\ seenTrade[p] \in TradeRow /\ holds[p] \in BOOLEAN
  BY DEF LocalTypeOK
<1> QED
  BY <1>1, Moving DEF Learn

LEMMA Reading ==
  ASSUME TypeOK, LocalTypeOK, NEW p \in Procs, NEW l \in Locations, Read(p, l)
  PROVE  LocalTypeOK'
<1>1. /\ position \in Lifecycles /\ trade \in TradeRow
      /\ got[p] \in Outcomes /\ holds[p] \in BOOLEAN
  BY DEF LocalTypeOK, TypeOK
<1> QED
  BY <1>1, Moving DEF Read

\* Setting a lifecycle keeps the types of the row and of the processes.
LEMMA Setting ==
  ASSUME TypeOK, LocalTypeOK, NEW p \in Procs, NEW s \in Lifecycles,
         NEW l \in Locations, NEW e \in Locations, SetLifecycle(p, s, l, e)
  PROVE  position' \in Lifecycles /\ LocalTypeOK'
<1>1. CASE HasPosition
  BY <1>1, Going DEF SetLifecycle
<1>2. CASE ~HasPosition
  BY <1>2, Going DEF SetLifecycle, TypeOK
<1> QED
  BY <1>1, <1>2

\* A broker answers a query with the status of the order or fails.
LEMMA AnswersAreOutcomes == ASSUME TypeOK PROVE Answers \subseteq Outcomes
  BY DEF Answers, Outcomes, TypeOK

\* What TypeOK says of the broker, the request and the rows.
GlobalTypeOK ==
  /\ request \in {"approved", "created", "placed", "finalized", "recorded",
                 "executed", "undo", "undone", "failed", "dead"}
  /\ order \in OrderStatuses /\ history \in OrderStatuses /\ listed \in BOOLEAN
  /\ position \in Lifecycles /\ trade \in TradeRow
  /\ heard \in [Handlers -> 0..2]

LEMMA TypeParts ==
  /\ TypeOK <=> GlobalTypeOK /\ LocalTypeOK
  /\ TypeOK' <=> (GlobalTypeOK /\ LocalTypeOK)'
  BY DEF TypeOK, GlobalTypeOK, LocalTypeOK, Outcomes

\* A save of a trade with another status is a row again.
LEMMA Restated ==
  ASSUME NEW tr \in TradeRow, NEW s \in Outcomes
  PROVE  [tr EXCEPT !.status = s] \in TradeRow
  BY DEF TradeRow, Outcomes, OrderStatuses, Polled, Terminal, Ended

-----------------------------------------------------------------------------
LEMMA RequestTypes == ASSUME TypeOK, Request PROVE TypeOK'
<1>1. GlobalTypeOK /\ LocalTypeOK
  BY TypeParts
<1>2. LocalTypeOK'
  <2>1. UNCHANGED local /\ UNCHANGED pc
    BY DEF Request, CreateRecords, PlaceOrder, NotPlaced, FinalizePosition,
           FinalizeTrade, MarkExecuted, SaveFails, DeleteTrade, DeletePosition, Dies
  <2> QED
    BY <1>1, <2>1 DEF LocalTypeOK, local
<1>3. GlobalTypeOK'
  BY <1>1 DEF Request, CreateRecords, PlaceOrder, NotPlaced, FinalizePosition,
     FinalizeTrade, MarkExecuted, SaveFails, DeleteTrade, DeletePosition, Dies,
     GlobalTypeOK, OrderStatuses, Lifecycles, TradeRow, Polled, NoTrade, broker
<1> QED
  BY <1>2, <1>3, TypeParts

LEMMA BrokerTypes == ASSUME TypeOK, OrderEnds \/ DayPasses PROVE TypeOK'
<1>1. GlobalTypeOK /\ LocalTypeOK
  BY TypeParts
<1>2. LocalTypeOK'
  BY <1>1 DEF OrderEnds, DayPasses, LocalTypeOK, local
<1>3. GlobalTypeOK'
  BY <1>1 DEF OrderEnds, DayPasses, GlobalTypeOK, OrderStatuses
<1> QED
  BY <1>2, <1>3, TypeParts

LEMMA HearTypes ==
  ASSUME TypeOK, NEW h \in Handlers, Hear(h) \/ Miss(h) PROVE TypeOK'
<1>1. GlobalTypeOK /\ LocalTypeOK /\ h \in Procs
  BY TypeParts DEF Procs
<1>2. heard' \in [Handlers -> 0..2]
  <2>1. heard[h] \in {0, 1}
    <3>1. Changed(h) /\ heard[h] \in 0..2
      BY <1>1 DEF Hear, Miss, GlobalTypeOK
    <3> QED
      BY <3>1 DEF Changed
  <2>2. heard[h] + 1 \in 0..2
    BY <2>1
  <2>3. heard' = [heard EXCEPT ![h] = heard[h] + 1]
    BY DEF Hear, Miss
  <2> QED
    BY <1>1, <2>2, <2>3 DEF GlobalTypeOK
<1>3. NextChange(h) \in Outcomes /\ FALSE \in BOOLEAN
  BY <1>1 DEF NextChange, GlobalTypeOK, Outcomes, OrderStatuses
<1>4. LocalTypeOK'
  <2>1. CASE Hear(h)
    <3> DEFINE l == IF trade.id # "order" \/ trade.status = NextChange(h) THEN "idle"
                    ELSE IF heard[h] = 0 THEN "hear save" ELSE "hear position"
    <3>1. l \in Locations
      BY DEF Locations
    <3>2. MoveWith(h, l, position, trade, NextChange(h), FALSE)
      BY <2>1 DEF Hear
    <3>3. position \in Lifecycles /\ trade \in TradeRow
      BY <1>1 DEF GlobalTypeOK
    <3> HIDE DEF l
    <3> QED
      BY <1>1, <1>3, <3>1, <3>2, <3>3, Moving
  <2>2. CASE Miss(h)
    BY <1>1, <2>2 DEF Miss, LocalTypeOK, local
  <2> QED
    BY <2>1, <2>2
<1> QED
  BY <1>1, <1>2, <1>4, TypeParts DEF Hear, Miss, GlobalTypeOK, broker

\* Steps that only change their process's place and copies.
LEMMA QuietTypes ==
  ASSUME TypeOK, LocalTypeOK', UNCHANGED <<request, broker, history, position, trade, heard>>
  PROVE  TypeOK'
  BY TypeParts DEF GlobalTypeOK, broker

LEMMA HandleTypes ==
  ASSUME TypeOK, NEW p \in Procs, Handle(p) PROVE TypeOK'
<1>1. GlobalTypeOK /\ LocalTypeOK
  BY TypeParts
<1>2. {"idle", "orders", "hear save"} \subseteq Locations
      /\ {"open_full", "closed"} \subseteq Lifecycles
  BY DEF Locations, Lifecycles
<1>3. CASE HearFill(p)
  BY <1>1, <1>2, <1>3, Setting, TypeParts DEF HearFill, GlobalTypeOK, broker
<1>4. CASE HearEnd(p)
  <2>1. position' \in Lifecycles /\ LocalTypeOK'
    <3>1. CASE seenPos[p] = "pending_entry"
      BY <1>1, <1>2, <1>4, <3>1, Setting DEF HearEnd
    <3>2. CASE seenPos[p] # "pending_entry"
      BY <1>1, <1>2, <1>4, <3>2, Going DEF HearEnd, GlobalTypeOK
    <3> QED
      BY <3>1, <3>2
  <2> QED
    BY <1>1, <1>4, <2>1, TypeParts DEF HearEnd, GlobalTypeOK, broker
<1>5. CASE HearSave(p)
  <2>1. LocalTypeOK'
    BY <1>1, <1>2, <1>5, Going DEF HearSave
  <2>2. trade' \in TradeRow
    <3>1. trade \in TradeRow /\ seenTrade[p] \in TradeRow /\ got[p] \in Outcomes
      BY <1>1 DEF GlobalTypeOK, LocalTypeOK
    <3>2. trade' \in {trade, [seenTrade[p] EXCEPT !.status = got[p]]}
      BY <1>5 DEF HearSave
    <3> QED
      BY <3>1, <3>2, Restated
  <2> QED
    BY <1>1, <1>5, <2>1, <2>2, TypeParts DEF HearSave, GlobalTypeOK, broker
<1> QED
  BY <1>3, <1>4, <1>5 DEF Handle

LEMMA MonitorTypes ==
  ASSUME TypeOK, NEW p \in Procs, MonitorList(p) \/ Monitor(p) PROVE TypeOK'
<1>1. GlobalTypeOK /\ LocalTypeOK
  BY TypeParts
<1>2. {"idle", "poll", "poll write", "poll expired", "poll delete", "poll filled",
        "create"} \subseteq Locations
      /\ "none" \in Lifecycles /\ "open_full" \in Lifecycles /\ NoTrade \in TradeRow
      /\ "error" \in Outcomes
  BY DEF Locations, Lifecycles, NoTrade, TradeRow, Outcomes
<1>3. CASE MonitorList(p)
  BY <1>1, <1>2, <1>3, Reading, QuietTypes DEF MonitorList
<1>4. CASE MonitorPoll(p)
  <2>1. PICK s \in IF seenTrade[p].id = "order" THEN Answers ELSE {"error"} :
               Learn(p, "poll write", s) \/ Goto(p, "idle")
    BY <1>4 DEF MonitorPoll
  <2>2. s \in Outcomes
    BY <1>2, <2>1, AnswersAreOutcomes
  <2>3. LocalTypeOK'
    BY <1>1, <1>2, <2>1, <2>2, Learning, Going
  <2> QED
    BY <1>4, <2>3, QuietTypes DEF MonitorPoll
<1>5. CASE MonitorWrite(p)
  <2>1. LocalTypeOK'
    <3> DEFINE l == CASE got[p] = "expired" -> "poll expired"
                      [] got[p] = "filled"  -> "poll filled"
                      [] OTHER              -> "idle"
    <3>1. l \in Locations
      BY <1>2
    <3>2. Goto(p, l) \/ Goto(p, "idle")
      BY <1>5 DEF MonitorWrite
    <3> HIDE DEF l
    <3> QED
      BY <1>1, <1>2, <3>1, <3>2, Going
  <2>2. trade' \in TradeRow
    <3>1. trade \in TradeRow /\ got[p] \in Outcomes
      BY <1>1 DEF GlobalTypeOK, LocalTypeOK
    <3>2. trade' \in {trade, [trade EXCEPT !.status = got[p]]}
      BY <1>5 DEF MonitorWrite
    <3> QED
      BY <3>1, <3>2, Restated
  <2> QED
    BY <1>1, <1>5, <2>1, <2>2, TypeParts DEF MonitorWrite, GlobalTypeOK, broker
<1>6. CASE MonitorExpired(p)
  BY <1>1, <1>2, <1>6, Going, QuietTypes DEF MonitorExpired
<1>7. CASE MonitorDelete(p)
  <2>1. LocalTypeOK'
    BY <1>1, <1>2, <1>7, Going DEF MonitorDelete
  <2> QED
    BY <1>1, <1>2, <1>7, <2>1, TypeParts DEF MonitorDelete, GlobalTypeOK, broker
<1>8. CASE MonitorFilled(p)
  <2>1. PICK l \in {"create", "idle"} :
               Read(p, IF HasPosition /\ HasTrade THEN l ELSE "idle")
    BY <1>8 DEF MonitorFilled
  <2>2. LocalTypeOK'
    BY <1>1, <1>2, <2>1, Reading
  <2> QED
    BY <1>8, <2>2, QuietTypes DEF MonitorFilled
<1>9. CASE MonitorOpen(p)
  BY <1>1, <1>2, <1>9, Setting, TypeParts DEF MonitorOpen, GlobalTypeOK, broker
<1> QED
  BY <1>3, <1>4, <1>5, <1>6, <1>7, <1>8, <1>9 DEF Monitor

LEMMA SaveTypes ==
  ASSUME TypeOK, NEW p \in Procs, SavePosition(p) \/ SaveTrade(p) PROVE TypeOK'
<1>1. GlobalTypeOK /\ LocalTypeOK
  BY TypeParts
<1>2. {"idle", "create trade", "create open"} \subseteq Locations
  BY DEF Locations
<1>3. CASE SavePosition(p)
  <2>1. LocalTypeOK' /\ position' \in Lifecycles
    BY <1>1, <1>2, <1>3, Going DEF SavePosition, GlobalTypeOK, LocalTypeOK
  <2> QED
    BY <1>1, <1>3, <2>1, TypeParts DEF SavePosition, GlobalTypeOK, broker
<1>4. CASE SaveTrade(p)
  <2>1. LocalTypeOK'
    BY <1>1, <1>2, <1>4, Going DEF SaveTrade
  <2>2. trade' \in TradeRow
    BY <1>1, <1>4 DEF SaveTrade, GlobalTypeOK, LocalTypeOK
  <2> QED
    BY <1>1, <1>4, <2>1, <2>2, TypeParts DEF SaveTrade, GlobalTypeOK, broker
<1> QED
  BY <1>3, <1>4

LEMMA SyncTypes ==
  ASSUME TypeOK, NEW p \in Procs, SyncStart(p) \/ Sync(p) PROVE TypeOK'
<1>1. GlobalTypeOK /\ LocalTypeOK
  BY TypeParts
<1>2. /\ {"idle", "orders", "holdings", "pending", "lookup", "lookup open",
          "lookup drop", "lookup trade", "close list", "close"} \subseteq Locations
      /\ Back(p) \in Locations
      /\ "open_full" \in Lifecycles /\ "closed" \in Lifecycles
  BY DEF Locations, Lifecycles, Back
<1>3. CASE SyncStart(p)
  BY <1>1, <1>2, <1>3, Going, QuietTypes DEF SyncStart
<1>4. CASE SyncOrders(p)
  <2>1. LocalTypeOK'
    BY <1>1, <1>2, <1>4, Going DEF SyncOrders
  <2> QED
    BY <1>1, <1>4, <2>1, TypeParts DEF SyncOrders, GlobalTypeOK, broker
<1>5. CASE SyncHoldings(p)
  <2> DEFINE l == IF order = "filled" \/ OtherHoldings THEN "pending" ELSE Back(p)
  <2>1. /\ seenPos[p] \in Lifecycles /\ seenTrade[p] \in TradeRow /\ got[p] \in Outcomes
        /\ (order = "filled") \in BOOLEAN /\ l \in Locations
    BY <1>1, <1>2 DEF LocalTypeOK
  <2>2. MoveWith(p, l, seenPos[p], seenTrade[p], got[p], order = "filled")
    BY <1>5 DEF SyncHoldings
  <2> HIDE DEF l
  <2>3. LocalTypeOK'
    BY <1>1, <2>1, <2>2, Moving
  <2> QED
    BY <1>5, <2>3, QuietTypes DEF SyncHoldings
<1>6. CASE SyncFails(p)
  BY <1>1, <1>2, <1>6, Going, QuietTypes DEF SyncFails
<1>7. CASE SyncPending(p)
  BY <1>1, <1>2, <1>7, Going, QuietTypes DEF SyncPending
<1>8. CASE SyncLookup(p)
  <2>1. PICK l \in Locations : Goto(p, l)
    BY <1>2, <1>8 DEF SyncLookup
  <2>2. LocalTypeOK'
    BY <1>1, <2>1, Going
  <2> QED
    BY <1>8, <2>2, QuietTypes DEF SyncLookup
<1>9. CASE SyncOpen(p)
  BY <1>1, <1>2, <1>9, Setting, TypeParts DEF SyncOpen, GlobalTypeOK, broker
<1>10. CASE SyncDrop(p)
  BY <1>1, <1>2, <1>10, Setting, TypeParts DEF SyncDrop, GlobalTypeOK, broker
<1>11. CASE SyncTrade(p)
  <2>1. LocalTypeOK'
    BY <1>1, <1>2, <1>11, Going DEF SyncTrade
  <2>2. trade' \in TradeRow
    BY <1>1, <1>11, Restated DEF SyncTrade, GlobalTypeOK, Outcomes
  <2> QED
    BY <1>1, <1>11, <2>1, <2>2, TypeParts DEF SyncTrade, GlobalTypeOK, broker
<1>12. CASE SyncList(p)
  BY <1>1, <1>2, <1>12, Going, QuietTypes DEF SyncList
<1>13. CASE SyncClose(p)
  BY <1>1, <1>2, <1>13, Setting, TypeParts DEF SyncClose, GlobalTypeOK, broker
<1> QED
  BY <1>3, <1>4, <1>5, <1>6, <1>7, <1>8, <1>9, <1>10, <1>11, <1>12, <1>13 DEF Sync

LEMMA ReconcileTypes ==
  ASSUME TypeOK, NEW p \in Procs, ReconcileRead(p) \/ StuckRead(p) \/ Reconcile(p)
  PROVE  TypeOK'
<1>1. GlobalTypeOK /\ LocalTypeOK
  BY TypeParts
<1>2. /\ {"idle", "reconcile", "reconcile open", "stuck", "stuck open", "create"}
           \subseteq Locations
      /\ "open_full" \in Lifecycles /\ "filled" \in Outcomes
  BY DEF Locations, Lifecycles, Outcomes, OrderStatuses, Terminal
<1>3. CASE ReconcileRead(p)
  BY <1>1, <1>2, <1>3, Reading, QuietTypes DEF ReconcileRead
<1>4. CASE StuckRead(p)
  BY <1>1, <1>2, <1>4, Reading, QuietTypes DEF StuckRead
<1>5. CASE ReconcileTrade(p)
  <2>1. LocalTypeOK'
    BY <1>1, <1>2, <1>5, Going DEF ReconcileTrade
  <2>2. trade' \in TradeRow
    BY <1>1, <1>2, <1>5, Restated DEF ReconcileTrade, LocalTypeOK
  <2> QED
    BY <1>1, <1>5, <2>1, <2>2, TypeParts DEF ReconcileTrade, GlobalTypeOK, broker
<1>6. CASE ReconcileOpen(p)
  BY <1>1, <1>2, <1>6, Setting, TypeParts DEF ReconcileOpen, GlobalTypeOK, broker
<1>7. CASE StuckTrade(p)
  <2>1. LocalTypeOK'
    BY <1>1, <1>2, <1>7, Going DEF StuckTrade
  <2>2. trade' \in TradeRow
    BY <1>1, <1>2, <1>7, Restated DEF StuckTrade, GlobalTypeOK
  <2> QED
    BY <1>1, <1>7, <2>1, <2>2, TypeParts DEF StuckTrade, GlobalTypeOK, broker
<1>8. CASE StuckOpen(p)
  <2>1. PICK l \in {"create", "idle"} :
               MoveWith(p, IF HasPosition /\ HasTrade THEN l ELSE "idle",
                        "open_full", trade, got[p], holds[p])
    BY <1>8 DEF StuckOpen
  <2>2. trade \in TradeRow /\ got[p] \in Outcomes /\ holds[p] \in BOOLEAN
    BY <1>1 DEF GlobalTypeOK, LocalTypeOK
  <2>3. (IF HasPosition /\ HasTrade THEN l ELSE "idle") \in Locations
    BY <1>2, <2>1
  <2>4. LocalTypeOK'
    BY <1>1, <1>2, <2>1, <2>2, <2>3, Moving
  <2> QED
    BY <1>1, <1>2, <1>8, <2>4, TypeParts DEF StuckOpen, GlobalTypeOK, broker
<1> QED
  BY <1>3, <1>4, <1>5, <1>6, <1>7, <1>8 DEF Reconcile

LEMMA CancelTypes ==
  ASSUME TypeOK, NEW p \in Procs, CancelRead(p) \/ Cancel(p) PROVE TypeOK'
<1>1. GlobalTypeOK /\ LocalTypeOK
  BY TypeParts
<1>2. /\ {"idle", "cancel check", "cancel", "cancel verify", "cancel save", "archive"}
           \subseteq Locations
      /\ "expired" \in Lifecycles /\ "filled" \in Outcomes
  BY DEF Locations, Lifecycles, Outcomes, OrderStatuses, Terminal
<1>3. CASE CancelRead(p)
  BY <1>1, <1>2, <1>3, Reading, QuietTypes DEF CancelRead
<1>4. CASE CancelCheck(p)
  <2>1. PICK l \in Locations, s \in Outcomes : Learn(p, l, s)
    BY <1>2, <1>4, AnswersAreOutcomes DEF CancelCheck
  <2>2. LocalTypeOK'
    BY <1>1, <2>1, Learning
  <2> QED
    BY <1>4, <2>2, QuietTypes DEF CancelCheck
<1>5. CASE CancelOrder(p)
  <2>1. LocalTypeOK'
    BY <1>1, <1>2, <1>5, Going DEF CancelOrder
  <2>2. order' \in OrderStatuses
    BY <1>1, <1>5 DEF CancelOrder, GlobalTypeOK, OrderStatuses, Terminal, Ended
  <2>3. UNCHANGED <<request, listed, history, position, trade, heard>>
    BY <1>5 DEF CancelOrder
  <2>4. GlobalTypeOK'
    BY <1>1, <2>2, <2>3 DEF GlobalTypeOK
  <2> QED
    BY <2>1, <2>4, TypeParts
<1>6. CASE CancelVerify(p)
  <2>1. PICK l \in Locations, s \in Outcomes : Learn(p, l, s)
    BY <1>2, <1>6, AnswersAreOutcomes DEF CancelVerify
  <2>2. LocalTypeOK'
    BY <1>1, <2>1, Learning
  <2> QED
    BY <1>6, <2>2, QuietTypes DEF CancelVerify
<1>7. CASE CancelSave(p)
  <2>1. LocalTypeOK'
    BY <1>1, <1>2, <1>7, Going DEF CancelSave
  <2>2. trade' \in TradeRow
    <3>1. trade' = [seenTrade[p] EXCEPT !.status = got[p]] \/ trade' = trade
      BY <1>7 DEF CancelSave
    <3>2. seenTrade[p] \in TradeRow /\ got[p] \in Outcomes /\ trade \in TradeRow
      BY <1>1 DEF GlobalTypeOK, LocalTypeOK
    <3> QED
      BY <3>1, <3>2, Restated
  <2> QED
    BY <1>1, <1>7, <2>1, <2>2, TypeParts DEF CancelSave, GlobalTypeOK, broker
<1>8. CASE CancelArchive(p)
  BY <1>1, <1>2, <1>8, Setting, TypeParts DEF CancelArchive, GlobalTypeOK, broker
<1> QED
  BY <1>3, <1>4, <1>5, <1>6, <1>7, <1>8 DEF Cancel

-----------------------------------------------------------------------------
LEMMA InitTypes == Init => TypeOK
  BY DEF Init, TypeOK, Lifecycles, TradeRow, NoTrade, OrderStatuses, Locations

LEMMA StepTypes == ASSUME TypeOK, [Next]_vars PROVE TypeOK'
<1>1. CASE Request
  BY <1>1, RequestTypes
<1>2. CASE OrderEnds \/ DayPasses
  BY <1>2, BrokerTypes
<1>3. CASE \E h \in Handlers : Hear(h) \/ Miss(h)
  BY <1>3, HearTypes
<1>4. CASE \E w \in Workers : Start(w) \/ CancelRead(w)
  <2>1. PICK w \in Procs : Start(w) \/ CancelRead(w)
    BY <1>4 DEF Procs
  <2> QED
    BY <2>1, MonitorTypes, SyncTypes, ReconcileTypes, CancelTypes DEF Start
<1>5. CASE \E p \in Procs : Continue(p)
  BY <1>5, HandleTypes, MonitorTypes, SaveTypes, SyncTypes, ReconcileTypes, CancelTypes
     DEF Continue
<1>6. CASE UNCHANGED vars
  BY <1>6 DEF vars, broker, local, TypeOK
<1> QED
  BY <1>1, <1>2, <1>3, <1>4, <1>5, <1>6 DEF Next

\* Every row, copy and status is of its type, for any number of listeners and
\* workers and every failure: no stale save and no answer of the broker puts
\* anything else into a row.
THEOREM TypeCorrect == Spec => []TypeOK
  BY InitTypes, StepTypes, PTL DEF Spec

-----------------------------------------------------------------------------
(***************************************************************************)
(* A position is open only if its order filled.  What a process carries    *)
(* from one statement to the next must say so too: a copy that is open, a  *)
(* status "filled", and each place from which it will open the position.   *)
(* Only cancel_trade may hold "filled" of an order that has not: for an    *)
(* id the broker does not know; it opens nothing.                          *)
(***************************************************************************)
Filled == order = "filled"

Opening == {"lookup open", "reconcile", "reconcile open", "stuck", "stuck open",
            "create open"}

Sound(p) ==
  /\ seenPos[p] = "open_full" => Filled
  /\ got[p] = "filled" /\ pc[p] # "cancel save" => Filled
  /\ pc[p] \in Opening => Filled

RowsSound ==
  /\ OpenMeansFilled
  /\ history = "filled" => Filled
  /\ request \in {"approved", "created"} => order = "none"

OpenIInv == TypeOK /\ RowsSound /\ \A p \in Procs : Sound(p)

\* Steps that are the business of one process: the order may end, not unfill.
LEMMA MovingSound ==
  ASSUME LocalTypeOK, \A q \in Procs : Sound(q), Filled => Filled',
         NEW p \in Procs, NEW l, NEW pos, NEW tr, NEW s, NEW h,
         MoveWith(p, l, pos, tr, s, h),
         pos = "open_full" => Filled,
         s = "filled" /\ l \notin {"idle", "cancel save"} => Filled,
         l \in Opening => Filled
  PROVE  \A q \in Procs : Sound(q)'
<1> SUFFICES ASSUME NEW q \in Procs PROVE Sound(q)'
  OBVIOUS
<1>1. Sound(q) /\ Sound(p)
  OBVIOUS
<1>2. CASE q = p
  <2>1. /\ pc'[q] = l
        /\ seenPos'[q] = IF l = "idle" THEN "none" ELSE pos
        /\ got'[q] = IF l = "idle" THEN "none" ELSE s
    BY <1>2 DEF MoveWith, LocalTypeOK
  <2> QED
    BY <2>1 DEF Sound, Opening
<1>3. CASE q # p
  <2>1. pc'[q] = pc[q] /\ seenPos'[q] = seenPos[q] /\ got'[q] = got[q]
    BY <1>3 DEF MoveWith, LocalTypeOK
  <2> QED
    BY <1>1, <2>1 DEF Sound
<1> QED
  BY <1>2, <1>3

LEMMA GoingSound ==
  ASSUME LocalTypeOK, \A q \in Procs : Sound(q), Filled => Filled',
         NEW p \in Procs, NEW l, Goto(p, l),
         pc[p] # "cancel save" \/ got[p] # "filled" \/ l = "idle",
         l \in Opening => Filled
  PROVE  \A q \in Procs : Sound(q)'
<1>1. seenPos[p] = "open_full" => Filled
  BY DEF Sound
<1>2. got[p] = "filled" /\ l \notin {"idle", "cancel save"} => Filled
  BY DEF Sound
<1> QED
  BY <1>1, <1>2, MovingSound DEF Goto

LEMMA LearningSound ==
  ASSUME LocalTypeOK, \A q \in Procs : Sound(q), Filled => Filled',
         NEW p \in Procs, NEW l, NEW s, Learn(p, l, s),
         s = "filled" /\ l \notin {"idle", "cancel save"} => Filled, l \notin Opening
  PROVE  \A q \in Procs : Sound(q)'
<1>1. seenPos[p] = "open_full" => Filled
  BY DEF Sound
<1> QED
  BY <1>1, MovingSound DEF Learn

LEMMA ReadingSound ==
  ASSUME OpenIInv, LocalTypeOK, Filled => Filled', NEW p \in Procs, NEW l, Read(p, l),
         pc[p] # "cancel save", l \in Opening => Filled
  PROVE  \A q \in Procs : Sound(q)'
<1>1. position = "open_full" => Filled
  BY DEF OpenIInv, RowsSound, OpenMeansFilled, Filled
<1>2. got[p] = "filled" /\ l \notin {"idle", "cancel save"} => Filled
  BY DEF OpenIInv, Sound
<1> QED
  BY <1>1, <1>2, MovingSound DEF Read, OpenIInv

LEMMA SettingSound ==
  ASSUME OpenIInv, LocalTypeOK, UNCHANGED <<request, broker, history>>,
         NEW p \in Procs, NEW s, NEW l, NEW e,
         SetLifecycle(p, s, l, e), s = "open_full" => Filled, pc[p] # "cancel save",
         l \notin Opening, e \notin Opening
  PROVE  RowsSound' /\ \A q \in Procs : Sound(q)'
<1>1. \A q \in Procs : Sound(q)'
  BY GoingSound DEF SetLifecycle, OpenIInv, Filled, broker
<1>2. position' = s \/ position' = position
  BY DEF SetLifecycle
<1> QED
  BY <1>1, <1>2 DEF OpenIInv, RowsSound, OpenMeansFilled, Filled, broker

\* Steps that leave the rows alone.
LEMMA QuietRows ==
  ASSUME RowsSound, UNCHANGED <<request, broker, history, position>> PROVE RowsSound'
  BY DEF RowsSound, OpenMeansFilled, Filled, broker

-----------------------------------------------------------------------------
LEMMA RequestSound ==
  ASSUME OpenIInv, Request PROVE RowsSound' /\ \A p \in Procs : Sound(p)'
<1>1. UNCHANGED <<pc, seenPos, got, history>>
  BY DEF Request, CreateRecords, PlaceOrder, NotPlaced, FinalizePosition,
     FinalizeTrade, MarkExecuted, SaveFails, DeleteTrade, DeletePosition, Dies, local
<1>2. Filled => Filled'
  BY DEF Request, CreateRecords, PlaceOrder, NotPlaced, FinalizePosition, Filled,
     FinalizeTrade, MarkExecuted, SaveFails, DeleteTrade, DeletePosition, Dies, broker,
     OpenIInv, RowsSound
<1>3. position' \in {position, "pending_entry", "none"}
  BY DEF Request, CreateRecords, PlaceOrder, NotPlaced, FinalizePosition,
     FinalizeTrade, MarkExecuted, SaveFails, DeleteTrade, DeletePosition, Dies
<1>4. request' \in {"approved", "created"} => order' = "none"
  BY DEF Request, CreateRecords, PlaceOrder, NotPlaced, FinalizePosition,
     FinalizeTrade, MarkExecuted, SaveFails, DeleteTrade, DeletePosition, Dies, broker,
     OpenIInv, RowsSound
<1>5. RowsSound'
  BY <1>1, <1>2, <1>3, <1>4 DEF OpenIInv, RowsSound, OpenMeansFilled, Filled
<1>6. \A p \in Procs : Sound(p)'
  BY <1>1, <1>2 DEF OpenIInv, Sound
<1> QED
  BY <1>5, <1>6

LEMMA BrokerSound ==
  ASSUME OpenIInv, OrderEnds \/ DayPasses
  PROVE  RowsSound' /\ \A p \in Procs : Sound(p)'
<1>1. UNCHANGED <<request, history, position, pc, seenPos, got>>
  BY DEF OrderEnds, DayPasses, local
<1>2. (Filled => Filled') /\ (order = "none" => order' = "none")
  BY DEF OrderEnds, DayPasses, Filled
<1> QED
  BY <1>1, <1>2 DEF OpenIInv, RowsSound, OpenMeansFilled, Filled, Sound

LEMMA HearSound ==
  ASSUME OpenIInv, NEW h \in Handlers, Hear(h) \/ Miss(h)
  PROVE  RowsSound' /\ \A p \in Procs : Sound(p)'
<1>1. LocalTypeOK /\ h \in Procs /\ (Filled => Filled')
  BY TypeParts DEF OpenIInv, Procs, Hear, Miss, broker, Filled
<1>2. RowsSound'
  BY QuietRows DEF OpenIInv, Hear, Miss
<1>3. CASE Hear(h)
  <2> DEFINE l == IF trade.id # "order" \/ trade.status = NextChange(h) THEN "idle"
                  ELSE IF heard[h] = 0 THEN "hear save" ELSE "hear position"
  <2>1. MoveWith(h, l, position, trade, NextChange(h), FALSE)
    BY <1>3 DEF Hear
  <2>2. l \notin Opening
    BY DEF Opening
  <2>3. NextChange(h) = "filled" => Filled
    BY DEF NextChange, Filled
  <2>4. position = "open_full" => Filled
    BY DEF OpenIInv, RowsSound, OpenMeansFilled, Filled
  <2> HIDE DEF l
  <2> QED
    BY <1>1, <1>2, <2>1, <2>2, <2>3, <2>4, MovingSound DEF OpenIInv
<1>4. CASE Miss(h)
  BY <1>1, <1>2, <1>4 DEF Miss, local, OpenIInv, Sound, broker, Filled
<1> QED
  BY <1>3, <1>4

LEMMA HandleSound ==
  ASSUME OpenIInv, NEW p \in Procs, Handle(p)
  PROVE  RowsSound' /\ \A q \in Procs : Sound(q)'
<1>1. LocalTypeOK /\ (Filled => Filled')
  BY TypeParts DEF OpenIInv, Handle, HearFill, HearEnd, HearSave, broker, Filled
<1>2. "idle" \notin Opening /\ "orders" \notin Opening /\ "hear save" \notin Opening
  BY DEF Opening
<1>3. CASE HearFill(p)
  <2>1. Filled
    BY <1>3 DEF HearFill, OpenIInv, Sound
  <2> QED
    BY <1>1, <1>2, <1>3, <2>1, SettingSound DEF HearFill
<1>4. CASE HearEnd(p)
  <2>1. CASE seenPos[p] = "pending_entry"
    BY <1>1, <1>2, <1>4, <2>1, "closed" # "open_full", SettingSound DEF HearEnd
  <2>2. CASE seenPos[p] # "pending_entry"
    BY <1>1, <1>2, <1>4, <2>2, GoingSound, QuietRows DEF HearEnd, OpenIInv
  <2> QED
    BY <2>1, <2>2
<1>5. CASE HearSave(p)
  BY <1>1, <1>2, <1>5, GoingSound, QuietRows DEF HearSave, OpenIInv
<1> QED
  BY <1>3, <1>4, <1>5 DEF Handle

LEMMA MonitorSound ==
  ASSUME OpenIInv, NEW p \in Procs, MonitorList(p) \/ Monitor(p)
  PROVE  RowsSound' /\ \A q \in Procs : Sound(q)'
<1>1. LocalTypeOK /\ (Filled => Filled')
  BY TypeParts DEF OpenIInv, MonitorList, Monitor, MonitorPoll, MonitorWrite,
     MonitorExpired, MonitorDelete, MonitorFilled, MonitorOpen, broker, Filled
<1>2. \A l \in {"idle", "poll", "poll write", "poll expired", "poll delete",
                "poll filled", "create"} : l \notin Opening
  BY DEF Opening
<1>3. CASE MonitorList(p)
  BY <1>1, <1>2, <1>3, ReadingSound, QuietRows DEF MonitorList, OpenIInv
<1>4. CASE MonitorPoll(p)
  <2>1. PICK s \in IF seenTrade[p].id = "order" THEN Answers ELSE {"error"} :
               Learn(p, "poll write", s) \/ Goto(p, "idle")
    BY <1>4 DEF MonitorPoll
  <2>2. s = "filled" => Filled
    BY <2>1 DEF Answers, Filled
  <2>3. pc[p] # "cancel save"
    BY <1>4 DEF MonitorPoll
  <2>4. \A q \in Procs : Sound(q)'
    <3>1. CASE Learn(p, "poll write", s)
      BY <1>1, <1>2, <2>2, <3>1, LearningSound DEF OpenIInv
    <3>2. CASE Goto(p, "idle")
      BY <1>1, <1>2, <2>3, <3>2, GoingSound DEF OpenIInv
    <3> QED
      BY <2>1, <3>1, <3>2
  <2> QED
    BY <1>4, <2>4, QuietRows DEF MonitorPoll, OpenIInv
<1>5. CASE MonitorWrite(p)
  <2> DEFINE l == CASE got[p] = "expired" -> "poll expired"
                    [] got[p] = "filled"  -> "poll filled"
                    [] OTHER              -> "idle"
  <2>1. l \notin Opening
    BY <1>2
  <2>2. Goto(p, l) \/ Goto(p, "idle")
    BY <1>5 DEF MonitorWrite
  <2>3. pc[p] # "cancel save"
    BY <1>5 DEF MonitorWrite
  <2> HIDE DEF l
  <2>4. \A q \in Procs : Sound(q)'
    BY <1>1, <1>2, <2>1, <2>2, <2>3, GoingSound DEF OpenIInv
  <2> QED
    BY <1>5, <2>4, QuietRows DEF MonitorWrite, OpenIInv
<1>6. CASE MonitorExpired(p)
  BY <1>1, <1>2, <1>6, GoingSound, QuietRows DEF MonitorExpired, OpenIInv
<1>7. CASE MonitorDelete(p)
  <2>1. \A q \in Procs : Sound(q)'
    BY <1>1, <1>2, <1>7, GoingSound DEF MonitorDelete, OpenIInv
  <2> QED
    BY <1>7, <2>1 DEF MonitorDelete, OpenIInv, RowsSound, OpenMeansFilled, Filled, broker
<1>8. CASE MonitorFilled(p)
  <2>1. PICK l \in {"create", "idle"} :
               Read(p, IF HasPosition /\ HasTrade THEN l ELSE "idle")
    BY <1>8 DEF MonitorFilled
  <2>2. (IF HasPosition /\ HasTrade THEN l ELSE "idle") \notin Opening
    BY <1>2, <2>1
  <2>3. pc[p] # "cancel save"
    BY <1>8 DEF MonitorFilled
  <2> QED
    BY <1>1, <1>8, <2>1, <2>2, <2>3, ReadingSound, QuietRows DEF MonitorFilled, OpenIInv
<1>9. CASE MonitorOpen(p)
  <2>1. Filled
    BY <1>9 DEF MonitorOpen, OpenIInv, Sound, Opening
  <2> QED
    BY <1>1, <1>2, <1>9, <2>1, SettingSound DEF MonitorOpen
<1> QED
  BY <1>3, <1>4, <1>5, <1>6, <1>7, <1>8, <1>9 DEF Monitor

LEMMA SaveSound ==
  ASSUME OpenIInv, NEW p \in Procs, SavePosition(p) \/ SaveTrade(p)
  PROVE  RowsSound' /\ \A q \in Procs : Sound(q)'
<1>1. LocalTypeOK /\ (Filled => Filled')
  BY TypeParts DEF OpenIInv, SavePosition, SaveTrade, broker, Filled
<1>2. "idle" \notin Opening /\ "create trade" \notin Opening
  BY DEF Opening
<1>3. CASE SavePosition(p)
  <2>1. \A q \in Procs : Sound(q)'
    BY <1>1, <1>2, <1>3, GoingSound DEF SavePosition, OpenIInv
  <2>2. position' = seenPos[p] \/ position' = position
    BY <1>3 DEF SavePosition
  <2> QED
    BY <1>3, <2>1, <2>2 DEF SavePosition, OpenIInv, Sound, RowsSound, OpenMeansFilled,
       Filled, broker
<1>4. CASE SaveTrade(p)
  <2> DEFINE l == IF HasPosition /\ got[p] = "filled" /\ seenPos[p] = "pending_entry"
                  THEN "create open" ELSE "idle"
  <2>1. Goto(p, l) /\ pc[p] = "create trade"
    BY <1>4 DEF SaveTrade
  <2>2. l \in Opening => Filled
    BY <1>2, <2>1 DEF OpenIInv, Sound
  <2> HIDE DEF l
  <2>3. \A q \in Procs : Sound(q)'
    BY <1>1, <2>1, <2>2, GoingSound DEF OpenIInv
  <2> QED
    BY <1>4, <2>3, QuietRows DEF SaveTrade, OpenIInv
<1> QED
  BY <1>3, <1>4

LEMMA SyncSound ==
  ASSUME OpenIInv, NEW p \in Procs, SyncStart(p) \/ Sync(p)
  PROVE  RowsSound' /\ \A q \in Procs : Sound(q)'
<1>1. LocalTypeOK /\ (Filled => Filled')
  BY TypeParts DEF OpenIInv, SyncStart, Sync, SyncOrders, SyncHoldings, SyncFails,
     SyncPending, SyncLookup, SyncOpen, SyncDrop, SyncTrade, SyncList, SyncClose,
     broker, Filled
<1>2. /\ \A l \in {"idle", "orders", "holdings", "pending", "lookup", "lookup drop",
                   "lookup trade", "close list", "close"} : l \notin Opening
      /\ Back(p) \notin Opening
  BY DEF Opening, Back
<1>3. CASE SyncStart(p)
  BY <1>1, <1>2, <1>3, GoingSound, QuietRows DEF SyncStart, OpenIInv
<1>4. CASE SyncOrders(p)
  <2>1. \A q \in Procs : Sound(q)'
    BY <1>1, <1>2, <1>4, GoingSound DEF SyncOrders, OpenIInv
  <2> QED
    BY <1>4, <2>1 DEF SyncOrders, OpenIInv, RowsSound, OpenMeansFilled, Filled, broker
<1>5. CASE SyncHoldings(p)
  <2> DEFINE l == IF order = "filled" \/ OtherHoldings THEN "pending" ELSE Back(p)
  <2>1. l \notin Opening
    BY <1>2
  <2>2. MoveWith(p, l, seenPos[p], seenTrade[p], got[p], order = "filled")
    BY <1>5 DEF SyncHoldings
  <2>3. (seenPos[p] = "open_full" => Filled) /\ (got[p] = "filled" => Filled)
    BY <1>5 DEF SyncHoldings, OpenIInv, Sound
  <2> HIDE DEF l
  <2>4. \A q \in Procs : Sound(q)'
    BY <1>1, <2>1, <2>2, <2>3, MovingSound DEF OpenIInv
  <2> QED
    BY <1>5, <2>4, QuietRows DEF SyncHoldings, OpenIInv
<1>6. CASE SyncFails(p)
  BY <1>1, <1>2, <1>6, GoingSound, QuietRows DEF SyncFails, OpenIInv
<1>7. CASE SyncPending(p)
  BY <1>1, <1>2, <1>7, GoingSound, QuietRows DEF SyncPending, OpenIInv
<1>8. CASE SyncLookup(p)
  <2>1. PICK s \in IF trade.id = "order" THEN Answers ELSE {"error"} :
          Goto(p, IF s = "filled" THEN "lookup open"
                  ELSE IF s \in Ended THEN "lookup drop" ELSE "close list")
    BY <1>8 DEF SyncLookup
  <2> DEFINE l == IF s = "filled" THEN "lookup open"
                  ELSE IF s \in Ended THEN "lookup drop" ELSE "close list"
  <2>2. l \in Opening => Filled
    BY <1>2, <2>1 DEF Answers, Filled
  <2>3. Goto(p, l) /\ pc[p] # "cancel save"
    BY <1>8, <2>1 DEF SyncLookup
  <2> HIDE DEF l
  <2>4. \A q \in Procs : Sound(q)'
    BY <1>1, <2>2, <2>3, GoingSound DEF OpenIInv
  <2> QED
    BY <1>8, <2>4, QuietRows DEF SyncLookup, OpenIInv
<1>9. CASE SyncOpen(p)
  <2>1. Filled
    BY <1>9 DEF SyncOpen, OpenIInv, Sound, Opening
  <2> QED
    BY <1>1, <1>2, <1>9, <2>1, SettingSound DEF SyncOpen
<1>10. CASE SyncDrop(p)
  <2>1. /\ SetLifecycle(p, "closed", "lookup trade", "close list")
        /\ UNCHANGED <<request, broker, history>> /\ pc[p] # "cancel save"
    BY <1>10 DEF SyncDrop
  <2> QED
    BY <1>1, <1>2, <2>1, "closed" # "open_full", SettingSound
<1>11. CASE SyncTrade(p)
  BY <1>1, <1>2, <1>11, GoingSound, QuietRows DEF SyncTrade, OpenIInv
<1>12. CASE SyncList(p)
  BY <1>1, <1>2, <1>12, GoingSound, QuietRows DEF SyncList, OpenIInv
<1>13. CASE SyncClose(p)
  BY <1>1, <1>2, <1>13, "closed" # "open_full", SettingSound DEF SyncClose
<1> QED
  BY <1>3, <1>4, <1>5, <1>6, <1>7, <1>8, <1>9, <1>10, <1>11, <1>12, <1>13 DEF Sync

LEMMA ReconcileSound ==
  ASSUME OpenIInv, NEW p \in Procs, ReconcileRead(p) \/ StuckRead(p) \/ Reconcile(p)
  PROVE  RowsSound' /\ \A q \in Procs : Sound(q)'
<1>1. LocalTypeOK /\ (Filled => Filled')
  BY TypeParts DEF OpenIInv, ReconcileRead, StuckRead, Reconcile, ReconcileTrade,
     ReconcileOpen, StuckTrade, StuckOpen, broker, Filled
<1>2. Filled /\ pc[p] # "cancel save"
  BY DEF OpenIInv, RowsSound, Sound, Opening, Filled, ReconcileRead, StuckRead,
     Reconcile, ReconcileTrade, ReconcileOpen, StuckTrade, StuckOpen
<1>3. "idle" \notin Opening
  BY DEF Opening
<1>4. CASE ReconcileRead(p)
  BY <1>1, <1>2, <1>4, ReadingSound, QuietRows DEF ReconcileRead, OpenIInv
<1>5. CASE StuckRead(p)
  BY <1>1, <1>2, <1>5, ReadingSound, QuietRows DEF StuckRead, OpenIInv
<1>6. CASE ReconcileTrade(p)
  BY <1>1, <1>2, <1>6, GoingSound, QuietRows DEF ReconcileTrade, OpenIInv
<1>7. CASE ReconcileOpen(p)
  BY <1>1, <1>2, <1>3, <1>7, SettingSound DEF ReconcileOpen
<1>8. CASE StuckTrade(p)
  BY <1>1, <1>2, <1>8, GoingSound, QuietRows DEF StuckTrade, OpenIInv
<1>9. CASE StuckOpen(p)
  <2>1. PICK l \in {"create", "idle"} :
               MoveWith(p, IF HasPosition /\ HasTrade THEN l ELSE "idle",
                        "open_full", trade, got[p], holds[p])
    BY <1>9 DEF StuckOpen
  <2>2. \A q \in Procs : Sound(q)'
    BY <1>1, <1>2, <2>1, MovingSound DEF OpenIInv
  <2>3. position' = "open_full" \/ position' = position
    BY <1>9 DEF StuckOpen
  <2> QED
    BY <1>2, <1>9, <2>2, <2>3 DEF StuckOpen, OpenIInv, RowsSound, OpenMeansFilled,
       Filled, broker
<1> QED
  BY <1>4, <1>5, <1>6, <1>7, <1>8, <1>9 DEF Reconcile

LEMMA CancelSound ==
  ASSUME OpenIInv, NEW p \in Procs, CancelRead(p) \/ Cancel(p)
  PROVE  RowsSound' /\ \A q \in Procs : Sound(q)'
<1>1. LocalTypeOK /\ (Filled => Filled')
  BY TypeParts DEF OpenIInv, CancelRead, Cancel, CancelCheck, CancelOrder,
     CancelVerify, CancelSave, CancelArchive, broker, Filled
<1>2. \A l \in {"idle", "cancel check", "cancel", "cancel verify", "cancel save",
                "archive"} : l \notin Opening
  BY DEF Opening
<1>3. CASE CancelRead(p)
  BY <1>1, <1>2, <1>3, ReadingSound, QuietRows DEF CancelRead, OpenIInv
<1>4. CASE CancelCheck(p)
  <2>1. PICK s \in IF seenTrade[p].id = "order" THEN Answers ELSE {"filled"} :
          Learn(p, IF s = "error" THEN "idle"
                   ELSE IF s = "live" THEN "cancel" ELSE "cancel save", s)
    BY <1>4 DEF CancelCheck
  <2>2. PICK l \in {"idle", "cancel", "cancel save"} :
          Learn(p, l, s) /\ (s = "filled" => l = "cancel save")
    BY <2>1
  <2>3. \A q \in Procs : Sound(q)'
    BY <1>1, <1>2, <2>2, LearningSound DEF OpenIInv
  <2> QED
    BY <1>4, <2>3, QuietRows DEF CancelCheck, OpenIInv
<1>5. CASE CancelOrder(p)
  <2>1. \A q \in Procs : Sound(q)'
    BY <1>1, <1>2, <1>5, GoingSound DEF CancelOrder, OpenIInv
  <2>2. UNCHANGED <<request, history, position>>
        /\ (order = "none" => order' = "none") /\ (Filled => Filled')
    BY <1>5 DEF CancelOrder, Filled
  <2> QED
    BY <2>1, <2>2 DEF OpenIInv, RowsSound, OpenMeansFilled, Filled
<1>6. CASE CancelVerify(p)
  <2>1. PICK l \in {"idle", "cancel save"}, s \in Answers : Learn(p, l, s)
    BY <1>6 DEF CancelVerify
  <2>2. \A q \in Procs : Sound(q)'
    BY <1>1, <1>2, <2>1, LearningSound DEF OpenIInv
  <2> QED
    BY <1>6, <2>2, QuietRows DEF CancelVerify, OpenIInv
<1>7. CASE CancelSave(p)
  <2>1. PICK l \in {"idle", "archive"} :
          Goto(p, l) /\ (got[p] # "filled" \/ l = "idle")
    BY <1>7 DEF CancelSave, Ended
  <2>2. \A q \in Procs : Sound(q)'
    BY <1>1, <1>2, <2>1, GoingSound DEF OpenIInv
  <2> QED
    BY <1>7, <2>2, QuietRows DEF CancelSave, OpenIInv
<1>8. CASE CancelArchive(p)
  BY <1>1, <1>2, <1>8, "expired" # "open_full", SettingSound DEF CancelArchive
<1> QED
  BY <1>3, <1>4, <1>5, <1>6, <1>7, <1>8 DEF Cancel

-----------------------------------------------------------------------------
LEMMA InitOpen == Init => OpenIInv
  BY InitTypes DEF Init, OpenIInv, RowsSound, OpenMeansFilled, Sound, Filled, Opening

LEMMA StepOpen == ASSUME OpenIInv, [Next]_vars PROVE OpenIInv'
<1>1. TypeOK'
  BY StepTypes DEF OpenIInv
<1>2. RowsSound' /\ \A p \in Procs : Sound(p)'
  <2>1. CASE Request
    BY <2>1, RequestSound
  <2>2. CASE OrderEnds \/ DayPasses
    BY <2>2, BrokerSound
  <2>3. CASE \E h \in Handlers : Hear(h) \/ Miss(h)
    BY <2>3, HearSound
  <2>4. CASE \E w \in Workers : Start(w) \/ CancelRead(w)
    <3>1. PICK w \in Procs : Start(w) \/ CancelRead(w)
      BY <2>4 DEF Procs
    <3> QED
      BY <3>1, MonitorSound, SyncSound, ReconcileSound, CancelSound DEF Start
  <2>5. CASE \E p \in Procs : Continue(p)
    BY <2>5, HandleSound, MonitorSound, SaveSound, SyncSound, ReconcileSound, CancelSound
       DEF Continue
  <2>6. CASE UNCHANGED vars
    BY <2>6 DEF vars, broker, local, OpenIInv, RowsSound, OpenMeansFilled, Sound, Filled
  <2> QED
    BY <2>1, <2>2, <2>3, <2>4, <2>5, <2>6 DEF Next
<1> QED
  BY <1>1, <1>2 DEF OpenIInv

\* Of all that open a position - events, polls, syncs, both repairs and full
\* saves of rows read long ago - none opens one whose order is not filled, for
\* any number of listeners and workers and every failure.
THEOREM OnlyFilledOpens == Spec => []OpenMeansFilled
<1>1. OpenIInv => OpenMeansFilled
  BY DEF OpenIInv, RowsSound
<1> QED
  BY <1>1, InitOpen, StepOpen, PTL DEF Spec

-----------------------------------------------------------------------------
(***************************************************************************)
(* The stored id of a placed order is not lost, if no trade is cancelled   *)
(* before its order has an id.  Whoever may save its copy of the trade has *)
(* read it with the id; who has not cannot get an answer from the broker,  *)
(* and what a process acts on as the outcome of the order is its outcome.  *)
(***************************************************************************)
Writing == {"hear position", "hear save", "create", "create trade", "poll filled",
            "reconcile", "stuck", "stuck open", "cancel check", "cancel",
            "cancel verify", "cancel save"}

\* What a process at l may hold as its copy tr of the trade and as outcome s.
Informed(p, l, tr, s) ==
  /\ l \in Writing \/ (p \in Handlers /\ l # "idle") => tr.id = "order"
  /\ l = "poll write" /\ s # "error" => tr.id = "order"
  /\ l \in {"poll expired", "poll delete"} => order = "expired"
  /\ s \in Terminal => order = s

Carries(p) ==
  /\ Informed(p, pc[p], seenTrade[p], got[p])
  /\ seenTrade[p].id = "order" => trade.id # "temporary" /\ request # "approved"

RowsKnown ==
  /\ PlacedIsKnown
  /\ request = "approved" => trade.id = "none"
  /\ request \in {"approved", "created"} => order = "none"

KnownIInv == TypeOK /\ RowsKnown /\ \A p \in Procs : Carries(p)

\* An order that is over stays what it is, and none comes to life again.
OrderStays ==
  /\ order \in Terminal => order' = order
  /\ order' \in {"live", "filled"} => order \in {"live", "filled"}
  /\ order = "none" => order' = "none"

\* How p may change the trade: its id stays, p writes its copy with the id, or
\* the trade of an expired order is deleted.
TradeStays(p) ==
  \/ trade'.id = trade.id
  \/ trade'.id = "order" /\ seenTrade[p].id = "order"
  \/ trade'.id = "none" /\ order = "expired"

LEMMA RowsStay ==
  ASSUME KnownIInv, request' = request, OrderStays, NEW p \in Procs, TradeStays(p)
  PROVE  RowsKnown'
<1>1. seenTrade[p].id = "order" => request # "approved"
  BY DEF KnownIInv, Carries
<1> QED
  BY <1>1 DEF KnownIInv, RowsKnown, PlacedIsKnown, OrderStays, TradeStays, Terminal, Ended

\* What a process that does not move holds stays good.
LEMMA CarriesOn ==
  ASSUME KnownIInv, request' = request, OrderStays, NEW p \in Procs, TradeStays(p),
         NEW q \in Procs, pc'[q] = pc[q], seenTrade'[q] = seenTrade[q], got'[q] = got[q]
  PROVE  Carries(q)'
<1>1. Carries(q) /\ Carries(p)
  BY DEF KnownIInv
<1>2. /\ order = "expired" => order' = "expired"
      /\ \A s \in Terminal : order = s => order' = s
  BY DEF OrderStays, Terminal, Ended
<1>3. Informed(q, pc[q], seenTrade[q], got[q])'
  BY <1>1, <1>2 DEF Carries, Informed
<1>4. seenTrade[q].id = "order" => trade'.id # "temporary" /\ request' # "approved"
  BY <1>1 DEF Carries, TradeStays
<1> QED
  BY <1>3, <1>4 DEF Carries

\* Steps that are the business of one process.
LEMMA MovingKnown ==
  ASSUME KnownIInv, LocalTypeOK, request' = request, OrderStays,
         NEW p \in Procs, NEW l, NEW pos, NEW tr \in {seenTrade[p], trade}, NEW s, NEW h,
         MoveWith(p, l, pos, tr, s, h), TradeStays(p),
         l # "idle" => Informed(p, l, tr, s)
  PROVE  RowsKnown' /\ \A q \in Procs : Carries(q)'
<1>1. RowsKnown'
  BY RowsStay
<1>2. ASSUME NEW q \in Procs, q # p PROVE Carries(q)'
  <2>1. pc'[q] = pc[q] /\ seenTrade'[q] = seenTrade[q] /\ got'[q] = got[q]
    BY <1>2 DEF MoveWith, LocalTypeOK
  <2> QED
    BY <2>1, CarriesOn
<1>3. Carries(p)'
  <2>1. /\ pc'[p] = l
        /\ seenTrade'[p] = IF l = "idle" THEN NoTrade ELSE tr
        /\ got'[p] = IF l = "idle" THEN "none" ELSE s
    BY DEF MoveWith, LocalTypeOK
  <2>2. CASE l = "idle"
    BY <2>1, <2>2 DEF Carries, Informed, NoTrade, Writing, Terminal, Ended
  <2>3. CASE l # "idle"
    <3>1. Informed(p, l, tr, s)
      BY <2>3
    <3>2. /\ order = "expired" => order' = "expired"
          /\ s \in Terminal => (order = s => order' = s)
      BY DEF OrderStays, Terminal, Ended
    <3>3. Informed(p, pc[p], seenTrade[p], got[p])'
      BY <2>1, <2>3, <3>1, <3>2 DEF Informed
    <3>4. tr.id = "order" => trade'.id # "temporary" /\ request # "approved"
      BY DEF KnownIInv, Carries, RowsKnown, TradeStays
    <3> QED
      BY <2>1, <2>3, <3>3, <3>4 DEF Carries
  <2> QED
    BY <2>2, <2>3
<1> QED
  BY <1>1, <1>2, <1>3

\* A process goes on with what it has read.
LEMMA GoingKnown ==
  ASSUME KnownIInv, LocalTypeOK, request' = request, OrderStays,
         NEW p \in Procs, NEW l, Goto(p, l), TradeStays(p),
         pc[p] # "idle",
         l \in Writing => pc[p] \in Writing \/ p \in Handlers,
         l # "poll write",
         l \in {"poll expired", "poll delete"} => order = "expired"
  PROVE  RowsKnown' /\ \A q \in Procs : Carries(q)'
<1>1. Informed(p, pc[p], seenTrade[p], got[p])
  BY DEF KnownIInv, Carries
<1>2. Informed(p, l, seenTrade[p], got[p])
  BY <1>1 DEF Informed
<1> QED
  BY <1>2, MovingKnown DEF Goto

LEMMA LearningKnown ==
  ASSUME KnownIInv, LocalTypeOK, request' = request, OrderStays,
         NEW p \in Procs, NEW l, NEW s, Learn(p, l, s), TradeStays(p),
         l # "idle" => Informed(p, l, seenTrade[p], s)
  PROVE  RowsKnown' /\ \A q \in Procs : Carries(q)'
  BY MovingKnown DEF Learn

\* A process reads the rows; with an outcome it acts on, the trade has its id.
LEMMA ReadingKnown ==
  ASSUME KnownIInv, LocalTypeOK, request' = request, OrderStays,
         NEW p \in Procs, NEW l, Read(p, l), TradeStays(p),
         l \in Writing \/ (p \in Handlers /\ l # "idle") => trade.id = "order",
         l \notin {"poll write", "poll expired", "poll delete"}
  PROVE  RowsKnown' /\ \A q \in Procs : Carries(q)'
<1>1. Informed(p, pc[p], seenTrade[p], got[p])
  BY DEF KnownIInv, Carries
<1>2. Informed(p, l, trade, got[p])
  BY <1>1 DEF Informed
<1> QED
  BY <1>2, MovingKnown DEF Read

LEMMA SettingKnown ==
  ASSUME KnownIInv, LocalTypeOK, request' = request, OrderStays,
         NEW p \in Procs, NEW s, NEW l, NEW e, SetLifecycle(p, s, l, e), TradeStays(p),
         pc[p] # "idle",
         l \in Writing => pc[p] \in Writing \/ p \in Handlers,
         e \in Writing => pc[p] \in Writing \/ p \in Handlers,
         l \notin {"poll write", "poll expired", "poll delete"},
         e \notin {"poll write", "poll expired", "poll delete"}
  PROVE  RowsKnown' /\ \A q \in Procs : Carries(q)'
<1>1. Goto(p, l) \/ Goto(p, e)
  BY DEF SetLifecycle
<1> QED
  BY <1>1, GoingKnown

-----------------------------------------------------------------------------
LEMMA RequestKnown ==
  ASSUME KnownIInv, Request PROVE RowsKnown' /\ \A p \in Procs : Carries(p)'
<1>1. UNCHANGED <<pc, seenTrade, got>>
  BY DEF Request, CreateRecords, PlaceOrder, NotPlaced, FinalizePosition,
     FinalizeTrade, MarkExecuted, SaveFails, DeleteTrade, DeletePosition, Dies, local
<1>2. order \in Terminal => order' = order
  BY DEF Request, CreateRecords, PlaceOrder, NotPlaced, FinalizePosition,
     FinalizeTrade, MarkExecuted, SaveFails, DeleteTrade, DeletePosition, Dies, broker,
     KnownIInv, RowsKnown, Terminal, Ended
<1>3. request' # "approved"
  BY DEF Request, CreateRecords, PlaceOrder, NotPlaced, FinalizePosition,
     FinalizeTrade, MarkExecuted, SaveFails, DeleteTrade, DeletePosition, Dies
<1>4. trade' = trade \/ trade'.id \in {"order", "none"} \/ request = "approved"
  BY DEF Request, CreateRecords, PlaceOrder, NotPlaced, FinalizePosition, NoTrade,
     FinalizeTrade, MarkExecuted, SaveFails, DeleteTrade, DeletePosition, Dies
<1>5. RowsKnown'
  BY DEF Request, CreateRecords, PlaceOrder, NotPlaced, FinalizePosition,
     FinalizeTrade, MarkExecuted, SaveFails, DeleteTrade, DeletePosition, Dies, broker,
     KnownIInv, RowsKnown, PlacedIsKnown
<1>6. ASSUME NEW p \in Procs PROVE Carries(p)'
  <2>1. Carries(p)
    BY DEF KnownIInv
  <2>2. Informed(p, pc[p], seenTrade[p], got[p])'
    BY <1>1, <1>2, <2>1 DEF Carries, Informed, Terminal, Ended
  <2>3. seenTrade'[p].id = "order" => trade'.id # "temporary" /\ request' # "approved"
    BY <1>1, <1>3, <1>4, <2>1 DEF Carries
  <2> QED
    BY <2>2, <2>3 DEF Carries
<1> QED
  BY <1>5, <1>6

LEMMA BrokerKnown ==
  ASSUME KnownIInv, OrderEnds \/ DayPasses
  PROVE  RowsKnown' /\ \A p \in Procs : Carries(p)'
<1>1. /\ UNCHANGED <<request, trade, pc, seenTrade, got>> /\ OrderStays
  BY DEF OrderEnds, DayPasses, local, OrderStays, Terminal, Ended
<1>2. RowsKnown'
  BY <1>1 DEF KnownIInv, RowsKnown, PlacedIsKnown, OrderStays
<1>3. \A p \in Procs : Carries(p)'
  BY <1>1, CarriesOn DEF TradeStays
<1> QED
  BY <1>2, <1>3

LEMMA HearKnown ==
  ASSUME KnownIInv, NEW h \in Handlers, Hear(h) \/ Miss(h)
  PROVE  RowsKnown' /\ \A p \in Procs : Carries(p)'
<1>1. LocalTypeOK /\ h \in Procs /\ request' = request /\ OrderStays /\ TradeStays(h)
  BY TypeParts DEF KnownIInv, Procs, Hear, Miss, broker, OrderStays, TradeStays
<1>2. CASE Hear(h)
  <2> DEFINE l == IF trade.id # "order" \/ trade.status = NextChange(h) THEN "idle"
                  ELSE IF heard[h] = 0 THEN "hear save" ELSE "hear position"
  <2>1. MoveWith(h, l, position, trade, NextChange(h), FALSE)
    BY <1>2 DEF Hear
  <2>2. l # "idle" => Informed(h, l, trade, NextChange(h))
    BY DEF Informed, NextChange, Terminal, Ended
  <2> HIDE DEF l
  <2> QED
    BY <1>1, <2>1, <2>2, MovingKnown
<1>3. CASE Miss(h)
  BY <1>1, <1>3, CarriesOn, RowsStay DEF Miss, local
<1> QED
  BY <1>2, <1>3

LEMMA HandleKnown ==
  ASSUME KnownIInv, NEW p \in Procs, Handle(p)
  PROVE  RowsKnown' /\ \A q \in Procs : Carries(q)'
<1>1. /\ LocalTypeOK /\ request' = request /\ OrderStays
      /\ pc[p] \in {"hear position", "hear save"}
  BY TypeParts DEF KnownIInv, Handle, HearFill, HearEnd, HearSave, broker, OrderStays
<1>2. pc[p] \in Writing /\ seenTrade[p].id = "order"
  BY <1>1 DEF KnownIInv, Carries, Informed, Writing
<1>3. TradeStays(p)
  <2>1. seenTrade[p] \in TradeRow
    BY <1>1 DEF LocalTypeOK
  <2>2. trade' \in {trade, [seenTrade[p] EXCEPT !.status = got[p]]}
    BY DEF Handle, HearFill, HearEnd, HearSave
  <2> QED
    BY <1>2, <2>1, <2>2 DEF TradeStays, TradeRow
<1>4. CASE HearFill(p)
  <2>1. SetLifecycle(p, "open_full", "orders", "idle")
    BY <1>4 DEF HearFill
  <2> QED
    BY <1>1, <1>2, <1>3, <2>1, SettingKnown
<1>5. CASE HearEnd(p)
  <2>1. SetLifecycle(p, "closed", "hear save", "idle") \/ Goto(p, "hear save")
    BY <1>5 DEF HearEnd
  <2> QED
    BY <1>1, <1>2, <1>3, <2>1, SettingKnown, GoingKnown
<1>6. CASE HearSave(p)
  <2>1. Goto(p, "idle")
    BY <1>6 DEF HearSave
  <2> QED
    BY <1>1, <1>2, <1>3, <2>1, GoingKnown
<1> QED
  BY <1>4, <1>5, <1>6 DEF Handle

LEMMA MonitorKnown ==
  ASSUME KnownIInv, NEW p \in Procs, (p \notin Handlers /\ MonitorList(p)) \/ Monitor(p)
  PROVE  RowsKnown' /\ \A q \in Procs : Carries(q)'
<1>1. /\ LocalTypeOK /\ request' = request /\ OrderStays /\ trade \in TradeRow
      /\ Carries(p)
  BY TypeParts DEF KnownIInv, TypeOK, MonitorList, Monitor, MonitorPoll, MonitorWrite,
     MonitorExpired, MonitorDelete, MonitorFilled, MonitorOpen, broker, OrderStays
<1>2. /\ \A l \in {"idle", "poll", "poll write", "poll expired", "poll delete"} :
           l \notin Writing
      /\ {"poll filled", "create"} \subseteq Writing
  BY DEF Writing
<1>3. CASE p \notin Handlers /\ MonitorList(p)
  <2>1. Read(p, "poll") /\ TradeStays(p)
    BY <1>3 DEF MonitorList, TradeStays
  <2> QED
    BY <1>1, <1>2, <1>3, <2>1, ReadingKnown
<1>4. CASE MonitorPoll(p)
  <2>1. PICK s \in IF seenTrade[p].id = "order" THEN Answers ELSE {"error"} :
               Learn(p, "poll write", s) \/ Goto(p, "idle")
    BY <1>4 DEF MonitorPoll
  <2>2. TradeStays(p) /\ pc[p] = "poll"
    BY <1>4 DEF MonitorPoll, TradeStays
  <2>3. CASE Learn(p, "poll write", s)
    <3>1. Informed(p, "poll write", seenTrade[p], s)
      BY <1>1, <1>2, <2>1, <2>2 DEF Informed, Carries, Answers, Terminal, Ended
    <3> QED
      BY <1>1, <2>2, <2>3, <3>1, LearningKnown
  <2>4. CASE Goto(p, "idle")
    BY <1>1, <1>2, <2>2, <2>4, GoingKnown
  <2> QED
    BY <2>1, <2>3, <2>4
<1>5. CASE MonitorWrite(p)
  <2>1. pc[p] = "poll write" /\ TradeStays(p)
    BY <1>1, <1>5 DEF MonitorWrite, TradeStays, TradeRow
  <2>2. PICK l \in {"idle", "poll expired", "poll filled"} :
          /\ Goto(p, l)
          /\ l = "poll expired" => got[p] = "expired"
          /\ l = "poll filled" => got[p] = "filled"
    BY <1>5 DEF MonitorWrite
  <2>3. l # "idle" => Informed(p, l, seenTrade[p], got[p])
    BY <1>1, <1>2, <2>1, <2>2 DEF Informed, Carries, Terminal, Ended
  <2> QED
    BY <1>1, <2>1, <2>2, <2>3, MovingKnown DEF Goto
<1>6. CASE MonitorExpired(p)
  <2>1. PICK l \in {"idle", "poll delete"} : Goto(p, l)
    BY <1>6 DEF MonitorExpired
  <2>2. TradeStays(p) /\ pc[p] = "poll expired" /\ order = "expired"
    BY <1>1, <1>6 DEF MonitorExpired, TradeStays, Carries, Informed
  <2> QED
    BY <1>1, <1>2, <2>1, <2>2, GoingKnown
<1>7. CASE MonitorDelete(p)
  <2>1. TradeStays(p) /\ pc[p] = "poll delete"
    BY <1>1, <1>7 DEF MonitorDelete, TradeStays, Carries, Informed, NoTrade
  <2> QED
    BY <1>1, <1>2, <1>7, <2>1, GoingKnown DEF MonitorDelete
<1>8. CASE MonitorFilled(p)
  <2>1. PICK l \in {"create", "idle"} : Read(p, IF HasPosition /\ HasTrade THEN l ELSE "idle")
    BY <1>8 DEF MonitorFilled
  <2>2. TradeStays(p) /\ seenTrade[p].id = "order"
    BY <1>1, <1>2, <1>8 DEF MonitorFilled, TradeStays, Carries, Informed
  <2>3. HasTrade => trade.id = "order"
    BY <1>1, <2>2 DEF Carries, HasTrade, TradeRow
  <2> DEFINE k == IF HasPosition /\ HasTrade THEN l ELSE "idle"
  <2>4. k # "idle" => trade.id = "order"
    BY <2>3
  <2>5. k \in {"create", "idle"} /\ Read(p, k)
    BY <2>1
  <2> HIDE DEF k
  <2> QED
    BY <1>1, <1>2, <2>2, <2>4, <2>5, ReadingKnown
<1>9. CASE MonitorOpen(p)
  <2>1. TradeStays(p) /\ pc[p] = "create open" /\ SetLifecycle(p, "open_full", "idle", "idle")
    BY <1>9 DEF MonitorOpen, TradeStays
  <2> QED
    BY <1>1, <1>2, <2>1, SettingKnown
<1> QED
  BY <1>3, <1>4, <1>5, <1>6, <1>7, <1>8, <1>9 DEF Monitor

LEMMA SaveKnown ==
  ASSUME KnownIInv, NEW p \in Procs, SavePosition(p) \/ SaveTrade(p)
  PROVE  RowsKnown' /\ \A q \in Procs : Carries(q)'
<1>1. /\ LocalTypeOK /\ request' = request /\ OrderStays
      /\ pc[p] \in {"create", "create trade"}
  BY TypeParts DEF KnownIInv, SavePosition, SaveTrade, broker, OrderStays
<1>2. pc[p] \in Writing /\ seenTrade[p].id = "order"
  BY <1>1 DEF KnownIInv, Carries, Informed, Writing
<1>3. TradeStays(p)
  BY <1>2 DEF SavePosition, SaveTrade, TradeStays
<1>4. PICK l \in {"create trade", "create open", "idle"} : Goto(p, l)
  BY DEF SavePosition, SaveTrade
<1> QED
  BY <1>1, <1>2, <1>3, <1>4, GoingKnown

LEMMA SyncKnown ==
  ASSUME KnownIInv, NEW p \in Procs, (p \notin Handlers /\ SyncStart(p)) \/ Sync(p)
  PROVE  RowsKnown' /\ \A q \in Procs : Carries(q)'
<1>1. LocalTypeOK /\ request' = request /\ OrderStays /\ Carries(p)
  BY TypeParts DEF KnownIInv, SyncStart, Sync, SyncOrders, SyncHoldings, SyncFails,
     SyncPending, SyncLookup, SyncOpen, SyncDrop, SyncTrade, SyncList, SyncClose,
     broker, OrderStays
<1>2. /\ \A l \in {"idle", "orders", "holdings", "pending", "lookup", "lookup open",
                   "lookup drop", "lookup trade", "close list", "close"} : l \notin Writing
      /\ Back(p) \in Writing => p \in Handlers
      /\ Back(p) \notin {"poll write", "poll expired", "poll delete"}
  BY DEF Writing, Back
<1>3. TradeStays(p)
  <2>1. trade \in TradeRow
    BY DEF KnownIInv, TypeOK
  <2> QED
    BY <2>1 DEF SyncStart, Sync, SyncOrders, SyncHoldings, SyncFails, SyncPending,
       SyncLookup, SyncOpen, SyncDrop, SyncTrade, SyncList, SyncClose, TradeStays, TradeRow
<1>4. CASE p \notin Handlers /\ SyncStart(p)
  <2>1. Goto(p, "orders") /\ pc[p] = "idle"
    BY <1>4 DEF SyncStart
  <2>2. Informed(p, "orders", seenTrade[p], got[p])
    BY <1>1, <1>2, <1>4 DEF Informed, Carries
  <2> QED
    BY <1>1, <1>3, <2>1, <2>2, MovingKnown DEF Goto
<1>5. CASE Sync(p)
  <2>1. pc[p] # "idle"
    BY <1>5 DEF Sync, SyncOrders, SyncHoldings, SyncFails, SyncPending, SyncLookup,
       SyncOpen, SyncDrop, SyncTrade, SyncList, SyncClose
  <2>2. CASE SyncHoldings(p)
    <3> DEFINE l == IF order = "filled" \/ OtherHoldings THEN "pending" ELSE Back(p)
    <3>1. MoveWith(p, l, seenPos[p], seenTrade[p], got[p], order = "filled")
      BY <2>2 DEF SyncHoldings
    <3>2. Informed(p, l, seenTrade[p], got[p])
      BY <1>1, <1>2, <2>1 DEF Informed, Carries
    <3> HIDE DEF l
    <3> QED
      BY <1>1, <1>3, <3>1, <3>2, MovingKnown
  <2>3. CASE ~SyncHoldings(p)
    <3>1. PICK l \in {"holdings", "lookup", "lookup open", "lookup drop", "lookup trade",
                      "close list", "close", Back(p)} : Goto(p, l)
      BY <1>5, <2>3 DEF Sync, SyncOrders, SyncFails, SyncPending, SyncLookup, SyncOpen,
         SyncDrop, SyncTrade, SyncList, SyncClose, SetLifecycle
    <3> QED
      BY <1>1, <1>2, <1>3, <2>1, <3>1, GoingKnown
  <2> QED
    BY <2>2, <2>3
<1> QED
  BY <1>4, <1>5

LEMMA ReconcileKnown ==
  ASSUME KnownIInv, NEW p \in Procs, ReconcileRead(p) \/ StuckRead(p) \/ Reconcile(p)
  PROVE  RowsKnown' /\ \A q \in Procs : Carries(q)'
<1>1. /\ LocalTypeOK /\ request' = request /\ OrderStays /\ Carries(p)
      /\ trade \in TradeRow /\ seenTrade[p] \in TradeRow
  BY TypeParts DEF KnownIInv, TypeOK, LocalTypeOK, ReconcileRead, StuckRead, Reconcile,
     ReconcileTrade, ReconcileOpen, StuckTrade, StuckOpen, broker, OrderStays
<1>2. /\ {"reconcile", "stuck", "stuck open", "create"} \subseteq Writing
      /\ "reconcile open" \notin Writing /\ "idle" \notin Writing
  BY DEF Writing
<1>3. pc[p] \in Writing => seenTrade[p].id = "order"
  BY <1>1 DEF Carries, Informed
<1>4. TradeStays(p)
  BY <1>1, <1>2, <1>3 DEF ReconcileRead, StuckRead, Reconcile, ReconcileTrade,
     ReconcileOpen, StuckTrade, StuckOpen, TradeStays, TradeRow
<1>5. CASE ReconcileRead(p) \/ StuckRead(p)
  <2>1. PICK l \in {"reconcile", "stuck"} : Read(p, l) /\ trade.id = "order"
    BY <1>5 DEF ReconcileRead, StuckRead
  <2> QED
    BY <1>1, <1>4, <2>1, ReadingKnown
<1>6. CASE ReconcileTrade(p) \/ StuckTrade(p)
  <2>1. pc[p] \in Writing /\ pc[p] # "idle"
    BY <1>2, <1>6 DEF ReconcileTrade, StuckTrade
  <2>2. PICK l \in {"reconcile open", "stuck open", "idle"} : Goto(p, l)
    BY <1>6 DEF ReconcileTrade, StuckTrade
  <2> QED
    BY <1>1, <1>4, <2>1, <2>2, GoingKnown
<1>7. CASE ReconcileOpen(p)
  <2>1. pc[p] = "reconcile open" /\ SetLifecycle(p, "open_full", "idle", "idle")
    BY <1>7 DEF ReconcileOpen
  <2> QED
    BY <1>1, <1>2, <1>4, <2>1, SettingKnown
<1>8. CASE StuckOpen(p)
  <2>1. PICK l \in {"create", "idle"} :
               MoveWith(p, IF HasPosition /\ HasTrade THEN l ELSE "idle",
                        "open_full", trade, got[p], holds[p])
    BY <1>8 DEF StuckOpen
  <2> DEFINE k == IF HasPosition /\ HasTrade THEN l ELSE "idle"
  <2>2. HasTrade => trade.id = "order"
    BY <1>1, <1>2, <1>3, <1>8 DEF StuckOpen, Carries, HasTrade, TradeRow
  <2>3. k \in {"create", "idle"} /\ (k # "idle" => trade.id = "order")
    BY <2>1, <2>2
  <2>4. MoveWith(p, k, "open_full", trade, got[p], holds[p])
    BY <2>1
  <2> HIDE DEF k
  <2>5. k # "idle" => Informed(p, k, trade, got[p])
    BY <1>1, <2>3 DEF Informed, Carries
  <2> QED
    BY <1>1, <1>4, <2>4, <2>5, MovingKnown
<1> QED
  BY <1>5, <1>6, <1>7, <1>8 DEF Reconcile

LEMMA CancelKnown ==
  ASSUME "early" \notin Failures, KnownIInv, NEW p \in Procs, CancelRead(p) \/ Cancel(p)
  PROVE  RowsKnown' /\ \A q \in Procs : Carries(q)'
<1>1. /\ LocalTypeOK /\ request' = request /\ Carries(p) /\ seenTrade[p] \in TradeRow
  BY TypeParts DEF KnownIInv, LocalTypeOK, CancelRead, Cancel, CancelCheck, CancelOrder,
     CancelVerify, CancelSave, CancelArchive
<1>2. OrderStays
  BY DEF CancelRead, Cancel, CancelCheck, CancelOrder, CancelVerify, CancelSave,
     CancelArchive, broker, OrderStays, Terminal, Ended
<1>3. /\ {"cancel check", "cancel", "cancel verify", "cancel save"} \subseteq Writing
      /\ "archive" \notin Writing /\ "idle" \notin Writing
  BY DEF Writing
<1>4. pc[p] \in Writing => seenTrade[p].id = "order"
  BY <1>1 DEF Carries, Informed
<1>5. TradeStays(p)
  BY <1>1, <1>3, <1>4 DEF CancelRead, Cancel, CancelCheck, CancelOrder, CancelVerify,
     CancelSave, CancelArchive, TradeStays, TradeRow
<1>6. CASE CancelRead(p)
  <2>1. Read(p, "cancel check") /\ trade.id = "order"
    BY <1>6 DEF CancelRead
  <2> QED
    BY <1>1, <1>2, <1>5, <2>1, ReadingKnown
<1>7. CASE CancelCheck(p) \/ CancelVerify(p)
  <2>1. seenTrade[p].id = "order"
    BY <1>3, <1>4, <1>7 DEF CancelCheck, CancelVerify
  <2>2. PICK l \in {"idle", "cancel", "cancel save"}, s \in Answers : Learn(p, l, s)
    BY <1>7, <2>1 DEF CancelCheck, CancelVerify
  <2>3. Informed(p, l, seenTrade[p], s)
    BY <2>1, <2>2 DEF Informed, Answers, Terminal, Ended
  <2> QED
    BY <1>1, <1>2, <1>5, <2>2, <2>3, LearningKnown
<1>8. CASE CancelOrder(p) \/ CancelSave(p) \/ CancelArchive(p)
  <2>1. pc[p] \in {"cancel", "cancel save", "archive"}
    BY <1>8 DEF CancelOrder, CancelSave, CancelArchive
  <2>2. PICK l \in {"idle", "cancel verify", "archive"} :
          Goto(p, l) /\ (l = "cancel verify" => pc[p] = "cancel")
    BY <1>8 DEF CancelOrder, CancelSave, CancelArchive, SetLifecycle
  <2> QED
    BY <1>1, <1>2, <1>3, <1>5, <2>1, <2>2, GoingKnown
<1> QED
  BY <1>6, <1>7, <1>8 DEF Cancel

-----------------------------------------------------------------------------
LEMMA InitKnown == Init => KnownIInv
  BY InitTypes DEF Init, KnownIInv, RowsKnown, PlacedIsKnown, Carries, Informed, Writing,
     Terminal, Ended, NoTrade

LEMMA StepKnown ==
  ASSUME "early" \notin Failures, KnownIInv, [Next]_vars PROVE KnownIInv'
<1>1. TypeOK'
  BY StepTypes DEF KnownIInv
<1>2. RowsKnown' /\ \A p \in Procs : Carries(p)'
  <2>1. CASE Request
    BY <2>1, RequestKnown
  <2>2. CASE OrderEnds \/ DayPasses
    BY <2>2, BrokerKnown
  <2>3. CASE \E h \in Handlers : Hear(h) \/ Miss(h)
    BY <2>3, HearKnown
  <2>4. CASE \E w \in Workers : Start(w) \/ CancelRead(w)
    <3>1. PICK w \in Procs : (Start(w) \/ CancelRead(w)) /\ w \notin Handlers
      BY <2>4, EntryOrderAssumption DEF Procs
    <3> QED
      BY <3>1, MonitorKnown, SyncKnown, ReconcileKnown, CancelKnown DEF Start
  <2>5. CASE \E p \in Procs : Continue(p)
    BY <2>5, HandleKnown, MonitorKnown, SaveKnown, SyncKnown, ReconcileKnown, CancelKnown
       DEF Continue
  <2>6. CASE UNCHANGED vars
    BY <2>6 DEF vars, broker, local, KnownIInv, RowsKnown, PlacedIsKnown, Carries, Informed
  <2> QED
    BY <2>1, <2>2, <2>3, <2>4, <2>5, <2>6 DEF Next
<1> QED
  BY <1>1, <1>2 DEF KnownIInv

\* However listeners and workers interleave and fail: once the request has
\* stored the id of its order, the trade keeps it while the order works or is
\* filled, unless somebody cancels a trade whose order has no id yet.
THEOREM PlacedStaysKnown ==
  ASSUME "early" \notin Failures
  PROVE  Spec => []PlacedIsKnown
<1>1. KnownIInv => PlacedIsKnown
  BY DEF KnownIInv, RowsKnown
<1>2. KnownIInv /\ [Next]_vars => KnownIInv'
  BY StepKnown
<1> QED
  BY <1>1, <1>2, InitKnown, PTL DEF Spec

=============================================================================
