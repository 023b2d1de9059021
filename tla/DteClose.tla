------------------------------ MODULE DteClose ------------------------------
(***************************************************************************)
(* The hourly task that closes a position near its expiration              *)
(* (trading/tasks.py, services/positions/lifecycle/dte_manager.py),        *)
(* together with the parties it shares the position's row and orders with: *)
(* the broker, the recording of fills, the position sync, which writes     *)
(* back metadata it read earlier, and the reconciliation that re-creates   *)
(* missing profit targets.                                                 *)
(*                                                                         *)
(* One position, opened and with its targets placed.  A target is named by *)
(* its spread; order[t] is the newest order placed for it.  A closing      *)
(* order o and the trade row written for it share the name o; the row has  *)
(* a temporary broker id while its status is "pending".  Several closing   *)
(* orders follow each other as the days to expiration go down.             *)
(***************************************************************************)
EXTENDS Integers, FiniteSets

CONSTANTS
    Targets,      \* the spreads of the position, each with its profit target
    PutTargets,   \* those of them that are put spreads
    Orders,       \* names for closing orders and their trade rows
    FirstDte,     \* the days to expiration when the task first considers it
    MaxRetries,   \* 3 in dte_manager.py
    MaxFaults,    \* bound: crashes, lost answers and orders the broker ends
    MaxSyncs,     \* bound: position syncs that interleave
    None

ASSUME DteAssumption ==
    /\ PutTargets \subseteq Targets /\ FirstDte \in Nat
    /\ Orders \cap Targets = {}
    /\ MaxRetries \in Nat \ {0} /\ MaxFaults \in Nat /\ MaxSyncs \in Nat
    /\ None \notin Orders \cup Int

VARIABLES
    dte,     \* calculate_current_dte: falls by one each day
    row,     \* Position: lifecycle_state, metadata.dte_automation, target statuses
    trade,   \* Trade rows: status of the row of each closing order
    order,   \* the broker's status of each closing order and target order
    task,    \* the DTE task: its step, its copy of the row, what it still has to cancel
    sync,    \* a position sync between reading the row and saving its metadata
    fixer,   \* the reconciliation between reading the row and placing a target, its copy
    faults,  \* faults so far
    stray,   \* history: closing orders whose id was lost or whose cancel failed
    left     \* history: targets not cancelled, or placed from a row without DTE state

vars == <<dte, row, trade, order, task, sync, fixer, faults, stray, left>>

-----------------------------------------------------------------------------

Fresh == [last |-> None, current |-> None, retry |-> 0]

Opened == [life |-> "open", dte |-> Fresh, status |-> [t \in Targets |-> "live"]]

Idle == [pc |-> "idle", at |-> 0, dte |-> Fresh, status |-> [t \in Targets |-> "live"],
         retry |-> 0, trades |-> {}, targets |-> {}, gone |-> None, new |-> None]

\* The reconciliation between two of its runs.
Resting == [pc |-> "idle", row |-> Opened]

Init ==
    /\ dte = FirstDte
    /\ row = Opened
    /\ trade = [o \in Orders |-> "none"]
    /\ order = [x \in Orders \cup Targets |-> IF x \in Targets THEN "live" ELSE "none"]
    /\ task = Idle
    /\ sync = [pc |-> "idle", dte |-> Fresh, left |-> MaxSyncs]
    /\ fixer = Resting
    /\ faults = 0
    /\ stray = {}
    /\ left = {}

Live(o) == order[o] = "live"

\* A closing order that filled closes the position; so do all targets together.
Flat == (\E o \in Orders : order[o] = "filled") \/ (\A t \in Targets : order[t] = "filled")

Fault == faults < MaxFaults /\ faults' = faults + 1

-----------------------------------------------------------------------------
(* The task.  Positions of every open state are loaded, "closing" included *)

Load ==
    /\ task.pc = "idle" /\ row.life # "closed"
    /\ task' = [Idle EXCEPT !.pc = "check", !.at = dte, !.dte = row.dte, !.status = row.status]
    /\ UNCHANGED <<dte, row, trade, order, sync, fixer, faults, stray, left>>

\* Targets the task will try to cancel: by the status of its own copy.
Uncancelled == {t \in Targets : task.status[t] = "live"}

\* Mutant: a run that stops at an order of the same day, whatever became of it.
WorkingAnyStatus == task.dte.last = task.at /\ task.dte.current # None

\* An hour later on the same day only a live or a filled order ends the run;
\* every other answer, and no answer, goes on.
StillWorking == task.dte.last = task.at /\ task.dte.current # None /\ order[task.dte.current] \in {"live", "filled"}

Skip ==
    /\ task.pc = "check" /\ StillWorking
    /\ task' = Idle
    /\ UNCHANGED <<dte, row, trade, order, sync, fixer, faults, stray, left>>

\* retry_count starts again on a later day, unless the last day was 0.
Retries ==
    IF task.dte.last # None /\ task.dte.last # 0 /\ task.dte.last > task.at THEN 0 ELSE task.dte.retry

Exhausted == Retries >= MaxRetries

GiveUp ==
    /\ task.pc = "check" /\ ~StillWorking /\ Exhausted
    /\ task' = Idle
    /\ UNCHANGED <<dte, row, trade, order, sync, fixer, faults, stray, left>>

\* Mutant: only rows that were never submitted are cancelled.
ProceedPendingOnly ==
    /\ task.pc = "check" /\ ~Exhausted
    /\ IF StillWorking THEN order[task.dte.current] = "live" /\ Fault ELSE UNCHANGED faults
    /\ task' = [task EXCEPT !.pc = "trades", !.retry = Retries,
                            !.trades = {o \in Orders : trade[o] = "pending"}]
    /\ UNCHANGED <<dte, row, trade, order, sync, fixer, stray, left>>

\* _cancel_open_trades reads the rows that may still work when it starts.
\* A failed status query lets the run go on even while the order is live.
Proceed ==
    /\ task.pc = "check" /\ ~Exhausted
    /\ IF StillWorking THEN order[task.dte.current] = "live" /\ Fault ELSE UNCHANGED faults
    /\ task' = [task EXCEPT !.pc = "trades", !.retry = Retries,
                            !.trades = {o \in Orders : trade[o] \in {"pending", "submitted"}}]
    /\ UNCHANGED <<dte, row, trade, order, sync, fixer, stray, left>>

\* cancel_trade reads the row again.  A row without the broker's id is not
\* found (and assumed filled) or fails; a dead order gives its status; a live
\* one is cancelled, or the call fails and the row stays.
CancelTrade(o) ==
    /\ task.pc = "trades" /\ o \in task.trades
    /\ task' = [task EXCEPT !.trades = @ \ {o}]
    /\ \/ /\ trade[o] = "pending"
          /\ trade' \in {trade, [trade EXCEPT ![o] = "filled"]}
          /\ UNCHANGED <<order, faults, stray>>
       \/ /\ trade[o] = "submitted" /\ ~Live(o)
          /\ trade' = [trade EXCEPT ![o] = order[o]]
          /\ UNCHANGED <<order, faults, stray>>
       \/ /\ trade[o] = "submitted" /\ Live(o)
          /\ order' = [order EXCEPT ![o] = "cancelled"]
          /\ trade' = [trade EXCEPT ![o] = "cancelled"]
          /\ UNCHANGED <<faults, stray>>
       \/ /\ trade[o] = "submitted" /\ Fault
          /\ order' \in {order, [order EXCEPT ![o] = IF Live(o) THEN "cancelled" ELSE @]}
          /\ stray' = stray \cup {o}
          /\ UNCHANGED trade
       \/ /\ trade[o] \notin {"pending", "submitted"}
          /\ UNCHANGED <<trade, order, faults, stray>>
    /\ UNCHANGED <<dte, row, sync, fixer, left>>

TradesCancelled ==
    /\ task.pc = "trades" /\ task.trades = {}
    /\ task' = [task EXCEPT !.pc = "targets", !.targets = Uncancelled]
    /\ UNCHANGED <<dte, row, trade, order, sync, fixer, faults, stray, left>>

\* _cancel_child_order_at_broker: "not found" counts as cancelled.
CancelTarget(t) ==
    /\ task.pc = "targets" /\ t \in task.targets
    /\ \/ /\ order' = [order EXCEPT ![t] = IF Live(t) THEN "cancelled" ELSE @]
          /\ task' = [task EXCEPT !.pc = "status", !.targets = @ \ {t}, !.gone = t]
          /\ left' = left \ {t}
          /\ UNCHANGED faults
       \/ /\ Fault
          /\ task' = [task EXCEPT !.targets = @ \ {t}]
          /\ left' = left \cup {t}
          /\ UNCHANGED order
    /\ UNCHANGED <<dte, row, trade, sync, fixer, stray>>

\* _update_profit_target_status: the new status is saved with the whole of the task's
\* copy of the target details.
UpdateTarget ==
    /\ task.pc = "status"
    /\ task' = [task EXCEPT !.pc = "targets", !.gone = None, !.status[task.gone] = "cancelled"]
    /\ row' = [row EXCEPT !.status = task'.status]
    /\ UNCHANGED <<dte, trade, order, sync, fixer, faults, stray, left>>

\* The trade row is written before the order, with a temporary id.  The name
\* of a row whose order was refused may stand for the next row.
Free == {o \in Orders : order[o] = "none" /\ trade[o] \in {"none", "rejected"}}

CreateTrade ==
    /\ task.pc = "targets" /\ task.targets = {} /\ Free # {}
    /\ LET o == CHOOSE x \in Free : TRUE IN
         /\ trade' = [trade EXCEPT ![o] = "pending"]
         /\ task' = [task EXCEPT !.pc = "place", !.new = o]
    /\ UNCHANGED <<dte, row, order, sync, fixer, faults, stray, left>>

\* number_of_spreads for the put strikes and again for the call strikes.
ClosingSpreads(kind) == IF kind # {} THEN Cardinality(Targets) ELSE 0

Place ==
    /\ task.pc = "place"
    /\ order' = [order EXCEPT ![task.new] = "live"]
    /\ task' = [task EXCEPT !.pc = "placed"]
    /\ UNCHANGED <<dte, row, trade, sync, fixer, faults, stray, left>>

\* execute_order_spec turns every failure into None: the order was refused,
\* or it was placed and the answer lost.
PlaceFails ==
    /\ task.pc = "place"
    /\ \/ UNCHANGED <<order, stray, faults>>
       \/ order' = [order EXCEPT ![task.new] = "live"] /\ stray' = stray \cup {task.new} /\ Fault
    /\ task' = [task EXCEPT !.pc = "refused"]
    /\ UNCHANGED <<dte, row, trade, sync, fixer, left>>

SaveTrade ==
    /\ task.pc \in {"placed", "refused"}
    /\ trade' = [trade EXCEPT ![task.new] = IF task.pc = "placed" THEN "submitted" ELSE "rejected"]
    /\ task' = [task EXCEPT !.pc = IF task.pc = "placed" THEN "save" ELSE "count"]
    /\ UNCHANGED <<dte, row, order, sync, fixer, faults, stray, left>>

SavePosition ==
    /\ task.pc = "save"
    /\ row' = [row EXCEPT !.life = "closing",
                          !.dte = [last |-> task.at, current |-> task.new, retry |-> 0]]
    /\ task' = Idle
    /\ UNCHANGED <<dte, trade, order, sync, fixer, faults, stray, left>>

CountRefusal ==
    /\ task.pc = "count"
    /\ row' = [row EXCEPT !.dte = [last |-> task.at, current |-> task.dte.current,
                                   retry |-> task.retry + 1]]
    /\ task' = Idle
    /\ UNCHANGED <<dte, trade, order, sync, fixer, faults, stray, left>>

\* The worker dies; an order placed since the last save keeps working.
Crash ==
    /\ task.pc # "idle" /\ Fault
    /\ stray' = stray \cup (IF task.pc = "placed" THEN {task.new} ELSE {})
    /\ task' = Idle
    /\ UNCHANGED <<dte, row, trade, order, sync, fixer, left>>

-----------------------------------------------------------------------------
(* The others                                                              *)

NextDay ==
    /\ dte > 0 /\ task.pc = "idle"
    /\ dte' = dte - 1
    /\ UNCHANGED <<row, trade, order, task, sync, fixer, faults, stray, left>>

BrokerFills(x) ==
    /\ Live(x) /\ ~Flat
    /\ order' = [order EXCEPT ![x] = "filled"]
    /\ UNCHANGED <<dte, row, trade, task, sync, fixer, faults, stray, left>>

BrokerEnds(o) ==
    /\ o \in Orders /\ Live(o) /\ Fault
    /\ order' = [order EXCEPT ![o] = "cancelled"]
    /\ UNCHANGED <<dte, row, trade, task, sync, fixer, stray, left>>

\* The stream or the order sync records what the broker reports.
RecordTarget(t) ==
    /\ order[t] = "filled" /\ row.status[t] # "filled"
    /\ row' = [row EXCEPT !.status[t] = "filled"]
    /\ UNCHANGED <<dte, trade, order, task, sync, fixer, faults, stray, left>>

RecordTrade(o) ==
    /\ trade[o] = "submitted" /\ ~Live(o)
    /\ trade' = [trade EXCEPT ![o] = order[o]]
    /\ UNCHANGED <<dte, row, order, task, sync, fixer, faults, stray, left>>

RecordClosed ==
    /\ Flat /\ row.life # "closed"
    /\ row' = [row EXCEPT !.life = "closed"]
    /\ UNCHANGED <<dte, trade, order, task, sync, fixer, faults, stray, left>>

\* The position sync saves all of the metadata as it read it.
SyncRead ==
    /\ sync.pc = "idle" /\ sync.left > 0 /\ row.life # "closed"
    /\ sync' = [pc |-> "save", dte |-> row.dte, left |-> sync.left - 1]
    /\ UNCHANGED <<dte, row, trade, order, task, fixer, faults, stray, left>>

SyncSave ==
    /\ sync.pc = "save"
    /\ row' = [row EXCEPT !.dte = sync.dte]
    /\ sync' = [sync EXCEPT !.pc = "idle", !.dte = Fresh]
    /\ UNCHANGED <<dte, trade, order, task, fixer, faults, stray, left>>

\* Mutant: the reconciliation re-creates targets in DTE automation too.
FixReadAlways ==
    /\ fixer.pc = "idle" /\ row.life = "open"
    /\ fixer' = [pc |-> "place", row |-> row]
    /\ UNCHANGED <<dte, row, trade, order, task, sync, faults, stray, left>>

\* fix_incomplete_profit_targets lists the rows that are open, leaves alone those
\* that have DTE state, and asks the broker about the others.
FixRead ==
    /\ fixer.pc = "idle" /\ row.life = "open" /\ row.dte.last = None
    /\ fixer' = [pc |-> "place", row |-> row]
    /\ UNCHANGED <<dte, row, trade, order, task, sync, faults, stray, left>>

\* It places what is missing and saves the whole row as it was listed: what the
\* task or a fill wrote meanwhile is lost.
FixPlace(t) ==
    /\ fixer.pc = "place" /\ order[t] = "cancelled"
    /\ order' = [order EXCEPT ![t] = "live"]
    /\ row' = [fixer.row EXCEPT !.status[t] = "live"]
    /\ left' = IF fixer.row.dte.last = None THEN left \cup {t} ELSE left
    /\ fixer' = Resting
    /\ UNCHANGED <<dte, trade, task, sync, faults, stray>>

FixNothing ==
    /\ fixer.pc = "place"
    /\ fixer' = Resting
    /\ UNCHANGED <<dte, row, trade, order, task, sync, faults, stray, left>>

-----------------------------------------------------------------------------

Task ==
    \/ Load \/ Skip \/ GiveUp \/ Proceed \/ TradesCancelled
    \/ \E o \in Orders : CancelTrade(o)
    \/ \E t \in Targets : CancelTarget(t)
    \/ UpdateTarget \/ CreateTrade
    \/ Place \/ PlaceFails \/ SaveTrade \/ SavePosition \/ CountRefusal

Recording == RecordClosed \/ \E o \in Orders : RecordTrade(o)

Next ==
    \/ Task \/ Crash \/ NextDay \/ Recording
    \/ \E x \in Orders \cup Targets : BrokerFills(x)
    \/ \E o \in Orders : BrokerEnds(o)
    \/ \E t \in Targets : RecordTarget(t) \/ FixPlace(t)
    \/ SyncRead \/ SyncSave \/ FixRead \/ FixNothing

\* The scheduler runs the task every hour and a run goes on to its end.
Spec == Init /\ [][Next]_vars /\ WF_vars(Task) /\ WF_vars(Recording)

-----------------------------------------------------------------------------

DteState == [last : {None} \cup 0 .. FirstDte, current : {None} \cup Orders, retry : 0 .. MaxRetries]

Row == [life : {"open", "closing", "closed"}, dte : DteState,
        status : [Targets -> {"live", "filled", "cancelled"}]]

\* Every part of the state keeps its type; in particular the stored retry
\* count never passes the limit that close_position_at_dte compares it with.
TypeOK ==
    /\ dte \in 0 .. FirstDte
    /\ row \in Row
    /\ trade \in [Orders -> {"none", "pending", "submitted", "rejected", "cancelled", "filled"}]
    /\ order \in [Orders \cup Targets -> {"none", "live", "cancelled", "filled"}]
    /\ task \in [pc : {"idle", "check", "trades", "targets", "status", "place", "placed", "refused", "save", "count"},
                 at : 0 .. FirstDte, dte : DteState,
                 status : [Targets -> {"live", "filled", "cancelled"}], retry : 0 .. MaxRetries,
                 trades : SUBSET Orders, targets : SUBSET Targets,
                 gone : {None} \cup Targets, new : {None} \cup Orders]
    /\ sync \in [pc : {"idle", "save"}, dte : DteState, left : 0 .. MaxSyncs]
    /\ fixer \in [pc : {"idle", "place"}, row : Row]
    /\ faults \in 0 .. MaxFaults
    /\ stray \subseteq Orders /\ left \subseteq Targets

\* However runs, days, syncs and crashes interleave, two closing orders work
\* at the same time only when the broker's answer about one of them was lost
\* (a failed cancel, a lost placement, a crash before its id was stored).
OneClosingOrder == Cardinality({o \in Orders : Live(o)} \ stray) <= 1

\* While a closing order works, a profit target works beside it only when its
\* cancel failed or the reconciliation re-created it from a row that had no
\* DTE state yet (dte_manager.py:282, trade_reconciliation_service.py:724).
TargetsStayReplaced ==
    (\E o \in Orders : Live(o)) => \A t \in Targets : Live(t) => t \in left

\* A position near expiration is not forgotten: again and again it is flat,
\* or an order to close it works or is refused, or the day's retries are used up,
\* or the model has no name left for another order.  (Refusals may go on: the
\* reconciliation may take their count back every time.)
NotForgotten ==
    []<>(\/ Flat \/ \E o \in Orders : Live(o)
         \/ task.pc = "refused" \/ row.dte.retry = MaxRetries
         \/ Free = {})

Held(kind) == IF \E o \in Orders : order[o] = "filled" THEN 0
              ELSE Cardinality({t \in kind : order[t] # "filled"})

\* A closing order never closes more spreads of a kind than are still open
\* (docs/patterns/DTE_MANAGEMENT_PATTERN.md:91).  Not so: the code always closes
\* number_of_spreads of each kind, which for a Trident counts the put and the call
\* spreads together, and it places the order although the one it meant to cancel
\* turned out filled (dte_manager.py:299).
ClosesOnlyWhatIsOpen ==
    [][Place => \A kind \in {PutTargets, Targets \ PutTargets} :
                   ClosingSpreads(kind) <= Held(kind)]_vars
=============================================================================
