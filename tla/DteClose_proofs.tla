--------------------------- MODULE DteClose_proofs ---------------------------
(***************************************************************************)
(* Proofs about the closing of a position near its expiration: for any     *)
(* number of targets and closing orders, any first day, any limit of       *)
(* retries, and any number of faults and syncs.                            *)
(***************************************************************************)
EXTENDS DteClose, FiniteSetTheorems, TLAPS

Statuses == {"live", "filled", "cancelled"}

\* What each step of the task relies on from the steps before it: a counter
\* below the limit, a target to record, a name for the row it writes.
Prepared ==
    /\ task.pc \in {"trades", "targets", "status", "place", "placed", "refused", "save", "count"}
         => task.retry < MaxRetries
    /\ task.pc = "status" => task.gone \in Targets
    /\ task.pc \in {"place", "placed", "refused", "save"} => task.new \in Orders

Typed == TypeOK /\ Prepared

Tasks == [pc : {"idle", "check", "trades", "targets", "status", "place", "placed", "refused", "save", "count"},
          at : 0 .. FirstDte, dte : DteState, status : [Targets -> Statuses], retry : 0 .. MaxRetries,
          trades : SUBSET Orders, targets : SUBSET Targets,
          gone : {None} \cup Targets, new : {None} \cup Orders]

LEMMA StateTypes ==
    ASSUME DteAssumption
    PROVE  /\ Fresh \in DteState
           /\ Idle.pc = "idle" /\ Idle.status = [t \in Targets |-> "live"]
           /\ Idle \in Tasks
           /\ Opened \in Row /\ Opened.status = [t \in Targets |-> "live"]
           /\ Resting \in [pc : {"idle", "place"}, row : Row] /\ Resting.pc = "idle"
           /\ Resting.row = Opened
    BY DEF DteAssumption, Fresh, Idle, Tasks, DteState, Statuses, Opened, Resting, Row

LEMMA TypedInit == ASSUME DteAssumption, Init PROVE Typed
<1>1. order \in [Orders \cup Targets -> {"none", "live", "cancelled", "filled"}]
    BY DEF Init
<1> QED
    BY <1>1, StateTypes DEF Init, Typed, TypeOK, Prepared, DteAssumption, Tasks, Statuses

\* The counter a run starts with is in range.
LEMMA RetriesInRange == ASSUME DteAssumption, TypeOK PROVE Retries \in 0 .. MaxRetries
<1>1. task.dte.retry \in 0 .. MaxRetries /\ 0 \in 0 .. MaxRetries
    BY DEF DteAssumption, TypeOK, DteState
<1> QED
    BY <1>1 DEF Retries

-----------------------------------------------------------------------------
LEMMA TaskTyped == ASSUME DteAssumption, Typed, Task PROVE Typed'
<1> USE DEF Typed, Tasks, Statuses
<1>1. CASE Load
    <2>1. row.dte \in DteState /\ row.status \in [Targets -> Statuses]
        BY DEF TypeOK, Row
    <2>2. task' \in Tasks /\ task'.pc = "check"
        BY <1>1, <2>1, StateTypes DEF Load, TypeOK
    <2> QED
        BY <1>1, <2>2 DEF Load, TypeOK, Prepared
<1>2. CASE Skip \/ GiveUp
    BY <1>2, StateTypes DEF Skip, GiveUp, TypeOK, Prepared
<1>3. CASE Proceed
    <2>1. faults' \in 0 .. MaxFaults
        BY <1>3 DEF Proceed, Fault, TypeOK, DteAssumption
    <2>2. Retries < MaxRetries /\ Retries \in 0 .. MaxRetries
        BY <1>3, RetriesInRange DEF Proceed, Exhausted, DteAssumption
    <2> QED
        BY <1>3, <2>1, <2>2 DEF Proceed, TypeOK, Prepared
<1>4. ASSUME NEW o \in Orders, CancelTrade(o) PROVE Typed'
    <2>1. /\ trade' \in [Orders -> {"none", "pending", "submitted", "rejected", "cancelled", "filled"}]
          /\ order' \in [Orders \cup Targets -> {"none", "live", "cancelled", "filled"}]
        BY <1>4 DEF CancelTrade, TypeOK, Live
    <2>2. faults' \in 0 .. MaxFaults /\ stray' \subseteq Orders
        BY <1>4 DEF CancelTrade, Fault, TypeOK, DteAssumption
    <2> QED
        BY <1>4, <2>1, <2>2 DEF CancelTrade, TypeOK, Prepared
<1>5. CASE TradesCancelled
    BY <1>5 DEF TradesCancelled, Uncancelled, TypeOK, Prepared
<1>6. ASSUME NEW t \in Targets, CancelTarget(t) PROVE Typed'
    <2>1. order' \in [Orders \cup Targets -> {"none", "live", "cancelled", "filled"}]
        BY <1>6 DEF CancelTarget, TypeOK, Live
    <2>2. faults' \in 0 .. MaxFaults /\ left' \subseteq Targets
        BY <1>6 DEF CancelTarget, Fault, TypeOK, DteAssumption
    <2>3. task' \in Tasks /\ Prepared'
        <3>1. CASE task' = [task EXCEPT !.targets = @ \ {t}]
            BY <1>6, <3>1 DEF CancelTarget, TypeOK, Prepared
        <3>2. CASE task' = [task EXCEPT !.pc = "status", !.targets = @ \ {t}, !.gone = t]
            BY <1>6, <3>2 DEF CancelTarget, TypeOK, Prepared
        <3> QED
            BY <1>6, <3>1, <3>2 DEF CancelTarget
    <2> QED
        BY <1>6, <2>1, <2>2, <2>3 DEF CancelTarget, TypeOK, Prepared
<1>7. CASE UpdateTarget
    BY <1>7 DEF UpdateTarget, TypeOK, Row, Prepared
<1>8. CASE CreateTrade
    <2>1. PICK o \in Orders : /\ trade' = [trade EXCEPT ![o] = "pending"]
                              /\ task' = [task EXCEPT !.pc = "place", !.new = o]
        <3>1. (CHOOSE x \in Free : TRUE) \in Free
            BY <1>8 DEF CreateTrade
        <3> QED
            BY <1>8, <3>1 DEF CreateTrade, Free
    <2>2. task' \in Tasks /\ Prepared'
        <3>1. task.pc = "targets"
            BY <1>8 DEF CreateTrade
        <3> QED
            BY <2>1, <3>1 DEF TypeOK, Prepared
    <2>3. trade' \in [Orders -> {"none", "pending", "submitted", "rejected", "cancelled", "filled"}]
        BY <2>1 DEF TypeOK
    <2> QED
        BY <1>8, <2>2, <2>3 DEF CreateTrade, TypeOK, Tasks
<1>9. CASE Place
    BY <1>9 DEF Place, TypeOK, Prepared
<1>10. CASE PlaceFails
    <2>1. faults' \in 0 .. MaxFaults
        BY <1>10 DEF PlaceFails, Fault, TypeOK, DteAssumption
    <2> QED
        BY <1>10, <2>1 DEF PlaceFails, TypeOK, Prepared
<1>11. CASE SaveTrade
    BY <1>11 DEF SaveTrade, TypeOK, Prepared
<1>12. CASE SavePosition
    <2>1. [last |-> task.at, current |-> task.new, retry |-> 0] \in DteState
        BY <1>12 DEF SavePosition, TypeOK, Prepared, DteState, DteAssumption
    <2>2. row' \in Row
        BY <1>12, <2>1 DEF SavePosition, TypeOK, Row
    <2> QED
        BY <1>12, <2>2, StateTypes DEF SavePosition, TypeOK, Prepared
<1>13. CASE CountRefusal
    BY <1>13, StateTypes DEF CountRefusal, TypeOK, Row, Prepared, DteState, DteAssumption
<1> QED
    BY <1>1, <1>2, <1>3, <1>4, <1>5, <1>6, <1>7, <1>8, <1>9, <1>10, <1>11, <1>12, <1>13 DEF Task

LEMMA CrashTyped == ASSUME DteAssumption, Typed, Crash PROVE Typed'
<1>1. stray' \subseteq Orders
    BY DEF Crash, Typed, TypeOK, Prepared
<1>2. faults' \in 0 .. MaxFaults
    BY DEF Crash, Fault, Typed, TypeOK, DteAssumption
<1> QED
    BY <1>1, <1>2, StateTypes DEF Crash, Typed, TypeOK, Prepared, Tasks, Statuses

LEMMA OthersTyped ==
    ASSUME DteAssumption, Typed,
           \/ NextDay \/ Recording \/ SyncRead \/ SyncSave \/ FixRead \/ FixNothing
           \/ \E x \in Orders \cup Targets : BrokerFills(x)
           \/ \E o \in Orders : BrokerEnds(o)
           \/ \E t \in Targets : RecordTarget(t) \/ FixPlace(t)
    PROVE  Typed'
<1> USE DEF Typed, Prepared
<1>1. CASE NextDay
    BY <1>1 DEF NextDay, TypeOK, DteAssumption
<1>2. CASE Recording
    <2>1. ASSUME NEW o \in Orders, RecordTrade(o) PROVE Typed'
        BY <2>1 DEF RecordTrade, TypeOK, Live
    <2>2. CASE RecordClosed
        BY <2>2 DEF RecordClosed, TypeOK, Row
    <2> QED
        BY <1>2, <2>1, <2>2 DEF Recording
<1>3. CASE SyncRead
    <2>1. sync' \in [pc : {"idle", "save"}, dte : DteState, left : 0 .. MaxSyncs]
        BY <1>3 DEF SyncRead, TypeOK, Row, DteAssumption
    <2> QED
        BY <1>3, <2>1 DEF SyncRead, TypeOK
<1>4. CASE SyncSave
    BY <1>4, StateTypes DEF SyncSave, TypeOK, Row
<1>5. CASE FixRead \/ FixNothing
    <2>1. CASE FixRead
        BY <2>1 DEF FixRead, TypeOK
    <2>2. CASE FixNothing
        BY <2>2, StateTypes DEF FixNothing, TypeOK
    <2> QED
        BY <1>5, <2>1, <2>2
<1>6. ASSUME NEW x \in Orders \cup Targets, BrokerFills(x) PROVE Typed'
    BY <1>6 DEF BrokerFills, TypeOK
<1>7. ASSUME NEW o \in Orders, BrokerEnds(o) PROVE Typed'
    BY <1>7 DEF BrokerEnds, Fault, TypeOK, DteAssumption
<1>8. ASSUME NEW t \in Targets, RecordTarget(t) PROVE Typed'
    BY <1>8 DEF RecordTarget, TypeOK, Row
<1>9. ASSUME NEW t \in Targets, FixPlace(t) PROVE Typed'
    BY <1>9, StateTypes DEF FixPlace, TypeOK, Row
<1> QED
    BY <1>1, <1>2, <1>3, <1>4, <1>5, <1>6, <1>7, <1>8, <1>9

LEMMA TypedNext == ASSUME DteAssumption, Typed, [Next]_vars PROVE Typed'
<1>1. CASE UNCHANGED vars
    BY <1>1 DEF vars, Typed, TypeOK, Prepared
<1> QED
    BY <1>1, TaskTyped, CrashTyped, OthersTyped DEF Next

\* Every part of the state keeps its type whatever the order of the steps; in
\* particular the stored retry count never passes the limit that
\* close_position_at_dte compares it with.
THEOREM TypeCorrect == Spec => []TypeOK
<1>1. Spec => []Typed
    BY TypedInit, TypedNext, DteAssumption, PTL DEF Spec
<1> QED
    BY <1>1, PTL DEF Typed

-----------------------------------------------------------------------------
(* One closing order at a time.  The rows the app writes say of every      *)
(* working closing order that it works, unless an answer about it was      *)
(* lost; and a run that has read those rows cancels them before it places  *)
(* the next order.                                                         *)

\* The working closing orders about which no answer was lost.
Known == {o \in Orders : Live(o)} \ stray

OneAtATime ==
    /\ \A o, q \in Known : o = q
    /\ \A o \in Known : trade[o] = "submitted" \/ (task.pc = "placed" /\ task.new = o)
    /\ task.pc = "trades" => Known \subseteq task.trades
    /\ task.pc \in {"targets", "status", "place", "refused", "count"} => Known = {}
    /\ task.pc \in {"placed", "save"} => Known \subseteq {task.new}

(* A target that works and that neither a failed cancel nor a re-creation  *)
(* explains is known to the row and to every copy of it, the run has it    *)
(* still before it, and no closing order works.                            *)

Unexplained == {t \in Targets : Live(t)} \ left

NotYetReplaced ==
    \A t \in Unexplained :
        /\ row.status[t] = "live" /\ task.status[t] = "live" /\ fixer.row.status[t] = "live"
        /\ task.pc \in {"targets", "status"} => t \in task.targets
        /\ task.pc = "status" => t # task.gone
        /\ task.pc \notin {"place", "placed", "refused", "save", "count"}
        /\ \A o \in Orders : ~Live(o)

\* The reconciliation goes on only with a row that had no DTE state.
Undecided == fixer.pc = "place" => fixer.row.dte.last = None

Safe == Typed /\ OneAtATime /\ NotYetReplaced /\ Undecided

LEMMA SafeInit == ASSUME DteAssumption, Init PROVE Safe
<1>1. Known = {}
    BY DEF Init, Known, Live, DteAssumption
<1>2. OneAtATime
    BY <1>1 DEF OneAtATime
<1>3. NotYetReplaced
    BY <1>1, StateTypes DEF NotYetReplaced, Unexplained, Init, Idle, Known, Live, DteAssumption
<1>4. Undecided
    BY StateTypes DEF Init, Undecided
<1> QED
    BY <1>2, <1>3, <1>4, TypedInit DEF Safe

LEMMA TaskOneAtATime == ASSUME DteAssumption, Safe, Task PROVE OneAtATime'
<1> USE DEF Safe, Typed, OneAtATime, Known, Live
<1>1. CASE Load \/ Skip \/ GiveUp
    <2>1. /\ task'.pc \in {"check", "idle"} /\ UNCHANGED <<trade, order, stray>>
          /\ task.pc \notin {"placed", "trades"}
        <3>1. CASE Load
            BY <3>1, StateTypes DEF Load, Tasks
        <3>2. CASE Skip \/ GiveUp
            BY <3>2, StateTypes DEF Skip, GiveUp
        <3> QED
            BY <1>1, <3>1, <3>2
    <2> QED
        BY <2>1
<1>2. CASE Proceed
    BY <1>2 DEF Proceed, TypeOK
<1>3. ASSUME NEW o \in Orders, CancelTrade(o) PROVE OneAtATime'
    BY <1>3 DEF CancelTrade, TypeOK
<1>4. CASE TradesCancelled
    BY <1>4 DEF TradesCancelled, TypeOK
<1>5. ASSUME NEW t \in Targets, CancelTarget(t) PROVE OneAtATime'
    BY <1>5 DEF CancelTarget, TypeOK, DteAssumption
<1>6. CASE UpdateTarget
    BY <1>6 DEF UpdateTarget, TypeOK
<1>7. CASE CreateTrade
    BY <1>7 DEF CreateTrade, TypeOK
<1>8. CASE Place
    BY <1>8 DEF Place, TypeOK, Prepared
<1>9. CASE PlaceFails
    BY <1>9 DEF PlaceFails, TypeOK, Prepared
<1>10. CASE SaveTrade
    BY <1>10 DEF SaveTrade, TypeOK, Prepared
<1>11. CASE SavePosition \/ CountRefusal
    BY <1>11 DEF SavePosition, CountRefusal, Idle
<1> QED
    BY <1>1, <1>2, <1>3, <1>4, <1>5, <1>6, <1>7, <1>8, <1>9, <1>10, <1>11 DEF Task

LEMMA TaskNotYetReplaced == ASSUME DteAssumption, Safe, Task PROVE NotYetReplaced'
<1> USE DEF Safe, Typed, NotYetReplaced, Unexplained, Live
<1>1. CASE Load \/ Skip \/ GiveUp
    <2>1. /\ task'.pc \in {"check", "idle"}
          /\ UNCHANGED <<row, order, fixer, left>>
          /\ \A t \in Targets : task'.status[t] \in {"live", row.status[t]}
        <3>1. CASE Load
            BY <3>1, StateTypes DEF Load, Tasks
        <3>2. CASE Skip \/ GiveUp
            BY <3>2, StateTypes DEF Skip, GiveUp
        <3> QED
            BY <1>1, <3>1, <3>2
    <2> QED
        BY <2>1
<1>2. CASE Proceed
    BY <1>2 DEF Proceed, TypeOK
<1>3. ASSUME NEW o \in Orders, CancelTrade(o) PROVE NotYetReplaced'
    BY <1>3 DEF CancelTrade, TypeOK, DteAssumption
<1>4. CASE TradesCancelled
    BY <1>4 DEF TradesCancelled, Uncancelled, TypeOK
<1>5. ASSUME NEW t \in Targets, CancelTarget(t) PROVE NotYetReplaced'
    <2>1. /\ task.pc = "targets" /\ t \in task.targets /\ UNCHANGED <<row, fixer>>
          /\ \/ /\ order' = [order EXCEPT ![t] = IF Live(t) THEN "cancelled" ELSE @]
                /\ task' = [task EXCEPT !.pc = "status", !.targets = @ \ {t}, !.gone = t]
                /\ left' = left \ {t}
             \/ /\ task' = [task EXCEPT !.targets = @ \ {t}]
                /\ left' = left \cup {t} /\ UNCHANGED order
        BY <1>5 DEF CancelTarget
    <2>2. CASE /\ task' = [task EXCEPT !.targets = @ \ {t}]
               /\ left' = left \cup {t} /\ UNCHANGED order
        <3>1. /\ task'.pc = "targets" /\ task'.targets = task.targets \ {t}
              /\ task'.status = task.status
            BY <2>1, <2>2 DEF TypeOK
        <3> QED
            BY <2>1, <2>2, <3>1
    <2>3. CASE /\ order' = [order EXCEPT ![t] = IF Live(t) THEN "cancelled" ELSE @]
               /\ task' = [task EXCEPT !.pc = "status", !.targets = @ \ {t}, !.gone = t]
               /\ left' = left \ {t}
        <3>1. /\ task'.pc = "status" /\ task'.targets = task.targets \ {t}
              /\ task'.status = task.status /\ task'.gone = t
            BY <2>1, <2>3 DEF TypeOK
        <3>2. order'[t] # "live" /\ \A x \in Orders \cup Targets : x # t => order'[x] = order[x]
            BY <2>3 DEF TypeOK
        <3> QED
            BY <2>1, <2>3, <3>1, <3>2 DEF DteAssumption
    <2> QED
        BY <2>1, <2>2, <2>3
<1>6. CASE UpdateTarget
    BY <1>6 DEF UpdateTarget, TypeOK, Prepared
<1>7. CASE CreateTrade
    BY <1>7 DEF CreateTrade, TypeOK
<1>8. CASE Place
    BY <1>8 DEF Place, TypeOK, Prepared, DteAssumption
<1>9. CASE PlaceFails
    BY <1>9 DEF PlaceFails, TypeOK, Prepared, DteAssumption
<1>10. CASE SaveTrade
    BY <1>10 DEF SaveTrade, TypeOK, Prepared
<1>11. CASE SavePosition \/ CountRefusal
    BY <1>11 DEF SavePosition, CountRefusal, Idle
<1> QED
    BY <1>1, <1>2, <1>3, <1>4, <1>5, <1>6, <1>7, <1>8, <1>9, <1>10, <1>11 DEF Task

\* Nobody but the task places a closing order, and a target that the
\* reconciliation re-creates is explained.
LEMMA OthersSafe ==
    ASSUME DteAssumption, Safe,
           \/ Crash \/ NextDay \/ Recording \/ SyncRead \/ SyncSave \/ FixRead \/ FixNothing
           \/ \E x \in Orders \cup Targets : BrokerFills(x)
           \/ \E o \in Orders : BrokerEnds(o)
           \/ \E t \in Targets : RecordTarget(t) \/ FixPlace(t)
    PROVE  OneAtATime' /\ NotYetReplaced'
<1> USE DEF Safe, Typed, OneAtATime, Known, NotYetReplaced, Unexplained, Live
<1>1. CASE Crash
    BY <1>1 DEF Crash, Idle
<1>2. CASE NextDay \/ SyncRead \/ FixRead \/ FixNothing
    BY <1>2, StateTypes DEF NextDay, SyncRead, FixRead, FixNothing
<1>3. CASE RecordClosed \/ SyncSave
    BY <1>3 DEF RecordClosed, SyncSave, TypeOK, Row
<1>4. ASSUME NEW o \in Orders, RecordTrade(o) PROVE OneAtATime' /\ NotYetReplaced'
    BY <1>4 DEF RecordTrade, TypeOK
<1>5. ASSUME NEW x \in Orders \cup Targets, BrokerFills(x) PROVE OneAtATime' /\ NotYetReplaced'
    BY <1>5 DEF BrokerFills, TypeOK
<1>6. ASSUME NEW o \in Orders, BrokerEnds(o) PROVE OneAtATime' /\ NotYetReplaced'
    BY <1>6 DEF BrokerEnds, TypeOK
<1>7. ASSUME NEW t \in Targets, RecordTarget(t) PROVE OneAtATime' /\ NotYetReplaced'
    BY <1>7 DEF RecordTarget, TypeOK
<1>8. ASSUME NEW t \in Targets, FixPlace(t) PROVE OneAtATime' /\ NotYetReplaced'
    BY <1>8, StateTypes DEF FixPlace, TypeOK, Row, Undecided, DteAssumption
<1> QED
    BY <1>1, <1>2, <1>3, <1>4, <1>5, <1>6, <1>7, <1>8 DEF Recording

LEMMA UndecidedNext == ASSUME Safe, [Next]_vars PROVE Undecided'
<1>1. CASE UNCHANGED vars
    BY <1>1 DEF vars, Safe, Undecided
<1>2. CASE FixRead \/ FixNothing \/ \E t \in Targets : FixPlace(t)
    BY <1>2 DEF FixRead, FixNothing, FixPlace, Resting, Undecided
<1>3. CASE Task
    BY <1>3 DEF Task, Load, Skip, GiveUp, Proceed, TradesCancelled, CancelTrade, CancelTarget,
        UpdateTarget, CreateTrade, Place, PlaceFails, SaveTrade, SavePosition, CountRefusal,
        Safe, Undecided
<1>4. CASE \/ Crash \/ NextDay \/ Recording \/ SyncRead \/ SyncSave
           \/ \E x \in Orders \cup Targets : BrokerFills(x)
           \/ \E o \in Orders : BrokerEnds(o)
           \/ \E t \in Targets : RecordTarget(t)
    BY <1>4 DEF Crash, NextDay, Recording, RecordClosed, RecordTrade, RecordTarget, SyncRead,
        SyncSave, BrokerFills, BrokerEnds, Safe, Undecided
<1> QED
    BY <1>1, <1>2, <1>3, <1>4 DEF Next

LEMMA SafeNext == ASSUME DteAssumption, Safe, [Next]_vars PROVE Safe'
<1>1. Typed' /\ Undecided'
    BY TypedNext, UndecidedNext DEF Safe
<1>2. CASE UNCHANGED vars
    BY <1>1, <1>2 DEF vars, Safe, OneAtATime, Known, NotYetReplaced, Unexplained, Live
<1> QED
    BY <1>1, <1>2, TaskOneAtATime, TaskNotYetReplaced, OthersSafe DEF Safe, Next

LEMMA AlwaysSafe == Spec => []Safe
    BY SafeInit, SafeNext, DteAssumption, PTL DEF Spec

\* However runs, days, syncs and crashes interleave, for any number of
\* closing orders, two of them work at the same time only when the broker's
\* answer about one of them was lost (dte_manager.py cancels the rows that may
\* still work before it writes the row of the next order).
THEOREM NeverTwoClosingOrders == Spec => []OneClosingOrder
<1>1. Safe => OneClosingOrder
    <2> SUFFICES ASSUME Safe PROVE OneClosingOrder
        OBVIOUS
    <2>1. Known = {} \/ \E o \in Orders : Known = {o}
        BY DEF Safe, OneAtATime, Known
    <2>2. Cardinality(Known) <= 1
        <3>1. CASE Known = {}
            BY <3>1, FS_EmptySet
        <3>2. ASSUME NEW o \in Orders, Known = {o} PROVE Cardinality(Known) <= 1
            <4>1. Cardinality(Known) = 1
                BY <3>2, FS_Singleton, Zenon
            <4> QED
                BY <4>1
        <3> QED
            BY <2>1, <3>1, <3>2
    <2> QED
        BY <2>2 DEF OneClosingOrder, Known
<1> QED
    BY <1>1, AlwaysSafe, PTL

\* For any number of targets: while a closing order works, a profit target
\* works beside it only when its cancel failed or the reconciliation
\* re-created it from a row that had no DTE state yet (dte_manager.py:282,
\* trade_reconciliation_service.py:724).
THEOREM ClosingReplacesTargets == Spec => []TargetsStayReplaced
<1>1. Safe => TargetsStayReplaced
    BY DEF Safe, NotYetReplaced, Unexplained, TargetsStayReplaced
<1> QED
    BY <1>1, AlwaysSafe, PTL

=============================================================================
