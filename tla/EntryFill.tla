------------------------------ MODULE EntryFill ------------------------------
(***************************************************************************)
(* The opening order of one position has filled at the broker.  Three      *)
(* kinds of process learn of it and create the position's profit targets:  *)
(*                                                                         *)
(*   Workers  - deliveries of the fill event to handle_order_event, in     *)
(*              the web container and in Celery workers; they create the   *)
(*              targets under the "profit_targets_creating" mark           *)
(*              (streaming/services/order_event_processor.py);             *)
(*   Monitors - passes of the Celery task monitor_open_orders, which polls *)
(*              the broker (trading/tasks.py);                             *)
(*   Fixers   - passes of fix_stuck_positions                              *)
(*              (services/positions/lifecycle/                             *)
(*              trade_reconciliation_service.py).                          *)
(*                                                                         *)
(* Monitors and Fixers create targets with create_profit_targets_sync      *)
(* (services/execution/order_service.py), which takes no lock.  Each       *)
(* database statement is one action; what a process p read earlier is kept *)
(* in readPos[p] and readTrade[p], so a full save() writes that back.      *)
(***************************************************************************)
EXTENDS Integers, Sequences

CONSTANTS
  Workers,      \* deliveries of the fill event
  Monitors,     \* passes of monitor_open_orders that reach this trade
  Fixers,       \* passes of fix_stuck_positions that reach this position
  NumTargets,   \* how many profit targets the strategy specifies
  Failures,     \* the failures that may happen, a subset of FailureKinds
  NoMark        \* metadata holds no "profit_targets_creating"

FailureKinds ==
  { "crash",    \* a process dies between two statements
    "reject",   \* the broker refuses a profit target
    "raise",    \* an exception inside the creation, caught by its handler
    "leave",    \* an early return of the creation (preferences, no specs)
    "slow" }    \* the creation takes longer than its five minutes

Pollers == Monitors \cup Fixers
Procs   == Workers \cup Pollers
Targets == 1..NumTargets

ASSUME EntryFillAssumption ==
  /\ NumTargets \in Nat \ {0}
  /\ Failures \subseteq FailureKinds
  /\ NoMark \notin Workers
  /\ Workers \cap Pollers = {}
  /\ Monitors \cap Fixers = {}

VARIABLES
  position,     \* the row of the position
  trade,        \* the row of its opening trade
  placed,       \* the broker's accepted targets: order i closes spread placed[i]
  expired,      \* workers whose mark is more than five minutes old
  markLost,     \* history: a mark expired or was overwritten by a stale row
  pc,           \* where each process is
  readPos,      \* the position row as each process last read it
  readTrade,    \* and the trade row
  next,         \* the profit target each process submits next
  ids,          \* order_ids: what the broker accepted of it, in order
  got           \* the same ids by the spread they are for

local == <<readPos, readTrade, next, ids, got>>
vars == <<position, trade, placed, expired, markLost, pc, local>>

Absent == -1    \* profit_target_details has no entry for the spread
Null   == 0     \* it has one whose order_id is None

DetailValues == Nat \cup {Absent}

PositionRow ==
  [ lifecycle : {"pending_entry", "open_full"},
    created   : BOOLEAN,
    mark      : Workers \cup {NoMark},
    details   : [Targets -> DetailValues] ]

TradeRow == [status : {"submitted", "filled"}, child : SUBSET Nat]

Locations ==
  { "idle", "open", "load", "sync", "save", "acquire", "acquired", "submit",
    "children", "details", "clear", "poll", "fetch", "find", "stuck", "unstick",
    "savepos", "savetrade", "record", "reopen", "done", "crashed" }

\* Where a process can be once it has tried every target.
PastSubmit ==
  { "children", "details", "clear", "savepos", "savetrade", "record", "reopen",
    "done", "crashed" }

InitPosition ==
  [ lifecycle |-> "pending_entry", created |-> FALSE, mark |-> NoMark,
    details |-> [t \in Targets |-> Absent] ]

InitTrade == [status |-> "submitted", child |-> {}]

Init ==
  /\ position = InitPosition
  /\ trade = InitTrade
  /\ placed = <<>>
  /\ expired = {}
  /\ markLost = FALSE
  /\ pc = [p \in Procs |-> "idle"]
  /\ readPos = [p \in Procs |-> InitPosition]
  /\ readTrade = [p \in Procs |-> InitTrade]
  /\ next = [p \in Procs |-> 1]
  /\ ids = [p \in Procs |-> <<>>]
  /\ got = [p \in Procs |-> [t \in Targets |-> Absent]]

-----------------------------------------------------------------------------
Goto(p, l) == pc' = [pc EXCEPT ![p] = l]

\* Process p reads its rows anew; what it has submitted is not touched.
ReadRows(p, pos, trd) ==
  /\ readPos' = [readPos EXCEPT ![p] = pos]
  /\ readTrade' = [readTrade EXCEPT ![p] = trd]
  /\ UNCHANGED <<next, ids, got>>

\* A row written from an older read loses the mark that is in the database now.
WritePosition(row) ==
  /\ position' = row
  /\ markLost' = (markLost \/ row.mark # position.mark)

OrderIds(p)     == {ids[p][i] : i \in 1..Len(ids[p])}
AllSucceeded(p) == Len(ids[p]) = NumTargets

(***************************************************************************)
(* Workers: handle_order_event for the fill of the opening order.          *)
(***************************************************************************)

\* The trade is read by broker_order_id; an unchanged status ends the handler.
ReadTrade(w) ==
  /\ pc[w] = "idle"
  /\ ReadRows(w, readPos[w], trade)
  /\ Goto(w, IF trade.status = "filled" THEN "done" ELSE "open")
  /\ UNCHANGED <<position, trade, placed, expired, markLost>>

\* position.lifecycle_state = "open_full", whatever it was.
OpenPosition(w) ==
  /\ pc[w] = "open"
  /\ WritePosition([position EXCEPT !.lifecycle = "open_full"])
  /\ Goto(w, "load")
  /\ UNCHANGED <<trade, placed, expired, local>>

\* sync_all_positions loads the app-managed positions ...
SyncLoad(w) ==
  /\ pc[w] = "load"
  /\ ReadRows(w, position, readTrade[w])
  /\ Goto(w, "sync")
  /\ UNCHANGED <<position, trade, placed, expired, markLost>>

\* ... and saves each one's metadata as it was loaded, with the new legs.
SyncSave(w) ==
  /\ pc[w] = "sync"
  /\ WritePosition([position EXCEPT !.mark = readPos[w].mark])
  /\ Goto(w, "save")
  /\ UNCHANGED <<trade, placed, expired, local>>

\* The sync skips the position or fails: the handler swallows the exception.
SyncSkip(w) ==
  /\ pc[w] = "sync"
  /\ Goto(w, "save")
  /\ UNCHANGED <<position, trade, placed, expired, markLost, local>>

\* trade.asave() writes every field of the row read at the start.
SaveTrade(w) ==
  /\ pc[w] = "save"
  /\ trade' = [readTrade[w] EXCEPT !.status = "filled"]
  /\ Goto(w, IF readTrade[w].child = {} THEN "acquire" ELSE "done")
  /\ UNCHANGED <<position, placed, expired, markLost, local>>

MarkHeld == position.mark # NoMark /\ position.mark \notin expired

\* Mutant: a mark that another delivery holds is ignored.
AcquireIgnoringMark(w) ==
  /\ pc[w] = "acquire"
  /\ IF trade.child # {} \/ position.created
       THEN Goto(w, "done") /\ UNCHANGED position
       ELSE Goto(w, "acquired") /\ position' = [position EXCEPT !.mark = w]
  /\ UNCHANGED <<trade, placed, expired, markLost, local>>

\* Mutant: only child_order_ids is checked, as before the second check was added.
AcquireByChildren(w) ==
  /\ pc[w] = "acquire"
  /\ IF trade.child # {} \/ MarkHeld
       THEN Goto(w, "done") /\ UNCHANGED position
       ELSE Goto(w, "acquired") /\ position' = [position EXCEPT !.mark = w]
  /\ UNCHANGED <<trade, placed, expired, markLost, local>>

\* acquire_lock_and_mark_in_progress, under select_for_update on both rows.
Acquire(w) ==
  /\ pc[w] = "acquire"
  /\ IF trade.child # {} \/ position.created \/ MarkHeld
       THEN Goto(w, "done") /\ UNCHANGED position
       ELSE Goto(w, "acquired") /\ position' = [position EXCEPT !.mark = w]
  /\ UNCHANGED <<trade, placed, expired, markLost, local>>

\* Specs were generated: go on to submit them.
StartSubmitting(w) ==
  /\ pc[w] = "acquired"
  /\ Goto(w, "submit")
  /\ UNCHANGED <<position, trade, placed, expired, markLost, local>>

\* No account, automatic targets disabled, unknown strategy, or no specs.
LeaveEarly(w) ==
  /\ "leave" \in Failures
  /\ pc[w] = "acquired"
  /\ Goto(w, "done")
  /\ UNCHANGED <<position, trade, placed, expired, markLost, local>>

\* An exception inside the creation, or an external position: only the mark goes.
Abandon(w) ==
  /\ "raise" \in Failures
  /\ pc[w] \in {"acquired", "children", "details"}
  /\ Goto(w, "clear")
  /\ UNCHANGED <<position, trade, placed, expired, markLost, local>>

\* trade.child_order_ids = order_ids, even a partial or empty list.
SaveChildren(w) ==
  /\ pc[w] = "children"
  /\ trade' = [trade EXCEPT !.child = OrderIds(w)]
  /\ Goto(w, "details")
  /\ UNCHANGED <<position, placed, expired, markLost, local>>

\* Mutant: targets count as created once any of them is.
SaveDetailsOfSome(w) ==
  /\ pc[w] = "details"
  /\ position' =
       [position EXCEPT
          !.details = [t \in Targets |->
                         IF t <= Len(ids[w]) THEN ids[w][t] ELSE Null],
          !.created = @ \/ ids[w] # <<>>]
  /\ Goto(w, "clear")
  /\ UNCHANGED <<trade, placed, expired, markLost, local>>

\* Mutant: the ids are counted from the wrong end of the index.
SaveDetailsShifted(w) ==
  /\ pc[w] = "details"
  /\ position' =
       [position EXCEPT
          !.details = [t \in Targets |->
                         IF t < Len(ids[w]) THEN ids[w][t + 1] ELSE Null],
          !.created = @ \/ AllSucceeded(w)]
  /\ Goto(w, "clear")
  /\ UNCHANGED <<trade, placed, expired, markLost, local>>

\* The i-th spec is given the i-th accepted id, whichever spec that id is of.
SaveDetails(w) ==
  /\ pc[w] = "details"
  /\ position' =
       [position EXCEPT
          !.details = [t \in Targets |->
                         IF t <= Len(ids[w]) THEN ids[w][t] ELSE Null],
          !.created = @ \/ AllSucceeded(w)]
  /\ Goto(w, "clear")
  /\ UNCHANGED <<trade, placed, expired, markLost, local>>

\* _clear_creating_flag removes the mark, whoever set it.
ClearMark(w) ==
  /\ pc[w] = "clear"
  /\ position' = [position EXCEPT !.mark = NoMark]
  /\ Goto(w, "done")
  /\ UNCHANGED <<trade, placed, expired, markLost, local>>

\* Five minutes pass while the mark of w stands.
MarkExpires(w) ==
  /\ "slow" \in Failures
  /\ position.mark = w
  /\ w \notin expired
  /\ expired' = expired \cup {w}
  /\ markLost' = TRUE
  /\ UNCHANGED <<position, trade, placed, pc, local>>

(***************************************************************************)
(* Submitting the specs one by one: execute_order_spec, from both paths.   *)
(***************************************************************************)
\* Where p goes after the last spec: a poller without any order saves nothing.
AfterSubmit(p, some) ==
  IF p \in Workers THEN "children" ELSE IF some THEN "savepos" ELSE "done"

\* Mutant: one attempt too many.
AdvanceTooFar(p, some) ==
  /\ next' = [next EXCEPT ![p] = @ + 1]
  /\ Goto(p, IF next[p] > NumTargets THEN AfterSubmit(p, some) ELSE "submit")

Advance(p, some) ==
  /\ next' = [next EXCEPT ![p] = @ + 1]
  /\ Goto(p, IF next[p] = NumTargets THEN AfterSubmit(p, some) ELSE "submit")

Accepted(p) ==
  LET id == Len(placed) + 1
  IN /\ pc[p] = "submit"
     /\ placed' = Append(placed, next[p])
     /\ ids' = [ids EXCEPT ![p] = Append(@, id)]
     /\ got' = [got EXCEPT ![p][next[p]] = id]
     /\ Advance(p, TRUE)
     /\ UNCHANGED <<position, trade, expired, markLost, readPos, readTrade>>

Refused(p) ==
  /\ "reject" \in Failures
  /\ pc[p] = "submit"
  /\ Advance(p, ids[p] # <<>>)
  /\ UNCHANGED <<position, trade, placed, expired, markLost>>
  /\ UNCHANGED <<readPos, readTrade, ids, got>>

(***************************************************************************)
(* Pollers: how a monitor and a fixer come to create the targets, and the  *)
(* tail of create_profit_targets_sync with what its callers do after it.   *)
(***************************************************************************)

\* monitor_open_orders lists the trades whose status is still open.
MonitorList(m) ==
  /\ pc[m] = "idle"
  /\ trade.status = "submitted"
  /\ Goto(m, "poll")
  /\ UNCHANGED <<position, trade, placed, expired, markLost, local>>

\* _check_trade_status: the broker says filled; _update_trade_record_async.
MonitorPoll(m) ==
  /\ pc[m] = "poll"
  /\ trade' = [trade EXCEPT !.status = "filled"]
  /\ Goto(m, "fetch")
  /\ UNCHANGED <<position, placed, expired, markLost, local>>

\* _handle_order_fill reads the position and looks only at its created field.
MonitorFetch(m) ==
  /\ pc[m] = "fetch"
  /\ ReadRows(m, position, readTrade[m])
  /\ Goto(m, IF position.created THEN "done" ELSE "find")
  /\ UNCHANGED <<position, trade, placed, expired, markLost>>

\* create_profit_targets_sync then reads the trade anew.
MonitorFind(m) ==
  /\ pc[m] = "find"
  /\ ReadRows(m, readPos[m], trade)
  /\ Goto(m, "submit")
  /\ UNCHANGED <<position, trade, placed, expired, markLost>>

\* fix_stuck_positions lists the positions in pending_entry.
FixerList(f) ==
  /\ pc[f] = "idle"
  /\ position.lifecycle = "pending_entry"
  /\ ReadRows(f, [position EXCEPT !.lifecycle = "open_full"], readTrade[f])
  /\ Goto(f, "stuck")
  /\ UNCHANGED <<position, trade, placed, expired, markLost>>

\* The order history says filled: the trade is brought up to date.
FixerTrade(f) ==
  /\ pc[f] = "stuck"
  /\ trade' = [trade EXCEPT !.status = "filled"]
  /\ Goto(f, "unstick")
  /\ UNCHANGED <<position, placed, expired, markLost, local>>

\* The position goes to open_full and, on the listed row, lacks its targets.
FixerOpen(f) ==
  /\ pc[f] = "unstick"
  /\ WritePosition([position EXCEPT !.lifecycle = "open_full"])
  /\ ReadRows(f, readPos[f], trade)
  /\ Goto(f, IF readPos[f].created THEN "done" ELSE "submit")
  /\ UNCHANGED <<trade, placed, expired>>

\* position.save(): every field of the row read before the submissions.
SavePosition(p) ==
  /\ pc[p] = "savepos"
  /\ WritePosition(
       [readPos[p] EXCEPT
          !.details = got[p],
          !.created = AllSucceeded(p)])
  /\ Goto(p, "savetrade")
  /\ UNCHANGED <<trade, placed, expired, local>>

\* trade.save(): likewise, with the new child_order_ids.
SaveWholeTrade(p) ==
  /\ pc[p] = "savetrade"
  /\ trade' = [readTrade[p] EXCEPT !.child = OrderIds(p)]
  /\ Goto(p, "record")
  /\ UNCHANGED <<position, placed, expired, markLost, local>>

\* Mutant: a position that the stale save put back is not opened again.
RecordChildrenOnly(p) ==
  /\ pc[p] = "record"
  /\ trade' = [trade EXCEPT !.child = OrderIds(p)]
  /\ Goto(p, "done")
  /\ UNCHANGED <<position, placed, expired, markLost, local>>

\* The caller writes child_order_ids once more.
RecordChildren(p) ==
  /\ pc[p] = "record"
  /\ trade' = [trade EXCEPT !.child = OrderIds(p)]
  /\ Goto(p, IF p \in Monitors /\ readPos[p].lifecycle = "pending_entry"
               THEN "reopen" ELSE "done")
  /\ UNCHANGED <<position, placed, expired, markLost, local>>

\* _handle_order_fill opens a position that was in pending_entry when read.
MonitorOpen(m) ==
  /\ pc[m] = "reopen"
  /\ WritePosition([position EXCEPT !.lifecycle = "open_full"])
  /\ Goto(m, "done")
  /\ UNCHANGED <<trade, placed, expired, local>>

\* A process dies: its rows stay as they are, its mark too.
Crash(p) ==
  /\ "crash" \in Failures
  /\ pc[p] \notin {"idle", "done", "crashed"}
  /\ Goto(p, "crashed")
  /\ UNCHANGED <<position, trade, placed, expired, markLost, local>>

-----------------------------------------------------------------------------
WorkerStep(w) ==
  \/ ReadTrade(w) \/ OpenPosition(w) \/ SyncLoad(w) \/ SyncSave(w) \/ SyncSkip(w)
  \/ SaveTrade(w) \/ Acquire(w) \/ StartSubmitting(w) \/ LeaveEarly(w)
  \/ Abandon(w) \/ SaveChildren(w) \/ SaveDetails(w) \/ ClearMark(w)

MonitorStep(m) ==
  MonitorList(m) \/ MonitorPoll(m) \/ MonitorFetch(m) \/ MonitorFind(m)
  \/ MonitorOpen(m)

FixerStep(f) == FixerList(f) \/ FixerTrade(f) \/ FixerOpen(f)

PollerStep(p) == SavePosition(p) \/ SaveWholeTrade(p) \/ RecordChildren(p)

SubmitStep(p) == Accepted(p) \/ Refused(p)

Next ==
  \/ \E w \in Workers : WorkerStep(w)
  \/ \E w \in Workers : MarkExpires(w)
  \/ \E m \in Monitors : MonitorStep(m)
  \/ \E f \in Fixers : FixerStep(f)
  \/ \E p \in Pollers : PollerStep(p)
  \/ \E p \in Procs : SubmitStep(p)
  \/ \E p \in Procs : Crash(p)

Spec == Init /\ [][Next]_vars

\* A task or handler that has started runs on: asyncio and Celery schedule it.
ProcStep(p) ==
  \/ p \in Workers /\ WorkerStep(p)
  \/ p \in Monitors /\ MonitorStep(p)
  \/ p \in Fixers /\ FixerStep(p)
  \/ p \in Pollers /\ PollerStep(p)
  \/ SubmitStep(p)

FairSpec == Spec /\ \A p \in Procs : WF_vars(ProcStep(p))

-----------------------------------------------------------------------------
(***************************************************************************)
(* Properties.                                                             *)
(***************************************************************************)

\* The rows, the broker's orders and every process keep their shape: in
\* particular each process stays within the statements of its handler.
TypeOK ==
  /\ position \in PositionRow
  /\ trade \in TradeRow
  /\ placed \in Seq(Targets)
  /\ expired \subseteq Workers
  /\ markLost \in BOOLEAN
  /\ pc \in [Procs -> Locations]
  /\ readPos \in [Procs -> PositionRow]
  /\ readTrade \in [Procs -> TradeRow]
  /\ next \in [Procs -> 1..(NumTargets + 1)]
  /\ ids \in [Procs -> Seq(Nat)]
  /\ got \in [Procs -> [Targets -> DetailValues]]
  /\ \A p \in Procs : next[p] > NumTargets => pc[p] \in PastSubmit

\* The workers between their acquisition and the clearing of their mark.
Creating == {w \in Workers : pc[w] \in {"acquired", "submit", "children", "details"}}

\* Two deliveries of the fill event never create profit targets at the same
\* time, unless a mark outlived its five minutes or a full save of an older
\* row wiped it: the lock of _create_profit_targets_for_trade does its work.
OneCreator == ~markLost => \A v, w \in Creating : v = w

\* At most one order was ever placed for each spread of the position.
OneSetOfTargets ==
  \A i, j \in 1..Len(placed) : placed[i] = placed[j] => i = j

\* Once the targets count as created no delivery places another one while no mark
\* is lost, also when a later delivery's stale trade.asave() has emptied the
\* child_order_ids that _create_profit_targets_for_trade checks first.
CreatedEndsPlacing ==
  [][~markLost /\ position.created => \A w \in Workers : ids'[w] = ids[w]]_vars

\* profit_targets_created is only ever TRUE of a position each of whose
\* spreads has its own order recorded, so reconciliation may skip it.
CreatedMeansComplete ==
  ~markLost /\ position.created =>
    \A t \in Targets :
      /\ position.details[t] \in 1..Len(placed)
      /\ placed[position.details[t]] = t

\* Each id in these details is that of an order placed for its own spread.
Aligned(details) ==
  \A t \in Targets :
    details[t] > Null =>
      details[t] <= Len(placed) /\ placed[details[t]] = t

\* An order id recorded under a spread is the id of that spread's order, the
\* one whose fill must be booked against that spread's credit.
TargetsAligned == Aligned(position.details)

\* A worker that has returned leaves no mark of its own behind: the docstring
\* of _create_profit_targets_for_trade, step 6.
MarkReleased == \A w \in Workers : pc[w] = "done" => position.mark # w

\* Whatever the interleaving of the three detectors, a filled entry ends up,
\* for good, as an open position with its targets created and a filled trade.
EntrySettles ==
  <>[](/\ position.lifecycle = "open_full"
       /\ position.created
       /\ trade.status = "filled")

=============================================================================
