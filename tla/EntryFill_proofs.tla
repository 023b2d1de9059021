-------------------------- MODULE EntryFill_proofs --------------------------
(***************************************************************************)
(* Proofs about EntryFill for any number of deliveries, polling passes and *)
(* profit targets: the types, and the mutual exclusion that the creating   *)
(* mark gives the event deliveries.                                        *)
(***************************************************************************)
EXTENDS EntryFill, TLAPS

\* What a process has recorded of the broker's answers is a set of order ids.
LEMMA OrderIdsAreNumbers ==
  ASSUME NEW s \in Seq(Nat) PROVE {s[i] : i \in 1..Len(s)} \subseteq Nat
  OBVIOUS

\* The details a worker writes are order ids, or None for the missing ones.
LEMMA DetailsFromIds ==
  ASSUME NEW s \in Seq(Nat)
  PROVE  [t \in Targets |-> IF t <= Len(s) THEN s[t] ELSE Null]
           \in [Targets -> DetailValues]
  BY EntryFillAssumption DEF Targets, DetailValues, Null

\* Every action keeps the rows and the processes within their types.
LEMMA TypeStep == TypeOK /\ [Next]_vars => TypeOK'
<1> SUFFICES ASSUME TypeOK, [Next]_vars PROVE TypeOK'
  OBVIOUS
<1> USE DEF TypeOK, PastSubmit, local, Procs, Pollers
<1>1. CASE UNCHANGED vars
  BY <1>1 DEF vars, local
<1>2. ASSUME NEW w \in Workers, WorkerStep(w) PROVE TypeOK'
  <2>1. CASE ReadTrade(w)
    BY <2>1 DEF ReadTrade, ReadRows, Goto, Locations
  <2>2. CASE OpenPosition(w)
    BY <2>2 DEF OpenPosition, PositionRow, WritePosition, Goto, Locations
  <2>3. CASE SyncLoad(w)
    BY <2>3 DEF SyncLoad, ReadRows, Goto, Locations
  <2>4. CASE SyncSave(w)
    BY <2>4 DEF SyncSave, PositionRow, WritePosition, Goto, Locations
  <2>5. CASE SyncSkip(w)
    BY <2>5 DEF SyncSkip, Goto, Locations
  <2>6. CASE SaveTrade(w)
    BY <2>6 DEF SaveTrade, TradeRow, Goto, Locations
  <2>7. CASE Acquire(w)
    BY <2>7 DEF Acquire, PositionRow, Goto, Locations
  <2>8. CASE StartSubmitting(w)
    BY <2>8 DEF StartSubmitting, Goto, Locations
  <2>9. CASE LeaveEarly(w)
    BY <2>9 DEF LeaveEarly, Goto, Locations
  <2>10. CASE Abandon(w)
    BY <2>10 DEF Abandon, Goto, Locations
  <2>11. CASE SaveChildren(w)
    <3>1. OrderIds(w) \subseteq Nat
      BY OrderIdsAreNumbers DEF OrderIds
    <3> QED
      BY <2>11, <3>1 DEF SaveChildren, Goto, Locations, TradeRow
  <2>12. CASE SaveDetails(w)
    <3>1. [t \in Targets |-> IF t <= Len(ids[w]) THEN ids[w][t] ELSE Null]
            \in [Targets -> DetailValues]
      BY DetailsFromIds
    <3>2. position' \in PositionRow
      BY <2>12, <3>1 DEF SaveDetails, AllSucceeded, PositionRow
    <3> QED
      BY <2>12, <3>2 DEF SaveDetails, Goto, Locations
  <2>13. CASE ClearMark(w)
    BY <2>13 DEF ClearMark, PositionRow, Goto, Locations
  <2> QED
    BY <1>2, <2>1, <2>2, <2>3, <2>4, <2>5, <2>6, <2>7, <2>8, <2>9, <2>10,
       <2>11, <2>12, <2>13 DEF WorkerStep
<1>3. ASSUME NEW w \in Workers, MarkExpires(w) PROVE TypeOK'
  BY <1>3 DEF MarkExpires
<1>4. ASSUME NEW m \in Monitors, MonitorStep(m) PROVE TypeOK'
  <2>1. CASE MonitorList(m)
    BY <2>1 DEF MonitorList, Goto, Locations
  <2>2. CASE MonitorPoll(m)
    BY <2>2 DEF MonitorPoll, TradeRow, Goto, Locations
  <2>3. CASE MonitorFetch(m)
    BY <2>3 DEF MonitorFetch, ReadRows, Goto, Locations
  <2>3a. CASE MonitorFind(m)
    BY <2>3a DEF MonitorFind, ReadRows, Goto, Locations
  <2>4. CASE MonitorOpen(m)
    BY <2>4 DEF MonitorOpen, PositionRow, WritePosition, Goto, Locations
  <2> QED
    BY <1>4, <2>1, <2>2, <2>3, <2>3a, <2>4 DEF MonitorStep
<1>5. ASSUME NEW f \in Fixers, FixerStep(f) PROVE TypeOK'
  <2>1. CASE FixerList(f)
    BY <2>1 DEF FixerList, ReadRows, PositionRow, Goto, Locations
  <2>2. CASE FixerTrade(f)
    BY <2>2 DEF FixerTrade, TradeRow, Goto, Locations
  <2>3. CASE FixerOpen(f)
    BY <2>3 DEF FixerOpen, ReadRows, PositionRow, WritePosition, Goto, Locations
  <2> QED
    BY <1>5, <2>1, <2>2, <2>3 DEF FixerStep
<1>6. ASSUME NEW p \in Pollers, PollerStep(p) PROVE TypeOK'
  <2>1. CASE SavePosition(p)
    BY <2>1 DEF SavePosition, PositionRow, WritePosition, AllSucceeded, Goto, Locations
  <2>2. CASE SaveWholeTrade(p)
    <3>1. OrderIds(p) \subseteq Nat
      BY OrderIdsAreNumbers DEF OrderIds
    <3> QED
      BY <2>2, <3>1 DEF SaveWholeTrade, Goto, Locations, TradeRow
  <2>3. CASE RecordChildren(p)
    <3>1. OrderIds(p) \subseteq Nat
      BY OrderIdsAreNumbers DEF OrderIds
    <3> QED
      BY <2>3, <3>1 DEF RecordChildren, Goto, Locations, TradeRow
  <2> QED
    BY <1>6, <2>1, <2>2, <2>3 DEF PollerStep
<1>7. ASSUME NEW p \in Procs, SubmitStep(p) PROVE TypeOK'
  <2>1. pc[p] = "submit" /\ next[p] \in Targets
    <3>1. pc[p] = "submit"
      BY <1>7 DEF SubmitStep, Accepted, Refused
    <3>2. next[p] \in 1..(NumTargets + 1) /\ ~(next[p] > NumTargets)
      BY <3>1
    <3> QED
      BY <3>1, <3>2, EntryFillAssumption DEF Targets
  <2>2. ASSUME NEW some \in BOOLEAN, Advance(p, some)
        PROVE  /\ pc' \in [Procs -> Locations]
               /\ next' \in [Procs -> 1..(NumTargets + 1)]
               /\ \A q \in Procs : next'[q] > NumTargets => pc'[q] \in PastSubmit
    BY <2>1, <2>2, EntryFillAssumption
       DEF Advance, AfterSubmit, Goto, Locations, Targets
  <2>3. CASE Accepted(p)
    <3>1. placed' \in Seq(Targets)
      BY <2>1, <2>3 DEF Accepted
    <3>2. ids' \in [Procs -> Seq(Nat)]
      <4>1. Append(ids[p], Len(placed) + 1) \in Seq(Nat)
        OBVIOUS
      <4> QED
        BY <2>3, <4>1 DEF Accepted
    <3>3. got' \in [Procs -> [Targets -> DetailValues]]
      BY <2>1, <2>3 DEF Accepted, DetailValues
    <3> QED
      BY <2>2, <2>3, <3>1, <3>2, <3>3 DEF Accepted
  <2>4. CASE Refused(p)
    BY <2>2, <2>4 DEF Refused
  <2> QED
    BY <1>7, <2>3, <2>4 DEF SubmitStep
<1>8. ASSUME NEW p \in Procs, Crash(p) PROVE TypeOK'
  BY <1>8 DEF Crash, Goto, Locations
<1> QED
  BY <1>1, <1>2, <1>3, <1>4, <1>5, <1>6, <1>7, <1>8 DEF Next

\* The rows and the processes of every behaviour keep their types.
THEOREM TypeCorrect == Spec => []TypeOK
<1>1. Init => TypeOK
  <2> SUFFICES ASSUME Init PROVE TypeOK
    OBVIOUS
  <2>1. InitPosition \in PositionRow /\ InitTrade \in TradeRow
    BY DEF InitPosition, InitTrade, PositionRow, TradeRow, DetailValues, Absent
  <2>2. [t \in Targets |-> Absent] \in [Targets -> DetailValues]
    BY DEF DetailValues
  <2>3. <<>> \in Seq(Targets) /\ <<>> \in Seq(Nat)
    OBVIOUS
  <2>4. ids \in [Procs -> Seq(Nat)]
    BY <2>3 DEF Init
  <2>5. \A p \in Procs : next[p] = 1
    BY DEF Init
  <2>6. pc \in [Procs -> Locations]
    BY DEF Init, Locations
  <2>7. next \in [Procs -> 1..(NumTargets + 1)]
    BY EntryFillAssumption DEF Init
  <2>8. \A p \in Procs : ~(next[p] > NumTargets)
    BY <2>5, EntryFillAssumption
  <2> QED
    BY <2>1, <2>2, <2>3, <2>4, <2>6, <2>7, <2>8 DEF Init, TypeOK
<1> QED
  BY <1>1, TypeStep, PTL DEF Spec

-----------------------------------------------------------------------------
\* The workers between their acquisition and the removal of their mark.
Holding == {w \in Workers : pc[w] \in {"acquired", "submit", "children", "details", "clear"}}

\* Why OneCreator holds: as long as no mark is lost, none has expired, and the
\* mark in the row is that of every worker that believes to hold it.
MarkOwned == ~markLost => expired = {} /\ \A w \in Holding : position.mark = w

\* A step that neither sends a worker into the creation nor touches the mark
\* without recording its loss keeps MarkOwned.
LEMMA QuietStep ==
  ASSUME MarkOwned, Holding' \subseteq Holding, expired' = expired,
         markLost' = (markLost \/ position'.mark # position.mark)
  PROVE  MarkOwned'
  BY DEF MarkOwned

\* Only Acquire puts a worker under the mark, and it takes the mark as it does.
LEMMA MarkStep == TypeOK /\ MarkOwned /\ [Next]_vars => MarkOwned'
<1> SUFFICES ASSUME TypeOK, MarkOwned, [Next]_vars PROVE MarkOwned'
  OBVIOUS
<1>t. /\ pc \in [Procs -> Locations]
      /\ markLost \in BOOLEAN
      /\ position \in PositionRow
  BY DEF TypeOK
<1> USE <1>t, EntryFillAssumption DEF Procs, Pollers
<1>1. CASE UNCHANGED vars
  BY <1>1 DEF vars, MarkOwned, Holding
<1>2. ASSUME NEW w \in Workers, WorkerStep(w) PROVE MarkOwned'
  <2>1. CASE ReadTrade(w)
    BY <2>1, QuietStep DEF ReadTrade, Goto, Holding
  <2>2. CASE OpenPosition(w)
    BY <2>2, QuietStep DEF OpenPosition, WritePosition, Goto, Holding
  <2>3. CASE SyncLoad(w)
    BY <2>3, QuietStep DEF SyncLoad, Goto, Holding
  <2>4. CASE SyncSave(w)
    <3>1. Holding' \subseteq Holding
      BY <2>4 DEF SyncSave, Goto, Holding
    <3>2. markLost' = (markLost \/ position'.mark # position.mark)
      BY <2>4 DEF SyncSave, WritePosition
    <3> QED
      BY <2>4, <3>1, <3>2, QuietStep DEF SyncSave
  <2>5. CASE SyncSkip(w)
    BY <2>5, QuietStep DEF SyncSkip, Goto, Holding
  <2>6. CASE SaveTrade(w)
    BY <2>6, QuietStep DEF SaveTrade, Goto, Holding
  <2>7. CASE Acquire(w)
    <3>1. CASE trade.child # {} \/ position.created \/ MarkHeld
      BY <2>7, <3>1, QuietStep DEF Acquire, Goto, Holding
    <3>2. CASE ~(trade.child # {} \/ position.created \/ MarkHeld)
      <4>1. position'.mark = w /\ Holding' = Holding \cup {w}
        BY <2>7, <3>2 DEF Acquire, Goto, Holding, PositionRow
      <4>2. ~markLost => Holding = {}
        BY <3>2 DEF MarkHeld, MarkOwned, Holding
      <4> QED
        BY <2>7, <4>1, <4>2 DEF Acquire, MarkOwned
    <3> QED
      BY <3>1, <3>2
  <2>8. CASE StartSubmitting(w)
    BY <2>8, QuietStep DEF StartSubmitting, Goto, Holding
  <2>9. CASE LeaveEarly(w)
    BY <2>9, QuietStep DEF LeaveEarly, Goto, Holding
  <2>10. CASE Abandon(w)
    BY <2>10, QuietStep DEF Abandon, Goto, Holding
  <2>11. CASE SaveChildren(w)
    BY <2>11, QuietStep DEF SaveChildren, Goto, Holding
  <2>12. CASE SaveDetails(w)
    <3>1. Holding' \subseteq Holding
      BY <2>12 DEF SaveDetails, Goto, Holding
    <3>2. position'.mark = position.mark
      BY <2>12 DEF SaveDetails, PositionRow
    <3> QED
      BY <2>12, <3>1, <3>2, QuietStep DEF SaveDetails
  <2>13. CASE ClearMark(w)
    <3>1. w \in Holding /\ Holding' = Holding \ {w}
      BY <2>13 DEF ClearMark, Goto, Holding
    <3>2. ~markLost => Holding' = {}
      BY <3>1 DEF MarkOwned
    <3> QED
      BY <2>13, <3>2 DEF ClearMark, MarkOwned
  <2> QED
    BY <1>2, <2>1, <2>2, <2>3, <2>4, <2>5, <2>6, <2>7, <2>8, <2>9, <2>10,
       <2>11, <2>12, <2>13 DEF WorkerStep
<1>3. ASSUME NEW w \in Workers, MarkExpires(w) PROVE MarkOwned'
  BY <1>3 DEF MarkExpires, MarkOwned
<1>4. ASSUME NEW m \in Monitors, MonitorStep(m) PROVE MarkOwned'
  <2>1. Holding' = Holding
    BY <1>4 DEF MonitorStep, MonitorList, MonitorPoll, MonitorFetch, MonitorFind, MonitorOpen,
                Goto, Holding
  <2>2. /\ expired' = expired
        /\ markLost' = (markLost \/ position'.mark # position.mark)
    BY <1>4 DEF MonitorStep, MonitorList, MonitorPoll, MonitorFetch, MonitorFind, MonitorOpen,
                WritePosition, PositionRow
  <2> QED
    BY <2>1, <2>2, QuietStep
<1>5. ASSUME NEW f \in Fixers, FixerStep(f) PROVE MarkOwned'
  <2>1. Holding' = Holding
    BY <1>5 DEF FixerStep, FixerList, FixerTrade, FixerOpen, Goto, Holding
  <2>2. /\ expired' = expired
        /\ markLost' = (markLost \/ position'.mark # position.mark)
    BY <1>5 DEF FixerStep, FixerList, FixerTrade, FixerOpen, WritePosition, PositionRow
  <2> QED
    BY <2>1, <2>2, QuietStep
<1>6. ASSUME NEW p \in Pollers, PollerStep(p) PROVE MarkOwned'
  <2>1. Holding' = Holding
    BY <1>6 DEF PollerStep, SavePosition, SaveWholeTrade, RecordChildren, Goto, Holding
  <2>2. /\ expired' = expired
        /\ markLost' = (markLost \/ position'.mark # position.mark)
    <3>1. CASE SavePosition(p)
      BY <3>1 DEF SavePosition, WritePosition
    <3> QED
      BY <1>6, <3>1 DEF PollerStep, SaveWholeTrade, RecordChildren
  <2> QED
    BY <2>1, <2>2, QuietStep
<1>7. ASSUME NEW p \in Procs, SubmitStep(p) PROVE MarkOwned'
  <2>1. Holding' \subseteq Holding
    BY <1>7 DEF SubmitStep, Accepted, Refused, Advance, AfterSubmit, Goto, Holding
  <2>2. UNCHANGED <<expired, markLost, position>>
    BY <1>7 DEF SubmitStep, Accepted, Refused
  <2> QED
    BY <2>1, <2>2, QuietStep
<1>8. ASSUME NEW p \in Procs, Crash(p) PROVE MarkOwned'
  BY <1>8, QuietStep DEF Crash, Goto, Holding
<1> QED
  BY <1>1, <1>2, <1>3, <1>4, <1>5, <1>6, <1>7, <1>8 DEF Next

\* The lock and the creating mark of _create_profit_targets_for_trade exclude
\* each other's holders: two deliveries of a fill create profit targets at the
\* same time only after a mark has expired or a stale row has overwritten one.
THEOREM MutualExclusion == Spec => []OneCreator
<1>1. Init => MarkOwned
  BY EntryFillAssumption DEF Init, MarkOwned, Holding, Procs
<1>2. MarkOwned => OneCreator
  BY DEF MarkOwned, OneCreator, Creating, Holding
<1> QED
  BY <1>1, <1>2, TypeCorrect, MarkStep, PTL DEF Spec

-----------------------------------------------------------------------------
\* Without a refusal a process has one id for each spec it has tried, in the
\* order of the specs, and everything it read or gathered is aligned.
GatheredInOrder ==
  \A p \in Procs :
    /\ Len(ids[p]) = next[p] - 1
    /\ \A i \in 1..Len(ids[p]) :
         ids[p][i] \in 1..Len(placed) /\ placed[ids[p][i]] = i

AllAligned ==
  /\ GatheredInOrder
  /\ Aligned(position.details)
  /\ \A p \in Procs : Aligned(readPos[p].details) /\ Aligned(got[p])

\* What is aligned stays so when the broker accepts one more order.
LEMMA AlignedMore ==
  ASSUME NEW t \in Targets, placed \in Seq(Targets), placed' = Append(placed, t),
         NEW d \in [Targets -> DetailValues], Aligned(d)
  PROVE  Aligned(d)'
  BY DEF Aligned, DetailValues, Absent, Null

\* A step that submits nothing keeps everything aligned if the details it
\* writes to the row are.
LEMMA AlignedWrite ==
  ASSUME TypeOK, AllAligned, UNCHANGED <<placed, next, ids, got>>,
         Aligned(position'.details),
         \A p \in Procs : readPos'[p].details \in {readPos[p].details, position.details}
  PROVE  AllAligned'
  BY DEF AllAligned, GatheredInOrder, Aligned

\* Every action keeps the recorded ids aligned while no target is refused.
LEMMA AlignedStep ==
  ASSUME "reject" \notin Failures
  PROVE  TypeOK /\ AllAligned /\ [Next]_vars => AllAligned'
<1> SUFFICES ASSUME TypeOK, AllAligned, [Next]_vars PROVE AllAligned'
  OBVIOUS
<1>t. /\ position \in PositionRow
      /\ readPos \in [Procs -> PositionRow]
      /\ placed \in Seq(Targets)
      /\ next \in [Procs -> 1..(NumTargets + 1)]
      /\ ids \in [Procs -> Seq(Nat)]
      /\ got \in [Procs -> [Targets -> DetailValues]]
  BY DEF TypeOK
<1>a. /\ Aligned(position.details)
      /\ \A p \in Procs : Aligned(readPos[p].details) /\ Aligned(got[p])
  BY DEF AllAligned
<1> USE <1>t, <1>a DEF local, Procs, Pollers
<1>1. CASE UNCHANGED vars
  BY <1>1, AlignedWrite DEF vars
<1>2. ASSUME NEW w \in Workers, WorkerStep(w) PROVE AllAligned'
  <2>1. UNCHANGED <<placed, next, ids, got>>
    BY <1>2 DEF WorkerStep, ReadTrade, OpenPosition, SyncLoad, SyncSave, SyncSkip,
                SaveTrade, Acquire, StartSubmitting, LeaveEarly, Abandon,
                SaveChildren, SaveDetails, ClearMark, ReadRows
  <2>2. \A p \in Procs : readPos'[p].details \in {readPos[p].details, position.details}
    BY <1>2 DEF WorkerStep, ReadTrade, OpenPosition, SyncLoad, SyncSave, SyncSkip,
                SaveTrade, Acquire, StartSubmitting, LeaveEarly, Abandon,
                SaveChildren, SaveDetails, ClearMark, ReadRows
  <2>3. CASE SaveDetails(w)
    <3>1. position'.details =
            [t \in Targets |-> IF t <= Len(ids[w]) THEN ids[w][t] ELSE Null]
      BY <2>3 DEF SaveDetails, PositionRow
    <3>2. Aligned(position'.details)
      BY <3>1, EntryFillAssumption
         DEF AllAligned, GatheredInOrder, Aligned, Targets, Null
    <3> QED
      BY <2>1, <2>2, <3>2, AlignedWrite
  <2>4. CASE ~SaveDetails(w)
    <3>1. position'.details = position.details
      BY <1>2, <2>4 DEF WorkerStep, ReadTrade, OpenPosition, SyncLoad, SyncSave,
             SyncSkip, SaveTrade, Acquire, StartSubmitting, LeaveEarly, Abandon,
             SaveChildren, ClearMark, WritePosition, PositionRow
    <3> QED
      BY <2>1, <2>2, <3>1, AlignedWrite
  <2> QED
    BY <2>3, <2>4
<1>3. ASSUME NEW w \in Workers, MarkExpires(w) PROVE AllAligned'
  BY <1>3, AlignedWrite DEF MarkExpires
<1>4. ASSUME NEW m \in Monitors, MonitorStep(m) PROVE AllAligned'
  <2>1. /\ UNCHANGED <<placed, next, ids, got>>
        /\ position'.details = position.details
        /\ \A p \in Procs : readPos'[p].details \in {readPos[p].details, position.details}
    BY <1>4 DEF MonitorStep, MonitorList, MonitorPoll, MonitorFetch, MonitorFind, MonitorOpen,
                ReadRows, WritePosition, PositionRow
  <2> QED
    BY <2>1, AlignedWrite
<1>5. ASSUME NEW f \in Fixers, FixerStep(f) PROVE AllAligned'
  <2>1. /\ UNCHANGED <<placed, next, ids, got>>
        /\ position'.details = position.details
        /\ \A p \in Procs : readPos'[p].details \in {readPos[p].details, position.details}
    BY <1>5 DEF FixerStep, FixerList, FixerTrade, FixerOpen, ReadRows, WritePosition,
                PositionRow
  <2> QED
    BY <2>1, AlignedWrite
<1>6. ASSUME NEW p \in Pollers, PollerStep(p) PROVE AllAligned'
  <2>1. UNCHANGED <<placed, next, ids, got, readPos>>
    BY <1>6 DEF PollerStep, SavePosition, SaveWholeTrade, RecordChildren
  <2>2. position'.details \in {position.details, got[p]}
    BY <1>6 DEF PollerStep, SavePosition, SaveWholeTrade, RecordChildren,
                WritePosition, PositionRow
  <2> QED
    BY <2>1, <2>2, AlignedWrite
<1>7. ASSUME NEW p \in Procs, SubmitStep(p) PROVE AllAligned'
  <2>1. Accepted(p)
    BY <1>7 DEF SubmitStep, Refused
  <2> DEFINE id == Len(placed) + 1
  <2>2. pc[p] = "submit" /\ next[p] \in Targets
    <3>1. pc[p] = "submit"
      BY <2>1 DEF Accepted
    <3>2. ~(next[p] > NumTargets)
      BY <3>1 DEF TypeOK, PastSubmit
    <3> QED
      BY <3>1, <3>2, EntryFillAssumption DEF Targets
  <2>3. /\ placed' = Append(placed, next[p])
        /\ ids' = [ids EXCEPT ![p] = Append(@, id)]
        /\ got' = [got EXCEPT ![p][next[p]] = id]
        /\ next' = [next EXCEPT ![p] = @ + 1]
        /\ UNCHANGED <<position, readPos>>
    BY <2>1 DEF Accepted, Advance
  <2>4. Aligned(position.details)' /\ \A q \in Procs : Aligned(readPos[q].details)'
    BY <2>2, <2>3, AlignedMore DEF PositionRow
  <2>5. \A q \in Procs : Aligned(got[q])'
    <3>1. ASSUME NEW q \in Procs PROVE Aligned(got[q])'
      <4>1. CASE q # p
        BY <2>2, <2>3, <4>1, AlignedMore
      <4>2. CASE q = p
        <5>1. Aligned(got[p]) /\ got[p] \in [Targets -> DetailValues]
          OBVIOUS
        <5>2. \A t \in Targets : got[p][t] > Null =>
                got[p][t] <= Len(placed') /\ placed'[got[p][t]] = t
          BY <2>2, <2>3, <5>1 DEF Aligned, DetailValues, Absent, Null
        <5>3. got'[p] = [got[p] EXCEPT ![next[p]] = id]
          BY <2>3
        <5>4. id <= Len(placed') /\ placed'[id] = next[p]
          BY <2>2, <2>3
        <5> HIDE DEF id
        <5>5. \A t \in Targets : got'[p][t] > Null =>
                got'[p][t] <= Len(placed') /\ placed'[got'[p][t]] = t
          BY <5>1, <5>2, <5>3, <5>4
        <5> QED
          BY <4>2, <5>5 DEF Aligned
      <4> QED
        BY <4>1, <4>2
    <3> QED
      BY <3>1
  <2>6. GatheredInOrder'
    <3>1. GatheredInOrder
      BY DEF AllAligned
    <3>2. ASSUME NEW q \in Procs, q # p
          PROVE  /\ Len(ids'[q]) = next'[q] - 1
                 /\ \A i \in 1..Len(ids'[q]) :
                      ids'[q][i] \in 1..Len(placed') /\ placed'[ids'[q][i]] = i
      <4>1. ids'[q] = ids[q] /\ next'[q] = next[q]
        BY <2>3, <3>2
      <4>2. /\ Len(ids[q]) = next[q] - 1
            /\ \A i \in 1..Len(ids[q]) :
                 ids[q][i] \in 1..Len(placed) /\ placed[ids[q][i]] = i
        BY <3>1 DEF GatheredInOrder
      <4>3. Len(placed') = Len(placed) + 1 /\ \A k \in 1..Len(placed) : placed'[k] = placed[k]
        BY <2>2, <2>3
      <4>4. ASSUME NEW i \in 1..Len(ids[q])
            PROVE  ids[q][i] \in 1..Len(placed') /\ placed'[ids[q][i]] = i
        <5>1. ids[q][i] \in 1..Len(placed) /\ placed[ids[q][i]] = i
          BY <4>2
        <5>2. Len(placed) \in Nat
          BY DEF TypeOK
        <5> HIDE DEF id
        <5> QED
          BY <4>3, <5>1, <5>2
      <4> QED
        BY <4>1, <4>2, <4>4
    <3>3. /\ Len(ids'[p]) = next'[p] - 1
          /\ \A i \in 1..Len(ids'[p]) :
               ids'[p][i] \in 1..Len(placed') /\ placed'[ids'[p][i]] = i
      <4>1. next'[p] = next[p] + 1 /\ ids'[p] = Append(ids[p], id)
        BY <2>3
      <4>2. /\ Len(ids[p]) = next[p] - 1
            /\ \A i \in 1..Len(ids[p]) :
                 ids[p][i] \in 1..Len(placed) /\ placed[ids[p][i]] = i
        BY <3>1 DEF GatheredInOrder
      <4>3. /\ Len(placed') = Len(placed) + 1
            /\ placed'[id] = next[p]
            /\ \A k \in 1..Len(placed) : placed'[k] = placed[k]
        BY <2>2, <2>3
      <4>4. /\ Len(ids'[p]) = Len(ids[p]) + 1
            /\ ids'[p][Len(ids[p]) + 1] = id
            /\ \A i \in 1..Len(ids[p]) : ids'[p][i] = ids[p][i]
        BY <4>1
      <4>5. next[p] \in Nat
        BY <2>2 DEF Targets
      <4> HIDE DEF id
      <4>6. Len(ids'[p]) = next'[p] - 1
        BY <4>1, <4>2, <4>4, <4>5
      <4>7. ASSUME NEW i \in 1..Len(ids'[p])
            PROVE  ids'[p][i] \in 1..Len(placed') /\ placed'[ids'[p][i]] = i
        <5>1. CASE i = Len(ids[p]) + 1
          <6>1. i = next[p] /\ ids'[p][i] = id
            BY <4>2, <4>4, <4>5, <5>1
          <6>2. id \in 1..Len(placed')
            BY <4>3 DEF id
          <6> QED
            BY <4>3, <6>1, <6>2
        <5>2. CASE i \in 1..Len(ids[p])
          <6>1. ids'[p][i] = ids[p][i]
            BY <4>4, <5>2
          <6>2. ids[p][i] \in 1..Len(placed) /\ placed[ids[p][i]] = i
            BY <4>2, <5>2
          <6> QED
            BY <4>3, <6>1, <6>2
        <5>3. Len(ids[p]) \in Nat
          <6>1. p \in Procs
            BY <1>7
          <6>2. ids[p] \in Seq(Nat)
            BY <6>1
          <6> QED
            BY <6>2
        <5>4. i = Len(ids[p]) + 1 \/ i \in 1..Len(ids[p])
          BY <4>4, <5>3
        <5> QED
          BY <5>1, <5>2, <5>4
      <4> QED
        BY <4>6, <4>7
    <3> QED
      BY <3>2, <3>3 DEF GatheredInOrder
  <2> QED
    BY <2>4, <2>5, <2>6 DEF AllAligned
<1>8. ASSUME NEW p \in Procs, Crash(p) PROVE AllAligned'
  BY <1>8, AlignedWrite DEF Crash
<1> QED
  BY <1>1, <1>2, <1>3, <1>4, <1>5, <1>6, <1>7, <1>8 DEF Next

\* While the broker refuses no target, every recorded order id is that of an
\* order placed for its own spread, whatever detectors race and crash: the
\* positional order_ids[i] of the event path goes wrong only after a refusal.
THEOREM AlignmentWithoutRefusal ==
  ASSUME "reject" \notin Failures
  PROVE  Spec => []TargetsAligned
<1>1. Init => AllAligned
  BY EntryFillAssumption
     DEF Init, AllAligned, GatheredInOrder, Aligned, InitPosition, Targets, Absent, Null
<1>2. TypeOK /\ AllAligned /\ [Next]_vars => AllAligned'
  BY AlignedStep
<1>3. AllAligned => TargetsAligned
  BY DEF AllAligned, TargetsAligned
<1> QED
  BY <1>1, <1>2, <1>3, TypeCorrect, PTL DEF Spec

-----------------------------------------------------------------------------
\* The workers that may still place a target.
Placing == {w \in Workers : pc[w] \in {"acquired", "submit"}}

\* Why CreatedEndsPlacing holds: whoever sets profit_targets_created held the
\* mark alone and has placed its targets, and nobody acquires it afterwards.
NonePlacing == ~markLost /\ position.created => Placing = {}

\* A step that keeps "created", finds no mark again and lets no worker begin.
LEMMA CreatedQuiet ==
  ASSUME NonePlacing, Placing' \subseteq Placing, markLost => markLost',
         position'.created = position.created
  PROVE  NonePlacing'
  BY DEF NonePlacing

\* Only SaveDetails sets "created" and only Acquire lets a worker begin.
LEMMA CreatedStep ==
  ASSUME Pollers = {}
  PROVE  TypeOK /\ MarkOwned /\ NonePlacing /\ [Next]_vars => NonePlacing'
<1> SUFFICES ASSUME TypeOK, MarkOwned, NonePlacing, [Next]_vars PROVE NonePlacing'
  OBVIOUS
<1>t. /\ pc \in [Procs -> Locations]
      /\ markLost \in BOOLEAN
      /\ position \in PositionRow
  BY DEF TypeOK
<1> USE <1>t, EntryFillAssumption DEF Procs
<1>1. CASE UNCHANGED vars
  BY <1>1 DEF vars, NonePlacing, Placing
<1>2. ASSUME NEW w \in Workers, WorkerStep(w) PROVE NonePlacing'
  <2>1. CASE ReadTrade(w) \/ SyncLoad(w) \/ SyncSkip(w) \/ SaveTrade(w) \/ SaveChildren(w)
    BY <2>1, CreatedQuiet
       DEF ReadTrade, SyncLoad, SyncSkip, SaveTrade, SaveChildren, Goto, Placing
  <2>2. CASE StartSubmitting(w) \/ LeaveEarly(w) \/ Abandon(w)
    BY <2>2, CreatedQuiet DEF StartSubmitting, LeaveEarly, Abandon, Goto, Placing
  <2>3. CASE OpenPosition(w) \/ SyncSave(w)
    <3>1. Placing' \subseteq Placing
      BY <2>3 DEF OpenPosition, SyncSave, Goto, Placing
    <3>2. position'.created = position.created
      BY <2>3 DEF OpenPosition, SyncSave, WritePosition, PositionRow
    <3>3. markLost => markLost'
      BY <2>3 DEF OpenPosition, SyncSave, WritePosition
    <3> QED
      BY <3>1, <3>2, <3>3, CreatedQuiet
  <2>4. CASE Acquire(w)
    <3>1. CASE trade.child # {} \/ position.created \/ MarkHeld
      BY <2>4, <3>1, CreatedQuiet DEF Acquire, Goto, Placing
    <3>2. CASE ~(trade.child # {} \/ position.created \/ MarkHeld)
      <4>1. position'.created = position.created
        BY <2>4, <3>2 DEF Acquire, PositionRow
      <4> QED
        BY <3>2, <4>1 DEF NonePlacing
    <3> QED
      BY <3>1, <3>2
  <2>5. CASE SaveDetails(w)
    <3>1. w \in Holding /\ w \notin Placing /\ Placing' = Placing
      BY <2>5 DEF SaveDetails, Goto, Holding, Placing
    <3>2. ~markLost => Placing = {}
      BY <3>1 DEF MarkOwned, Holding, Placing
    <3> QED
      BY <2>5, <3>1, <3>2 DEF SaveDetails, NonePlacing
  <2>6. CASE ClearMark(w)
    <3>1. position'.created = position.created
      BY <2>6 DEF ClearMark, PositionRow
    <3> QED
      BY <2>6, <3>1, CreatedQuiet DEF ClearMark, Goto, Placing
  <2> QED
    BY <1>2, <2>1, <2>2, <2>3, <2>4, <2>5, <2>6 DEF WorkerStep
<1>3. ASSUME NEW w \in Workers, MarkExpires(w) PROVE NonePlacing'
  BY <1>3 DEF MarkExpires, NonePlacing
<1>4. ASSUME NEW p \in Procs, SubmitStep(p) PROVE NonePlacing'
  <2>1. Placing' \subseteq Placing
    BY <1>4 DEF SubmitStep, Accepted, Refused, Advance, AfterSubmit, Goto, Placing
  <2> QED
    BY <1>4, <2>1, CreatedQuiet DEF SubmitStep, Accepted, Refused
<1>5. ASSUME NEW p \in Procs, Crash(p) PROVE NonePlacing'
  BY <1>5, CreatedQuiet DEF Crash, Goto, Placing
<1> QED
  BY <1>1, <1>2, <1>3, <1>4, <1>5 DEF Next, Pollers

\* However many deliveries of a fill there are and however they fail: once the
\* targets count as created, none of them places another while no mark is lost.
THEOREM CreationEndsPlacing ==
  ASSUME Pollers = {}
  PROVE  Spec => CreatedEndsPlacing
<1>1. Init => MarkOwned /\ NonePlacing
  BY EntryFillAssumption DEF Init, MarkOwned, Holding, NonePlacing, Placing, Procs
<1>2. TypeOK /\ NonePlacing /\ [Next]_vars
        => [~markLost /\ position.created => \A w \in Workers : ids'[w] = ids[w]]_vars
  <2> SUFFICES ASSUME TypeOK, NonePlacing, Next, ~markLost, position.created,
                      NEW w \in Workers
               PROVE  ids'[w] = ids[w]
    BY DEF vars
  <2>1. w \notin Placing
    BY DEF NonePlacing
  <2>2. ASSUME NEW p \in Procs, SubmitStep(p) PROVE ids'[w] = ids[w]
    <3>1. p # w
      BY <2>1, <2>2 DEF SubmitStep, Accepted, Refused, Placing
    <3> QED
      <4>1. ids \in [Procs -> Seq(Nat)]
        BY DEF TypeOK
      <4>2. CASE Accepted(p)
        <5>1. ids' = [ids EXCEPT ![p] = Append(@, Len(placed) + 1)]
          BY <4>2 DEF Accepted
        <5> QED
          BY <3>1, <4>1, <5>1 DEF Procs
      <4>3. CASE Refused(p)
        BY <4>3 DEF Refused
      <4> QED
        BY <2>2, <4>2, <4>3 DEF SubmitStep
  <2>3. ASSUME NEW v \in Workers, WorkerStep(v) PROVE ids'[w] = ids[w]
    BY <2>3 DEF WorkerStep, ReadTrade, OpenPosition, SyncLoad, SyncSave, SyncSkip,
                SaveTrade, Acquire, StartSubmitting, LeaveEarly, Abandon,
                SaveChildren, SaveDetails, ClearMark, ReadRows, local
  <2> QED
    BY <2>2, <2>3 DEF Next, MarkExpires, Crash, Pollers, local
<1>3. TypeOK /\ MarkOwned /\ NonePlacing /\ [Next]_vars => NonePlacing'
  BY CreatedStep
<1> QED
  BY <1>1, <1>2, <1>3, TypeCorrect, MarkStep, PTL DEF Spec, CreatedEndsPlacing

-----------------------------------------------------------------------------
\* The i-th id a worker has is that of an order for the i-th spread.
InOrder(w) ==
  \A i \in 1..Len(ids[w]) : ids[w][i] \in 1..Len(placed) /\ placed[ids[w][i]] = i

\* A worker never has more ids than specs it tried, and with one for each of
\* them they are in the order of the specs, whatever was refused to others.
Gathered ==
  \A w \in Workers :
    Len(ids[w]) < next[w] /\ (Len(ids[w]) = next[w] - 1 => InOrder(w))

\* Why CreatedMeansComplete holds: the details are complete when "created" is
\* set, and no worker is left that could write others over them.
CompleteAlone == CreatedMeansComplete /\ (~markLost /\ position.created => Creating = {})

\* Ids in order stay so when other orders are placed.
LEMMA OrderKept ==
  ASSUME NEW w \in Workers, InOrder(w), ids'[w] = ids[w], Len(placed) \in Nat,
         Len(placed') \in Nat, Len(placed) <= Len(placed'),
         \A k \in 1..Len(placed) : placed'[k] = placed[k]
  PROVE  InOrder(w)'
<1>1. ASSUME NEW i \in 1..Len(ids[w])
      PROVE  ids[w][i] \in 1..Len(placed') /\ placed'[ids[w][i]] = i
  <2>1. ids[w][i] \in 1..Len(placed) /\ placed[ids[w][i]] = i
    BY DEF InOrder
  <2> QED
    BY <2>1
<1> QED
  BY <1>1 DEF InOrder

\* The order placed next is for the next spread: the ids stay in order.
LEMMA OrderGrows ==
  ASSUME NEW w \in Workers, InOrder(w), placed \in Seq(Targets), ids[w] \in Seq(Nat),
         NEW t \in Targets, Len(ids[w]) = t - 1,
         placed' = Append(placed, t), ids'[w] = Append(ids[w], Len(placed) + 1)
  PROVE  InOrder(w)'
<1>1. /\ Len(placed') = Len(placed) + 1 /\ Len(placed) \in Nat
      /\ placed'[Len(placed) + 1] = t
      /\ \A k \in 1..Len(placed) : placed'[k] = placed[k]
  OBVIOUS
<1>2. /\ Len(ids'[w]) = Len(ids[w]) + 1 /\ Len(ids[w]) \in Nat
      /\ ids'[w][Len(ids[w]) + 1] = Len(placed) + 1
      /\ \A i \in 1..Len(ids[w]) : ids'[w][i] = ids[w][i]
  OBVIOUS
<1>3. t \in Nat
  BY DEF Targets
<1>4. ASSUME NEW i \in 1..Len(ids'[w])
      PROVE  ids'[w][i] \in 1..Len(placed') /\ placed'[ids'[w][i]] = i
  <2>1. CASE i = Len(ids[w]) + 1
    BY <1>1, <1>2, <1>3, <2>1
  <2>2. CASE i \in 1..Len(ids[w])
    <3>1. ids[w][i] \in 1..Len(placed) /\ placed[ids[w][i]] = i
      BY <2>2 DEF InOrder
    <3> QED
      BY <1>1, <1>2, <2>2, <3>1
  <2> QED
    BY <1>2, <2>1, <2>2
<1> QED
  BY <1>4 DEF InOrder

\* Only a submission adds an id, and it counts the attempt as it does.
LEMMA GatheredStep == TypeOK /\ Gathered /\ [Next]_vars => Gathered'
<1> SUFFICES ASSUME TypeOK, Gathered, [Next]_vars PROVE Gathered'
  OBVIOUS
<1>t. /\ placed \in Seq(Targets)
      /\ next \in [Procs -> 1..(NumTargets + 1)]
      /\ ids \in [Procs -> Seq(Nat)]
  BY DEF TypeOK
<1>q. ASSUME UNCHANGED <<placed, next, ids>> PROVE Gathered'
  BY <1>q DEF Gathered, InOrder
<1>1. ASSUME NEW w \in Workers, WorkerStep(w) PROVE Gathered'
  BY <1>1, <1>q DEF WorkerStep, ReadTrade, OpenPosition, SyncLoad, SyncSave, SyncSkip,
     SaveTrade, Acquire, StartSubmitting, LeaveEarly, Abandon, SaveChildren,
     SaveDetails, ClearMark, ReadRows, local
<1>2. ASSUME NEW m \in Monitors, MonitorStep(m) PROVE Gathered'
  BY <1>2, <1>q DEF MonitorStep, MonitorList, MonitorPoll, MonitorFetch, MonitorFind, MonitorOpen,
     ReadRows, local
<1>3. ASSUME NEW f \in Fixers, FixerStep(f) PROVE Gathered'
  BY <1>3, <1>q DEF FixerStep, FixerList, FixerTrade, FixerOpen, ReadRows, local
<1>4. ASSUME NEW p \in Pollers, PollerStep(p) PROVE Gathered'
  BY <1>4, <1>q DEF PollerStep, SavePosition, SaveWholeTrade, RecordChildren, local
<1>5. ASSUME NEW p \in Procs, SubmitStep(p) PROVE Gathered'
  <2>1. pc[p] = "submit" /\ next[p] \in Targets
    <3>1. pc[p] = "submit"
      BY <1>5 DEF SubmitStep, Accepted, Refused
    <3>2. ~(next[p] > NumTargets)
      BY <3>1 DEF TypeOK, PastSubmit
    <3> QED
      BY <1>t, <3>1, <3>2, EntryFillAssumption DEF Targets
  <2>2. next' = [next EXCEPT ![p] = next[p] + 1]
    BY <1>5 DEF SubmitStep, Accepted, Refused, Advance
  <2>3. /\ placed' = Append(placed, next[p])
        /\ ids' = [ids EXCEPT ![p] = Append(ids[p], Len(placed) + 1)]
        \/ UNCHANGED <<placed, ids>>
    BY <1>5 DEF SubmitStep, Accepted, Refused
  <2>4. /\ Len(placed) \in Nat /\ Len(placed') \in Nat /\ Len(placed) <= Len(placed')
        /\ \A k \in 1..Len(placed) : placed'[k] = placed[k]
    BY <1>t, <2>1, <2>3
  <2>5. ASSUME NEW w \in Workers, w # p
        PROVE  Len(ids'[w]) < next'[w] /\ (Len(ids'[w]) = next'[w] - 1 => InOrder(w)')
    <3>1. ids'[w] = ids[w] /\ next'[w] = next[w]
      BY <1>t, <2>2, <2>3, <2>5 DEF Procs
    <3>2. Len(ids[w]) < next[w] /\ (Len(ids[w]) = next[w] - 1 => InOrder(w))
      BY DEF Gathered
    <3> QED
      BY <2>4, <3>1, <3>2, OrderKept
  <2>6. ASSUME p \in Workers
        PROVE  Len(ids'[p]) < next'[p] /\ (Len(ids'[p]) = next'[p] - 1 => InOrder(p)')
    <3>1. /\ next'[p] = next[p] + 1 /\ ids[p] \in Seq(Nat) /\ Len(ids[p]) \in Nat
          /\ next[p] \in Nat
      BY <1>t, <2>1, <2>2 DEF Targets
    <3>2. Len(ids[p]) < next[p] /\ (Len(ids[p]) = next[p] - 1 => InOrder(p))
      BY <2>6 DEF Gathered
    <3>3. CASE UNCHANGED <<placed, ids>>
      BY <3>1, <3>2, <3>3
    <3>4. CASE /\ placed' = Append(placed, next[p])
               /\ ids' = [ids EXCEPT ![p] = Append(ids[p], Len(placed) + 1)]
      <4>1. ids'[p] = Append(ids[p], Len(placed) + 1)
        BY <1>t, <3>4
      <4>2. Len(ids'[p]) = Len(ids[p]) + 1
        BY <3>1, <4>1
      <4>3. ASSUME Len(ids[p]) = next[p] - 1 PROVE InOrder(p)'
        BY <1>t, <2>1, <2>6, <3>1, <3>2, <3>4, <4>1, <4>3, OrderGrows
      <4> QED
        BY <3>1, <3>2, <4>2, <4>3
    <3> QED
      BY <2>3, <3>3, <3>4
  <2> QED
    BY <2>5, <2>6 DEF Gathered
<1> QED
  BY <1>q, <1>1, <1>2, <1>3, <1>4, <1>5 DEF Next, MarkExpires, Crash, vars, local

\* The details stay complete when an order is placed or nothing is.
LEMMA CompleteKept ==
  ASSUME CompleteAlone, Creating' \subseteq Creating, markLost => markLost',
         UNCHANGED <<position.created, position.details>>,
         Len(placed) \in Nat, Len(placed') \in Nat, Len(placed) <= Len(placed'),
         \A k \in 1..Len(placed) : placed'[k] = placed[k]
  PROVE  CompleteAlone'
<1>1. ASSUME ~markLost', position'.created
      PROVE  \A t \in Targets : position'.details[t] \in 1..Len(placed')
                                /\ placed'[position'.details[t]] = t
  <2>1. ASSUME NEW t \in Targets
        PROVE  position.details[t] \in 1..Len(placed') /\ placed'[position.details[t]] = t
    <3>1. position.details[t] \in 1..Len(placed) /\ placed[position.details[t]] = t
      BY <1>1 DEF CompleteAlone, CreatedMeansComplete
    <3> QED
      BY <3>1
  <2> QED
    BY <2>1
<1> QED
  BY <1>1 DEF CompleteAlone, CreatedMeansComplete

\* "created" is set with complete details by the only worker creating, and no
\* worker can begin after it.
LEMMA CompleteStep ==
  ASSUME Pollers = {}
  PROVE  TypeOK /\ MarkOwned /\ Gathered /\ CompleteAlone /\ [Next]_vars => CompleteAlone'
<1> SUFFICES ASSUME TypeOK, MarkOwned, Gathered, CompleteAlone, [Next]_vars
             PROVE  CompleteAlone'
  OBVIOUS
<1>t. /\ pc \in [Procs -> Locations]
      /\ markLost \in BOOLEAN
      /\ position \in PositionRow
      /\ placed \in Seq(Targets)
      /\ next \in [Procs -> 1..(NumTargets + 1)]
      /\ ids \in [Procs -> Seq(Nat)]
  BY DEF TypeOK
<1>q. ASSUME Creating' \subseteq Creating, markLost => markLost', UNCHANGED placed,
             UNCHANGED <<position.created, position.details>>
      PROVE  CompleteAlone'
  <2>1. Len(placed) \in Nat
    BY <1>t
  <2> QED
    BY <1>q, <2>1, CompleteKept
<1> USE EntryFillAssumption DEF Procs
<1>1. CASE UNCHANGED vars
  BY <1>1, <1>q DEF vars, Creating
<1>2. ASSUME NEW w \in Workers, WorkerStep(w) PROVE CompleteAlone'
  <2>1. CASE ReadTrade(w) \/ SyncLoad(w) \/ SyncSkip(w) \/ SaveTrade(w) \/ SaveChildren(w)
    BY <1>t, <1>q, <2>1
       DEF ReadTrade, SyncLoad, SyncSkip, SaveTrade, SaveChildren, Goto, Creating
  <2>2. CASE StartSubmitting(w) \/ LeaveEarly(w) \/ Abandon(w)
    BY <1>t, <1>q, <2>2 DEF StartSubmitting, LeaveEarly, Abandon, Goto, Creating
  <2>3. CASE OpenPosition(w) \/ SyncSave(w)
    <3>1. Creating' \subseteq Creating
      BY <1>t, <2>3 DEF OpenPosition, SyncSave, Goto, Creating
    <3>2. UNCHANGED <<placed, position.created, position.details>>
      BY <1>t, <2>3 DEF OpenPosition, SyncSave, WritePosition, PositionRow
    <3>3. markLost => markLost'
      BY <2>3 DEF OpenPosition, SyncSave, WritePosition
    <3> QED
      BY <1>q, <3>1, <3>2, <3>3
  <2>4. CASE Acquire(w)
    <3>1. CASE trade.child # {} \/ position.created \/ MarkHeld
      BY <1>t, <1>q, <2>4, <3>1 DEF Acquire, Goto, Creating
    <3>2. CASE ~(trade.child # {} \/ position.created \/ MarkHeld)
      <4>1. position'.created = position.created
        BY <1>t, <2>4, <3>2 DEF Acquire, PositionRow
      <4> QED
        BY <3>2, <4>1 DEF CompleteAlone, CreatedMeansComplete
    <3> QED
      BY <3>1, <3>2
  <2>5. CASE SaveDetails(w)
    <3>1. w \in Creating /\ Creating' = Creating \ {w}
      BY <1>t, <2>5 DEF SaveDetails, Goto, Creating
    <3>2. ~markLost => Creating' = {}
      <4>1. ~markLost => \A v \in Creating : v = w
        BY <3>1 DEF MarkOwned, Holding, Creating
      <4> QED
        BY <3>1, <4>1
    <3>3. /\ UNCHANGED <<markLost, placed>>
          /\ position'.details =
               [t \in Targets |-> IF t <= Len(ids[w]) THEN ids[w][t] ELSE Null]
      BY <1>t, <2>5 DEF SaveDetails, PositionRow
    <3>4. position'.created <=> position.created \/ AllSucceeded(w)
      <4>1. ASSUME NEW k \in BOOLEAN, position.created = k PROVE
              [position EXCEPT
                 !.details = [t \in Targets |->
                                IF t <= Len(ids[w]) THEN ids[w][t] ELSE Null],
                 !.created = @ \/ AllSucceeded(w)].created = (k \/ AllSucceeded(w))
        BY <1>t, <4>1 DEF PositionRow
      <4> QED
        BY <1>t, <2>5, <4>1 DEF SaveDetails, PositionRow
    <3>5. ASSUME ~markLost, position'.created
          PROVE  \A t \in Targets : position'.details[t] \in 1..Len(placed)
                                    /\ placed[position'.details[t]] = t
      <4>1. ~position.created
        BY <3>1, <3>5 DEF CompleteAlone
      <4>2. Len(ids[w]) = NumTargets
        BY <3>4, <3>5, <4>1 DEF AllSucceeded
      <4>3. next[w] \in 1..(NumTargets + 1) /\ Len(ids[w]) < next[w]
        BY <1>t DEF Gathered
      <4>4. InOrder(w)
        <5>1. Len(ids[w]) = next[w] - 1
          BY <4>2, <4>3
        <5> QED
          BY <5>1 DEF Gathered
      <4> QED
        BY <3>3, <4>2, <4>4 DEF InOrder, Targets
    <3> QED
      BY <3>2, <3>3, <3>5 DEF CompleteAlone, CreatedMeansComplete
  <2>6. CASE ClearMark(w)
    <3>1. UNCHANGED <<placed, markLost, position.created, position.details>>
      BY <1>t, <2>6 DEF ClearMark, PositionRow
    <3>2. Creating' \subseteq Creating
      BY <1>t, <2>6 DEF ClearMark, Goto, Creating
    <3> QED
      BY <1>q, <3>1, <3>2
  <2> QED
    BY <1>2, <2>1, <2>2, <2>3, <2>4, <2>5, <2>6 DEF WorkerStep
<1>3. ASSUME NEW w \in Workers, MarkExpires(w) PROVE CompleteAlone'
  BY <1>3 DEF MarkExpires, CompleteAlone, CreatedMeansComplete
<1>4. ASSUME NEW p \in Procs, SubmitStep(p) PROVE CompleteAlone'
  <2>1. Creating' \subseteq Creating
    BY <1>t, <1>4 DEF SubmitStep, Accepted, Refused, Advance, AfterSubmit, Goto, Creating
  <2>2. UNCHANGED <<position, markLost>>
    BY <1>4 DEF SubmitStep, Accepted, Refused
  <2>3. next[p] \in Targets
    <3>1. pc[p] = "submit"
      BY <1>4 DEF SubmitStep, Accepted, Refused
    <3>2. ~(next[p] > NumTargets)
      BY <3>1 DEF TypeOK, PastSubmit
    <3> QED
      BY <1>t, <3>2 DEF Targets
  <2>4. placed' = Append(placed, next[p]) \/ placed' = placed
    BY <1>4 DEF SubmitStep, Accepted, Refused
  <2>5. /\ Len(placed) \in Nat /\ Len(placed') \in Nat /\ Len(placed) <= Len(placed')
        /\ \A k \in 1..Len(placed) : placed'[k] = placed[k]
    <3>1. CASE placed' = placed
      BY <1>t, <3>1
    <3>2. CASE placed' = Append(placed, next[p])
      BY <1>t, <2>3, <3>2
    <3> QED
      BY <2>4, <3>1, <3>2
  <2> QED
    BY <2>1, <2>2, <2>5, CompleteKept
<1>5. ASSUME NEW p \in Procs, Crash(p) PROVE CompleteAlone'
  BY <1>t, <1>5, <1>q DEF Crash, Goto, Creating
<1> QED
  BY <1>1, <1>2, <1>3, <1>4, <1>5 DEF Next, Pollers

\* However many deliveries of a fill race, are refused, raise, leave or die:
\* while no mark is lost, a position whose targets count as created has for each
\* of its spreads the id of an order that was placed for that very spread.
THEOREM CreatedIsComplete ==
  ASSUME Pollers = {}
  PROVE  Spec => []CreatedMeansComplete
<1>1. Init => MarkOwned /\ Gathered /\ CompleteAlone
  BY EntryFillAssumption
     DEF Init, InitPosition, MarkOwned, Holding, Gathered, InOrder, CompleteAlone,
         CreatedMeansComplete, Procs
<1>2. TypeOK /\ MarkOwned /\ Gathered /\ CompleteAlone /\ [Next]_vars => CompleteAlone'
  BY CompleteStep
<1>3. CompleteAlone => CreatedMeansComplete
  BY DEF CompleteAlone
<1> QED
  BY <1>1, <1>2, <1>3, TypeCorrect, MarkStep, GatheredStep, PTL DEF Spec

-----------------------------------------------------------------------------
\* The workers that submit, have submitted or died of it.
Creators == {w \in Workers : pc[w] \in {"submit", "children", "details", "crashed"}}

\* Where a worker can only come by submitting.
Submission == {"submit", "children", "details", "clear"}

\* Why no spread gets a second order: as long as no mark is lost, whatever has
\* been placed is either counted as created or the work of the one worker that
\* has the mark; that worker has yet to come to the spreads from its next on.
OneCreation ==
  /\ \A w \in Workers : pc[w] \in {"children", "details"} => next[w] = NumTargets + 1
  /\ ~markLost =>
       /\ OneSetOfTargets
       /\ placed # <<>> => position.created \/ position.mark \in Creators
       /\ \A w \in Workers :
            /\ pc[w] = "submit" => \A i \in 1..Len(placed) : placed[i] < next[w]
            /\ pc[w] = "clear" => position.created

\* A step that submits nothing, records the loss of a mark and lets nobody in.
LEMMA CreationQuiet ==
  ASSUME OneCreation, UNCHANGED <<placed, next, position.created>>,
         markLost' = (markLost \/ position'.mark # position.mark),
         \A w \in Workers :
           \/ pc'[w] = pc[w]
           \/ pc'[w] \notin Submission /\ (w \in Creators => w \in Creators')
  PROVE  OneCreation'
<1>1. ASSUME NEW w \in Workers, pc'[w] \in {"children", "details"}
      PROVE  next'[w] = NumTargets + 1
  BY <1>1 DEF OneCreation, Submission
<1>2. Creators \subseteq Creators'
  BY DEF Creators
<1>3. ASSUME ~markLost'
      PROVE  /\ OneSetOfTargets'
             /\ placed' # <<>> => position'.created \/ position'.mark \in Creators'
    BY <1>2, <1>3 DEF OneCreation, OneSetOfTargets
<1>4. ASSUME ~markLost', NEW w \in Workers
      PROVE  /\ pc'[w] = "submit" => \A i \in 1..Len(placed') : placed'[i] < next'[w]
             /\ pc'[w] = "clear" => position'.created
  BY <1>4 DEF OneCreation, Submission
<1> QED
  BY <1>1, <1>3, <1>4 DEF OneCreation

\* Appending a larger spread keeps the spreads apart.
LEMMA ApartWithLarger ==
  ASSUME NEW s \in Seq(Targets), NEW t \in Targets,
         \A i, j \in 1..Len(s) : s[i] = s[j] => i = j,
         \A i \in 1..Len(s) : s[i] < t
  PROVE  /\ \A i, j \in 1..Len(Append(s, t)) : Append(s, t)[i] = Append(s, t)[j] => i = j
         /\ \A i \in 1..Len(Append(s, t)) : Append(s, t)[i] < t + 1
<1> DEFINE u == Append(s, t)
<1>1. /\ Len(s) \in Nat
      /\ Len(u) = Len(s) + 1
      /\ u[Len(s) + 1] = t
      /\ \A i \in 1..Len(s) : u[i] = s[i] /\ s[i] \in Targets
  OBVIOUS
<1>2. t \in Nat /\ \A i \in 1..Len(s) : s[i] \in Nat
  BY <1>1 DEF Targets
<1> HIDE DEF u
<1>3. ASSUME NEW i \in 1..Len(u) PROVE i \in 1..Len(s) \/ i = Len(s) + 1
  BY <1>1
<1>4. ASSUME NEW i \in 1..Len(u), NEW j \in 1..Len(u), u[i] = u[j] PROVE i = j
  BY <1>1, <1>2, <1>3, <1>4
<1>5. ASSUME NEW i \in 1..Len(u) PROVE u[i] < t + 1
  BY <1>1, <1>2, <1>3
<1> QED
  BY <1>4, <1>5 DEF u

\* Only a worker with the mark submits; it begins when nothing has been placed,
\* places for larger and larger spreads, and lets go when the row says created.
LEMMA OneCreationStep ==
  ASSUME Pollers = {}, "reject" \notin Failures, "raise" \notin Failures
  PROVE  TypeOK /\ MarkOwned /\ NonePlacing /\ GatheredInOrder /\ OneCreation
           /\ [Next]_vars => OneCreation'
<1> SUFFICES ASSUME TypeOK, MarkOwned, NonePlacing, GatheredInOrder, OneCreation,
                    [Next]_vars
             PROVE  OneCreation'
  OBVIOUS
<1>t. /\ pc \in [Procs -> Locations]
      /\ markLost \in BOOLEAN
      /\ position \in PositionRow
      /\ placed \in Seq(Targets)
      /\ next \in [Procs -> 1..(NumTargets + 1)]
      /\ ids \in [Procs -> Seq(Nat)]
  BY DEF TypeOK
<1>q. ASSUME UNCHANGED <<placed, next, position, markLost>>,
             \A v \in Workers :
               pc'[v] = pc[v] \/ (pc'[v] \notin Submission /\ (v \in Creators => v \in Creators'))
      PROVE  OneCreation'
  <2>1. UNCHANGED <<placed, next, position.created>>
    BY <1>q
  <2>2. markLost' = (markLost \/ position'.mark # position.mark)
    BY <1>t, <1>q
  <2>3. \A v \in Workers :
          \/ pc'[v] = pc[v]
          \/ pc'[v] \notin Submission /\ (v \in Creators => v \in Creators')
    BY <1>q, Zenon
  <2> QED
    BY <2>1, <2>2, <2>3, CreationQuiet
<1> USE EntryFillAssumption DEF Procs
<1>1. CASE UNCHANGED vars
  BY <1>1, <1>q DEF vars, local
<1>2. ASSUME NEW w \in Workers, WorkerStep(w) PROVE OneCreation'
  <2>1. CASE ReadTrade(w) \/ SyncLoad(w) \/ SyncSkip(w) \/ SaveTrade(w) \/ LeaveEarly(w)
    <3>1. UNCHANGED <<placed, next, position, markLost>>
      BY <2>1 DEF ReadTrade, SyncLoad, SyncSkip, SaveTrade, LeaveEarly, ReadRows, local
    <3>2. \A v \in Workers :
            pc'[v] = pc[v] \/ (pc'[v] \notin Submission /\ v \notin Creators)
      BY <1>t, <2>1 DEF ReadTrade, SyncLoad, SyncSkip, SaveTrade, LeaveEarly, Goto,
                        Submission, Creators
    <3> QED
      BY <1>q, <3>1, <3>2
  <2>2. CASE OpenPosition(w) \/ SyncSave(w)
    <3>1. UNCHANGED <<placed, next, position.created>>
      BY <1>t, <2>2 DEF OpenPosition, SyncSave, WritePosition, PositionRow, local
    <3>2. markLost' = (markLost \/ position'.mark # position.mark)
      BY <2>2 DEF OpenPosition, SyncSave, WritePosition
    <3>3. \A v \in Workers :
            pc'[v] = pc[v] \/ (pc'[v] \notin Submission /\ v \notin Creators)
      BY <1>t, <2>2 DEF OpenPosition, SyncSave, Goto, Submission, Creators
    <3> QED
      BY <3>1, <3>2, <3>3, CreationQuiet
  <2>3. CASE Acquire(w)
    <3>1. CASE trade.child # {} \/ position.created \/ MarkHeld
      <4>1. \A v \in Workers :
              pc'[v] = pc[v] \/ (pc'[v] \notin Submission /\ v \notin Creators)
        BY <1>t, <2>3, <3>1 DEF Acquire, Goto, Submission, Creators
      <4> QED
        BY <1>q, <2>3, <3>1, <4>1 DEF Acquire, local
    <3>2. CASE ~(trade.child # {} \/ position.created \/ MarkHeld)
      <4>1. ~markLost => placed = <<>>
        BY <3>2 DEF OneCreation, MarkHeld, MarkOwned, Creators
      <4>2. UNCHANGED <<placed, next, markLost>>
        BY <2>3 DEF Acquire, local
      <4>3. \A v \in Workers : pc'[v] = pc[v] \/ pc'[v] \notin Submission
        BY <1>t, <2>3, <3>2 DEF Acquire, Goto, Submission
      <4>4. position'.created = position.created
        BY <1>t, <2>3, <3>2 DEF Acquire, PositionRow
      <4> QED
        BY <4>1, <4>2, <4>3, <4>4 DEF OneCreation, OneSetOfTargets, Submission
    <3> QED
      BY <3>1, <3>2
  <2>4. CASE StartSubmitting(w)
    <3>1. ~markLost => placed = <<>>
      <4>1. pc[w] = "acquired"
        BY <2>4 DEF StartSubmitting
      <4>2. ~markLost => position.mark = w /\ ~position.created
        BY <4>1 DEF MarkOwned, Holding, NonePlacing, Placing
      <4> QED
        BY <4>1, <4>2 DEF OneCreation, Creators
    <3>2. UNCHANGED <<placed, next, markLost, position>>
      BY <2>4 DEF StartSubmitting, local
    <3>3. \A v \in Workers : pc'[v] = pc[v] \/ pc'[v] = "submit"
      BY <1>t, <2>4 DEF StartSubmitting, Goto
    <3> QED
      BY <3>1, <3>2, <3>3 DEF OneCreation, OneSetOfTargets
  <2>5. CASE Abandon(w)
    BY <2>5 DEF Abandon
  <2>6. CASE SaveChildren(w)
    <3>1. UNCHANGED <<placed, next, markLost, position>>
      BY <2>6 DEF SaveChildren, local
    <3>2. /\ pc[w] = "children" /\ pc'[w] = "details"
          /\ \A v \in Workers : v # w => pc'[v] = pc[v]
      BY <1>t, <2>6 DEF SaveChildren, Goto
    <3>3. Creators' = Creators
      BY <3>2 DEF Creators
    <3> QED
      BY <3>1, <3>2, <3>3 DEF OneCreation, OneSetOfTargets
  <2>7. CASE SaveDetails(w)
    <3>1. UNCHANGED <<placed, next, markLost>>
      BY <2>7 DEF SaveDetails, local
    <3>2. /\ pc[w] = "details" /\ pc'[w] = "clear"
          /\ \A v \in Workers : v # w => pc'[v] = pc[v]
      BY <1>t, <2>7 DEF SaveDetails, Goto
    <3>3. AllSucceeded(w)
      <4>1. next[w] = NumTargets + 1
        BY <3>2 DEF OneCreation
      <4>2. Len(ids[w]) = next[w] - 1
        BY DEF GatheredInOrder
      <4> QED
        BY <4>1, <4>2 DEF AllSucceeded
    <3>4. position'.created
      BY <1>t, <2>7, <3>3 DEF SaveDetails, PositionRow
    <3> QED
      BY <3>1, <3>2, <3>4 DEF OneCreation, OneSetOfTargets
  <2>8. CASE ClearMark(w)
    <3>1. UNCHANGED <<placed, next, markLost>>
      BY <2>8 DEF ClearMark, local
    <3>2. /\ pc[w] = "clear" /\ pc'[w] = "done"
          /\ \A v \in Workers : v # w => pc'[v] = pc[v]
      BY <1>t, <2>8 DEF ClearMark, Goto
    <3>3. position'.created = position.created
      BY <1>t, <2>8 DEF ClearMark, PositionRow
    <3> QED
      BY <3>1, <3>2, <3>3 DEF OneCreation, OneSetOfTargets
  <2> QED
    BY <1>2, <2>1, <2>2, <2>3, <2>4, <2>5, <2>6, <2>7, <2>8 DEF WorkerStep
<1>3. ASSUME NEW w \in Workers, MarkExpires(w) PROVE OneCreation'
  BY <1>3 DEF MarkExpires, OneCreation, local
<1>4. ASSUME NEW w \in Workers, SubmitStep(w) PROVE OneCreation'
  <2>1. Accepted(w)
    BY <1>4 DEF SubmitStep, Refused
  <2>2. pc[w] = "submit" /\ next[w] \in Targets
    <3>1. pc[w] = "submit"
      BY <2>1 DEF Accepted
    <3>2. ~(next[w] > NumTargets)
      BY <3>1 DEF TypeOK, PastSubmit
    <3> QED
      BY <1>t, <3>1, <3>2 DEF Targets
  <2>3. /\ placed' = Append(placed, next[w])
        /\ UNCHANGED <<position, markLost>>
        /\ next' = [next EXCEPT ![w] = next[w] + 1]
        /\ Goto(w, IF next[w] = NumTargets THEN "children" ELSE "submit")
    BY <2>1 DEF Accepted, Advance, AfterSubmit
  <2>4. /\ next'[w] = next[w] + 1
        /\ \A v \in Workers : v # w => next'[v] = next[v] /\ pc'[v] = pc[v]
        /\ pc'[w] = (IF next[w] = NumTargets THEN "children" ELSE "submit")
    BY <1>t, <2>3 DEF Goto
  <2>5. \A v \in Workers : pc'[v] \in {"children", "details"} => next'[v] = NumTargets + 1
    BY <2>4 DEF OneCreation
  <2>6. ASSUME ~markLost
        PROVE  /\ OneSetOfTargets'
               /\ position'.mark \in Creators'
               /\ \A i \in 1..Len(placed') : placed'[i] < next'[w]
               /\ \A v \in Workers : pc'[v] = "submit" => v = w
    <3>1. position.mark = w /\ \A v \in Workers : pc[v] = "submit" => v = w
      BY <2>2, <2>6 DEF MarkOwned, Holding
    <3>2. position'.mark \in Creators'
      BY <2>3, <2>4, <3>1 DEF Creators
    <3>3. /\ \A i, j \in 1..Len(placed) : placed[i] = placed[j] => i = j
          /\ \A i \in 1..Len(placed) : placed[i] < next[w]
      BY <2>2, <2>6 DEF OneCreation, OneSetOfTargets
    <3>4. /\ \A i, j \in 1..Len(placed') : placed'[i] = placed'[j] => i = j
          /\ \A i \in 1..Len(placed') : placed'[i] < next[w] + 1
      BY <1>t, <2>2, <2>3, <3>3, ApartWithLarger
    <3> QED
      BY <2>4, <3>1, <3>2, <3>4 DEF OneSetOfTargets
  <2>7. ASSUME ~markLost, NEW v \in Workers, pc'[v] = "clear" PROVE position'.created
    BY <2>3, <2>4, <2>7 DEF OneCreation
  <2> QED
    BY <2>3, <2>5, <2>6, <2>7 DEF OneCreation
<1>5. ASSUME NEW w \in Workers, Crash(w) PROVE OneCreation'
  <2>1. \A v \in Workers :
          pc'[v] = pc[v] \/ (pc'[v] \notin Submission /\ v \in Creators')
    BY <1>t, <1>5 DEF Crash, Goto, Submission, Creators
  <2> QED
    BY <1>q, <1>5, <2>1 DEF Crash, local
<1> QED
  BY <1>1, <1>2, <1>3, <1>4, <1>5 DEF Next, Pollers

\* However many deliveries of a fill race, return early or die in the middle: as
\* long as no mark is lost, the broker refuses nothing and nothing raises, no
\* spread of the position ever gets a second order.  It is the mark that does
\* this, for a later asave() may have emptied child_order_ids.
THEOREM OneOrderPerSpread ==
  ASSUME Pollers = {}, "reject" \notin Failures, "raise" \notin Failures
  PROVE  Spec => [](~markLost => OneSetOfTargets)
<1>1. Init => MarkOwned /\ NonePlacing /\ AllAligned /\ OneCreation
  BY EntryFillAssumption
     DEF Init, InitPosition, MarkOwned, Holding, NonePlacing, Placing, AllAligned,
         GatheredInOrder, Aligned, OneCreation, OneSetOfTargets, Procs, Targets,
         Absent, Null
<1>2. TypeOK /\ AllAligned /\ [Next]_vars => AllAligned'
  BY AlignedStep
<1>3. TypeOK /\ MarkOwned /\ NonePlacing /\ [Next]_vars => NonePlacing'
  BY CreatedStep
<1>4. TypeOK /\ MarkOwned /\ NonePlacing /\ AllAligned /\ OneCreation /\ [Next]_vars
        => OneCreation'
  BY OneCreationStep DEF AllAligned
<1>5. OneCreation => (~markLost => OneSetOfTargets)
  BY DEF OneCreation
<1> QED
  BY <1>1, <1>2, <1>3, <1>4, <1>5, TypeCorrect, MarkStep, PTL DEF Spec

=============================================================================
