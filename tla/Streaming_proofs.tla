-------------------------- MODULE Streaming_proofs ---------------------------
(***************************************************************************)
(* Proofs about UserStream, for any number of viewers, automated starts,   *)
(* removals and clean-ups and for every failure: a "connecting" state has  *)
(* somebody who will replace it, and a delayed clean-up spares the viewers *)
(* that came back.  Then about QuoteFeed: what counts as subscribed is fed *)
(* on the first connection, and there are never more subscriptions than    *)
(* the limit.                                                              *)
(***************************************************************************)
EXTENDS UserStream, QuoteFeed, FiniteSetTheorems, TLAPS

Manager == [state : States, streaming : BOOLEAN, lock : Procs \cup {Nobody},
            task : Nat, data : Nat, account : Nat]
Stream == [of : Nat, on : Nat,
           at : {"new", "alerts", "connect", "setup", "listen", "finally", "closing", "done"}]

\* Where a process works with a manager.
AtWork == {"start", "session", "accept", "viewing", "wait", "timed out", "stop",
           "close alerts", "close data", "await", "forget", "delete"}

\* The types, and who can be where.
Shape ==
  /\ managers \in Seq(Manager) /\ streams \in Seq(Stream)
  /\ current \in {None} \cup DOMAIN managers
  /\ channels \in [1..MaxManagers -> SUBSET Viewers]
  /\ \A m \in DOMAIN managers : m \in 1..MaxManagers
  /\ sweep \in Cleanups \cup {None}
  /\ pc \in [Procs -> Locations] /\ my \in [Procs -> Nat]
  /\ got \in [Procs -> [DOMAIN Nothing -> Nat]]
  /\ \A p \in Procs : pc[p] \in AtWork => my[p] \in DOMAIN managers
  /\ \A p \in Procs : pc[p] \in {"start", "session"} => p \in Viewers \cup Starters
  /\ \A p \in Procs : pc[p] \in {"accept", "viewing", "last"} => p \in Viewers
  /\ \A s \in DOMAIN streams : streams[s].of \in DOMAIN managers

NoOneTimedOut == \A a \in Starters : pc[a] \notin {"timed out", "failed"}

\* A new manager is a manager.
LEMMA NewManagerTyped == NewManager \in Manager /\ NewManager.state = "disconnected"
BY DEF NewManager, Manager, States, Nobody, None

\* Nobody has made a manager yet.
LEMMA ShapeInit == Init => Shape
BY UserStreamAssumption DEF Init, Shape, Manager, Stream, Nothing, None, Locations, AtWork, Nobody

\* A sequence with one more entry at its end.
LEMMA Appended ==
  ASSUME NEW S, NEW q \in Seq(S), NEW e \in S, NEW r, r = Append(q, e)
  PROVE  /\ r \in Seq(S) /\ Len(q) \in Nat /\ Len(q) + 1 \in DOMAIN r /\ r[Len(q) + 1] = e
         /\ DOMAIN q = 1..Len(q) /\ DOMAIN r = 1..Len(q) + 1
         /\ \A i \in DOMAIN q : i \in DOMAIN r /\ r[i] = q[i] /\ i # Len(q) + 1
         /\ \A i \in DOMAIN r : i \in DOMAIN q \/ i = Len(q) + 1
OBVIOUS

\* What get_user_manager does to the managers.
LEMMA GetManagerKeeps ==
  ASSUME Shape, NEW p \in Procs, NEW m \in 1..MaxManagers, GetManager(p, m)
  PROVE  /\ managers' \in Seq(Manager) /\ m \in DOMAIN managers'
         /\ DOMAIN managers \subseteq DOMAIN managers'
         /\ \A n \in DOMAIN managers : managers'[n] = managers[n]
         /\ \A n \in DOMAIN managers' \ DOMAIN managers : managers'[n] = NewManager
         /\ \A n \in DOMAIN managers' : n \in 1..MaxManagers
<1>1. CASE current = None
  <2>1. m = Len(managers) + 1 /\ managers' = Append(managers, NewManager) /\ managers \in Seq(Manager)
    BY <1>1 DEF GetManager, Shape
  <2>2. \A n \in DOMAIN managers : n \in 1..MaxManagers
    BY DEF Shape
  <2> HIDE DEF Shape, NewManager
  <2>3. managers' \in Seq(Manager) /\ m \in DOMAIN managers' /\ managers'[m] = NewManager
    BY <2>1, NewManagerTyped, Appended
  <2>4. \A n \in DOMAIN managers : n \in DOMAIN managers' /\ managers'[n] = managers[n]
    BY <2>1, NewManagerTyped, Appended
  <2>5. \A n \in DOMAIN managers' : n \in DOMAIN managers \/ n = m
    BY <2>1, NewManagerTyped, Appended
  <2> QED
    BY <2>2, <2>3, <2>4, <2>5
<1>2. CASE current # None
  <2>1. m = current /\ managers' = managers
    BY <1>2 DEF GetManager
  <2> QED
    BY <1>2, <2>1 DEF Shape
<1> QED BY <1>1, <1>2

\* One entry replaced.
LEMMA Replaced ==
  ASSUME NEW S, NEW q \in Seq(S), NEW i \in DOMAIN q, NEW e \in S, NEW r, r = [q EXCEPT ![i] = e]
  PROVE  /\ r \in Seq(S) /\ DOMAIN r = DOMAIN q /\ Len(r) = Len(q) /\ r[i] = e
         /\ \A j \in DOMAIN q : j # i => r[j] = q[j]
OBVIOUS

\* What the steps of the stream and of the processes that work with m do to m.
LEMMA ManagerTyped ==
  ASSUME NEW row \in Manager
  PROVE  /\ \A x \in States : [row EXCEPT !.state = x] \in Manager
         /\ \A x \in States, p \in Procs \cup {Nobody} :
              [row EXCEPT !.state = x, !.lock = p] \in Manager
         /\ \A p \in Procs \cup {Nobody} : [row EXCEPT !.lock = p] \in Manager
         /\ \A n \in Nat : [row EXCEPT !.task = n, !.lock = Nobody] \in Manager
         /\ \A n \in Nat : [row EXCEPT !.account = n] \in Manager
         /\ [row EXCEPT !.streaming = FALSE] \in Manager
         /\ \A n \in Nat : [row EXCEPT !.data = n, !.streaming = TRUE, !.state = "connected"]
                             \in Manager
         /\ [row EXCEPT !.streaming = FALSE, !.state = "error"] \in Manager
         /\ [row EXCEPT !.state = "disconnected", !.streaming = FALSE, !.data = None] \in Manager
         /\ [row EXCEPT !.state = "disconnected", !.lock = Nobody] \in Manager
BY DEF Manager, States, None, Nobody

\* Arriving, as a viewer or as an automated start, keeps the shape.
LEMMA ArrivalShape ==
  ASSUME Shape, NEW p \in Viewers \cup Starters,
         IF p \in Viewers THEN ViewerArrives(p) ELSE StarterChecks(p)
  PROVE  Shape'
<1>1. PICK m \in 1..MaxManagers, l \in {"start", "accept", "wait"} :
        /\ GetManager(p, m) /\ GotoCancelling(p, l)
        /\ l = "accept" => p \in Viewers
        /\ UNCHANGED <<streams, channels, got>>
  BY DEF ViewerArrives, StarterChecks, open
<1>2. /\ managers' \in Seq(Manager) /\ m \in DOMAIN managers' /\ m \in Nat
      /\ DOMAIN managers \subseteq DOMAIN managers'
      /\ \A n \in DOMAIN managers' : n \in 1..MaxManagers
  BY <1>1, GetManagerKeeps DEF Procs
<1>3. current' = m /\ my' = [my EXCEPT ![p] = m] /\ sweep' = None
  BY <1>1 DEF GetManager
<1>4. pc' = [q \in Procs |-> IF q = p THEN l ELSE IF q = sweep THEN "cancelled" ELSE pc[q]]
  BY <1>1, <1>3 DEF GotoCancelling
<1>5. p \in Procs
  BY DEF Procs
<1>6. pc' \in [Procs -> Locations] /\ my' \in [Procs -> Nat]
  BY <1>2, <1>3, <1>4 DEF Shape, Locations
<1>7. \A q \in Procs : \/ q = p /\ pc'[q] = l /\ my'[q] = m
                       \/ q # p /\ pc'[q] = "cancelled" /\ my'[q] = my[q]
                       \/ q # p /\ pc'[q] = pc[q] /\ my'[q] = my[q]
  BY <1>3, <1>4, <1>5 DEF Shape
<1> HIDE DEF GetManager
<1> QED
  BY <1>1, <1>2, <1>3, <1>6, <1>7 DEF Shape, AtWork

\* So does every other step of a process.
LEMMA ProcessShape ==
  ASSUME Shape, NEW p \in Procs,
         \/ p \in Viewers /\ (ViewerLeaves(p) \/ ViewerAccepted(p))
         \/ p \in Viewers \cup Starters /\ Start(p)
         \/ p \in Starters /\ (StartTimesOut(p) \/ StarterGivesUp(p) \/ StarterReturns(p))
         \/ p \in Cleanups /\ (CleanupWakes(p) \/ CleanupForgets(p))
         \/ p \in Removers /\ (RemoverStarts(p) \/ RemoverDeletes(p))
         \/ p \in Cleanups \cup Removers /\ Stop(p)
  PROVE  Shape'
<1> DEFINE m == my[p]
<1>0. managers \in Seq(Manager) /\ streams \in Seq(Stream)
  BY DEF Shape
<1>00. current # None => current \in DOMAIN managers /\ current \in Nat
  BY UserStreamAssumption DEF Shape
<1>1. ASSUME m \in DOMAIN managers, NEW row \in Manager, Update(m, row)
      PROVE  managers' \in Seq(Manager) /\ DOMAIN managers' = DOMAIN managers
  BY <1>0, <1>1, Replaced DEF Update
<1>2. m \in DOMAIN managers => managers[m] \in Manager
  BY <1>0
<1>3. CASE p \in Viewers /\ (ViewerLeaves(p) \/ ViewerAccepted(p))
  <2>1. \A c \in SUBSET Viewers : [channels EXCEPT ![my[p]] = c] \in [1..MaxManagers -> SUBSET Viewers]
    BY DEF Shape
  <2>2. m \in 1..MaxManagers
    BY <1>3 DEF ViewerLeaves, ViewerAccepted, Shape, AtWork
  <2>3. channels[m] \cup {p} \in SUBSET Viewers /\ channels[m] \ {p} \in SUBSET Viewers
    BY <1>3, <2>2 DEF Shape
  <2>4. channels' \in [1..MaxManagers -> SUBSET Viewers]
    BY <1>3, <2>1, <2>3 DEF ViewerLeaves, ViewerAccepted
  <2>5. CASE ViewerLeaves(p)
    BY <1>3, <2>4, <2>5 DEF ViewerLeaves, Shape, AtWork, Locations, Goto, Leaves, open, registry, None
  <2>6. CASE ViewerAccepted(p)
    BY <1>3, <2>4, <2>6 DEF ViewerAccepted, Shape, AtWork, Locations, Goto, open, registry
  <2> QED
    BY <1>3, <2>5, <2>6
<1>4. CASE p \in Viewers \cup Starters /\ StartFinds(p)
  BY <1>4 DEF StartFinds, AfterStart, Shape, AtWork, Locations, Goto, Leaves, open, registry
<1>5. CASE p \in Viewers \cup Starters /\ StartEnters(p)
  <2>1. m \in DOMAIN managers
    BY <1>5 DEF StartEnters, Shape, AtWork
  <2>2. [managers[m] EXCEPT !.state = "connecting", !.lock = p] \in Manager
    BY <1>2, <2>1, ManagerTyped DEF States
  <2>3. managers' \in Seq(Manager) /\ DOMAIN managers' = DOMAIN managers
    BY <1>1, <1>5, <2>1, <2>2 DEF StartEnters
  <2> QED
    BY <1>5, <2>1, <2>3 DEF StartEnters, Shape, AtWork, Locations, Goto, open, registry
<1>6. CASE p \in Viewers \cup Starters /\ StartCreates(p)
  <2>1. m \in DOMAIN managers /\ Len(streams) + 1 \in Nat /\ m \in Nat
    <3>1. m \in DOMAIN managers /\ m \in Nat
      BY <1>6 DEF StartCreates, Shape, AtWork
    <3> QED
      BY <1>0, <3>1
  <2>2. [managers[m] EXCEPT !.task = Len(streams) + 1, !.lock = Nobody] \in Manager
    BY <1>2, <2>1, ManagerTyped
  <2>3. managers' \in Seq(Manager) /\ DOMAIN managers' = DOMAIN managers
    BY <1>1, <1>6, <2>1, <2>2 DEF StartCreates
  <2> DEFINE new == [of |-> m, at |-> "new", on |-> None]
  <2>4. new \in Stream /\ new.of = m
    BY <2>1 DEF Stream, None
  <2>5. streams' = Append(streams, new)
    BY <1>6 DEF StartCreates
  <2> HIDE DEF new
  <2>6. /\ streams' \in Seq(Stream)
        /\ \A s \in DOMAIN streams' : streams'[s].of = m \/ (s \in DOMAIN streams /\ streams'[s] = streams[s])
    <3>0. new \in Stream /\ streams \in Seq(Stream)
      BY <1>0, <2>4
    <3>1. streams' \in Seq(Stream) /\ streams'[Len(streams) + 1] = new
      BY <2>5, <3>0, Appended
    <3>2. \A i \in DOMAIN streams' : i \in DOMAIN streams \/ i = Len(streams) + 1
      BY <2>5, <3>0, Appended
    <3>3. \A i \in DOMAIN streams : streams'[i] = streams[i]
      BY <2>5, <3>0, Appended
    <3>4. ASSUME NEW s \in DOMAIN streams'
          PROVE  streams'[s].of = m \/ (s \in DOMAIN streams /\ streams'[s] = streams[s])
      <4>1. CASE s \in DOMAIN streams
        BY <3>3, <4>1
      <4>2. CASE s = Len(streams) + 1
        BY <2>4, <3>1, <4>2
      <4> QED
        BY <3>2, <4>1, <4>2
    <3> QED
      BY <3>1, <3>4
  <2>7. \A s \in DOMAIN streams' : streams'[s].of \in DOMAIN managers'
    BY <2>1, <2>3, <2>6 DEF Shape
  <2> QED
    BY <1>6, <2>1, <2>3, <2>6, <2>7
       DEF StartCreates, AfterStart, Shape, AtWork, Locations, Goto, open, registry
<1>7. CASE p \in Viewers \cup Starters /\ StartFails(p)
  <2>1. m \in DOMAIN managers
    BY <1>7 DEF StartFails, Shape, AtWork
  <2>2. [managers[m] EXCEPT !.state = "disconnected", !.lock = Nobody] \in Manager
    BY <1>2, <2>1, ManagerTyped
  <2>3. managers' \in Seq(Manager) /\ DOMAIN managers' = DOMAIN managers
    BY <1>1, <1>7, <2>1, <2>2 DEF StartFails
  <2> QED
    BY <1>7, <2>1, <2>3 DEF StartFails, AfterStart, Shape, AtWork, Locations, Goto, open, registry
<1>8. CASE p \in Starters /\ StartTimesOut(p)
  <2>1. m \in DOMAIN managers
    BY <1>8 DEF StartTimesOut, Shape, AtWork
  <2> DEFINE lock == IF managers[m].lock = p THEN Nobody ELSE managers[m].lock
  <2>2. lock \in Procs \cup {Nobody}
    BY <1>2, <2>1 DEF Manager
  <2> HIDE DEF lock
  <2>3. [managers[m] EXCEPT !.lock = lock] \in Manager
    BY <1>2, <2>1, <2>2, ManagerTyped
  <2>4. Update(m, [managers[m] EXCEPT !.lock = lock])
    BY <1>8 DEF StartTimesOut, lock
  <2>5. managers' \in Seq(Manager) /\ DOMAIN managers' = DOMAIN managers
    BY <1>1, <2>1, <2>3, <2>4
  <2> QED
    BY <1>8, <2>1, <2>5 DEF StartTimesOut, Shape, AtWork, Locations, Goto, open, registry
<1>9. CASE p \in Starters /\ StarterGivesUp(p)
  <2>1. m \in DOMAIN managers
    BY <1>9 DEF StarterGivesUp, Shape, AtWork
  <2>2. [managers[m] EXCEPT !.streaming = FALSE] \in Manager
    BY <1>2, <2>1, ManagerTyped
  <2>3. managers' \in Seq(Manager) /\ DOMAIN managers' = DOMAIN managers
    BY <1>1, <1>9, <2>1, <2>2 DEF StarterGivesUp
  <2> QED
    BY <1>9, <2>1, <2>3 DEF StarterGivesUp, Leaves, Shape, AtWork, Locations, Goto, open, registry, None
<1>10. CASE p \in Starters /\ StarterReturns(p)
  BY <1>10 DEF StarterReturns, Leaves, Shape, AtWork, Locations, Goto, open, registry, None
<1>11. CASE p \in Cleanups /\ CleanupWakes(p)
  BY <1>00, <1>11 DEF CleanupWakes, Shape, AtWork, Locations, Goto, open, None
<1>12. CASE p \in Cleanups /\ CleanupForgets(p)
  BY <1>12 DEF CleanupForgets, Leaves, Shape, AtWork, Locations, Goto, open, None
<1>13. CASE p \in Removers /\ RemoverStarts(p)
  BY <1>00, <1>13 DEF RemoverStarts, Shape, AtWork, Locations, Goto, open, None
<1>14. CASE p \in Removers /\ RemoverDeletes(p)
  BY <1>14 DEF RemoverDeletes, Leaves, Shape, AtWork, Locations, Goto, open, None
<1>15. CASE p \in Cleanups \cup Removers /\ StopTakes(p)
  <2>1. m \in DOMAIN managers
    BY <1>15 DEF StopTakes, Shape, AtWork
  <2>2. CASE managers' = managers /\ got' = got
    BY <1>15, <2>1, <2>2 DEF StopTakes, AfterStop, Shape, AtWork, Locations, Goto, open, registry
  <2>3. CASE /\ got' = [got EXCEPT ![p] = [f \in DOMAIN Nothing |-> managers[m][f]]]
             /\ Update(m, NewManager) /\ Goto(p, "close alerts")
    <3>1. managers' \in Seq(Manager) /\ DOMAIN managers' = DOMAIN managers
      BY <1>1, <2>1, <2>3, NewManagerTyped
    <3>2. [f \in DOMAIN Nothing |-> managers[m][f]] \in [DOMAIN Nothing -> Nat]
      BY <1>2, <2>1 DEF Manager, Nothing
    <3>3. got' \in [Procs -> [DOMAIN Nothing -> Nat]]
      BY <2>3, <3>2 DEF Shape
    <3> QED
      BY <1>15, <2>1, <2>3, <3>1, <3>3 DEF StopTakes, Shape, AtWork, Locations, Goto, open, registry
  <2> QED
    BY <1>15, <2>2, <2>3 DEF StopTakes
<1>16. CASE p \in Cleanups \cup Removers /\ (StopClosesAlerts(p) \/ StopClosesData(p))
  BY <1>16 DEF StopClosesAlerts, StopClosesData, Shape, AtWork, Locations, Goto, registry
<1>17. CASE p \in Cleanups \cup Removers /\ StopAwaits(p)
  <2>1. Nothing \in [DOMAIN Nothing -> Nat]
    BY DEF Nothing, None
  <2>2. got' \in [Procs -> [DOMAIN Nothing -> Nat]]
    BY <1>17, <2>1 DEF StopAwaits, Shape
  <2>3. /\ streams' \in Seq(Stream) /\ DOMAIN streams' = DOMAIN streams
        /\ \A t \in DOMAIN streams : streams'[t].of = streams[t].of
    <3> DEFINE s == got[p].task
    <3>1. CASE streams' = [streams EXCEPT ![s] = [streams[s] EXCEPT !.at = "finally", !.on = None]]
      <4>1. CASE s \in DOMAIN streams
        <5> DEFINE e == [streams[s] EXCEPT !.at = "finally", !.on = None]
        <5>1. e \in Stream /\ e.of = streams[s].of
          <6>1. streams[s] \in Stream /\ None \in Nat
            BY <1>0, <4>1 DEF None
          <6> QED
            BY <6>1 DEF e, Stream
        <5>2. streams' = [streams EXCEPT ![s] = e]
          BY <3>1
        <5> HIDE DEF e
        <5>3. streams' \in Seq(Stream) /\ DOMAIN streams' = DOMAIN streams /\ streams'[s] = e
          BY <1>0, <4>1, <5>1, <5>2, Replaced
        <5>4. \A t \in DOMAIN streams : t # s => streams'[t] = streams[t]
          BY <1>0, <4>1, <5>1, <5>2, Replaced
        <5> QED
          BY <5>1, <5>3, <5>4
      <4>2. CASE s \notin DOMAIN streams
        <5>1. streams' = streams
          BY <1>0, <3>1, <4>2
        <5> QED
          BY <1>0, <5>1
      <4> QED
        BY <4>1, <4>2
    <3> QED
      BY <1>0, <1>17, <3>1 DEF StopAwaits
  <2> QED
    BY <1>17, <2>2, <2>3 DEF StopAwaits, AfterStop, Shape, AtWork, Locations, Goto, registry
<1> QED
  BY <1>3, <1>4, <1>5, <1>6, <1>7, <1>8, <1>9, <1>10, <1>11, <1>12, <1>13, <1>14, <1>15, <1>16,
     <1>17 DEF Start, Stop

\* So does every step of a streaming task.
LEMMA StreamShape ==
  ASSUME Shape, NEW s \in DOMAIN streams, StreamStep(s)
  PROVE  Shape'
<1> DEFINE m == streams[s].of
<1>0. /\ managers \in Seq(Manager) /\ streams \in Seq(Stream) /\ s \in Nat
      /\ m \in DOMAIN managers /\ streams[s] \in Stream /\ managers[m] \in Manager
      /\ None \in Nat
  BY DEF Shape, None
<1> HIDE DEF m
<1>1. ASSUME NEW row \in Manager, Update(m, row)
      PROVE  managers' \in Seq(Manager) /\ DOMAIN managers' = DOMAIN managers
  BY <1>0, <1>1, Replaced DEF Update
<1>2. ASSUME NEW e \in Stream, streams' = [streams EXCEPT ![s] = e], e.of = m
      PROVE  /\ streams' \in Seq(Stream) /\ DOMAIN streams' = DOMAIN streams
             /\ \A t \in DOMAIN streams : streams'[t].of = streams[t].of
  <2>1. streams' \in Seq(Stream) /\ DOMAIN streams' = DOMAIN streams /\ streams'[s] = e
    BY <1>0, <1>2, Replaced
  <2>2. \A t \in DOMAIN streams : t # s => streams'[t] = streams[t]
    BY <1>0, <1>2, Replaced
  <2> QED
    BY <1>2, <2>1, <2>2 DEF m
<1>3. ASSUME NEW x \in {"alerts", "connect", "setup", "finally", "closing", "done"}, At(s, x)
      PROVE  /\ streams' \in Seq(Stream) /\ DOMAIN streams' = DOMAIN streams
             /\ \A t \in DOMAIN streams : streams'[t].of = streams[t].of
  <2> DEFINE e == [streams[s] EXCEPT !.at = x]
  <2>1. streams[s] \in Stream /\ None \in Nat /\ e = [streams[s] EXCEPT !.at = x]
    BY <1>0
  <2>2. streams' = [streams EXCEPT ![s] = e]
    BY <1>3 DEF At
  <2> HIDE DEF e
  <2>3. e \in Stream /\ e.of = m
    BY <2>1 DEF m, Stream
  <2> QED
    BY <1>2, <2>2, <2>3
<1>4. ASSUME /\ managers' \in Seq(Manager) /\ DOMAIN managers' = DOMAIN managers
             /\ streams' \in Seq(Stream) /\ DOMAIN streams' = DOMAIN streams
             /\ \A t \in DOMAIN streams : streams'[t].of = streams[t].of
             /\ UNCHANGED <<channels, registry, pc, my, got>>
      PROVE  Shape'
  BY <1>4 DEF Shape, registry
<1>5. CASE StreamBegins(s)
  <2>1. Update(m, [managers[m] EXCEPT !.state = "connecting"]) /\ At(s, "alerts")
    BY <1>5 DEF StreamBegins, m, Of, ManagerOf
  <2>2. [managers[m] EXCEPT !.state = "connecting"] \in Manager
    BY <1>0, ManagerTyped DEF States
  <2> QED
    BY <1>1, <1>3, <1>4, <1>5, <2>1, <2>2 DEF StreamBegins
<1>6. CASE StreamAlerts(s)
  <2>1. [managers[m] EXCEPT !.account = s] \in Manager
    BY <1>0, ManagerTyped
  <2>2. managers' = managers \/ Update(m, [managers[m] EXCEPT !.account = s])
    BY <1>6 DEF StreamAlerts, m, Of, ManagerOf
  <2>3. managers' \in Seq(Manager) /\ DOMAIN managers' = DOMAIN managers
    BY <1>0, <1>1, <2>1, <2>2
  <2> QED
    BY <1>3, <1>4, <1>6, <2>3 DEF StreamAlerts
<1>7. CASE StreamConnects(s)
  <2>1. [managers[m] EXCEPT !.data = s, !.streaming = TRUE, !.state = "connected"] \in Manager
    BY <1>0, ManagerTyped
  <2>2. Update(m, [managers[m] EXCEPT !.data = s, !.streaming = TRUE, !.state = "connected"])
    BY <1>7 DEF StreamConnects, m, Of, ManagerOf
  <2> QED
    BY <1>1, <1>3, <1>4, <1>7, <2>1, <2>2 DEF StreamConnects
<1>8. CASE StreamFails(s)
  <2>1. [managers[m] EXCEPT !.streaming = FALSE, !.state = "error"] \in Manager
    BY <1>0, ManagerTyped
  <2>2. Update(m, [managers[m] EXCEPT !.streaming = FALSE, !.state = "error"])
    BY <1>8 DEF StreamFails, m, Of, ManagerOf
  <2> QED
    BY <1>1, <1>3, <1>4, <1>8, <2>1, <2>2 DEF StreamFails
<1>9. CASE StreamListens(s)
  <2>1. managers' = managers
    BY <1>9 DEF StreamListens
  <2> DEFINE e == [streams[s] EXCEPT !.at = "listen", !.on = managers[m].data]
  <2>2. managers[m].data \in Nat
    BY <1>0 DEF Manager
  <2>4. streams' = [streams EXCEPT ![s] = e] \/ At(s, "finally")
    BY <1>9 DEF StreamListens, m, Of, ManagerOf
  <2>6. streams[s] \in Stream /\ e = [streams[s] EXCEPT !.at = "listen", !.on = managers[m].data]
    BY <1>0
  <2> HIDE DEF e
  <2>3. e \in Stream /\ e.of = m
    BY <2>2, <2>6 DEF m, Stream
  <2>5. /\ streams' \in Seq(Stream) /\ DOMAIN streams' = DOMAIN streams
        /\ \A t \in DOMAIN streams : streams'[t].of = streams[t].of
    BY <1>2, <1>3, <2>3, <2>4
  <2> QED
    BY <1>0, <1>4, <1>9, <2>1, <2>5 DEF StreamListens
<1>10. CASE StreamEnds(s)
  <2> DEFINE e == [streams[s] EXCEPT !.at = "finally", !.on = None]
  <2>1. streams[s] \in Stream /\ None \in Nat /\ e = [streams[s] EXCEPT !.at = "finally", !.on = None]
    BY <1>0
  <2>2. streams' = [streams EXCEPT ![s] = e] /\ managers' = managers
    BY <1>10 DEF StreamEnds
  <2> HIDE DEF e
  <2>3. e \in Stream /\ e.of = m
    BY <2>1 DEF m, Stream
  <2> QED
    BY <1>0, <1>2, <1>4, <1>10, <2>2, <2>3 DEF StreamEnds
<1>11. CASE StreamCleans(s)
  <2> DEFINE row == [managers[m] EXCEPT !.state = "disconnected", !.streaming = FALSE, !.data = None]
  <2>1. row \in Manager
    BY <1>0, ManagerTyped
  <2>2. Update(m, row) /\ (At(s, "done") \/ At(s, "closing"))
    BY <1>11 DEF StreamCleans, m, Of, ManagerOf
  <2> HIDE DEF row
  <2> QED
    BY <1>1, <1>3, <1>4, <1>11, <2>1, <2>2 DEF StreamCleans
<1>12. CASE StreamClosed(s)
  <2>1. [managers[m] EXCEPT !.account = None] \in Manager
    BY <1>0, ManagerTyped
  <2>2. Update(m, [managers[m] EXCEPT !.account = None]) /\ At(s, "done")
    BY <1>12 DEF StreamClosed, m, Of, ManagerOf
  <2> QED
    BY <1>1, <1>3, <1>4, <1>12, <2>1, <2>2 DEF StreamClosed
<1> QED
  BY <1>5, <1>6, <1>7, <1>8, <1>9, <1>10, <1>11, <1>12 DEF StreamStep

\* So does scheduling a clean-up.
LEMMA ScheduleShape ==
  ASSUME Shape, NEW v \in Viewers, ScheduleCleanup(v) PROVE Shape'
<1>1. PICK k \in Cleanups :
        /\ pc[k] = "idle" /\ sweep' = k
        /\ pc' = [q \in Procs |-> CASE q = v -> "done" [] q = k -> "sleep"
                                   [] q = sweep -> "cancelled" [] OTHER -> pc[q]]
  BY DEF ScheduleCleanup
<1>2. pc' \in [Procs -> Locations]
  BY <1>1 DEF Shape, Locations
<1>3. \A q \in Procs : pc'[q] \in {"done", "sleep", "cancelled"} \/ pc'[q] = pc[q]
  BY <1>1
<1> QED
  BY <1>1, <1>2, <1>3 DEF ScheduleCleanup, Shape, AtWork, open

\* The shape is inductive.
LEMMA ShapeStep == Shape /\ [Next]_vars => Shape'
<1> SUFFICES ASSUME Shape, [Next]_vars PROVE Shape'
  OBVIOUS
<1>1. CASE UNCHANGED vars
  BY <1>1 DEF vars, Shape
<1>2. CASE \E v \in Viewers : ViewerArrives(v) \/ ViewerLeaves(v) \/ ViewerStep(v)
  BY <1>2, ArrivalShape, ProcessShape, ScheduleShape DEF ViewerStep, Procs
<1>3. CASE \E a \in Starters : StarterChecks(a) \/ StartTimesOut(a) \/ StarterStep(a)
  BY <1>3, ArrivalShape, ProcessShape, UserStreamAssumption DEF StarterStep, Procs
<1>4. CASE \E k \in Cleanups : CleanupStep(k)
  BY <1>4, ProcessShape DEF CleanupStep, Procs
<1>5. CASE \E r \in Removers : RemoverStarts(r) \/ RemoverStep(r)
  BY <1>5, ProcessShape DEF RemoverStep, Procs
<1>6. CASE \E s \in DOMAIN streams : StreamStep(s)
  BY <1>6, StreamShape
<1> QED
  BY <1>1, <1>2, <1>3, <1>4, <1>5, <1>6 DEF Next

-----------------------------------------------------------------------------
(***************************************************************************)
(* Who replaces "connecting".                                              *)
(***************************************************************************)
Early == {"new", "alerts", "connect", "finally"}

\* Somebody will replace the "connecting" of m.
Owner(m) ==
  \/ \E p \in Procs : pc[p] = "session" /\ my[p] = m /\ managers[m].lock = p
  \/ \E s \in DOMAIN streams : Of(s) = m /\ streams[s].at \in Early

\* A step that changes at most the managers in N and what works with them.
LEMMA OwnersStay ==
  ASSUME ConnectingIsOwned, NEW N, NoOneTimedOut' => NoOneTimedOut,
         \A n \in DOMAIN managers' \ N : managers'[n].state = "connecting" =>
           /\ n \in DOMAIN managers /\ managers[n].state = "connecting"
           /\ managers'[n].lock = managers[n].lock,
         \A q \in Procs : pc[q] = "session" /\ my[q] \notin N => pc'[q] = "session" /\ my'[q] = my[q],
         \A s \in DOMAIN streams : streams[s].of \notin N /\ streams[s].at \in Early =>
           /\ s \in DOMAIN streams' /\ streams'[s].of = streams[s].of
           /\ streams'[s].at \in Early,
         \A n \in N \cap DOMAIN managers' : managers'[n].state = "connecting" => Owner(n)'
  PROVE  ConnectingIsOwned'
<1> SUFFICES ASSUME NoOneTimedOut', NEW n \in DOMAIN managers', managers'[n].state = "connecting"
             PROVE  Owner(n)'
  BY DEF ConnectingIsOwned, NoOneTimedOut, Owner, Early
<1>1. CASE n \in N
  BY <1>1
<1>2. CASE n \notin N
  <2>1. n \in DOMAIN managers /\ Owner(n) /\ managers'[n].lock = managers[n].lock
    BY <1>2 DEF ConnectingIsOwned, NoOneTimedOut, Owner, Early
  <2>2. CASE \E p \in Procs : pc[p] = "session" /\ my[p] = n /\ managers[n].lock = p
    BY <1>2, <2>1, <2>2 DEF Owner
  <2>3. CASE \E s \in DOMAIN streams : Of(s) = n /\ streams[s].at \in Early
    BY <1>2, <2>3 DEF Owner, Of
  <2> QED
    BY <2>1, <2>2, <2>3 DEF Owner
<1> QED
  BY <1>1, <1>2

\* A start that gave up stays as it is.
LEMMA GivenUpStays ==
  ASSUME Shape, Next, NoOneTimedOut' PROVE NoOneTimedOut
<1> SUFFICES ASSUME NEW a \in Starters, pc[a] \in {"timed out", "failed"}
             PROVE  pc'[a] \in {"timed out", "failed"}
  BY DEF NoOneTimedOut
<1>0. /\ a \in Procs /\ a \notin Cleanups \cup Viewers \cup Removers /\ a # Nobody
      /\ pc \in [Procs -> Locations] /\ sweep \in Cleanups \cup {None}
  BY UserStreamAssumption DEF Procs, Shape
<1>1. ASSUME NEW p \in Procs, NEW l, Goto(p, l), pc[p] \notin {"timed out", "failed"}
      PROVE  pc'[a] = pc[a]
  BY <1>0, <1>1 DEF Goto
<1>2. ASSUME NEW p \in Procs, NEW l, GotoCancelling(p, l), pc[p] = "idle"
      PROVE  pc'[a] = pc[a]
  BY <1>0, <1>2 DEF GotoCancelling, None, Nobody
<1>3. ASSUME NEW v \in Viewers, ViewerArrives(v) \/ ViewerLeaves(v) \/ ViewerStep(v)
      PROVE  pc'[a] = pc[a]
  <2>1. CASE ViewerArrives(v)
    BY <1>2, <2>1 DEF ViewerArrives, Procs
  <2>2. CASE ScheduleCleanup(v)
    BY <1>0, <2>2 DEF ScheduleCleanup, None, Nobody
  <2>3. CASE ViewerLeaves(v) \/ ViewerAccepted(v) \/ Start(v)
    BY <1>1, <2>3 DEF ViewerLeaves, ViewerAccepted, Start, StartFinds, StartEnters, StartCreates,
                      StartFails, Procs
  <2> QED
    BY <1>3, <2>1, <2>2, <2>3 DEF ViewerStep
<1>4. ASSUME NEW b \in Starters, StarterChecks(b) \/ StartTimesOut(b) \/ StarterStep(b)
      PROVE  pc'[a] = pc[a] \/ pc'[a] = "failed"
  <2>1. CASE StarterChecks(b)
    BY <1>2, <2>1 DEF StarterChecks, Procs
  <2>2. CASE StarterGivesUp(b)
    BY <1>0, <2>2 DEF StarterGivesUp, Goto
  <2>3. CASE StartTimesOut(b) \/ StarterReturns(b) \/ Start(b)
    BY <1>1, <2>3 DEF StartTimesOut, StarterReturns, Start, StartFinds, StartEnters, StartCreates,
                      StartFails, Procs
  <2> QED
    BY <1>4, <2>1, <2>2, <2>3 DEF StarterStep
<1>5. ASSUME NEW p \in Removers \cup Cleanups,
             (p \in Cleanups /\ CleanupStep(p)) \/ (p \in Removers /\ (RemoverStarts(p) \/ RemoverStep(p)))
      PROVE  pc'[a] = pc[a]
  BY <1>0, <1>5 DEF CleanupStep, RemoverStep, RemoverStarts, RemoverDeletes, CleanupWakes, CleanupForgets,
       Stop, StopTakes, StopClosesAlerts, StopClosesData, StopAwaits, Goto
<1>6. ASSUME NEW s \in DOMAIN streams, StreamStep(s) PROVE pc' = pc
  BY <1>6 DEF StreamStep, StreamBegins, StreamAlerts, StreamConnects, StreamFails, StreamListens,
       StreamEnds, StreamCleans, StreamClosed
<1> QED
  BY <1>3, <1>4, <1>5, <1>6 DEF Next

\* Arrivals and departures, cleanups and removals: no manager that there is
\* changes, and a new one is disconnected.
LEMMA QuietOwned ==
  ASSUME ConnectingIsOwned, NoOneTimedOut' => NoOneTimedOut,
         \A n \in DOMAIN managers' :
           \/ n \in DOMAIN managers /\ managers'[n] = managers[n]
           \/ managers'[n] = NewManager,
         \A q \in Procs : pc[q] = "session" => pc'[q] = "session" /\ my'[q] = my[q],
         \A s \in DOMAIN streams : streams[s].at \in Early =>
           /\ s \in DOMAIN streams' /\ streams'[s].of = streams[s].of
           /\ streams'[s].at \in Early
  PROVE  ConnectingIsOwned'
<1>1. NewManager.state # "connecting"
  BY DEF NewManager
<1> DEFINE N == {}
<1>2. \A n \in DOMAIN managers' \ N : managers'[n].state = "connecting" =>
        /\ n \in DOMAIN managers /\ managers[n].state = "connecting"
        /\ managers'[n].lock = managers[n].lock
  BY <1>1
<1>3. \A n \in N \cap DOMAIN managers' : managers'[n].state = "connecting" => Owner(n)'
  OBVIOUS
<1> QED
  BY <1>2, <1>3, OwnersStay

\* The steps of a process with its manager: the other managers stay, and its own
\* is not "connecting" afterwards, or has an owner.
LEMMA OwnOwned ==
  ASSUME Shape, ConnectingIsOwned, NoOneTimedOut' => NoOneTimedOut,
         NEW p \in Procs, NEW l, Goto(p, l), UNCHANGED my, my[p] \in DOMAIN managers,
         NEW row \in Manager, Update(my[p], row),
         \A s \in DOMAIN streams : s \in DOMAIN streams' /\ streams'[s] = streams[s],
         row.state = "connecting" => Owner(my[p])'
  PROVE  ConnectingIsOwned'
<1> DEFINE N == {my[p]}
<1>0. managers \in Seq(Manager)
  BY DEF Shape
<1>1. DOMAIN managers' = DOMAIN managers /\ managers'[my[p]] = row
  BY <1>0, Replaced DEF Update
<1>2. \A n \in DOMAIN managers : n # my[p] => managers'[n] = managers[n]
  BY <1>0, Replaced DEF Update
<1>3. \A q \in Procs : pc[q] = "session" /\ my[q] \notin N => pc'[q] = "session" /\ my'[q] = my[q]
  BY DEF Goto, Shape
<1>4. \A n \in N \cap DOMAIN managers' : managers'[n].state = "connecting" => Owner(n)'
  BY <1>1
<1>5. \A n \in DOMAIN managers' \ N : managers'[n].state = "connecting" =>
        /\ n \in DOMAIN managers /\ managers[n].state = "connecting"
        /\ managers'[n].lock = managers[n].lock
  BY <1>1, <1>2
<1>6. \A s \in DOMAIN streams : streams[s].of \notin N /\ streams[s].at \in Early =>
        s \in DOMAIN streams' /\ streams'[s].of = streams[s].of /\ streams'[s].at \in Early
  OBVIOUS
<1> HIDE DEF N
<1> QED
  BY <1>3, <1>4, <1>5, <1>6, OwnersStay

\* start_streaming: it sets "connecting" and is the owner, until its task is.
LEMMA StartOwned ==
  ASSUME Shape, ConnectingIsOwned, NoOneTimedOut' => NoOneTimedOut,
         NEW p \in Viewers \cup Starters, Start(p)
  PROVE  ConnectingIsOwned'
<1>0. p \in Procs /\ pc[p] \in AtWork => my[p] \in DOMAIN managers
  BY DEF Procs, Shape
<1>1. p \in Procs /\ managers \in Seq(Manager) /\ streams \in Seq(Stream)
  BY DEF Procs, Shape
<1>00. my[p] \in DOMAIN managers => managers[my[p]] \in Manager
  BY <1>1
<1>2. CASE StartFinds(p)
  BY <1>1, <1>2, QuietOwned DEF StartFinds, AfterStart, Goto, Shape
<1>3. CASE StartEnters(p)
  <2> DEFINE row == [managers[my[p]] EXCEPT !.state = "connecting", !.lock = p]
  <2>1. my[p] \in DOMAIN managers
    BY <1>0, <1>1, <1>3 DEF StartEnters, AtWork
  <2>2. row \in Manager
    BY <1>00, <1>1, <2>1, ManagerTyped DEF States
  <2>3. Update(my[p], row) /\ Goto(p, "session") /\ my' = my /\ streams' = streams
    BY <1>3 DEF StartEnters
  <2>4. row.lock = p
    BY <1>1, <2>1 DEF Manager
  <2> HIDE DEF row
  <2>5. managers'[my[p]] = row
    BY <1>1, <2>1, <2>2, <2>3, Replaced DEF Update
  <2>6. Owner(my[p])'
    BY <1>1, <2>3, <2>4, <2>5 DEF Owner, Goto, Shape
  <2> QED
    BY <1>1, <2>1, <2>2, <2>3, <2>6, OwnOwned
<1>4. CASE StartCreates(p)
  <2> DEFINE row == [managers[my[p]] EXCEPT !.task = Len(streams) + 1, !.lock = Nobody]
             new == [of |-> my[p], at |-> "new", on |-> None]
  <2>1. my[p] \in DOMAIN managers /\ my[p] \in Nat /\ Len(streams) + 1 \in Nat
    <3>1. my[p] \in DOMAIN managers
      BY <1>0, <1>1, <1>4 DEF StartCreates, AtWork
    <3> QED
      BY <1>1, <3>1
  <2>2. row \in Manager
    BY <1>00, <1>1, <2>1, ManagerTyped
  <2>3. /\ Update(my[p], row) /\ Goto(p, AfterStart(p)) /\ my' = my
        /\ streams' = Append(streams, new)
    BY <1>4 DEF StartCreates
  <2>4. new \in Stream /\ new.of = my[p] /\ new.at = "new"
    BY <2>1 DEF Stream, None
  <2> HIDE DEF row, new
  <2>5. Len(streams) + 1 \in DOMAIN streams' /\ streams'[Len(streams) + 1] = new
    BY <1>1, <2>3, <2>4, Appended
  <2>6. \A s \in DOMAIN streams : s \in DOMAIN streams' /\ streams'[s] = streams[s]
    BY <1>1, <2>3, <2>4, Appended
  <2>7. Owner(my[p])'
    BY <2>3, <2>4, <2>5 DEF Owner, Of, Early
  <2> QED
    BY <1>1, <2>1, <2>2, <2>3, <2>6, <2>7, OwnOwned
<1>5. CASE StartFails(p)
  <2> DEFINE row == [managers[my[p]] EXCEPT !.state = "disconnected", !.lock = Nobody]
  <2>1. my[p] \in DOMAIN managers
    BY <1>0, <1>1, <1>5 DEF StartFails, AtWork
  <2>2. row \in Manager
    BY <1>00, <1>1, <2>1, ManagerTyped
  <2>3. Update(my[p], row) /\ Goto(p, AfterStart(p)) /\ my' = my /\ streams' = streams
    BY <1>5 DEF StartFails
  <2>4. row.state = "disconnected"
    BY <1>1, <2>1 DEF Manager
  <2> HIDE DEF row
  <2> QED
    BY <1>1, <2>1, <2>2, <2>3, <2>4, OwnOwned
<1> QED
  BY <1>2, <1>3, <1>4, <1>5 DEF Start

\* stop_streaming: it takes everything out, or takes a late task to its finally.
LEMMA StopOwned ==
  ASSUME Shape, ConnectingIsOwned, NoOneTimedOut' => NoOneTimedOut,
         NEW p \in Cleanups \cup Removers, Stop(p)
  PROVE  ConnectingIsOwned'
<1>1. p \in Procs /\ managers \in Seq(Manager) /\ streams \in Seq(Stream) /\ pc[p] # "session"
  BY UserStreamAssumption DEF Procs, Shape, Stop, StopTakes, StopClosesAlerts, StopClosesData, StopAwaits
<1>2. CASE StopTakes(p)
  <2>1. CASE managers' = managers
    BY <1>1, <1>2, <2>1, QuietOwned DEF StopTakes, Goto, Shape
  <2>2. CASE Update(my[p], NewManager) /\ Goto(p, "close alerts")
    <3>1. my[p] \in DOMAIN managers /\ my' = my /\ streams' = streams
      BY <1>1, <1>2 DEF StopTakes, AtWork, Shape
    <3>2. NewManager \in Manager /\ NewManager.state # "connecting"
      BY NewManagerTyped
    <3> HIDE DEF NewManager
    <3> QED
      BY <1>1, <2>2, <3>1, <3>2, OwnOwned
  <2> QED
    BY <1>2, <2>1, <2>2 DEF StopTakes
<1>3. CASE StopClosesAlerts(p) \/ StopClosesData(p)
  BY <1>1, <1>3, QuietOwned DEF StopClosesAlerts, StopClosesData, Goto, Shape
<1>4. CASE StopAwaits(p)
  <2> DEFINE s == got[p].task
             e == [streams[s] EXCEPT !.at = "finally", !.on = None]
  <2>1. managers' = managers /\ my' = my /\ \A q \in Procs : pc[q] = "session" => pc'[q] = "session"
    BY <1>1, <1>4 DEF StopAwaits, Goto, Shape
  <2>2. streams' = streams \/ streams' = [streams EXCEPT ![s] = e]
    BY <1>4 DEF StopAwaits
  <2>3. CASE s \in DOMAIN streams /\ streams' = [streams EXCEPT ![s] = e]
    <3>1. e \in Stream /\ e.of = streams[s].of /\ e.at = "finally"
      <4>1. streams[s] \in Stream /\ None \in Nat /\ e = [streams[s] EXCEPT !.at = "finally", !.on = None]
        BY <1>1, <2>3 DEF None
      <4> HIDE DEF e
      <4> QED
        BY <4>1 DEF Stream
    <3> HIDE DEF e
    <3>2. streams'[s] = e /\ DOMAIN streams' = DOMAIN streams
      BY <1>1, <2>3, <3>1, Replaced
    <3>3. \A t \in DOMAIN streams : t # s => streams'[t] = streams[t]
      BY <1>1, <2>3, <3>1, Replaced
    <3> QED
      BY <2>1, <3>1, <3>2, <3>3, QuietOwned DEF Early
  <2>4. CASE streams' = streams
    BY <2>1, <2>4, QuietOwned
  <2>5. CASE s \notin DOMAIN streams
    <3>1. streams' = streams
      BY <1>1, <2>2, <2>5
    <3> QED
      BY <2>4, <3>1
  <2> QED
    BY <2>2, <2>3, <2>4, <2>5
<1> QED
  BY <1>2, <1>3, <1>4 DEF Stop

\* _run_streaming: a task that is past "connect" has replaced the state.
LEMMA StreamOwned ==
  ASSUME Shape, ConnectingIsOwned, NEW s \in DOMAIN streams, StreamStep(s)
  PROVE  ConnectingIsOwned'
<1> DEFINE m == streams[s].of
<1>0. /\ managers \in Seq(Manager) /\ streams \in Seq(Stream) /\ s \in Nat
      /\ m \in DOMAIN managers /\ streams[s] \in Stream /\ managers[m] \in Manager
      /\ None \in Nat
  BY DEF Shape, None
<1>00. pc' = pc /\ my' = my
  BY DEF StreamStep, StreamBegins, StreamAlerts, StreamConnects, StreamFails, StreamListens,
         StreamEnds, StreamCleans, StreamClosed
<1>1. NoOneTimedOut' => NoOneTimedOut
  BY <1>00 DEF NoOneTimedOut
<1> HIDE DEF m
\* Its manager is not "connecting" afterwards, or the stream is early.
<1>2. ASSUME NEW row \in Manager, Update(m, row), NEW e \in Stream,
             streams' = [streams EXCEPT ![s] = e], e.of = m,
             row.state = "connecting" => e.at \in Early
      PROVE  ConnectingIsOwned'
  <2> DEFINE N == {m}
  <2>1. streams'[s] = e /\ DOMAIN streams' = DOMAIN streams
    BY <1>0, <1>2, Replaced
  <2>2. \A t \in DOMAIN streams : t # s => streams'[t] = streams[t]
    BY <1>0, <1>2, Replaced
  <2>3. managers'[m] = row /\ DOMAIN managers' = DOMAIN managers
    BY <1>0, <1>2, Replaced DEF Update
  <2>4. \A n \in DOMAIN managers : n # m => managers'[n] = managers[n]
    BY <1>0, <1>2, Replaced DEF Update
  <2>5. \A n \in N \cap DOMAIN managers' : managers'[n].state = "connecting" => Owner(n)'
    BY <1>2, <2>1, <2>3 DEF Owner, Of
  <2>6. \A t \in DOMAIN streams : streams[t].of \notin N /\ streams[t].at \in Early =>
          t \in DOMAIN streams' /\ streams'[t].of = streams[t].of /\ streams'[t].at \in Early
    BY <2>1, <2>2 DEF m
  <2>7. \A n \in DOMAIN managers' \ N : managers'[n].state = "connecting" =>
          /\ n \in DOMAIN managers /\ managers[n].state = "connecting"
          /\ managers'[n].lock = managers[n].lock
    BY <2>3, <2>4
  <2>8. \A q \in Procs : pc[q] = "session" /\ my[q] \notin N => pc'[q] = "session" /\ my'[q] = my[q]
    BY <1>00
  <2> HIDE DEF N
  <2> QED
    BY <1>1, <2>5, <2>6, <2>7, <2>8, OwnersStay
\* The stream was not early, and no state changes.
<1>3. ASSUME streams[s].at \notin Early, NEW row \in Manager, Update(m, row),
             row.state = managers[m].state, row.lock = managers[m].lock,
             \A t \in DOMAIN streams : t # s => t \in DOMAIN streams' /\ streams'[t] = streams[t]
      PROVE  ConnectingIsOwned'
  <2> DEFINE N == {}
  <2>1. managers'[m] = row /\ DOMAIN managers' = DOMAIN managers
    BY <1>0, <1>3, Replaced DEF Update
  <2>2. \A n \in DOMAIN managers : n # m => managers'[n] = managers[n]
    BY <1>0, <1>3, Replaced DEF Update
  <2>3. \A n \in DOMAIN managers' \ N : managers'[n].state = "connecting" =>
          /\ n \in DOMAIN managers /\ managers[n].state = "connecting"
          /\ managers'[n].lock = managers[n].lock
    BY <1>3, <2>1, <2>2
  <2>4. \A t \in DOMAIN streams : streams[t].of \notin N /\ streams[t].at \in Early =>
          t \in DOMAIN streams' /\ streams'[t].of = streams[t].of /\ streams'[t].at \in Early
    BY <1>3
  <2>5. \A q \in Procs : pc[q] = "session" /\ my[q] \notin N => pc'[q] = "session" /\ my'[q] = my[q]
    BY <1>00
  <2>6. \A n \in N \cap DOMAIN managers' : managers'[n].state = "connecting" => Owner(n)'
    OBVIOUS
  <2> HIDE DEF N
  <2> QED
    BY <1>1, <2>3, <2>4, <2>5, <2>6, OwnersStay
<1>4. ASSUME NEW x \in {"alerts", "connect", "setup", "finally", "closing", "done"}, At(s, x),
             NEW row \in Manager, Update(m, row), row.state = "connecting" => x \in Early
      PROVE  ConnectingIsOwned'
  <2> DEFINE e == [streams[s] EXCEPT !.at = x]
  <2>1. streams[s] \in Stream /\ e = [streams[s] EXCEPT !.at = x]
    BY <1>0
  <2>2. streams' = [streams EXCEPT ![s] = e]
    BY <1>4 DEF At
  <2> HIDE DEF e
  <2>3. e \in Stream /\ e.of = m /\ e.at = x
    BY <2>1 DEF m, Stream
  <2> QED
    BY <1>2, <1>4, <2>2, <2>3
<1>5. ASSUME managers' = managers PROVE Update(m, managers[m])
  BY <1>0, <1>5 DEF Update
<1>6. CASE StreamBegins(s)
  <2>1. Update(m, [managers[m] EXCEPT !.state = "connecting"]) /\ At(s, "alerts")
    BY <1>6 DEF StreamBegins, m, Of, ManagerOf
  <2>2. [managers[m] EXCEPT !.state = "connecting"] \in Manager
    BY <1>0, ManagerTyped DEF States
  <2> QED
    BY <1>4, <2>1, <2>2 DEF Early
<1>7. CASE StreamAlerts(s)
  <2>1. [managers[m] EXCEPT !.account = s] \in Manager
    BY <1>0, ManagerTyped
  <2>2. managers' = managers \/ Update(m, [managers[m] EXCEPT !.account = s])
    BY <1>7 DEF StreamAlerts, m, Of, ManagerOf
  <2>3. At(s, "connect") /\ "connect" \in Early
    BY <1>7 DEF StreamAlerts, Early
  <2> QED
    BY <1>0, <1>4, <1>5, <2>1, <2>2, <2>3
<1>8. CASE StreamConnects(s)
  <2> DEFINE row == [managers[m] EXCEPT !.data = s, !.streaming = TRUE, !.state = "connected"]
  <2>1. row \in Manager /\ row.state # "connecting"
    BY <1>0, ManagerTyped DEF Manager
  <2>2. Update(m, row) /\ At(s, "setup")
    BY <1>8 DEF StreamConnects, m, Of, ManagerOf
  <2> HIDE DEF row
  <2> QED
    BY <1>4, <2>1, <2>2
<1>9. CASE StreamFails(s)
  <2> DEFINE row == [managers[m] EXCEPT !.streaming = FALSE, !.state = "error"]
  <2>1. row \in Manager /\ row.state # "connecting"
    BY <1>0, ManagerTyped DEF Manager
  <2>2. Update(m, row) /\ At(s, "finally")
    BY <1>9 DEF StreamFails, m, Of, ManagerOf
  <2> HIDE DEF row
  <2> QED
    BY <1>4, <2>1, <2>2
<1>10. CASE StreamListens(s) \/ StreamEnds(s)
  <2>1. managers' = managers /\ streams[s].at \notin Early
    BY <1>10 DEF StreamListens, StreamEnds, Early
  <2>2. \/ \E e : streams' = [streams EXCEPT ![s] = e]
        \/ streams' = [streams EXCEPT ![s].at = "finally"]
    BY <1>10 DEF StreamListens, StreamEnds, At
  <2>3. \A t \in DOMAIN streams : t # s => t \in DOMAIN streams' /\ streams'[t] = streams[t]
    BY <1>0, <2>2
  <2> QED
    BY <1>0, <1>3, <1>5, <2>1, <2>3
<1>11. CASE StreamCleans(s)
  <2> DEFINE row == [managers[m] EXCEPT !.state = "disconnected", !.streaming = FALSE, !.data = None]
  <2>1. row \in Manager /\ row.state # "connecting"
    BY <1>0, ManagerTyped DEF Manager
  <2>2. Update(m, row) /\ (At(s, "done") \/ At(s, "closing"))
    BY <1>11 DEF StreamCleans, m, Of, ManagerOf
  <2> HIDE DEF row
  <2> QED
    BY <1>4, <2>1, <2>2
<1>12. CASE StreamClosed(s)
  <2> DEFINE row == [managers[m] EXCEPT !.account = None]
  <2>1. row \in Manager /\ row.state = managers[m].state /\ row.lock = managers[m].lock
    BY <1>0, ManagerTyped DEF Manager
  <2>2. Update(m, row) /\ streams[s].at \notin Early
    BY <1>12 DEF StreamClosed, m, Of, ManagerOf, Early
  <2>3. \A t \in DOMAIN streams : t # s => t \in DOMAIN streams' /\ streams'[t] = streams[t]
    BY <1>0, <1>12 DEF StreamClosed, At
  <2> HIDE DEF row
  <2> QED
    BY <1>3, <2>1, <2>2, <2>3
<1> QED
  BY <1>6, <1>7, <1>8, <1>9, <1>10, <1>11, <1>12 DEF StreamStep

\* get_user_manager: a manager that it makes is disconnected.
LEMMA ArrivalOwned ==
  ASSUME Shape, ConnectingIsOwned, NoOneTimedOut' => NoOneTimedOut,
         NEW p \in Viewers \cup Starters,
         IF p \in Viewers THEN ViewerArrives(p) ELSE StarterChecks(p)
  PROVE  ConnectingIsOwned'
<1>0. p \in Procs
  BY DEF Procs
<1>1. PICK m \in 1..MaxManagers, l \in {"start", "accept", "wait"} :
        GetManager(p, m) /\ GotoCancelling(p, l) /\ streams' = streams /\ pc[p] = "idle"
  BY DEF ViewerArrives, StarterChecks, open
<1>2. \A n \in DOMAIN managers' :
        \/ n \in DOMAIN managers /\ managers'[n] = managers[n]
        \/ managers'[n] = NewManager
  BY <1>0, <1>1, GetManagerKeeps
<1>3. \A q \in Procs : pc[q] = "session" => pc'[q] = "session" /\ my'[q] = my[q]
  <2> SUFFICES ASSUME NEW q \in Procs, pc[q] = "session" PROVE pc'[q] = "session" /\ my'[q] = my[q]
    OBVIOUS
  <2>1. q # p /\ q \in Viewers \cup Starters
    BY <1>1 DEF Shape
  <2>2. q \notin Cleanups /\ q # None
    BY <2>1, UserStreamAssumption DEF Nobody, None, Procs
  <2>3. q # sweep
    BY <2>2 DEF Shape
  <2> QED
    BY <1>1, <2>1, <2>3 DEF GotoCancelling, GetManager, Shape
<1> QED
  BY <1>1, <1>2, <1>3, QuietOwned

\* So every step leaves a "connecting" manager with an owner.
LEMMA OwnedStep == Shape /\ ConnectingIsOwned /\ [Next]_vars => ConnectingIsOwned'
<1> SUFFICES ASSUME Shape, ConnectingIsOwned, [Next]_vars PROVE ConnectingIsOwned'
  OBVIOUS
<1>1. CASE UNCHANGED vars
  <2>1. /\ NoOneTimedOut' => NoOneTimedOut
        /\ managers' = managers /\ streams' = streams /\ pc' = pc /\ my' = my
    BY <1>1 DEF vars, NoOneTimedOut
  <2> QED
    BY <2>1, QuietOwned
<1> SUFFICES ASSUME Next PROVE ConnectingIsOwned'
  BY <1>1
<1>2. NoOneTimedOut' => NoOneTimedOut
  BY GivenUpStays
<1>3. CASE \E v \in Viewers : ViewerArrives(v)
  BY <1>2, <1>3, ArrivalOwned
<1>4. CASE \E v \in Viewers : ViewerLeaves(v) \/ ViewerAccepted(v) \/ ScheduleCleanup(v)
  <2> PICK v \in Viewers : ViewerLeaves(v) \/ ViewerAccepted(v) \/ ScheduleCleanup(v)
    BY <1>4
  <2>1. managers' = managers /\ streams' = streams
    BY DEF ViewerLeaves, ViewerAccepted, ScheduleCleanup
  <2>2. \A q \in Procs : pc[q] = "session" => pc'[q] = "session" /\ my'[q] = my[q]
    <3> SUFFICES ASSUME NEW q \in Procs, pc[q] = "session" PROVE pc'[q] = "session" /\ my'[q] = my[q]
      OBVIOUS
    <3>1. q # v
      BY DEF ViewerLeaves, ViewerAccepted, ScheduleCleanup
    <3>2. q \in Viewers \cup Starters
      BY DEF Shape
    <3>3. q \notin Cleanups /\ q # None
      BY <3>2, UserStreamAssumption DEF Nobody, None, Procs
    <3>4. q # sweep
      BY <3>3 DEF Shape
    <3>5. CASE ScheduleCleanup(v)
      BY <3>1, <3>3, <3>4, <3>5 DEF ScheduleCleanup
    <3>6. CASE ViewerLeaves(v) \/ ViewerAccepted(v)
      BY <3>1, <3>6 DEF ViewerLeaves, ViewerAccepted, Goto, Leaves, Shape
    <3> QED
      BY <3>5, <3>6
  <2> QED
    BY <1>2, <2>1, <2>2, QuietOwned
<1>5. CASE \E p \in Viewers \cup Starters : Start(p)
  BY <1>2, <1>5, StartOwned
<1>6. CASE \E a \in Starters : StarterChecks(a)
  BY <1>2, <1>6, ArrivalOwned, UserStreamAssumption
<1>7. CASE \E a \in Starters : StartTimesOut(a) \/ StarterGivesUp(a)
  <2>1. ~NoOneTimedOut'
    BY <1>7 DEF NoOneTimedOut, StartTimesOut, StarterGivesUp, Goto, Shape, Procs
  <2> QED
    BY <2>1 DEF NoOneTimedOut, ConnectingIsOwned
<1>8. CASE \E a \in Starters : StarterReturns(a)
  BY <1>2, <1>8, QuietOwned DEF StarterReturns, Goto, Leaves, Shape, Procs
<1>9. CASE \E k \in Cleanups : CleanupWakes(k) \/ CleanupForgets(k)
  BY <1>2, <1>9, QuietOwned DEF CleanupWakes, CleanupForgets, Goto, Leaves, Shape, Procs
<1>10. CASE \E r \in Removers : RemoverStarts(r) \/ RemoverDeletes(r)
  BY <1>2, <1>10, QuietOwned DEF RemoverStarts, RemoverDeletes, Goto, Leaves, Shape, Procs
<1>11. CASE \E p \in Cleanups \cup Removers : Stop(p)
  BY <1>2, <1>11, StopOwned
<1>12. CASE \E s \in DOMAIN streams : StreamStep(s)
  BY <1>12, StreamOwned
<1> QED
  BY <1>3, <1>4, <1>5, <1>6, <1>7, <1>8, <1>9, <1>10, <1>11, <1>12
     DEF Next, ViewerStep, StarterStep, CleanupStep, RemoverStep

\* A manager that is "connecting" has somebody who will replace that state, whoever
\* starts, stops, removes and cleans up, as long as no automated start timed out:
\* start_streaming never returns at once for a stream that nobody is starting.
THEOREM ConnectingHasAnOwner == Spec => []ConnectingIsOwned
<1>1. Init => Shape /\ ConnectingIsOwned
  <2>1. Init => DOMAIN managers = {}
    BY DEF Init
  <2> QED
    BY <2>1, ShapeInit DEF ConnectingIsOwned
<1>2. Shape /\ ConnectingIsOwned /\ [Next]_vars => Shape' /\ ConnectingIsOwned'
  BY ShapeStep, OwnedStep
<1> QED
  BY <1>1, <1>2, PTL DEF Spec

-----------------------------------------------------------------------------
(***************************************************************************)
(* What a delayed clean-up may stop.                                       *)
(***************************************************************************)
\* A cleanup that is under way.
Active == {"sleep", "stop", "close alerts", "close data", "await", "forget"}

OneSweep == \A k \in Cleanups : pc[k] \in Active => sweep = k

\* Nobody watches the manager that a cleanup is about to stop, or is on the way to one.
NobodyWatches ==
  \A k \in Cleanups : pc[k] = "stop" =>
    channels[my[k]] = {} /\ \A v \in Viewers : ~Connecting(v)

\* A step that begins no cleanup and lets no viewer in.
LEMMA SparesQuietly ==
  ASSUME OneSweep, NobodyWatches, sweep' = sweep,
         \A k \in Cleanups : pc'[k] \in Active => pc[k] \in Active,
         \A k \in Cleanups : pc'[k] = "stop" =>
           pc[k] = "stop" /\ my'[k] = my[k] /\ channels'[my[k]] \subseteq channels[my[k]],
         \A v \in Viewers : Connecting(v)' => Connecting(v)
  PROVE  OneSweep' /\ NobodyWatches'
BY DEF OneSweep, NobodyWatches

\* A step after which no clean-up is under way.
LEMMA NoneActive ==
  ASSUME \A k \in Cleanups : pc'[k] \notin Active PROVE OneSweep' /\ NobodyWatches'
BY DEF OneSweep, NobodyWatches, Active

\* A step of a process that is no cleanup, or of a cleanup that is closing.
LEMMA OtherSpares ==
  ASSUME Shape, OneSweep, NobodyWatches, NEW p \in Procs, NEW l, Goto(p, l), sweep' = sweep,
         p \in Cleanups => pc[p] \in Active /\ l # "stop" /\ my' = my,
         \/ my' = my
         \/ \E m : my' = [my EXCEPT ![p] = m],
         p \in Viewers /\ l \in {"session", "accept"} => Connecting(p),
         p \in Viewers => l # "start",
         \A k \in Cleanups : pc[k] = "stop" => channels'[my[k]] \subseteq channels[my[k]]
  PROVE  OneSweep' /\ NobodyWatches'
<1>0. pc \in [Procs -> Locations] /\ my \in [Procs -> Nat] /\ Cleanups \subseteq Procs /\ Viewers \subseteq Procs
  BY DEF Shape, Procs
<1>1. \A q \in Procs : q # p => pc'[q] = pc[q] /\ my'[q] = my[q]
  BY <1>0 DEF Goto
<1>2. pc'[p] = l
  BY <1>0 DEF Goto
<1>3. \A k \in Cleanups : pc'[k] \in Active => pc[k] \in Active
  BY <1>0, <1>1
<1>4. \A k \in Cleanups : pc'[k] = "stop" =>
        pc[k] = "stop" /\ my'[k] = my[k] /\ channels'[my[k]] \subseteq channels[my[k]]
  BY <1>0, <1>1, <1>2
<1>5. \A v \in Viewers : Connecting(v)' => Connecting(v)
  BY <1>0, <1>1, <1>2 DEF Connecting
<1> QED
  BY <1>3, <1>4, <1>5, SparesQuietly

\* Whoever arrives cancels the cleanup that is under way.
LEMMA ArrivalSpares ==
  ASSUME Shape, OneSweep, NEW p \in Viewers \cup Starters,
         IF p \in Viewers THEN ViewerArrives(p) ELSE StarterChecks(p)
  PROVE  OneSweep' /\ NobodyWatches'
<1>1. PICK m \in 1..MaxManagers, l \in {"start", "accept", "wait"} :
        GetManager(p, m) /\ GotoCancelling(p, l)
  BY DEF ViewerArrives, StarterChecks
<1>2. ASSUME NEW k \in Cleanups PROVE pc'[k] \notin Active
  <2>1. k \in Procs /\ k # p
    BY UserStreamAssumption DEF Procs
  <2>2. pc'[k] = IF k = sweep THEN "cancelled" ELSE pc[k]
    BY <1>1, <2>1 DEF GotoCancelling, GetManager
  <2> QED
    BY <2>2 DEF OneSweep, Active
<1> QED
  BY <1>2, NoneActive

\* One clean-up at a time, and none that stops while somebody watches.
LEMMA SparesStep ==
  "slow" \notin Failures /\ Shape /\ OneSweep /\ NobodyWatches /\ [Next]_vars
    => OneSweep' /\ NobodyWatches'
<1> SUFFICES ASSUME "slow" \notin Failures, Shape, OneSweep, NobodyWatches, [Next]_vars
             PROVE  OneSweep' /\ NobodyWatches'
  OBVIOUS
<1>0. /\ pc \in [Procs -> Locations] /\ my \in [Procs -> Nat] /\ Cleanups \subseteq Procs
      /\ channels \in [1..MaxManagers -> SUBSET Viewers] /\ Viewers \subseteq Procs
      /\ Starters \subseteq Procs /\ Removers \subseteq Procs
      /\ Viewers \cap Cleanups = {} /\ Starters \cap Cleanups = {} /\ Removers \cap Cleanups = {}
      /\ Starters \cap Viewers = {} /\ Removers \cap Viewers = {}
  BY UserStreamAssumption DEF Shape, Procs
<1>1. ASSUME UNCHANGED <<sweep, pc, my, channels>> PROVE OneSweep' /\ NobodyWatches'
  BY <1>1, SparesQuietly DEF Connecting
<1>2. CASE UNCHANGED vars
  BY <1>1, <1>2 DEF vars
<1>3. CASE \E p \in Viewers \cup Starters : IF p \in Viewers THEN ViewerArrives(p) ELSE StarterChecks(p)
  BY <1>3, ArrivalSpares
<1>4. ASSUME NEW v \in Viewers, ViewerAccepted(v) PROVE OneSweep' /\ NobodyWatches'
  <2>1. \A k \in Cleanups : pc[k] # "stop"
    BY <1>4 DEF ViewerAccepted, NobodyWatches, Connecting
  <2>2. Goto(v, "viewing") /\ sweep' = sweep /\ my' = my
    BY <1>4 DEF ViewerAccepted, registry
  <2> QED
    BY <1>0, <2>1, <2>2, OtherSpares
<1>5. ASSUME NEW v \in Viewers, ViewerLeaves(v) PROVE OneSweep' /\ NobodyWatches'
  <2>1. PICK l \in {"last", "done"} : Goto(v, l)
    BY <1>5 DEF ViewerLeaves
  <2>2. sweep' = sweep /\ my' = [my EXCEPT ![v] = None]
    BY <1>5 DEF ViewerLeaves, registry, Leaves
  <2>3. ASSUME NEW k \in Cleanups, pc[k] = "stop"
        PROVE  channels'[my[k]] \subseteq channels[my[k]]
    <3>1. channels' = [channels EXCEPT ![my[v]] = channels[my[v]] \ {v}]
      BY <1>5 DEF ViewerLeaves
    <3>2. my[k] \in 1..MaxManagers
      BY <1>0, <2>3 DEF Shape, AtWork
    <3> QED
      BY <1>0, <3>1, <3>2
  <2> QED
    BY <1>0, <2>1, <2>2, <2>3, OtherSpares
<1>6. ASSUME NEW v \in Viewers, ScheduleCleanup(v) PROVE OneSweep' /\ NobodyWatches'
  <2>1. PICK k \in Cleanups :
          /\ sweep' = k
          /\ pc' = [q \in Procs |-> CASE q = v -> "done" [] q = k -> "sleep"
                                     [] q = sweep -> "cancelled" [] OTHER -> pc[q]]
    BY <1>6 DEF ScheduleCleanup
  <2>2. ASSUME NEW c \in Cleanups PROVE (pc'[c] \in Active => c = k) /\ pc'[c] # "stop"
    <3>1. CASE c = k
      BY <1>0, <2>1, <3>1
    <3>2. CASE c # k
      <4>1. pc'[c] = IF c = sweep THEN "cancelled" ELSE pc[c]
        BY <1>0, <2>1, <3>2
      <4> QED
        BY <4>1 DEF OneSweep, Active
    <3> QED
      BY <3>1, <3>2
  <2> QED
    BY <2>1, <2>2 DEF OneSweep, NobodyWatches
<1>7. ASSUME NEW p \in Viewers \cup Starters, Start(p) PROVE OneSweep' /\ NobodyWatches'
  <2>1. PICK l \in {"session", "accept", "wait"} :
          Goto(p, l) /\ pc[p] \in {"start", "session"} /\ sweep' = sweep /\ my' = my /\ channels' = channels
    BY <1>7 DEF Start, StartFinds, StartEnters, StartCreates, StartFails, AfterStart, registry
  <2>2. p \in Viewers => Connecting(p)
    BY <2>1 DEF Connecting
  <2> QED
    BY <1>0, <2>1, <2>2, OtherSpares
<1>8. ASSUME NEW a \in Starters, StartTimesOut(a) \/ StarterGivesUp(a) \/ StarterReturns(a)
      PROVE  OneSweep' /\ NobodyWatches'
  <2>1. PICK l \in {"timed out", "failed", "done"} :
          /\ Goto(a, l) /\ sweep' = sweep /\ channels' = channels
          /\ my' = my \/ my' = [my EXCEPT ![a] = None]
    BY <1>8 DEF StartTimesOut, StarterGivesUp, StarterReturns, Leaves, registry
  <2> QED
    BY <1>0, <2>1, OtherSpares
<1>9. ASSUME NEW k \in Cleanups, CleanupWakes(k) PROVE OneSweep' /\ NobodyWatches'
  <2>1. sweep = k /\ pc[k] = "sleep" /\ k \in Procs
    BY <1>0, <1>9 DEF CleanupWakes, OneSweep, Active
  <2>2. \A c \in Cleanups : c # k => pc'[c] = pc[c] /\ pc[c] \notin Active
    BY <1>0, <1>9, <2>1 DEF CleanupWakes, Goto, OneSweep
  <2>3. CASE Goto(k, "done")
    BY <1>0, <2>2, <2>3, NoneActive DEF Goto, Active
  <2>4. CASE /\ channels[current] = {} /\ Goto(k, "stop") /\ my' = [my EXCEPT ![k] = current]
             /\ sweep' = sweep
    <3>1. pc'[k] = "stop" /\ my'[k] = current
      BY <1>0, <2>1, <2>4 DEF Goto
    <3>2. \A v \in Viewers : ~Connecting(v) /\ pc'[v] = pc[v]
      BY <1>0, <1>9, <2>4 DEF CleanupWakes, Goto
    <3>3. channels' = channels /\ \A v \in Viewers : ~Connecting(v)'
      BY <1>9, <3>2 DEF CleanupWakes, Connecting
    <3>4. OneSweep'
      BY <2>1, <2>2, <2>4 DEF OneSweep
    <3>5. NobodyWatches'
      BY <2>2, <2>4, <3>1, <3>3 DEF NobodyWatches, Active
    <3> QED
      BY <3>4, <3>5
  <2> QED
    BY <1>9, <2>3, <2>4 DEF CleanupWakes
<1>10. ASSUME NEW k \in Cleanups, CleanupForgets(k) PROVE OneSweep' /\ NobodyWatches'
  <2>1. \A c \in Cleanups : pc'[c] \notin Active
    BY <1>0, <1>10 DEF CleanupForgets, Goto, OneSweep, Active
  <2> QED
    BY <2>1, NoneActive
<1>11. ASSUME NEW r \in Removers, RemoverStarts(r) \/ RemoverDeletes(r)
       PROVE  OneSweep' /\ NobodyWatches'
  <2>1. PICK l \in {"done", "stop"} :
          /\ Goto(r, l) /\ sweep' = sweep /\ channels' = channels
          /\ my' = my \/ \E m : my' = [my EXCEPT ![r] = m]
    BY <1>11 DEF RemoverStarts, RemoverDeletes, Leaves
  <2> QED
    BY <1>0, <2>1, OtherSpares
<1>12. ASSUME NEW p \in Cleanups \cup Removers, Stop(p) PROVE OneSweep' /\ NobodyWatches'
  <2>1. PICK l \in {"forget", "delete", "close alerts", "close data", "await"} :
          /\ Goto(p, l) /\ sweep' = sweep /\ channels' = channels /\ my' = my
          /\ pc[p] \in {"stop", "close alerts", "close data", "await"}
    BY <1>12 DEF Stop, StopTakes, StopClosesAlerts, StopClosesData, StopAwaits, AfterStop, registry
  <2> QED
    BY <1>0, <2>1, OtherSpares DEF Active
<1>13. CASE \E s \in DOMAIN streams : StreamStep(s)
  BY <1>1, <1>13 DEF StreamStep, StreamBegins, StreamAlerts, StreamConnects, StreamFails, StreamListens,
         StreamEnds, StreamCleans, StreamClosed, registry
<1> QED
  BY <1>0, <1>2, <1>3, <1>4, <1>5, <1>6, <1>7, <1>8, <1>9, <1>10, <1>11, <1>12, <1>13
     DEF Next, ViewerStep, StarterStep, CleanupStep, RemoverStep

\* When no viewer takes longer to connect than the grace period, a delayed clean-up
\* only ever stops a manager without connected channels: whoever comes back in
\* time cancels it, at whichever await it has got to.
THEOREM CleanupLeavesViewers ==
  ASSUME "slow" \notin Failures PROVE Spec => CleanupSparesViewers
<1>1. Init => Shape /\ OneSweep /\ NobodyWatches
  BY ShapeInit DEF Init, OneSweep, NobodyWatches, Active, Procs
<1>2. Shape /\ OneSweep /\ NobodyWatches /\ [Next]_vars => Shape' /\ OneSweep' /\ NobodyWatches'
  BY ShapeStep, SparesStep
<1>3. NobodyWatches =>
        [\A k \in Cleanups :
           pc[k] = "stop" /\ pc'[k] # "stop" /\ pc'[k] # "cancelled" => channels[my[k]] = {}]_vars
  BY DEF NobodyWatches
<1> QED
  BY <1>1, <1>2, <1>3, PTL DEF Spec, CleanupSparesViewers
-----------------------------------------------------------------------------
(***************************************************************************)
(* The quotes that the stream brings, for any number of symbols, requests  *)
(* and connections: QuoteFeed.                                             *)
(***************************************************************************)
Stages == {"idle", "subscribing", "look", "wait", "answered", "priced", "failed"}

\* The subscriptions of the first connection are fed or on their way.
FeedShape ==
  /\ stream \in Nat /\ connections \in Nat /\ (stream # Absent => stream = connections)
  /\ subscribed \in Seq(Symbols) /\ lapsed \in 0..Len(subscribed)
  /\ connections = 0 => subscribed = <<>>
  /\ stage \in [Requests -> Stages] /\ legs \in [Requests -> SUBSET Symbols]
  /\ asked \in [Requests -> [on : Nat, new : SUBSET Symbols]]
  /\ \A r \in Requests : IF stage[r] = "subscribing" THEN asked[r].on \in 1..connections
                         ELSE asked[r].new = {}

FirstIsFed == stream = 1 => SubscribedIsFed

\* What is left of a sequence when its first entries go.
LEMMA Suffix ==
  ASSUME NEW S, NEW q \in Seq(S), NEW i \in Int, i >= 1
  PROVE  SubSeq(q, i, Len(q)) \in Seq(S) /\ ToSet(SubSeq(q, i, Len(q))) \subseteq ToSet(q)
<1> DEFINE u == SubSeq(q, i, Len(q))
<1>1. u \in Seq(S)
  OBVIOUS
<1>2. Len(u) = IF i <= Len(q) THEN Len(q) - i + 1 ELSE 0
  OBVIOUS
<1>3. \A j \in 1..Len(u) : u[j] = q[i + j - 1] /\ i + j - 1 \in 1..Len(q)
  BY <1>2
<1>4. DOMAIN u = 1..Len(u) /\ DOMAIN q = 1..Len(q)
  BY <1>1
<1> HIDE DEF u
<1>5. ToSet(u) \subseteq ToSet(q)
  BY <1>3, <1>4 DEF ToSet
<1> QED
  BY <1>1, <1>5 DEF u

\* Two sequences, one after the other.
LEMMA Concatenated ==
  ASSUME NEW S, NEW q \in Seq(S), NEW w \in Seq(S)
  PROVE  q \o w \in Seq(S) /\ ToSet(q \o w) \subseteq ToSet(q) \cup ToSet(w)
<1> DEFINE u == q \o w
<1>1. u \in Seq(S) /\ Len(u) = Len(q) + Len(w)
  OBVIOUS
<1>2. \A j \in 1..Len(u) : u[j] = IF j <= Len(q) THEN q[j] ELSE w[j - Len(q)]
  OBVIOUS
<1>3. DOMAIN u = 1..Len(u) /\ DOMAIN q = 1..Len(q) /\ DOMAIN w = 1..Len(w)
  BY <1>1
<1> HIDE DEF u
<1>4. ASSUME NEW j \in DOMAIN u PROVE u[j] \in ToSet(q) \cup ToSet(w)
  <2>1. CASE j <= Len(q)
    <3>1. u[j] = q[j] /\ j \in DOMAIN q
      BY <1>1, <1>2, <1>3, <2>1
    <3> QED
      BY <3>1 DEF ToSet
  <2>2. CASE ~(j <= Len(q))
    <3>1. u[j] = w[j - Len(q)] /\ j - Len(q) \in DOMAIN w
      BY <1>1, <1>2, <1>3, <2>2
    <3> QED
      BY <3>1 DEF ToSet
  <2> QED
    BY <2>1, <2>2
<1>5. ToSet(u) \subseteq ToSet(q) \cup ToSet(w)
  BY <1>4 DEF ToSet
<1> QED
  BY <1>1, <1>5 DEF u

\* What is live or is kept for n more is subscribed already.
LEMMA LiveIsSubscribed ==
  ASSUME FeedShape, NEW n \in Nat
  PROVE  /\ Live \in Seq(Symbols) /\ ToSet(Live) \subseteq ToSet(subscribed)
         /\ RoomFor(n) \in Seq(Symbols) /\ ToSet(RoomFor(n)) \subseteq ToSet(subscribed)
<1>1. Live \in Seq(Symbols) /\ ToSet(Live) \subseteq ToSet(subscribed)
  <2>1. subscribed \in Seq(Symbols) /\ lapsed + 1 \in Int /\ lapsed + 1 >= 1
    BY DEF FeedShape
  <2> QED
    BY <2>1, Suffix DEF Live
<1> DEFINE over == Len(Live) + n - MaxSubscribed
<1>2. Len(Live) \in Nat
  BY <1>1
<1>3. over \in Int
  BY <1>2, QuoteFeedAssumption
<1>4. RoomFor(n) = IF over <= 0 THEN Live ELSE SubSeq(Live, over + 1, Len(Live))
  BY DEF RoomFor
<1> HIDE DEF over
<1>5. CASE over <= 0
  BY <1>1, <1>4, <1>5
<1>6. CASE ~(over <= 0)
  <2>1. over + 1 \in Int /\ over + 1 >= 1
    BY <1>3, <1>6
  <2>2. /\ SubSeq(Live, over + 1, Len(Live)) \in Seq(Symbols)
        /\ ToSet(SubSeq(Live, over + 1, Len(Live))) \subseteq ToSet(Live)
    BY <1>1, <2>1, Suffix
  <2> QED
    BY <1>1, <1>4, <1>6, <2>2
<1> QED
  BY <1>1, <1>5, <1>6

\* The legs that are asked for, in some order.
LEMMA OrderOf ==
  ASSUME NEW new \in SUBSET Symbols, Cardinality(new) \in Nat, NEW order \in SetToSeqs(new)
  PROVE  order \in Seq(Symbols) /\ ToSet(order) \subseteq new
<1>1. order \in [1..Cardinality(new) -> new]
  BY DEF SetToSeqs, Cardinality
<1>2. order \in Seq(new)
  BY <1>1
<1>3. DOMAIN order = 1..Cardinality(new) /\ \A i \in DOMAIN order : order[i] \in new
  BY <1>1
<1> QED
  BY <1>2, <1>3 DEF ToSet

\* What looking at the quotes does to a request.
LEMMA LooksAtGoes ==
  ASSUME NEW r \in Requests, NEW L, LooksAt(r, L)
  PROVE  \E l \in {"answered", "failed", "wait"} : Moves(r, l)
BY DEF LooksAt, Answer

\* Steps that change no subscription and let no request ask for one.
LEMMA FedQuietly ==
  ASSUME FeedShape, FirstIsFed, UNCHANGED <<stream, connections, feeds, subscribed, asked>>,
         lapsed' \in 0..Len(subscribed), legs' \in [Requests -> SUBSET Symbols],
         \/ stage' = stage
         \/ \E r \in Requests, l \in {"look", "answered", "priced", "failed", "wait"} :
              stage[r] # "subscribing" /\ Moves(r, l)
  PROVE  FeedShape' /\ FirstIsFed'
<1>1. FirstIsFed'
  BY DEF FirstIsFed, SubscribedIsFed
<1>2. stage' \in [Requests -> Stages]
  BY DEF FeedShape, Moves, Stages
<1>3. \A r \in Requests : stage'[r] = "subscribing" <=> stage[r] = "subscribing"
  BY DEF FeedShape, Moves, Stages
<1> QED
  BY <1>1, <1>2, <1>3 DEF FeedShape

\* A request has put new symbols among the subscribed ones, and will ask for them.
LEMMA FedAsking ==
  ASSUME FeedShape, FirstIsFed, UNCHANGED connection, stream # Absent, lapsed' = 0,
         legs' \in [Requests -> SUBSET Symbols],
         NEW r \in Requests, stage[r] # "subscribing", NEW new \in SUBSET Symbols,
         subscribed' \in Seq(Symbols), ToSet(subscribed') \subseteq ToSet(subscribed) \cup new,
         asked' = [asked EXCEPT ![r] = [on |-> stream, new |-> new]],
         Moves(r, "subscribing")
  PROVE  FeedShape' /\ FirstIsFed'
<1>1. asked' \in [Requests -> [on : Nat, new : SUBSET Symbols]] /\ asked[r].new = {}
  BY DEF FeedShape
<1>2. asked'[r] = [on |-> stream, new |-> new] /\ \A q \in Requests : q # r => asked'[q] = asked[q]
  BY DEF FeedShape
<1>3. stage' \in [Requests -> Stages] /\ stage'[r] = "subscribing"
      /\ \A q \in Requests : q # r => stage'[q] = stage[q]
  BY DEF FeedShape, Moves, Stages
<1>4. stream \in 1..connections /\ stream' = stream /\ connections' = connections /\ feeds' = feeds
  BY DEF FeedShape, connection, Absent
<1>5. \A q \in Requests : IF stage'[q] = "subscribing" THEN asked'[q].on \in 1..connections'
                          ELSE asked'[q].new = {}
  BY <1>2, <1>3, <1>4 DEF FeedShape
<1>6. lapsed' \in 0..Len(subscribed')
  OBVIOUS
<1>7. FeedShape'
  BY <1>1, <1>3, <1>4, <1>5, <1>6 DEF FeedShape
<1>8. ASSUME stream = 1, NEW s \in ToSet(subscribed')
      PROVE  s \in feeds \/ \E q \in Requests : s \in asked'[q].new
  <2>1. CASE s \in new
    BY <1>2, <2>1
  <2>2. CASE s \in ToSet(subscribed)
    <3>1. s \in feeds \/ \E q \in Requests : s \in asked[q].new
      BY <1>8, <2>2 DEF FirstIsFed, SubscribedIsFed, Absent
    <3> QED
      BY <1>1, <1>2, <3>1
  <2> QED
    BY <1>8, <2>1, <2>2
<1>9. FirstIsFed'
  BY <1>4, <1>8 DEF FirstIsFed, SubscribedIsFed
<1> QED
  BY <1>7, <1>9

\* A request asks for its legs, with a connection or without one.
LEMMA FedAsks ==
  ASSUME FeedShape, FirstIsFed, NEW r \in Requests, Asks(r)
  PROVE  FeedShape' /\ FirstIsFed'
<1>1. PICK L \in SUBSET Symbols : AsksFor(r, L)
  BY DEF Asks
<1>2. stage[r] = "idle" /\ UNCHANGED connection
  BY DEF Asks
<1> DEFINE new == L \ ToSet(Live)
<1>3. legs' = [legs EXCEPT ![r] = L] /\ legs' \in [Requests -> SUBSET Symbols]
  BY <1>1 DEF AsksFor, FeedShape
<1>4. CASE stream = Absent
  <2>1. LooksAt(r, L) /\ UNCHANGED <<subscribed, lapsed, asked>>
    BY <1>1, <1>4 DEF AsksFor, subscriptions
  <2>2. lapsed' \in 0..Len(subscribed)
    BY <2>1 DEF FeedShape
  <2>3. \E l \in {"look", "answered", "priced", "failed", "wait"} : Moves(r, l)
    BY <2>1, LooksAtGoes
  <2> QED
    BY <1>2, <1>3, <2>1, <2>2, <2>3, FedQuietly DEF connection
<1>5. CASE stream # Absent /\ new = {}
  <2>1. LooksAt(r, L) /\ subscribed' = Live /\ lapsed' = 0 /\ UNCHANGED asked
    BY <1>1, <1>5 DEF AsksFor
  <2>2. Live \in Seq(Symbols) /\ ToSet(Live) \subseteq ToSet(subscribed)
    BY LiveIsSubscribed
  <2>3. PICK l \in {"look", "answered", "priced", "failed", "wait"} : Moves(r, l)
    BY <2>1, LooksAtGoes
  <2>4. stage' \in [Requests -> Stages] /\ \A q \in Requests : stage'[q] = "subscribing" <=> stage[q] = "subscribing"
    BY <1>2, <2>3 DEF FeedShape, Moves, Stages
  <2>5. lapsed' \in 0..Len(subscribed') /\ stream' = stream /\ connections' = connections /\ feeds' = feeds
    BY <1>2, <2>1, <2>2 DEF connection
  <2>6. connections' # 0
    BY <1>5, <2>5 DEF FeedShape, Absent
  <2>7. FeedShape'
    BY <1>3, <2>1, <2>2, <2>4, <2>5, <2>6 DEF FeedShape
  <2>8. FirstIsFed'
    BY <2>1, <2>2, <2>5 DEF FirstIsFed, SubscribedIsFed
  <2> QED
    BY <2>7, <2>8
<1>6. CASE stream # Absent /\ new # {}
  <2>1. PICK order \in SetToSeqs(new) : subscribed' = RoomFor(Cardinality(new)) \o order
    BY <1>1, <1>6 DEF AsksFor
  <2>2. /\ lapsed' = 0 /\ Moves(r, "subscribing")
        /\ asked' = [asked EXCEPT ![r] = [on |-> stream, new |-> new]]
    BY <1>1, <1>6 DEF AsksFor
  <2>3. new \in SUBSET Symbols /\ Cardinality(new) \in Nat
    BY FS_Subset, FS_CardinalityType, QuoteFeedAssumption
  <2> HIDE DEF new
  <2>4. order \in Seq(Symbols) /\ ToSet(order) \subseteq new
    BY <2>3, OrderOf
  <2> DEFINE kept == RoomFor(Cardinality(new))
  <2>5. kept \in Seq(Symbols) /\ ToSet(kept) \subseteq ToSet(subscribed)
    BY <2>3, LiveIsSubscribed
  <2>6. subscribed' = kept \o order
    BY <2>1
  <2> HIDE DEF kept
  <2>7. subscribed' \in Seq(Symbols) /\ ToSet(subscribed') \subseteq ToSet(subscribed) \cup new
    BY <2>4, <2>5, <2>6, Concatenated
  <2> QED
    BY <1>2, <1>3, <1>6, <2>2, <2>3, <2>7, FedAsking
<1> QED
  BY <1>4, <1>5, <1>6

\* The subscriptions of a request are taken, or lost with their connection.
LEMMA FedAnswered ==
  ASSUME "subscribe" \notin FeedFailures, FeedShape, FirstIsFed, NEW r \in Requests,
         Subscribes(r) \/ SubscribeFails(r)
  PROVE  FeedShape' /\ FirstIsFed'
<1>1. /\ stage[r] = "subscribing" /\ asked' = [asked EXCEPT ![r] = NotAsked]
      /\ UNCHANGED <<stream, connections, subscribed, lapsed, legs>>
  BY DEF Subscribes, SubscribeFails, connection, subscriptions
<1>2. PICK l \in {"look", "failed"} : Moves(r, l)
  BY DEF Subscribes, SubscribeFails
<1>3. NotAsked \in [on : Nat, new : SUBSET Symbols] /\ NotAsked.new = {}
  BY DEF NotAsked, Absent
<1>4. /\ asked' \in [Requests -> [on : Nat, new : SUBSET Symbols]]
      /\ asked'[r] = NotAsked /\ \A q \in Requests : q # r => asked'[q] = asked[q]
  BY <1>1, <1>3 DEF FeedShape
<1>5. /\ stage' \in [Requests -> Stages] /\ stage'[r] = l
      /\ \A q \in Requests : q # r => stage'[q] = stage[q]
  BY <1>2 DEF FeedShape, Moves, Stages
<1>6. \A q \in Requests : IF stage'[q] = "subscribing" THEN asked'[q].on \in 1..connections'
                          ELSE asked'[q].new = {}
  BY <1>1, <1>3, <1>4, <1>5 DEF FeedShape
<1>7. FeedShape'
  BY <1>1, <1>4, <1>5, <1>6 DEF FeedShape
<1>8. CASE stream = 1
  <2>1. asked[r].on = stream
    BY <1>1, <1>8 DEF FeedShape, Absent
  <2>2. Subscribes(r)
    BY <2>1 DEF SubscribeFails
  <2>3. feeds' = feeds \cup asked[r].new
    BY <2>2 DEF Subscribes
  <2>4. \A s \in ToSet(subscribed) : s \in feeds' \/ \E q \in Requests : s \in asked'[q].new
    BY <1>4, <1>8, <2>3 DEF FirstIsFed, SubscribedIsFed, Absent
  <2> QED
    BY <1>1, <1>7, <2>4 DEF FirstIsFed, SubscribedIsFed
<1>9. CASE stream # 1
  BY <1>1, <1>7, <1>9 DEF FirstIsFed
<1> QED
  BY <1>8, <1>9

\* So every step leaves the symbols of the first connection fed or asked for.
LEMMA FedStep ==
  "subscribe" \notin FeedFailures
    /\ FeedShape /\ FirstIsFed /\ [FeedNext]_feedVars => FeedShape' /\ FirstIsFed'
<1> SUFFICES ASSUME "subscribe" \notin FeedFailures,
                    FeedShape, FirstIsFed, [FeedNext]_feedVars
             PROVE  FeedShape' /\ FirstIsFed'
  OBVIOUS
<1>0. lapsed \in 0..Len(subscribed) /\ legs \in [Requests -> SUBSET Symbols]
  BY DEF FeedShape
<1>1. CASE UNCHANGED feedVars
  BY <1>0, <1>1, FedQuietly DEF feedVars
<1>2. CASE StreamStarts
  <2>1. /\ stream' = connections + 1 /\ connections' = connections + 1 /\ feeds' = {}
        /\ UNCHANGED <<subscribed, lapsed, stage, legs, asked>> /\ stream = Absent
    BY <1>2 DEF StreamStarts, subscriptions
  <2>2. FeedShape'
    BY <2>1 DEF FeedShape, Absent
  <2>3. stream' = 1 => subscribed' = <<>>
    BY <2>1 DEF FeedShape
  <2>4. ToSet(<<>>) = {}
    BY DEF ToSet
  <2> QED
    BY <2>2, <2>3, <2>4 DEF FirstIsFed, SubscribedIsFed
<1>3. CASE StreamDrops
  <2>1. /\ stream' = Absent /\ UNCHANGED <<connections, subscribed, lapsed, stage, legs, asked>>
    BY <1>3 DEF StreamDrops, subscriptions
  <2> QED
    BY <2>1 DEF FeedShape, FirstIsFed, Absent
<1>4. CASE HourPasses
  <2>1. lapsed' \in 0..Len(subscribed)
    BY <1>0, <1>4 DEF HourPasses
  <2> QED
    BY <1>0, <1>4, <2>1, FedQuietly DEF HourPasses, connection
<1>5. CASE \E s \in Symbols : QuoteArrives(s) \/ Signal(s) \/ QuoteAges(s)
  BY <1>0, <1>5, FedQuietly DEF QuoteArrives, Signal, QuoteAges, connection, subscriptions
<1>6. ASSUME NEW r \in Requests, Looks(r) \/ WaitEnds(r) \/ WaitTimesOut(r) \/ Prices(r)
      PROVE  FeedShape' /\ FirstIsFed'
  <2>1. /\ UNCHANGED <<stream, connections, feeds, subscribed, lapsed, asked, legs>>
        /\ stage[r] # "subscribing"
    BY <1>6 DEF Looks, WaitEnds, WaitTimesOut, Prices, connection, subscriptions
  <2>2. \E l \in {"look", "answered", "priced", "failed", "wait"} : Moves(r, l)
    BY <1>6, LooksAtGoes DEF Looks, WaitEnds, WaitTimesOut, Prices, Answer
  <2> QED
    BY <1>0, <2>1, <2>2, FedQuietly
<1>7. CASE \E r \in Requests : Asks(r)
  BY <1>7, FedAsks
<1>8. CASE \E r \in Requests : Subscribes(r) \/ SubscribeFails(r)
  BY <1>8, FedAnswered
<1> QED
  BY <1>1, <1>2, <1>3, <1>4, <1>5, <1>6, <1>7, <1>8 DEF FeedNext

\* Nothing is subscribed yet.
LEMMA FeedBegins == FeedInit => FeedShape /\ FirstIsFed
<1> SUFFICES ASSUME FeedInit PROVE FeedShape /\ FirstIsFed
  OBVIOUS
<1>1. subscribed = <<>> /\ subscribed \in Seq(Symbols) /\ Len(subscribed) = 0
  BY DEF FeedInit
<1>2. /\ stage \in [Requests -> Stages] /\ legs \in [Requests -> SUBSET Symbols]
      /\ asked \in [Requests -> [on : Nat, new : SUBSET Symbols]]
      /\ \A r \in Requests : stage[r] = "idle" /\ asked[r].new = {}
  BY DEF FeedInit, NotAsked, Absent, Stages
<1> QED
  BY <1>1, <1>2 DEF FeedInit, FeedShape, FirstIsFed, Absent

\* While the first connection lasts and no subscribe fails, every symbol that counts
\* as subscribed is sent by the broker or about to be asked for, whatever the limit
\* and the hour take away: no request skips a symbol that nobody sends.
THEOREM FirstConnectionFeeds == FeedSpec => []FirstStreamFeeds
<1>1. CASE "subscribe" \notin FeedFailures
  <2>1. FeedShape /\ FirstIsFed /\ [FeedNext]_feedVars => FeedShape' /\ FirstIsFed'
    BY <1>1, FedStep
  <2>2. FirstIsFed => FirstStreamFeeds
    BY DEF FirstIsFed, FirstStreamFeeds
  <2> QED
    BY <2>1, <2>2, FeedBegins, PTL DEF FeedSpec
<1>2. CASE "subscribe" \in FeedFailures
  <2>1. FirstStreamFeeds
    BY <1>2 DEF FirstStreamFeeds
  <2> QED
    BY <2>1, PTL
<1> QED
  BY <1>1, <1>2
-----------------------------------------------------------------------------
(***************************************************************************)
(* The subscriptions are each there once and never more than the limit,    *)
(* and every event that is awaited was made.                               *)
(***************************************************************************)
WithinLimit == FeedTypeOK /\ Len(subscribed) <= MaxSubscribed

\* What is left when the first entries go is as long as what is left of it, and
\* has nothing twice that was not there twice.
LEMMA SuffixOnce ==
  ASSUME NEW S, NEW q \in Seq(S), NEW i \in Int, i >= 1, IsInjective(q)
  PROVE  LET u == SubSeq(q, i, Len(q))
         IN IsInjective(u) /\ Len(u) = IF i <= Len(q) THEN Len(q) - i + 1 ELSE 0
<1> DEFINE u == SubSeq(q, i, Len(q))
<1>1. u \in Seq(S) /\ Len(u) = IF i <= Len(q) THEN Len(q) - i + 1 ELSE 0
  OBVIOUS
<1>2. \A j \in 1..Len(u) : u[j] = q[i + j - 1] /\ i + j - 1 \in 1..Len(q)
  BY <1>1
<1>3. DOMAIN u = 1..Len(u) /\ DOMAIN q = 1..Len(q)
  BY <1>1
<1> HIDE DEF u
<1>4. ASSUME NEW j \in DOMAIN u, NEW k \in DOMAIN u, u[j] = u[k] PROVE j = k
  <2>1. q[i + j - 1] = q[i + k - 1] /\ i + j - 1 \in DOMAIN q /\ i + k - 1 \in DOMAIN q
    BY <1>2, <1>3, <1>4
  <2>2. i + j - 1 = i + k - 1
    BY <2>1 DEF IsInjective
  <2> QED
    BY <1>1, <1>3, <2>2
<1>5. IsInjective(u)
  BY <1>4 DEF IsInjective
<1> QED
  BY <1>1, <1>5 DEF u

\* Two sequences without common entries have nothing twice together.
LEMMA ConcatenatedOnce ==
  ASSUME NEW S, NEW q \in Seq(S), NEW w \in Seq(S), IsInjective(q), IsInjective(w),
         ToSet(q) \cap ToSet(w) = {}
  PROVE  IsInjective(q \o w) /\ Len(q \o w) = Len(q) + Len(w)
<1> DEFINE u == q \o w
<1>1. u \in Seq(S) /\ Len(u) = Len(q) + Len(w)
  OBVIOUS
<1>2. \A j \in 1..Len(u) : u[j] = IF j <= Len(q) THEN q[j] ELSE w[j - Len(q)]
  OBVIOUS
<1>3. DOMAIN u = 1..Len(u) /\ DOMAIN q = 1..Len(q) /\ DOMAIN w = 1..Len(w)
  BY <1>1
<1>4. Len(q) \in Nat /\ Len(w) \in Nat
  OBVIOUS
<1> HIDE DEF u
<1>5. \A j \in DOMAIN u : IF j <= Len(q) THEN j \in DOMAIN q /\ u[j] = q[j]
                          ELSE j - Len(q) \in DOMAIN w /\ u[j] = w[j - Len(q)]
  BY <1>1, <1>2, <1>3, <1>4
<1>6. \A a \in DOMAIN q, b \in DOMAIN w : q[a] # w[b]
  BY DEF ToSet
<1>7. ASSUME NEW j \in DOMAIN u, NEW k \in DOMAIN u, u[j] = u[k] PROVE j = k
  <2>1. CASE j <= Len(q) /\ k <= Len(q)
    BY <1>5, <1>7, <2>1 DEF IsInjective
  <2>2. CASE ~(j <= Len(q)) /\ ~(k <= Len(q))
    <3>1. j - Len(q) = k - Len(q)
      BY <1>5, <1>7, <2>2 DEF IsInjective
    <3> QED
      BY <1>1, <1>3, <1>4, <3>1
  <2>3. CASE j <= Len(q) /\ ~(k <= Len(q))
    BY <1>5, <1>6, <1>7, <2>3
  <2>4. CASE ~(j <= Len(q)) /\ k <= Len(q)
    BY <1>5, <1>6, <1>7, <2>4
  <2> QED
    BY <2>1, <2>2, <2>3, <2>4
<1>8. IsInjective(u)
  BY <1>7 DEF IsInjective
<1> QED
  BY <1>1, <1>8 DEF u

\* What is kept leaves room for n more under the limit.
LEMMA RoomIsMade ==
  ASSUME WithinLimit, NEW n \in 0..MaxSubscribed
  PROVE  /\ Live \in Seq(Symbols) /\ IsInjective(Live) /\ Len(Live) <= MaxSubscribed
         /\ RoomFor(n) \in Seq(Symbols) /\ IsInjective(RoomFor(n))
         /\ ToSet(RoomFor(n)) \subseteq ToSet(Live) /\ Len(RoomFor(n)) + n <= MaxSubscribed
<1>0. MaxSubscribed \in Nat /\ MaxSubscribed >= 1 /\ n \in Nat /\ n <= MaxSubscribed
  BY QuoteFeedAssumption
<1>1. Live \in Seq(Symbols) /\ IsInjective(Live) /\ Len(Live) <= MaxSubscribed
  <2>1. /\ subscribed \in Seq(Symbols) /\ IsInjective(subscribed)
        /\ lapsed + 1 \in Int /\ lapsed + 1 >= 1 /\ Len(subscribed) <= MaxSubscribed
    BY DEF WithinLimit, FeedTypeOK
  <2>2. Live \in Seq(Symbols) /\ IsInjective(Live)
        /\ Len(Live) = IF lapsed + 1 <= Len(subscribed) THEN Len(subscribed) - (lapsed + 1) + 1 ELSE 0
    BY <2>1, Suffix, SuffixOnce DEF Live
  <2> QED
    BY <1>0, <2>1, <2>2
<1> DEFINE over == Len(Live) + n - MaxSubscribed
<1>2. Len(Live) \in Nat
  BY <1>1
<1>3. over \in Int /\ over = Len(Live) + n - MaxSubscribed
  BY <1>0, <1>2
<1>4. RoomFor(n) = IF over <= 0 THEN Live ELSE SubSeq(Live, over + 1, Len(Live))
  BY DEF RoomFor
<1> HIDE DEF over
<1>5. CASE over <= 0
  BY <1>0, <1>1, <1>2, <1>3, <1>4, <1>5
<1>6. CASE ~(over <= 0)
  <2>1. over + 1 \in Int /\ over + 1 >= 1
    BY <1>3, <1>6
  <2>2. /\ SubSeq(Live, over + 1, Len(Live)) \in Seq(Symbols)
        /\ ToSet(SubSeq(Live, over + 1, Len(Live))) \subseteq ToSet(Live)
    BY <1>1, <2>1, Suffix
  <2> DEFINE u == SubSeq(Live, over + 1, Len(Live))
  <2>3. IsInjective(u) /\ Len(u) = IF over + 1 <= Len(Live) THEN Len(Live) - (over + 1) + 1 ELSE 0
    BY <1>1, <2>1, SuffixOnce
  <2>4. RoomFor(n) = u /\ u \in Seq(Symbols) /\ ToSet(u) \subseteq ToSet(Live)
    BY <1>4, <1>6, <2>2
  <2> HIDE DEF u
  <2>5. Len(u) + n <= MaxSubscribed
    BY <1>0, <1>2, <1>3, <1>6, <2>3
  <2> QED
    BY <1>1, <2>3, <2>4, <2>5
<1> QED
  BY <1>5, <1>6

\* The legs that are asked for are put on the list once.
LEMMA OrderOnce ==
  ASSUME NEW new \in SUBSET Symbols, Cardinality(new) \in Nat, NEW order \in SetToSeqs(new)
  PROVE  IsInjective(order) /\ Len(order) = Cardinality(new)
<1>1. order \in [1..Cardinality(new) -> new] /\ \A i, j \in 1..Cardinality(new) : i # j => order[i] # order[j]
  BY DEF SetToSeqs
<1>2. order \in Seq(new) /\ DOMAIN order = 1..Cardinality(new) /\ Len(order) = Cardinality(new)
  BY <1>1
<1> QED
  BY <1>1, <1>2 DEF IsInjective

\* A symbol that gets an event gets a new one.
LEMMA RegisterKeeps ==
  ASSUME FeedTypeOK, NEW S \in SUBSET Symbols, Register(S)
  PROVE  /\ pending' \in [Symbols -> 0..MaxEvents] /\ made' \in [Symbols -> 0..MaxEvents]
         /\ rung' = rung
         /\ \A s \in S : pending'[s] \in 1..MaxEvents
         /\ \A s \in Symbols \ S : pending'[s] = pending[s]
<1>1. MaxEvents \in Nat /\ pending \in [Symbols -> 0..MaxEvents] /\ made \in [Symbols -> 0..MaxEvents]
  BY QuoteFeedAssumption DEF FeedTypeOK
<1>2. made' = [s \in Symbols |-> IF s \in S THEN made[s] + 1 ELSE made[s]]
      /\ \A s \in S : made[s] < MaxEvents
  BY DEF Register
<1>3. made' \in [Symbols -> 0..MaxEvents] /\ \A s \in S : made'[s] \in 1..MaxEvents
  BY <1>1, <1>2
<1>4. pending' = [s \in Symbols |-> IF s \in S THEN made'[s] ELSE pending[s]] /\ rung' = rung
  BY DEF Register
<1> QED
  BY <1>1, <1>3, <1>4

\* A request that looks at its legs awaits events that were made.
LEMMA LooksAtKeeps ==
  ASSUME FeedTypeOK, NEW r \in Requests, NEW L \in SUBSET Symbols, LooksAt(r, L)
  PROVE  /\ pending' \in [Symbols -> 0..MaxEvents] /\ made' \in [Symbols -> 0..MaxEvents]
         /\ rung' = rung /\ awaits' \in [Requests -> SUBSET Events]
         /\ stage' \in [Requests -> Stages]
<1> DEFINE old     == {s \in L : ~Fresh(s)}
           missing == {s \in old : pending[s] = Absent
                              /\ ~(cache[s].age = "stale" /\ cache[s].sides = "both")}
           waited  == missing \cup {s \in old : pending[s] # Absent}
<1>1. /\ Register(missing)
      /\ \/ Answer(r, L)
         \/ awaits' = [awaits EXCEPT ![r] = {<<s, pending'[s]>> : s \in waited}] /\ Moves(r, "wait")
  BY DEF LooksAt
<1>2. missing \in SUBSET Symbols /\ waited \in SUBSET Symbols
      /\ \A s \in waited : s \in missing \/ pending[s] # Absent
  OBVIOUS
<1> HIDE DEF old, missing, waited
<1>3. /\ pending' \in [Symbols -> 0..MaxEvents] /\ made' \in [Symbols -> 0..MaxEvents]
      /\ rung' = rung
      /\ \A s \in missing : pending'[s] \in 1..MaxEvents
      /\ \A s \in Symbols \ missing : pending'[s] = pending[s]
  BY <1>1, <1>2, RegisterKeeps
<1>4. \A s \in waited : pending'[s] \in 1..MaxEvents
  BY <1>2, <1>3, QuoteFeedAssumption DEF FeedTypeOK, Absent
<1>5. {<<s, pending'[s]>> : s \in waited} \in SUBSET Events
  BY <1>2, <1>4 DEF Events
<1>6. awaits \in [Requests -> SUBSET Events] /\ stage \in [Requests -> Stages]
  BY DEF FeedTypeOK, Stages
<1>7. awaits' \in [Requests -> SUBSET Events]
  BY <1>1, <1>5, <1>6 DEF Answer
<1>8. stage' \in [Requests -> Stages]
  BY <1>1, <1>6 DEF Answer, Moves, Stages
<1> QED
  BY <1>3, <1>7, <1>8

\* Of the events only those are kept that somebody awaits.
LEMMA AwaitedAreEvents ==
  ASSUME awaits' \in [Requests -> SUBSET Events], NEW E
  PROVE  Awaited(E) \subseteq Events
BY DEF Awaited

\* What a request has to do with its legs leaves the connection and the quotes alone.
LEMMA RequestTypes ==
  ASSUME FeedTypeOK, UNCHANGED <<stream, connections, feeds, cache, ringing>>,
         subscribed' \in Seq(Symbols), IsInjective(subscribed'), lapsed' \in 0..Len(subscribed'),
         pending' \in [Symbols -> 0..MaxEvents], made' \in [Symbols -> 0..MaxEvents],
         rung' \subseteq Events, awaits' \in [Requests -> SUBSET Events],
         stage' \in [Requests -> Stages], legs' \in [Requests -> SUBSET Symbols],
         asked' \in [Requests -> [on : 0..MaxConnections, new : SUBSET Symbols]]
  PROVE  FeedTypeOK'
BY DEF FeedTypeOK, Stages, Events

\* A request asks for its legs: the expired go, then the oldest, then the new ones
\* come, none of which is still there.
LEMMA AsksWithinLimit ==
  ASSUME WithinLimit, NEW r \in Requests, Asks(r)
  PROVE  WithinLimit'
<1>1. PICK L \in SUBSET Symbols : Cardinality(L) <= MaxSubscribed /\ AsksFor(r, L)
  BY DEF Asks
<1>2. FeedTypeOK /\ UNCHANGED <<stream, connections, feeds, cache, ringing>>
  BY DEF Asks, WithinLimit, connection, quotes
<1>3. legs' \in [Requests -> SUBSET Symbols]
  BY <1>1 DEF AsksFor, WithinLimit, FeedTypeOK
<1>4. /\ subscribed \in Seq(Symbols) /\ IsInjective(subscribed) /\ lapsed \in 0..Len(subscribed)
      /\ asked \in [Requests -> [on : 0..MaxConnections, new : SUBSET Symbols]]
      /\ awaits \in [Requests -> SUBSET Events] /\ stage \in [Requests -> Stages]
      /\ rung \subseteq Events /\ Len(subscribed) <= MaxSubscribed
  BY DEF WithinLimit, FeedTypeOK, Stages
<1> DEFINE new == L \ ToSet(Live)
<1>5. CASE stream = Absent
  <2>1. LooksAt(r, L) /\ UNCHANGED <<subscribed, lapsed, asked>>
    BY <1>1, <1>5 DEF AsksFor, subscriptions
  <2>2. FeedTypeOK'
    BY <1>2, <1>3, <1>4, <2>1, LooksAtKeeps, RequestTypes
  <2> QED
    BY <1>4, <2>1, <2>2 DEF WithinLimit
<1>6. CASE stream # Absent /\ new = {}
  <2>1. LooksAt(r, L) /\ subscribed' = Live /\ lapsed' = 0 /\ UNCHANGED asked
    BY <1>1, <1>6 DEF AsksFor
  <2>2. Live \in Seq(Symbols) /\ IsInjective(Live) /\ Len(Live) <= MaxSubscribed
    BY RoomIsMade, QuoteFeedAssumption
  <2>3. subscribed' \in Seq(Symbols) /\ IsInjective(subscribed') /\ lapsed' \in 0..Len(subscribed')
    BY <2>1, <2>2
  <2>4. FeedTypeOK'
    BY <1>2, <1>3, <1>4, <2>1, <2>3, LooksAtKeeps, RequestTypes
  <2> QED
    BY <2>1, <2>2, <2>4 DEF WithinLimit
<1>7. CASE stream # Absent /\ new # {}
  <2>1. PICK order \in SetToSeqs(new) : subscribed' = RoomFor(Cardinality(new)) \o order
    BY <1>1, <1>7 DEF AsksFor
  <2>2. /\ lapsed' = 0 /\ Moves(r, "subscribing") /\ Register(new) /\ UNCHANGED awaits
        /\ asked' = [asked EXCEPT ![r] = [on |-> stream, new |-> new]]
    BY <1>1, <1>7 DEF AsksFor
  <2>3. new \in SUBSET Symbols /\ Cardinality(new) \in 0..MaxSubscribed
    <3>1. IsFiniteSet(L) /\ new \subseteq L
      BY QuoteFeedAssumption, FS_Subset
    <3>2. Cardinality(new) \in Nat /\ Cardinality(L) \in Nat /\ Cardinality(new) <= Cardinality(L)
      BY <3>1, FS_Subset, FS_CardinalityType
    <3> QED
      BY <1>1, <3>2, QuoteFeedAssumption
  <2>4. new \cap ToSet(Live) = {}
    OBVIOUS
  <2> HIDE DEF new
  <2> DEFINE n == Cardinality(new)
             kept == RoomFor(n)
  <2>5. n \in 0..MaxSubscribed /\ n \in Nat
    BY <2>3
  <2>6. /\ order \in Seq(Symbols) /\ ToSet(order) \subseteq new
        /\ IsInjective(order) /\ Len(order) = n
    BY <2>1, <2>3, <2>5, OrderOf, OrderOnce
  <2> HIDE DEF n
  <2>7. /\ kept \in Seq(Symbols) /\ IsInjective(kept)
        /\ ToSet(kept) \subseteq ToSet(Live) /\ Len(kept) + n <= MaxSubscribed
    BY <2>5, RoomIsMade
  <2>8. subscribed' = kept \o order
    BY <2>1 DEF n
  <2> HIDE DEF kept
  <2>9. /\ subscribed' \in Seq(Symbols) /\ IsInjective(subscribed')
        /\ Len(subscribed') <= MaxSubscribed
    <3>1. ToSet(kept) \cap ToSet(order) = {}
      BY <2>4, <2>6, <2>7
    <3>2. IsInjective(kept \o order) /\ Len(kept \o order) = Len(kept) + Len(order)
      BY <2>6, <2>7, <3>1, ConcatenatedOnce
    <3>3. kept \o order \in Seq(Symbols)
      BY <2>6, <2>7
    <3> QED
      BY <2>6, <2>7, <2>8, <3>2, <3>3
  <2>10. lapsed' \in 0..Len(subscribed')
    BY <2>2, <2>9
  <2>11. [on |-> stream, new |-> new] \in [on : 0..MaxConnections, new : SUBSET Symbols]
    BY <2>3, QuoteFeedAssumption DEF WithinLimit, FeedTypeOK
  <2>12. asked' \in [Requests -> [on : 0..MaxConnections, new : SUBSET Symbols]]
    BY <1>4, <2>2, <2>11
  <2>13. stage' \in [Requests -> Stages]
    BY <1>4, <2>2 DEF Moves, Stages
  <2>14. FeedTypeOK'
    BY <1>2, <1>3, <1>4, <2>2, <2>3, <2>9, <2>10, <2>12, <2>13, RegisterKeeps, RequestTypes
  <2> QED
    BY <2>9, <2>14 DEF WithinLimit
<1> QED
  BY <1>5, <1>6, <1>7

\* A wait that ends forgets the events of the symbols waited for.
LEMMA ForgetKeeps ==
  ASSUME FeedTypeOK, NEW r \in Requests, Forget(r)
  PROVE  pending' \in [Symbols -> 0..MaxEvents]
BY QuoteFeedAssumption DEF Forget, FeedTypeOK, Absent

\* Every step keeps the types, and the subscriptions within the limit.
LEMMA LimitStep == WithinLimit /\ [FeedNext]_feedVars => WithinLimit'
<1> SUFFICES ASSUME WithinLimit, [FeedNext]_feedVars PROVE WithinLimit'
  OBVIOUS
<1> USE DEF WithinLimit
<1>0. /\ FeedTypeOK /\ Len(subscribed) <= MaxSubscribed
      /\ MaxEvents \in Nat /\ MaxConnections \in Nat /\ stage \in [Requests -> Stages]
      /\ legs \in [Requests -> SUBSET Symbols] /\ rung \subseteq Events
      /\ asked \in [Requests -> [on : 0..MaxConnections, new : SUBSET Symbols]]
      /\ awaits \in [Requests -> SUBSET Events]
      /\ pending \in [Symbols -> 0..MaxEvents] /\ made \in [Symbols -> 0..MaxEvents]
      /\ subscribed \in Seq(Symbols) /\ IsInjective(subscribed) /\ lapsed \in 0..Len(subscribed)
  BY QuoteFeedAssumption DEF FeedTypeOK, Stages
<1>1. CASE UNCHANGED feedVars
  BY <1>0, <1>1 DEF FeedTypeOK, feedVars, Events
<1>2. CASE StreamStarts
  BY <1>0, <1>2 DEF StreamStarts, FeedTypeOK, subscriptions, events, quotes, Events
<1>3. CASE StreamDrops
  BY <1>0, <1>3 DEF StreamDrops, FeedTypeOK, subscriptions, events, quotes, Events, Absent
<1>4. CASE HourPasses
  <2>1. lapsed' \in 0..Len(subscribed) /\ UNCHANGED <<connection, subscribed, events, quotes, stage, legs, asked, awaits>>
    BY <1>0, <1>4 DEF HourPasses
  <2> QED
    BY <1>0, <2>1 DEF FeedTypeOK, connection, events, quotes, Events
<1>5. ASSUME NEW s \in Symbols, QuoteArrives(s) PROVE WithinLimit'
  <2>1. PICK e \in Sides : cache' = [cache EXCEPT ![s] = [age |-> "fresh", sides |-> e]]
    BY <1>5 DEF QuoteArrives
  <2>2. cache' \in [Symbols -> [age : Ages, sides : Sides]]
    BY <1>0, <2>1 DEF FeedTypeOK, Ages
  <2> QED
    BY <1>0, <1>5, <2>2 DEF QuoteArrives, FeedTypeOK, connection, subscriptions, events, Events
<1>6. ASSUME NEW s \in Symbols, Signal(s) PROVE WithinLimit'
  <2>1. awaits' = awaits /\ rung' = Awaited(rung \cup {<<s, pending[s]>>})
        /\ pending' = [pending EXCEPT ![s] = Absent]
    BY <1>6 DEF Signal
  <2>2. rung' \subseteq Events
    BY <1>0, <2>1, AwaitedAreEvents
  <2>3. pending' \in [Symbols -> 0..MaxEvents]
    BY <1>0, <2>1 DEF Absent
  <2> QED
    BY <1>0, <1>6, <2>2, <2>3 DEF Signal, FeedTypeOK, connection, subscriptions, Events
<1>7. ASSUME NEW s \in Symbols, QuoteAges(s) PROVE WithinLimit'
  <2>1. cache \in [Symbols -> [age : Ages, sides : Sides]]
    BY <1>0 DEF FeedTypeOK
  <2>2. [cache[s] EXCEPT !.age = "stale"] \in [age : Ages, sides : Sides] /\ NoData \in [age : Ages, sides : Sides]
    BY <2>1 DEF Ages, Sides, NoData
  <2>3. cache' \in [Symbols -> [age : Ages, sides : Sides]]
    BY <1>7, <2>1, <2>2 DEF QuoteAges
  <2> QED
    BY <1>0, <1>7, <2>3 DEF QuoteAges, FeedTypeOK, connection, subscriptions, events, Events
<1>8. ASSUME NEW r \in Requests, Asks(r) PROVE WithinLimit'
  BY <1>8, AsksWithinLimit
<1>9. ASSUME NEW r \in Requests, Subscribes(r) \/ SubscribeFails(r) PROVE WithinLimit'
  <2>1. asked' \in [Requests -> [on : 0..MaxConnections, new : SUBSET Symbols]]
    <3>1. NotAsked \in [on : 0..MaxConnections, new : SUBSET Symbols]
      BY <1>0 DEF NotAsked, Absent
    <3>2. asked' = [asked EXCEPT ![r] = NotAsked]
      BY <1>9 DEF Subscribes, SubscribeFails
    <3> QED
      BY <1>0, <3>1, <3>2
  <2>2. stage' \in [Requests -> Stages]
    BY <1>0, <1>9 DEF Subscribes, SubscribeFails, Moves, Stages
  <2>3. feeds' \subseteq Symbols
    BY <1>0, <1>9 DEF Subscribes, SubscribeFails, connection, FeedTypeOK
  <2>4. UNCHANGED <<stream, connections, subscribed, lapsed, pending, made, rung, cache, ringing, legs, awaits>>
    BY <1>9 DEF Subscribes, SubscribeFails, connection, subscriptions, events, quotes
  <2> QED
    BY <1>0, <2>1, <2>2, <2>3, <2>4 DEF FeedTypeOK, Stages, Events
<1>10. ASSUME NEW r \in Requests, Looks(r) PROVE WithinLimit'
  <2>1. LooksAt(r, legs[r]) /\ UNCHANGED <<stream, connections, feeds, subscribed, lapsed, cache, ringing, legs, asked>>
    BY <1>10 DEF Looks, connection, subscriptions, quotes
  <2>2. FeedTypeOK'
    BY <1>0, <2>1, LooksAtKeeps, RequestTypes
  <2> QED
    BY <1>0, <2>1, <2>2
<1>11. ASSUME NEW r \in Requests, WaitEnds(r) \/ WaitTimesOut(r) PROVE WithinLimit'
  <2>1. /\ Forget(r) /\ rung' = Awaited(rung)
        /\ UNCHANGED <<stream, connections, feeds, subscribed, lapsed, made, cache, ringing, legs, asked>>
    BY <1>11 DEF WaitEnds, WaitTimesOut, connection, subscriptions, quotes
  <2>2. awaits' \in [Requests -> SUBSET Events]
    BY <1>0, <1>11 DEF WaitEnds, WaitTimesOut, Answer
  <2>3. stage' \in [Requests -> Stages]
    BY <1>0, <1>11 DEF WaitEnds, WaitTimesOut, Answer, Moves, Stages
  <2>4. FeedTypeOK'
    BY <1>0, <2>1, <2>2, <2>3, AwaitedAreEvents, ForgetKeeps, RequestTypes
  <2> QED
    BY <1>0, <2>1, <2>4
<1>12. ASSUME NEW r \in Requests, Prices(r) PROVE WithinLimit'
  <2>1. /\ UNCHANGED <<stream, connections, feeds, subscribed, lapsed, pending, made, rung,
                      cache, ringing, legs, asked, awaits>>
        /\ \E l \in Stages : Moves(r, l)
    BY <1>12 DEF Prices, connection, subscriptions, events, quotes, Stages
  <2>2. stage' \in [Requests -> Stages]
    BY <1>0, <2>1 DEF Moves
  <2> QED
    BY <1>0, <2>1, <2>2 DEF FeedTypeOK, Stages, Events
<1> QED
  BY <1>1, <1>2, <1>3, <1>4, <1>5, <1>6, <1>7, <1>8, <1>9, <1>10, <1>11, <1>12 DEF FeedNext

\* Nothing is subscribed, awaited or cached yet.
LEMMA LimitBegins == FeedInit => WithinLimit
<1> SUFFICES ASSUME FeedInit PROVE WithinLimit
  OBVIOUS
<1>1. subscribed = <<>> /\ subscribed \in Seq(Symbols) /\ IsInjective(subscribed) /\ Len(subscribed) = 0
  BY DEF FeedInit, IsInjective
<1>2. NoData \in [age : Ages, sides : Sides] /\ NotAsked \in [on : 0..MaxConnections, new : SUBSET Symbols]
  BY QuoteFeedAssumption DEF NoData, NotAsked, Ages, Sides, Absent
<1> QED
  BY <1>1, <1>2, QuoteFeedAssumption DEF FeedInit, WithinLimit, FeedTypeOK, Absent, Events

\* The types of QuoteFeed: nothing is subscribed twice, and every event that is
\* awaited or set was made, for any limit and any number of requests and connections.
THEOREM FeedTypeCorrect == FeedSpec => []FeedTypeOK
<1>1. WithinLimit => FeedTypeOK
  BY DEF WithinLimit
<1> QED
  BY <1>1, LimitBegins, LimitStep, PTL DEF FeedSpec

\* There are never more subscriptions than the limit, whatever requests come after
\* one another, since the oldest give way before the new ones are put on the list
\* (enforce_subscription_limits, stream_subscription_manager.py).
THEOREM LimitIsKept == FeedSpec => []WithinSubscriptionLimit
<1>1. WithinLimit => WithinSubscriptionLimit
  BY DEF WithinLimit, WithinSubscriptionLimit
<1> QED
  BY <1>1, LimitBegins, LimitStep, PTL DEF FeedSpec
=============================================================================
