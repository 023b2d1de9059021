------------------------------ MODULE UserStream ------------------------------
(***************************************************************************)
(* The market-data stream of one user in one container: who starts it, who *)
(* stops it, and the tasks that run it (streaming/services/                *)
(* stream_manager.py, streaming/consumers.py).                             *)
(*                                                                         *)
(*   Viewers  - WebSocket connections of the user (StreamingConsumer);     *)
(*   Starters - calls of ensure_streaming_for_automation;                  *)
(*   Removers - calls of remove_user_manager and of                        *)
(*              cleanup_inactive_managers: logout, disconnecting or        *)
(*              connecting the broker, an hour without a ping;             *)
(*   Cleanups - the tasks of schedule_cleanup, one for each time that the  *)
(*              last viewer leaves.                                        *)
(*                                                                         *)
(* Everything runs on one event loop: an action is what happens between    *)
(* two awaits that may suspend.  A manager that was removed stays in use   *)
(* by whoever holds it, so managers are numbered, and so are the tasks     *)
(* that _run_streaming runs in.                                            *)
(***************************************************************************)
EXTENDS Integers, Sequences, FiniteSets

CONSTANTS
  Viewers, Starters, Removers, Cleanups,
  Failures,     \* the failures that may happen, a subset of FailureKinds
  MaxManagers,  \* bound: managers ever made for the user
  MaxStreams    \* bound: streaming tasks ever created

FailureKinds ==
  { "session",  \* no primary account, or no session for it
    "connect",  \* a streamer does not connect or set up in time
    "drop",     \* the broker closes a connection
    "timeout",  \* starting takes longer than AUTOMATION_TIMEOUT
    "slow" }    \* a viewer connects for longer than the grace period

Procs == Viewers \cup Starters \cup Removers \cup Cleanups

None == 0   \* Python's None, where a number is kept
Nobody == 0 \* holder of a lock that is free

ASSUME UserStreamAssumption ==
  /\ Failures \subseteq FailureKinds
  /\ MaxManagers \in Nat \ {0} /\ MaxStreams \in Nat
  /\ Viewers \cap Starters = {} /\ Removers \cap Cleanups = {}
  /\ (Viewers \cup Starters) \cap (Removers \cup Cleanups) = {}
  /\ Nobody \notin Procs

VARIABLES
  current,   \* the manager registered in _user_managers
  managers,  \* every manager made so far
  streams,   \* every streaming task created so far: its manager, where it is
  channels,  \* context.connected_channels of each manager
  dxOpen, alertsOpen, \* the tasks whose streamers are connected
  gate,      \* who holds GlobalStreamManager._lock
  sweep,     \* the cleanup in _cleanup_tasks
  pc,        \* where each process is
  my,        \* the manager each process works with
  got        \* what a stop_streaming has taken out of its manager

vars == <<current, managers, streams, channels, dxOpen, alertsOpen, gate, sweep, pc, my, got>>
registry == <<current, gate, sweep>>
open     == <<dxOpen, alertsOpen>>

States == {"disconnected", "connecting", "connected", "error"}

NewManager ==
  [ state |-> "disconnected", streaming |-> FALSE, lock |-> Nobody,
    task |-> None, data |-> None, account |-> None ]

Nothing == [task |-> None, data |-> None, account |-> None]

Init ==
  /\ current = None /\ managers = <<>> /\ streams = <<>>
  /\ channels = [m \in 1..MaxManagers |-> {}]
  /\ dxOpen = {} /\ alertsOpen = {}
  /\ gate = Nobody /\ sweep = None
  /\ pc = [p \in Procs |-> "idle"]
  /\ my = [p \in Procs |-> None]
  /\ got = [p \in Procs |-> Nothing]

Goto(p, l)  == pc' = [pc EXCEPT ![p] = l]
Leaves(p)   == my' = [my EXCEPT ![p] = None]
Free(m)     == managers[m].lock = Nobody
\* The manager m gets the fields of row; the others keep theirs.
Update(m, row) == managers' = [managers EXCEPT ![m] = row]

-----------------------------------------------------------------------------
(***************************************************************************)
(* GlobalStreamManager.                                                    *)
(***************************************************************************)
\* get_user_manager: the user is back, a pending cleanup is cancelled.
GetManager(p, m) ==
  /\ gate = Nobody
  /\ IF current = None
       THEN /\ m = Len(managers) + 1 /\ m <= MaxManagers
            /\ managers' = Append(managers, NewManager)
       ELSE m = current /\ UNCHANGED managers
  /\ current' = m
  /\ my' = [my EXCEPT ![p] = m]
  /\ sweep' = None

\* Going to l, and the task in _cleanup_tasks is cancelled wherever it waits.
GotoCancelling(p, l) ==
  pc' = [q \in Procs |-> IF q = p THEN l
                         ELSE IF sweep' = None /\ q = sweep THEN "cancelled" ELSE pc[q]]

\* connect: the first connection, by reference_count, starts the stream.
ViewerArrives(v) ==
  /\ pc[v] = "idle"
  /\ \E m \in 1..MaxManagers :
       /\ GetManager(v, m)
       /\ GotoCancelling(v, IF channels[m] = {} THEN "start" ELSE "accept")
  /\ UNCHANGED <<streams, channels, open, gate, got>>

\* accept() comes before add_channel.
ViewerAccepted(v) ==
  /\ pc[v] = "accept"
  /\ channels' = [channels EXCEPT ![my[v]] = @ \cup {v}]
  /\ Goto(v, "viewing")
  /\ UNCHANGED <<managers, streams, open, registry, my, got>>

ViewerLeaves(v) ==
  /\ pc[v] = "viewing"
  /\ channels' = [channels EXCEPT ![my[v]] = @ \ {v}]
  /\ Goto(v, IF channels'[my[v]] = {} THEN "last" ELSE "done")
  /\ Leaves(v)
  /\ UNCHANGED <<managers, streams, open, registry, got>>

\* schedule_cleanup: a pending cleanup is cancelled and replaced by a new one.
ScheduleCleanup(v) ==
  /\ pc[v] = "last" /\ gate = Nobody
  /\ \E k \in Cleanups :
       /\ pc[k] = "idle"
       /\ sweep' = k
       /\ pc' = [q \in Procs |-> CASE q = v -> "done" [] q = k -> "sleep"
                                 [] q = sweep -> "cancelled" [] OTHER -> pc[q]]
  /\ UNCHANGED <<current, gate, managers, streams, channels, open, my, got>>

Connecting(v) == pc[v] \in {"start", "session", "accept"}

\* Mutant: viewers are not counted.
CleanupWakesAnyway(k) ==
  /\ pc[k] = "sleep" /\ gate = Nobody
  /\ "slow" \in Failures \/ ~\E v \in Viewers : Connecting(v)
  /\ IF current = None
       THEN sweep' = None /\ Goto(k, "done") /\ UNCHANGED my
       ELSE Goto(k, "stop") /\ my' = [my EXCEPT ![k] = current] /\ UNCHANGED sweep
  /\ UNCHANGED <<current, gate, managers, streams, channels, open, got>>

\* _delayed_cleanup after the grace period: viewers that came back keep it.
CleanupWakes(k) ==
  /\ pc[k] = "sleep" /\ gate = Nobody
  /\ "slow" \in Failures \/ ~\E v \in Viewers : Connecting(v)
  /\ IF current = None \/ channels[current] # {}
       THEN sweep' = None /\ Goto(k, "done") /\ UNCHANGED my
       ELSE Goto(k, "stop") /\ my' = [my EXCEPT ![k] = current] /\ UNCHANGED sweep
  /\ UNCHANGED <<current, gate, managers, streams, channels, open, got>>

\* It deletes its manager, and whatever is in _cleanup_tasks.
CleanupForgets(k) ==
  /\ pc[k] = "forget" /\ gate = Nobody
  /\ current' = IF current = my[k] THEN None ELSE current
  /\ sweep' = None
  /\ Goto(k, "done") /\ Leaves(k)
  /\ UNCHANGED <<gate, managers, streams, channels, open, got>>

\* remove_user_manager holds the lock all the while it stops the stream.
RemoverStarts(r) ==
  /\ pc[r] = "idle" /\ gate = Nobody
  /\ IF current = None
       THEN Goto(r, "done") /\ UNCHANGED <<gate, my>>
       ELSE gate' = r /\ Goto(r, "stop") /\ my' = [my EXCEPT ![r] = current]
  /\ UNCHANGED <<current, sweep, managers, streams, channels, open, got>>

RemoverDeletes(r) ==
  /\ pc[r] = "delete"
  /\ current' = None /\ gate' = Nobody
  /\ Goto(r, "done") /\ Leaves(r)
  /\ UNCHANGED <<sweep, managers, streams, channels, open, got>>

-----------------------------------------------------------------------------
(***************************************************************************)
(* start_streaming.                                                        *)
(***************************************************************************)
\* ensure_streaming_for_automation, up to its first look at is_streaming.
StarterChecks(a) ==
  /\ pc[a] = "idle"
  /\ \E m \in 1..MaxManagers :
       /\ GetManager(a, m)
       /\ GotoCancelling(a, IF m <= Len(managers) /\ managers[m].streaming
                            THEN "wait" ELSE "start")
  /\ UNCHANGED <<streams, channels, open, gate, got>>

AfterStart(p) == IF p \in Viewers THEN "accept" ELSE "wait"

\* A stream that is there or on its way is left alone.
StartFinds(p) ==
  /\ pc[p] = "start" /\ Free(my[p])
  /\ managers[my[p]].streaming \/ managers[my[p]].state = "connecting"
  /\ Goto(p, AfterStart(p))
  /\ UNCHANGED <<managers, streams, channels, open, registry, my, got>>

\* "connecting" is set under the lock, before the account and session are read.
StartEnters(p) ==
  LET m == my[p]
  IN /\ pc[p] = "start" /\ Free(m)
     /\ ~managers[m].streaming /\ managers[m].state # "connecting"
     /\ Len(streams) + Cardinality({q \in Procs : pc[q] = "session"}) < MaxStreams
     /\ Update(m, [managers[m] EXCEPT !.state = "connecting", !.lock = p])
     /\ Goto(p, "session")
     /\ UNCHANGED <<streams, channels, open, registry, my, got>>

StartCreates(p) ==
  LET m == my[p]
  IN /\ pc[p] = "session"
     /\ streams' = Append(streams, [of |-> m, at |-> "new", on |-> None])
     /\ Update(m, [managers[m] EXCEPT !.task = Len(streams) + 1, !.lock = Nobody])
     /\ Goto(p, AfterStart(p))
     /\ UNCHANGED <<channels, open, registry, my, got>>

\* Mutant: a start that fails leaves the state as it is.
StartFailsSilently(p) ==
  LET m == my[p]
  IN /\ pc[p] = "session" /\ "session" \in Failures
     /\ Update(m, [managers[m] EXCEPT !.lock = Nobody])
     /\ Goto(p, AfterStart(p))
     /\ UNCHANGED <<streams, channels, open, registry, my, got>>

\* No account, no session, or an exception.
StartFails(p) ==
  LET m == my[p]
  IN /\ pc[p] = "session" /\ "session" \in Failures
     /\ Update(m, [managers[m] EXCEPT !.state = "disconnected", !.lock = Nobody])
     /\ Goto(p, AfterStart(p))
     /\ UNCHANGED <<streams, channels, open, registry, my, got>>

\* wait_for cancels start_streaming: CancelledError is no Exception, so that the
\* state stays what it is.
StartTimesOut(a) ==
  LET m == my[a]
  IN /\ "timeout" \in Failures
     /\ a \in Starters /\ pc[a] \in {"start", "session"}
     /\ Update(m, [managers[m] EXCEPT !.lock = IF @ = a THEN Nobody ELSE @])
     /\ Goto(a, "timed out")
     /\ UNCHANGED <<streams, channels, open, registry, my, got>>

StarterGivesUp(a) ==
  /\ pc[a] = "timed out" /\ Free(my[a])
  /\ Update(my[a], [managers[my[a]] EXCEPT !.streaming = FALSE])
  /\ Goto(a, "failed") /\ Leaves(a)
  /\ UNCHANGED <<streams, channels, open, registry, got>>

\* Ready with data, or STREAMING_DATA_WAIT_TIMEOUT is over.
StarterReturns(a) ==
  /\ pc[a] = "wait"
  /\ Goto(a, "done") /\ Leaves(a)
  /\ UNCHANGED <<managers, streams, channels, open, registry, got>>

-----------------------------------------------------------------------------
(***************************************************************************)
(* stop_streaming.                                                         *)
(***************************************************************************)
AfterStop(p) == IF p \in Cleanups THEN "forget" ELSE "delete"

\* Under the lock everything is taken out of the manager ...
StopTakes(p) ==
  LET m == my[p]
  IN /\ pc[p] = "stop" /\ Free(m)
     /\ IF managers[m].state = "disconnected" /\ managers[m].task = None
          THEN Goto(p, AfterStop(p)) /\ UNCHANGED <<managers, got>>
          ELSE /\ got' = [got EXCEPT ![p] = [f \in DOMAIN Nothing |-> managers[m][f]]]
               /\ Update(m, NewManager)
               /\ Goto(p, "close alerts")
     /\ UNCHANGED <<streams, channels, open, registry, my>>

\* ... and closed after the lock is given back: first the AlertStreamer, ...
StopClosesAlerts(p) ==
  /\ pc[p] = "close alerts"
  /\ alertsOpen' = alertsOpen \ {got[p].account}
  /\ Goto(p, "close data")
  /\ UNCHANGED <<managers, streams, channels, dxOpen, registry, my, got>>

\* ... then the DXLinkStreamer.
StopClosesData(p) ==
  /\ pc[p] = "close data"
  /\ dxOpen' = dxOpen \ {got[p].data}
  /\ Goto(p, "await")
  /\ UNCHANGED <<managers, streams, channels, alertsOpen, registry, my, got>>

Running == {"alerts", "connect", "setup", "listen", "finally"}

\* The task gets STREAMING_TASK_TIMEOUT to finish, and has begun by then; if it
\* runs even then it is cancelled, which takes it to its finally.
StopAwaits(p) ==
  LET s == got[p].task
      late == s # None /\ streams[s].at \in Running
  IN /\ pc[p] = "await"
     /\ s # None => streams[s].at # "new"
     /\ streams' = IF late THEN [streams EXCEPT ![s] = [streams[s] EXCEPT !.at = "finally", !.on = None]]
                   ELSE streams
     /\ dxOpen' = IF late THEN dxOpen \ {s} ELSE dxOpen
     /\ got' = [got EXCEPT ![p] = Nothing]
     /\ Goto(p, AfterStop(p))
     /\ UNCHANGED <<managers, channels, alertsOpen, registry, my>>

-----------------------------------------------------------------------------
(***************************************************************************)
(* _run_streaming.                                                         *)
(***************************************************************************)
At(s, l)    == streams' = [streams EXCEPT ![s].at = l]
Of(s)       == streams[s].of
ManagerOf(s) == managers[Of(s)]

StreamBegins(s) ==
  /\ streams[s].at = "new"
  /\ Update(Of(s), [ManagerOf(s) EXCEPT !.state = "connecting"])
  /\ At(s, "alerts")
  /\ UNCHANGED <<channels, open, registry, pc, my, got>>

\* The AlertStreamer, for orders; the stream goes on without it.
StreamAlerts(s) ==
  /\ streams[s].at = "alerts"
  /\ \/ /\ alertsOpen' = alertsOpen \cup {s}
        /\ Update(Of(s), [ManagerOf(s) EXCEPT !.account = s])
     \/ "connect" \in Failures /\ UNCHANGED <<alertsOpen, managers>>
  /\ At(s, "connect")
  /\ UNCHANGED <<channels, dxOpen, registry, pc, my, got>>

StreamConnects(s) ==
  /\ streams[s].at = "connect"
  /\ dxOpen' = dxOpen \cup {s}
  /\ Update(Of(s), [ManagerOf(s) EXCEPT
       !.data = s, !.streaming = TRUE, !.state = "connected"])
  /\ At(s, "setup")
  /\ UNCHANGED <<channels, alertsOpen, registry, pc, my, got>>

\* An exception while connecting or setting up, an OAuth error among them.
StreamFails(s) ==
  /\ streams[s].at \in {"connect", "setup"} /\ "connect" \in Failures
  /\ dxOpen' = dxOpen \ {s}
  /\ Update(Of(s), [ManagerOf(s) EXCEPT !.streaming = FALSE, !.state = "error"])
  /\ At(s, "finally")
  /\ UNCHANGED <<channels, alertsOpen, registry, pc, my, got>>

\* Once the symbols are subscribed, the listeners take the streamer that is in
\* the context by then; without one they return at once.
StreamListens(s) ==
  /\ streams[s].at = "setup"
  /\ IF s \in dxOpen /\ ManagerOf(s).data # None
       THEN /\ streams' = [streams EXCEPT ![s] = [streams[s] EXCEPT
                              !.at = "listen", !.on = ManagerOf(s).data]]
            /\ UNCHANGED dxOpen
       ELSE At(s, "finally") /\ dxOpen' = dxOpen \ {s}
  /\ UNCHANGED <<managers, channels, alertsOpen, registry, pc, my, got>>

\* The listeners end with the connection they listen on.
StreamEnds(s) ==
  /\ streams[s].at = "listen"
  /\ streams[s].on \notin dxOpen \/ "drop" \in Failures
  /\ dxOpen' = dxOpen \ {s}
  /\ streams' = [streams EXCEPT ![s] = [streams[s] EXCEPT !.at = "finally", !.on = None]]
  /\ UNCHANGED <<managers, channels, alertsOpen, registry, pc, my, got>>

\* finally: the manager is reset, whichever stream it has by now.
StreamCleans(s) ==
  /\ streams[s].at = "finally"
  /\ Update(Of(s), [ManagerOf(s) EXCEPT
       !.state = "disconnected", !.streaming = FALSE, !.data = None])
  /\ alertsOpen' = alertsOpen \ {ManagerOf(s).account}
  /\ At(s, IF ManagerOf(s).account = None THEN "done" ELSE "closing")
  /\ UNCHANGED <<channels, dxOpen, registry, pc, my, got>>

StreamClosed(s) ==
  /\ streams[s].at = "closing"
  /\ Update(Of(s), [ManagerOf(s) EXCEPT !.account = None])
  /\ At(s, "done")
  /\ UNCHANGED <<channels, open, registry, pc, my, got>>

-----------------------------------------------------------------------------
Start(p) ==
  StartFinds(p) \/ StartEnters(p) \/ StartCreates(p) \/ StartFails(p)

Stop(p) == StopTakes(p) \/ StopClosesAlerts(p) \/ StopClosesData(p) \/ StopAwaits(p)

ViewerStep(v) ==
  ViewerAccepted(v) \/ ScheduleCleanup(v) \/ Start(v)

StarterStep(a) == StarterGivesUp(a) \/ StarterReturns(a) \/ Start(a)

CleanupStep(k) == CleanupWakes(k) \/ CleanupForgets(k) \/ Stop(k)

RemoverStep(r) == RemoverDeletes(r) \/ Stop(r)

StreamStep(s) ==
  \/ StreamBegins(s) \/ StreamAlerts(s) \/ StreamConnects(s) \/ StreamFails(s)
  \/ StreamListens(s) \/ StreamEnds(s) \/ StreamCleans(s) \/ StreamClosed(s)

Next ==
  \/ \E v \in Viewers : ViewerArrives(v) \/ ViewerLeaves(v) \/ ViewerStep(v)
  \/ \E a \in Starters : StarterChecks(a) \/ StartTimesOut(a) \/ StarterStep(a)
  \/ \E k \in Cleanups : CleanupStep(k)
  \/ \E r \in Removers : RemoverStarts(r) \/ RemoverStep(r)
  \/ \E s \in DOMAIN streams : StreamStep(s)

Spec == Init /\ [][Next]_vars

-----------------------------------------------------------------------------
(***************************************************************************)
(* Properties.                                                             *)
(***************************************************************************)
Locations ==
  { "idle", "start", "session", "accept", "viewing", "last", "wait", "timed out",
    "sleep", "stop", "close alerts", "close data", "await", "forget", "delete",
    "cancelled", "failed", "done" }

ManagerRow ==
  [ state : States, streaming : BOOLEAN, lock : Procs \cup {Nobody},
    task : 0..MaxStreams, data : 0..MaxStreams, account : 0..MaxStreams ]

StreamRow ==
  [ of : 1..MaxManagers, on : 0..MaxStreams,
    at : { "new", "alerts", "connect", "setup", "listen", "finally", "closing", "done" } ]

TypeOK ==
  /\ current \in 0..Len(managers)
  /\ managers \in Seq(ManagerRow) /\ Len(managers) <= MaxManagers
  /\ streams \in Seq(StreamRow) /\ Len(streams) <= MaxStreams
  /\ channels \in [1..MaxManagers -> SUBSET Viewers]
  /\ dxOpen \subseteq DOMAIN streams /\ alertsOpen \subseteq DOMAIN streams
  /\ gate \in Removers \cup {Nobody}
  /\ sweep \in Cleanups \cup {None}
  /\ pc \in [Procs -> Locations]
  /\ my \in [Procs -> 0..MaxManagers]
  /\ got \in [Procs -> [DOMAIN Nothing -> 0..MaxStreams]]

\* The grace period protects viewers: a delayed cleanup never stops the stream
\* of a manager that has a connected channel, however late it gets the lock.
CleanupSparesViewers ==
  [][\A k \in Cleanups :
       pc[k] = "stop" /\ pc'[k] # "stop" /\ pc'[k] # "cancelled"
         => channels[my[k]] = {}]_vars

\* At most one streaming task of a manager listens ("prevent re-entrancy").
OneListener ==
  \A s, t \in DOMAIN streams :
    Of(s) = Of(t) /\ streams[s].at = "listen" /\ streams[t].at = "listen" => s = t

\* "connecting" makes every start_streaming return at once, so it may only stand
\* while somebody is still going to replace it: whoever holds the lock to create
\* the streaming task, or a task that has not connected yet or is cleaning up.
\* A start that wait_for cancelled is excepted: it leaves "connecting" for good.
ConnectingIsOwned ==
  (\A a \in Starters : pc[a] \notin {"timed out", "failed"}) =>
  \A m \in DOMAIN managers :
    managers[m].state = "connecting" =>
      \/ \E p \in Procs : pc[p] = "session" /\ my[p] = m /\ managers[m].lock = p
      \/ \E s \in DOMAIN streams :
           Of(s) = m /\ streams[s].at \in {"new", "alerts", "connect", "finally"}

=============================================================================
