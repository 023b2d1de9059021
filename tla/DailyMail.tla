------------------------------ MODULE DailyMail ------------------------------
(***************************************************************************)
(* The daily suggestion mail of one user (trading/tasks.py): the symbols of *)
(* the watchlist go through one StrategySelector at the same time           *)
(* (strategies/selector.py), and the mail lists what came of each.          *)
(*                                                                         *)
(* The selector keeps the scores of the symbol it scored last in one        *)
(* attribute and returns what the attribute holds when the suggestions have *)
(* been generated, so only the symbol that scores belong to is kept.        *)
(***************************************************************************)
EXTENDS FiniteSets, Naturals

CONSTANTS
    Watchlist,   \* the symbols, at least two: one goes the way of StrategyScores
    Slots,       \* how many are processed at once (a semaphore)
    None

VARIABLES
    mail,        \* the state of the mail
    streaming,   \* the user's streamers were started for it
    at,          \* how far each symbol is
    lastScores,  \* _last_scores: the symbol they belong to
    outcome      \* what came of each symbol, and whose scores it is reported with

vars == <<mail, streaming, at, lastScores, outcome>>

Stages == {"waiting", "analysing", "scored", "generating", "done"}
Reasons == {"candidate", "exception", "hard_stops", "low_scores", "generation_failures"}

InHand == {s \in Watchlist : at[s] \notin {"waiting", "done"}}

Init ==
    /\ mail = "due"
    /\ streaming = FALSE
    /\ at = [s \in Watchlist |-> "waiting"]
    /\ lastScores = None
    /\ outcome = [s \in Watchlist |-> None]

-----------------------------------------------------------------------------

\* ensure_streaming_for_automation succeeds for all symbols or the user is
\* skipped; a start that timed out leaves the streamers to be stopped later.
Prepare ==
    /\ mail = "due"
    /\ \/ mail' = "generating" /\ streaming' = TRUE
       \/ mail' = "failed" /\ streaming' \in BOOLEAN
    /\ UNCHANGED <<at, lastScores, outcome>>

\* The semaphore lets the symbol in; its analysis is awaited.
Enter(s) ==
    /\ mail = "generating"
    /\ at[s] = "waiting" /\ Cardinality(InHand) < Slots
    /\ at' = [at EXCEPT ![s] = "analysing"]
    /\ UNCHANGED <<mail, streaming, lastScores, outcome>>

Finish(s, reason, of) ==
    /\ outcome' = [outcome EXCEPT ![s] = [reason |-> reason, of |-> of]]
    /\ at' = [at EXCEPT ![s] = "done"]

\* A report that forbids trading ends it before the scores.
Stopped(s) ==
    /\ at[s] = "analysing"
    /\ Finish(s, "hard_stops", s)
    /\ UNCHANGED <<mail, streaming, lastScores>>

\* Anything may raise; gather returns the exception.
Raises(s) ==
    /\ at[s] \in {"analysing", "scored", "generating"}
    /\ Finish(s, "exception", s)
    /\ UNCHANGED <<mail, streaming, lastScores>>

\* The strategies are scored; each score is awaited.
Scoring(s) ==
    /\ at[s] = "analysing"
    /\ at' = [at EXCEPT ![s] = "scored"]
    /\ UNCHANGED <<mail, streaming, lastScores, outcome>>

\* The scores are stored.  If none reaches the threshold they are returned at
\* once, otherwise the best strategies generate.
Choose(s) ==
    /\ at[s] = "scored"
    /\ lastScores' = s
    /\ \/ Finish(s, "low_scores", lastScores')
       \/ at' = [at EXCEPT ![s] = "generating"] /\ UNCHANGED outcome
    /\ UNCHANGED <<mail, streaming>>

\* Context, quotes and suggestion are awaited; the scores are read afterwards.
Generated(s) ==
    /\ at[s] = "generating"
    /\ \E reason \in {"candidate", "generation_failures"} : Finish(s, reason, lastScores)
    /\ UNCHANGED <<mail, streaming, lastScores>>

\* gather waits for every symbol; the streamers are stopped whatever happens to
\* the mail.
Send ==
    /\ mail = "generating"
    /\ \A s \in Watchlist : at[s] = "done"
    /\ mail' \in {"sent", "failed"}
    /\ streaming' = FALSE
    /\ UNCHANGED <<at, lastScores, outcome>>

Next ==
    \/ Prepare \/ Send
    \/ \E s \in Watchlist :
          \/ Enter(s) \/ Stopped(s) \/ Raises(s) \/ Scoring(s) \/ Choose(s) \/ Generated(s)

Spec == Init /\ [][Next]_vars

-----------------------------------------------------------------------------
TypeOK ==
    /\ mail \in {"due", "generating", "sent", "failed"}
    /\ streaming \in BOOLEAN
    /\ at \in [Watchlist -> Stages]
    /\ lastScores \in {None} \cup Watchlist
    /\ \A s \in Watchlist : outcome[s] # None =>
          outcome[s].reason \in Reasons /\ outcome[s].of \in Watchlist

\* Every symbol is mailed and ranked with its own scores (tasks.py:852, 909).  The code
\* does not see to it: another symbol may have overwritten the attribute they are read
\* from while the suggestion was generated (selector.py:751).
ScoresAreOwn == \A s \in Watchlist : outcome[s] # None => outcome[s].of = s
=============================================================================
