--------------------------- MODULE EntryAdmission ---------------------------
(***************************************************************************)
(* Which suggestions become orders: the automated cycles                   *)
(* (trading/tasks.py, trading/services/automated_trading_service.py) and   *)
(* the user's requests (trading/api_views.py), with the risk budget        *)
(* (services/risk, services/account/state.py) and the checks of            *)
(* OrderExecutionService.execute_suggestion_async they share.              *)
(*                                                                         *)
(* Every actor runs once and places at most one order, so the position and *)
(* the order it makes are named after it.  What becomes of an order in     *)
(* detail is the subject of EntryOrder; here it fills, is cancelled or is  *)
(* refused, and its position follows.                                      *)
(***************************************************************************)
EXTENDS Integers, FiniteSets

CONSTANTS
  Cycles,      \* runs of the automated cycle for one account each
  Requests,    \* requests of the user to execute or to reject a suggestion
  Suggestions,
  Accounts,    \* the trading accounts of the user with automation on
  Primary,     \* the one with is_primary
  Risk,        \* max_risk of each suggestion
  Contracts,   \* the option symbols of each suggestion
  Capital,     \* buying power of an account without positions
  Tolerance,   \* risk_tolerance, as <<numerator, denominator>>
  Attempts,    \* MAX_ATTEMPTS
  Overlap,     \* whether a cycle may start before the last one has ended
  DryRun       \* TASTYTRADE_DRY_RUN

Actors   == Cycles \cup Requests
NoValue  == -1

ASSUME AdmissionAssumption ==
  /\ IsFiniteSet(Actors) /\ IsFiniteSet(Suggestions) /\ Suggestions # {}
  /\ Cycles \cap Requests = {}
  /\ Risk \in [Suggestions -> Nat] /\ Capital \in Nat
  /\ Primary \in Accounts
  /\ Tolerance \in Nat \X (Nat \ {0}) /\ Tolerance[1] <= Tolerance[2]
  /\ Attempts \in Nat \ {0} /\ DryRun \in BOOLEAN
  /\ Overlap \in BOOLEAN

VARIABLES
  cached,    \* buying power in the cache or a recent snapshot, per account
  status,    \* of each suggestion
  position,  \* the state of the position of each sender
  order,     \* its order at the broker
  on,        \* the account both are on
  working,   \* orders the order history lists as working
  old,       \* automated positions created more than five minutes ago
  pc, mine,  \* where an actor is, and the suggestion it is about
  local,     \* the local variables of an actor that is running
  blind      \* history: an order was placed on an outdated or torn budget

vars == <<cached, status, position, order, on, working, old,
          pc, mine, local, blind>>
records == <<position, order, on, working, old>>

\* A cycle: the stale positions it found, tried to cancel and could not
\* cancel, and the suggestions it tried to generate.  An entry: the buying
\* power and the risk it read, and whether the risk was the same when it was
\* read again.
Blank == [seen |-> {}, handled |-> {}, kept |-> {}, tries |-> 0,
          bp |-> NoValue, risk |-> 0, whole |-> TRUE]

Init ==
  /\ cached = [a \in Accounts |-> NoValue]
  /\ status = [s \in Suggestions |-> "none"]
  /\ position = [p \in Actors |-> "none"]
  /\ order = [p \in Actors |-> "none"]
  /\ on = [p \in Actors |-> Primary]
  /\ working = {} /\ old = {}
  /\ pc = [p \in Actors |-> "idle"]
  /\ mine = [p \in Actors |-> CHOOSE s \in Suggestions : TRUE]
  /\ local = [p \in Actors |-> Blank]
  /\ blind = FALSE

Goto(p, l) == pc' = [pc EXCEPT ![p] = l] /\ UNCHANGED local
GotoWith(p, l, v) == pc' = [pc EXCEPT ![p] = l] /\ local' = [local EXCEPT ![p] = v]
End(p) == GotoWith(p, "done", Blank)
SetStatus(s, x) == status' = [status EXCEPT ![s] = x]
SetPosition(p, x) == position' = [position EXCEPT ![p] = x]

-----------------------------------------------------------------------------
(* The risk budget. *)

\* Actors whose suggestion was generated for a cycle (is_automated_entry).
Automated(p) == p \in Cycles

\* The sum of get_risk_amount over a set of positions, counted dollar by dollar.
Dollars(p) == {p} \X (1..Risk[mine[p]])
RiskOf(ps) == Cardinality(UNION {Dollars(p) : p \in ps})

\* Positions _a_calculate_app_managed_risk counts, of every account.
Counted == {p \in Actors : position[p] \in {"open_full", "closing"}}

\* What the broker holds against buying power (external).
Held(a) == {p \in Actors : order[p] \in {"live", "filled"} /\ on[p] = a}
BuyingPower(a) == Capital - RiskOf(Held(a))

\* The first read: the account state, from the cache, a snapshot or a live fetch.  The
\* fetch may fail, or the suggestion be past its expires_at: the trade is blocked.
ReadBuyingPower(p, bp) ==
  GotoWith(p, "risk", [local[p] EXCEPT !.bp = bp])

ReadCapital(p) ==
  /\ pc[p] = "validate"
  /\ \/ /\ cached[Primary] # NoValue
        /\ ReadBuyingPower(p, cached[Primary])
        /\ UNCHANGED cached
     \/ /\ cached[Primary] = NoValue
        /\ cached' = [cached EXCEPT ![Primary] = BuyingPower(Primary)]
        /\ ReadBuyingPower(p, BuyingPower(Primary))
     \/ End(p) /\ UNCHANGED cached
  /\ UNCHANGED <<status, records, mine, blind>>

\* The second read: the managed risk that is added back to it.
ReadManagedRisk(p) ==
  /\ pc[p] = "risk"
  /\ GotoWith(p, "budget", [local[p] EXCEPT !.risk = RiskOf(Counted)])
  /\ UNCHANGED <<cached, status, records, mine, blind>>

\* Mutant: the used risk is not taken off.
RemainingUnused(bp, risk, used) == Tolerance[2] * (bp + risk)

\* risk_tolerance * (buying power + managed risk) - used risk, scaled by the
\* denominator of the tolerance.
Remaining(bp, risk, used) ==
  Tolerance[1] * (bp + risk) - Tolerance[2] * used

\* The third read, of the used risk, and the verdict: a trade that is not
\* valid ends the cycle or the request and leaves the suggestion as it is.
CheckBudget(p) ==
  /\ pc[p] = "budget"
  /\ LET used == RiskOf(Counted)
         fits == Tolerance[2] * Risk[mine[p]]
                   <= Remaining(local[p].bp, local[p].risk, used)
     IN  IF fits
           THEN GotoWith(p, IF p \in Cycles THEN "execute" ELSE "market",
                  [local[p] EXCEPT !.whole = (used = local[p].risk)])
           ELSE End(p)
  /\ UNCHANGED <<cached, status, records, mine, blind>>

\* a_get_risk_budget_data for somebody who only looks: unless it is known already,
\* the broker's answer is kept for the next trade.
LookAtBudget ==
  /\ cached[Primary] = NoValue
  /\ cached' = [cached EXCEPT ![Primary] = BuyingPower(Primary)]
  /\ UNCHANGED <<status, records, pc, mine, local, blind>>

\* The page shows the budget; it checks a suggestion against it, which is only read
\* afterwards.
GetRiskBudget     == LookAtBudget
ValidateTradeRisk == LookAtBudget

-----------------------------------------------------------------------------
(* The automated cycle of one account. *)

\* Unfilled automated positions of the account older than five minutes.
Stale(a) ==
  {p \in old : on[p] = a /\ position[p] = "pending_entry"}

\* The account of a cycle is the one the query of the task found, primary or
\* not; it is remembered as the account of the position it has not made yet.
CycleStart(c) ==
  /\ pc[c] = "idle"
  /\ Overlap \/ \A d \in Cycles : pc[d] \in {"idle", "done"}
  /\ \E a \in Accounts :
       /\ on' = [on EXCEPT ![c] = a]
       /\ GotoWith(c, "cancel", [Blank EXCEPT !.seen = Stale(a)])
  /\ UNCHANGED <<cached, status, position, order, working, old, mine, blind>>

\* Mutant: the position is archived and the order left at the broker.
CancelsOnRecord(p) ==
  /\ order[p] \in {"live", "cancelled"}
  /\ SetPosition(p, "expired")
  /\ UNCHANGED order

\* cancel_trade for one of them: its order is cancelled and the position
\* archived, or it has filled, or the call fails; only the log differs
\* between the last two.
Cancels(p) ==
  /\ order[p] \in {"live", "cancelled"}
  /\ order' = [order EXCEPT ![p] = "cancelled"]
  /\ SetPosition(p, IF position[p] = "pending_entry" THEN "expired"
                                                     ELSE position[p])

CycleCancel(c) ==
  /\ pc[c] = "cancel"
  /\ \E p \in local[c].seen \ local[c].handled :
       LET tried == [local[c] EXCEPT !.handled = @ \cup {p}]
       IN  \/ /\ Cancels(p)
              /\ GotoWith(c, "cancel", tried)
           \/ /\ order[p] = "filled"
              /\ GotoWith(c, "cancel", tried)
              /\ UNCHANGED <<order, position>>
           \/ /\ GotoWith(c, "cancel", [tried EXCEPT !.kept = @ \cup {p}])
              /\ UNCHANGED <<order, position>>
  /\ UNCHANGED <<cached, status, on, working, old, mine, blind>>

\* _has_open_position_today.
OpenToday(a) ==
  \E p \in Actors :
    Automated(p) /\ on[p] = a /\ position[p] = "open_full"

CycleCheck(c) ==
  /\ pc[c] = "cancel" /\ local[c].handled = local[c].seen
  /\ IF OpenToday(on[c]) THEN End(c) ELSE Goto(c, "suggest")
  /\ UNCHANGED <<cached, status, records, mine, blind>>

\* a_generate_suggestion saves the suggestion as pending, then as approved;
\* an attempt may bring none, and the last one ends the cycle.
CycleSuggest(c) ==
  /\ pc[c] = "suggest"
  /\ \/ \E s \in Suggestions :
          /\ status[s] = "none"
          /\ SetStatus(s, "pending")
          /\ mine' = [mine EXCEPT ![c] = s]
          /\ Goto(c, "approve")
     \/ /\ local[c].tries + 1 < Attempts
        /\ GotoWith(c, "suggest", [local[c] EXCEPT !.tries = @ + 1])
        /\ UNCHANGED <<status, mine>>
     \/ /\ local[c].tries + 1 = Attempts
        /\ End(c)
        /\ UNCHANGED <<status, mine>>
  /\ UNCHANGED <<cached, records, blind>>

CycleApprove(c) ==
  /\ pc[c] = "approve"
  /\ SetStatus(mine[c], "approved")
  /\ Goto(c, "validate")
  /\ UNCHANGED <<cached, records, mine, blind>>

-----------------------------------------------------------------------------
(* Requests of the user. *)

\* A suggestion is generated for the user (QuoteFeed).
Generate(s) ==
  /\ status[s] = "none"
  /\ SetStatus(s, "pending")
  /\ UNCHANGED <<cached, records, pc, mine, local, blind>>

\* execute_suggestion and reject_suggestion read a pending suggestion; they
\* do not look at its status again.
RequestRead(r) ==
  /\ pc[r] = "idle"
  /\ \E s \in Suggestions :
       /\ status[s] = "pending"
       /\ mine' = [mine EXCEPT ![r] = s]
  /\ \E next \in {"validate", "reject"} : Goto(r, next)
  /\ UNCHANGED <<cached, status, records, blind>>

\* The market is open and the suggestion is approved, or it is closed.
RequestApprove(r) ==
  /\ pc[r] = "market"
  /\ \/ SetStatus(mine[r], "approved") /\ Goto(r, "execute")
     \/ End(r) /\ UNCHANGED status
  /\ UNCHANGED <<cached, records, mine, blind>>

RejectSave(r) ==
  /\ pc[r] = "reject"
  /\ SetStatus(mine[r], "rejected")
  /\ End(r)
  /\ UNCHANGED <<cached, records, mine, blind>>

\* Mutant: nothing gives the suggestion back.
GiveBackNever(p) == p \in Actors /\ UNCHANGED status

\* Any exception of the execution, and a dry run, give a request's
\* suggestion back; a cycle leaves its own approved.
GiveBack(p) ==
  IF p \in Requests THEN SetStatus(mine[p], "pending") ELSE UNCHANGED status

-----------------------------------------------------------------------------
(* execute_suggestion_async. *)

\* _check_for_conflicting_positions: legs of open positions of the account
\* and of the orders its history lists as working.
Conflicts(p) ==
  \E q \in Actors \ {p} :
    /\ on[q] = Primary
    /\ position[q] = "open_full" \/ q \in working
    /\ Contracts[mine[q]] \cap Contracts[mine[p]] # {}

\* The primary account, the conflicts, the session, the age of the pricing
\* and the legs; then a dry run ends, and the records are created.
ExecCheck(p) ==
  /\ pc[p] = "execute"
  /\ \/ /\ ~Conflicts(p) /\ ~DryRun
        /\ on' = [on EXCEPT ![p] = Primary]
        /\ SetPosition(p, "pending_entry")
        /\ Goto(p, "submit")
        /\ UNCHANGED status
     \/ /\ GiveBack(p)
        /\ End(p)
        /\ UNCHANGED <<on, position>>
  /\ UNCHANGED <<cached, order, working, old, mine, blind>>

\* The broker takes the order or refuses it; a refusal deletes the records.
ExecSubmit(p) ==
  /\ pc[p] = "submit"
  /\ \/ /\ order' = [order EXCEPT ![p] = "live"]
        /\ blind' = (blind \/ ~local[p].whole
                           \/ BuyingPower(on[p]) # local[p].bp)
        /\ GotoWith(p, "finish", Blank)
        /\ UNCHANGED <<status, position>>
     \/ /\ SetPosition(p, "none")
        /\ GiveBack(p)
        /\ End(p)
        /\ UNCHANGED <<order, blind>>
  /\ UNCHANGED <<cached, on, working, old, mine>>

\* The records are finalized and the suggestion marked; an exception on the
\* way deletes them although the order is placed.
ExecFinish(p) ==
  /\ pc[p] = "finish"
  /\ \/ SetStatus(mine[p], "executed") /\ UNCHANGED position
     \/ SetPosition(p, "none") /\ GiveBack(p)
  /\ End(p)
  /\ UNCHANGED <<cached, order, on, working, old, mine, blind>>

-----------------------------------------------------------------------------
(* The broker, the other tasks of the application, and time. *)

\* An order fills; the position opens when an event or a task reports it, and
\* later closes.
Fills(p) ==
  /\ order[p] = "live"
  /\ order' = [order EXCEPT ![p] = "filled"]
  /\ UNCHANGED <<position, working>>

Opens(p) ==
  /\ order[p] = "filled" /\ position[p] = "pending_entry"
  /\ SetPosition(p, "open_full")
  /\ UNCHANGED <<order, working>>

Closes(p) ==
  /\ position[p] = "open_full"
  /\ SetPosition(p, "closed")
  /\ order' = [order EXCEPT ![p] = "closed"]
  /\ UNCHANGED working

\* A sync of the order history.
Listed(p) ==
  /\ working' = IF order[p] = "live" THEN working \cup {p} ELSE working \ {p}
  /\ UNCHANGED <<order, position>>

Order(p) ==
  /\ Fills(p) \/ Opens(p) \/ Closes(p) \/ Listed(p)
  /\ UNCHANGED <<cached, status, on, old, pc, mine, local, blind>>

\* Five minutes pass for a position, and the account state leaves the cache.
Age(p) ==
  /\ Automated(p) /\ position[p] = "pending_entry" /\ p \notin old
  /\ old' = old \cup {p}
  /\ UNCHANGED <<cached, status, position, order, on,
                 working, pc, mine, local, blind>>

Forget(a) ==
  /\ cached[a] # NoValue
  /\ cached' = [cached EXCEPT ![a] = NoValue]
  /\ UNCHANGED <<status, records, pc, mine, local, blind>>

-----------------------------------------------------------------------------
Cycle(c) ==
  \/ CycleCancel(c) \/ CycleCheck(c) \/ CycleSuggest(c) \/ CycleApprove(c)

Execute(p) ==
  \/ ReadCapital(p) \/ ReadManagedRisk(p) \/ CheckBudget(p)
  \/ ExecCheck(p) \/ ExecSubmit(p) \/ ExecFinish(p)

Request(r) == RequestApprove(r) \/ RejectSave(r)

Next ==
  \/ \E c \in Cycles : CycleStart(c) \/ Cycle(c)
  \/ \E r \in Requests : RequestRead(r) \/ Request(r)
  \/ \E p \in Actors : Execute(p) \/ Order(p) \/ Age(p)
  \/ \E s \in Suggestions : Generate(s)
  \/ \E a \in Accounts : Forget(a)
  \/ GetRiskBudget \/ ValidateTradeRisk

Spec == Init /\ [][Next]_vars

-----------------------------------------------------------------------------
(* Properties. *)

Places == {"idle", "cancel", "suggest", "approve", "validate", "risk", "budget",
           "market", "execute", "submit", "finish", "reject",
           "done"}

\* Every variable has its type.
TypeOK ==
  /\ cached \in [Accounts -> Int]
  /\ status \in [Suggestions -> {"none", "pending", "approved", "rejected",
                                 "executed"}]
  /\ position \in [Actors -> {"none", "pending_entry", "open_full",
                               "expired", "closed"}]
  /\ order \in [Actors -> {"none", "live", "filled", "cancelled", "closed"}]
  /\ on \in [Actors -> Accounts]
  /\ working \subseteq Actors /\ old \subseteq Actors
  /\ pc \in [Actors -> Places] /\ mine \in [Actors -> Suggestions]
  /\ local \in [Actors -> [seen : SUBSET Actors, handled : SUBSET Actors,
                           kept : SUBSET Actors, tries : 0..Attempts,
                           bp : Int, risk : Nat, whole : BOOLEAN]]
  /\ blind \in BOOLEAN

\* As long as every order was placed on the buying power the broker had at
\* that moment, what is held against an account never exceeds its capital,
\* although the budget leaves pending entries out of the used risk.
NeverOvercommitted ==
  ~blind => \A a \in Accounts : RiskOf(Held(a)) <= Capital

\* A cycle that goes on to a new entry has none of the orders it found stale
\* left at the broker, except one it could not cancel or that filled.
StaleOrdersGone ==
  \A c \in Cycles : pc[c] \notin {"idle", "cancel"} =>
    \A p \in local[c].seen \ local[c].kept : order[p] # "live"

\* A suggestion that stands approved is being executed, or was approved by a
\* cycle: a request that ends has executed it or given it back, whatever other
\* requests and cycles do with it.
ApprovedIsInHand ==
  \A s \in Suggestions : status[s] = "approved" =>
    \E p \in Actors : mine[p] = s /\
      (p \in Cycles \/ pc[p] \in {"execute", "submit", "finish"})

\* The schedule of the cycle says that it only opens one position per day
\* (settings/base.py): an account has one automated position.
OnePositionPerDay ==
  \A p, q \in Cycles : p # q /\ on[p] = on[q] =>
    ~(position[p] = "open_full" /\ position[q] = "open_full")

=============================================================================
