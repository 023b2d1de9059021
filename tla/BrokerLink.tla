----------------------------- MODULE BrokerLink -----------------------------
(***************************************************************************)
(* A user's connection to the broker: the TradingAccount rows and their    *)
(* refresh token (accounts/models.py), the OAuth views that write them     *)
(* (accounts/views.py), and the sessions every task and view opens with    *)
(* the token of the primary row (core/data_access.py,                      *)
(* brokers/tastytrade/session.py).                                         *)
(*                                                                         *)
(* A token is the number of the grant that issued it.  A view reads a row, *)
(* changes its copy and saves every field of it; in between the callback   *)
(* talks to the broker.  TradingAccount.save is two statements without a   *)
(* transaction: it takes the primary flag from the other rows, then writes *)
(* its own.  Requests for the same view overlap: the OAuth state is kept   *)
(* with the browser and taken from it when the request ends, so it orders  *)
(* neither those of one browser nor those of several.                      *)
(***************************************************************************)
EXTENDS Integers, FiniteSets, FiniteSetsExt

CONSTANTS
    Rows,        \* ids of TradingAccount rows, 1 the first
    Numbers,     \* account numbers at the broker
    Callbacks,   \* requests for tastytrade_oauth_callback
    Selects,     \* requests for tastytrade_select_primary
    Disconnects, \* requests for tastytrade_disconnect
    Workers,     \* tasks and views that open sessions
    MaxGrants,   \* how often the user authorises the application
    Revocable,   \* the grants that the broker may end
    None

VARIABLES
    accounts,    \* the TradingAccount rows of the user, None where there is none
    web,         \* the requests at work, each with its copy of a row
    attempts,    \* the sessions being created: their token
    granted,     \* the grants so far
    revoked      \* tokens the broker refuses (external)

vars == <<accounts, web, attempts, granted, revoked>>

Views == Callbacks \cup Selects \cup Disconnects
Tokens == 0..MaxGrants

Row == [token : {None} \cup Tokens, number : {None} \cup Numbers,
        primary : BOOLEAN, active : BOOLEAN, valid : BOOLEAN]

\* Row ids are positive and begin with 1; the absent value is no row, id or number; a
\* request is for one view.
ASSUME LinkAssumption ==
    /\ Rows \subseteq Nat \ {0} /\ 1 \in Rows /\ IsFiniteSet(Rows)
    /\ None \notin Row /\ None \notin Nat /\ None \notin Numbers
    /\ MaxGrants \in Nat
    /\ Callbacks \cap Selects = {} /\ Disconnects \cap (Callbacks \cup Selects) = {}

Present == {r \in Rows : accounts[r] # None}
First == IF Present = {} THEN None ELSE Min(Present)
Configured(row) == row.number # None /\ row.token # None

Steps == {"waiting", "exchange", "accounts", "primary", "save", "write", "session", "done"}

\* Where a request is, the row it will save, its copy, and what follows the save.
Waiting == [at |-> "waiting", id |-> None, copy |-> None, next |-> "done"]
Done == [Waiting EXCEPT !.at = "done"]
NewRow == [token |-> None, number |-> None, primary |-> FALSE, active |-> TRUE, valid |-> TRUE]

\* What the import command and earlier connections leave: rows of different
\* accounts, one of them primary.
Init ==
    /\ accounts \in {f \in [Rows -> {None} \cup Row] :
          /\ \A r \in Rows : f[r] # None => /\ Configured(f[r]) /\ f[r].token = 0
                                            /\ f[r].active /\ f[r].valid
          /\ \A r, s \in Rows : (r # s /\ f[r] # None /\ f[s] # None) => f[r].number # f[s].number
          /\ Cardinality({r \in Rows : f[r] # None /\ f[r].primary}) =
                IF \A r \in Rows : f[r] = None THEN 0 ELSE 1
          /\ \A r \in Rows : f[r] # None => \A s \in 1..r : f[s] # None}
    /\ web = [v \in Views |-> Waiting]
    /\ attempts = [w \in Workers |-> None]
    /\ granted = 0
    /\ revoked = {}

-----------------------------------------------------------------------------
(* TradingAccount.save *)

\* The rows other than the saved one lose the primary flag.
ClearOthers(id, copy) ==
    accounts' = [r \in Rows |->
                IF copy.primary /\ r # id /\ accounts[r] # None
                THEN [accounts[r] EXCEPT !.primary = FALSE] ELSE accounts[r]]

SaveClears(v) ==
    /\ web[v].at = "save"
    /\ ClearOthers(web[v].id, web[v].copy)
    /\ web' = [web EXCEPT ![v].at = "write"]
    /\ UNCHANGED <<attempts, granted, revoked>>

\* Mutant: the callback saves the fields it has set, but not is_active.
WrittenInPart(v, id) ==
    IF v \in Callbacks /\ accounts[id] # None
    THEN [web[v].copy EXCEPT !.active = accounts[id].active] ELSE web[v].copy

\* Every field of the copy.
Written(v, id) == web[v].copy

\* Two rows of the user never have the same number: the save fails, and what it took
\* from the other rows stays taken.
Duplicate(id, copy) ==
    \E r \in Present \ {id} : accounts[r].number = copy.number

Saved(v) ==
    IF web[v].next = "done" THEN Done ELSE [web[v] EXCEPT !.at = web[v].next, !.next = "done"]

\* A copy that was not read is a new row.
SaveWrites(v) ==
    /\ web[v].at = "write"
    /\ web[v].id = None => Present # Rows
    /\ LET id == IF web[v].id = None THEN Min(Rows \ Present) ELSE web[v].id IN
       IF Duplicate(id, web[v].copy)
         THEN UNCHANGED accounts /\ web' = [web EXCEPT ![v] = Done]
         ELSE /\ accounts' = [accounts EXCEPT ![id] = Written(v, id)]
              /\ web' = [web EXCEPT ![v] = Saved(v)]
    /\ UNCHANGED <<attempts, granted, revoked>>

-----------------------------------------------------------------------------
(* The views *)

\* tastytrade_oauth_callback up to the exchange of the code: an unconfigured row is
\* saved without its tokens.  Without a valid state it ends before this.
CallbackReads(v) ==
    /\ web[v].at = "waiting"
    /\ LET row == IF First = None THEN NewRow ELSE accounts[First]
           kept == First = None \/ Configured(row)
       IN web' = [web EXCEPT ![v] =
             [at |-> IF kept THEN "exchange" ELSE "save", id |-> First,
              copy |-> IF kept THEN row ELSE [row EXCEPT !.token = None],
              next |-> IF kept THEN "done" ELSE "exchange"]]
    /\ UNCHANGED <<accounts, attempts, granted, revoked>>

\* exchange_code: the broker issues a new grant, or refuses the code.
CallbackExchanges(v) ==
    /\ web[v].at = "exchange"
    /\ \/ /\ granted < MaxGrants
          /\ granted' = granted + 1
          /\ web' = [web EXCEPT ![v] = [@ EXCEPT !.at = "accounts", !.copy.token = granted + 1]]
       \/ web' = [web EXCEPT ![v] = Done] /\ UNCHANGED granted
    /\ UNCHANGED <<accounts, attempts, revoked>>

\* fetch_accounts: the first account of the list, read with a session of its own
\* that marks nothing; a grant whose accounts cannot be read is not kept.
CallbackFetches(v) ==
    /\ web[v].at = "accounts"
    /\ \/ /\ web[v].copy.token \notin revoked
          /\ \E n \in Numbers :
                LET copy == [web[v].copy EXCEPT !.number = n, !.active = TRUE, !.valid = TRUE]
                IN web' = [web EXCEPT ![v] = [web[v] EXCEPT !.at = "primary", !.copy = copy]]
       \/ web' = [web EXCEPT ![v] = Done]
    /\ UNCHANGED <<accounts, attempts, granted, revoked>>

\* The row becomes the primary one if the user has none, and is saved.  The callback
\* then tries a session with its token.
CallbackChecksPrimary(v) ==
    /\ web[v].at = "primary"
    /\ LET some == \E r \in Present : accounts[r].primary
           copy == [web[v].copy EXCEPT !.primary = web[v].copy.primary \/ ~some]
       IN web' = [web EXCEPT ![v] =
             [web[v] EXCEPT !.at = "save", !.next = "session", !.copy = copy]]
    /\ UNCHANGED <<accounts, attempts, granted, revoked>>

\* tastytrade_select_primary: the first row takes the number and the flag.
SelectReads(v) ==
    /\ web[v].at = "waiting" /\ First # None
    /\ \E n \in Numbers :
          web' = [web EXCEPT ![v] =
             [at |-> "save", id |-> First, next |-> "done",
              copy |-> [accounts[First] EXCEPT !.number = n, !.primary = TRUE]]]
    /\ UNCHANGED <<accounts, attempts, granted, revoked>>

\* tastytrade_disconnect: the row stays, without token and number.
DisconnectReads(v) ==
    /\ web[v].at = "waiting" /\ First # None
    /\ web' = [web EXCEPT ![v] =
          [at |-> "save", id |-> First, next |-> "done",
           copy |-> [accounts[First] EXCEPT !.token = None, !.number = None, !.active = FALSE]]]
    /\ UNCHANGED <<accounts, attempts, granted, revoked>>

-----------------------------------------------------------------------------
(* Sessions *)

\* _mark_account_token_invalid: every row of the user.
MarkInvalid ==
    accounts' = [r \in Rows |-> IF accounts[r] = None THEN None ELSE [accounts[r] EXCEPT !.valid = FALSE]]

Begins(w, r) ==
    /\ attempts[w] = None
    /\ accounts[r].token # None
    /\ attempts' = [attempts EXCEPT ![w] = accounts[r].token]
    /\ UNCHANGED <<accounts, web, granted, revoked>>

\* get_oauth_session: the token of the primary row is read.
SessionBegins(w) == \E r \in Present : accounts[r].primary /\ Begins(w, r)

\* get_oauth_session_for_account: the token of the row with that number.
AccountBegins(w) == \E n \in Numbers, r \in Present : accounts[r].number = n /\ Begins(w, r)

\* create_session: a timeout, an error of the network or a fresh session that does not
\* validate is tried again with the same token.  Only an error of authentication
\* marks the rows, and is not tried again.
Outcome(token) ==
    \/ token \in revoked /\ MarkInvalid
    \/ UNCHANGED accounts

\* A session, or an error, or a session that is no longer valid when it is handed over.
SessionEnds(w) ==
    /\ attempts[w] # None
    /\ Outcome(attempts[w])
    /\ attempts' = [attempts EXCEPT ![w] = None]
    /\ UNCHANGED <<web, granted, revoked>>

CallbackSession(v) ==
    /\ web[v].at = "session"
    /\ Outcome(web[v].copy.token)
    /\ web' = [web EXCEPT ![v] = Done]
    /\ UNCHANGED <<attempts, granted, revoked>>

\* The broker ends a grant.
Revoke(t) ==
    /\ t \in Revocable \cap 0..granted
    /\ revoked' = revoked \cup {t}
    /\ UNCHANGED <<accounts, web, attempts, granted>>

Next ==
    \/ \E v \in Callbacks : \/ CallbackReads(v) \/ CallbackExchanges(v) \/ CallbackFetches(v)
                            \/ CallbackChecksPrimary(v) \/ CallbackSession(v)
    \/ \E v \in Selects : SelectReads(v)
    \/ \E v \in Disconnects : DisconnectReads(v)
    \/ \E v \in Views : SaveClears(v) \/ SaveWrites(v)
    \/ \E w \in Workers : SessionBegins(w) \/ AccountBegins(w) \/ SessionEnds(w)
    \/ \E t \in Revocable : Revoke(t)

Spec == Init /\ [][Next]_vars

-----------------------------------------------------------------------------
TypeOK ==
    /\ \A r \in Present : accounts[r] \in Row
    /\ \A v \in Views : web[v].at \in Steps /\ web[v].next \in {"done", "exchange", "session"}
    /\ \A w \in Workers : attempts[w] \in {None} \cup Tokens
    /\ granted \in 0..MaxGrants
    /\ revoked \subseteq Revocable

\* A row with a token names an account and is active, although callbacks, selections
\* and disconnections save the whole row they once read over what others have saved
\* since (views.py:261, 340, 362).
ConnectedIsComplete ==
    \A r \in Present : accounts[r].token # None => accounts[r].number # None /\ accounts[r].active

-----------------------------------------------------------------------------
(* What does not hold.                                                      *)

\* A user has one primary row: two callbacks that both found no row, or no primary
\* one, each save their own (views.py:301, models.py:183).
AtMostOnePrimary == Cardinality({r \in Present : accounts[r].primary}) <= 1

\* A connected row is only marked invalid if the broker refuses the token it has: an
\* attempt that began before a reconnection marks it as well (session.py:451), and a
\* view that saves an older copy brings the mark back.
InvalidMeansRefused ==
    \A r \in Present :
        accounts[r].token # None /\ ~accounts[r].valid => accounts[r].token \in revoked

\* Once there is a primary row there is always one: between the two statements of
\* a save there is none, and a callback's copy without the flag may be saved after
\* the row was selected (views.py:286, 341).
PrimaryStays ==
    [][(\E r \in Present : accounts[r].primary) => \E r \in Present : accounts'[r].primary]_vars

=============================================================================
