------------------------------ MODULE QuoteFeed ------------------------------
(***************************************************************************)
(* Option quotes of one user: how a suggestion request subscribes its legs,*)
(* waits for their quotes, decides that it may price them and, some awaits *)
(* later, prices what the cache has by then                                *)
(* (streaming/services/stream_subscription_manager.py, stream_manager.py   *)
(* a_process_suggestion_request, _wait_for_cache and the event handlers,   *)
(* services/streaming/options_cache.py).                                   *)
(*                                                                         *)
(* Requests run on one event loop: an action is what happens between two   *)
(* awaits.  asyncio.Event objects are numbered for each symbol, because a  *)
(* symbol gets a new one while a request still waits on the old one.       *)
(* Names are kept apart from those of UserStream, which keeps the stream.  *)
(***************************************************************************)
EXTENDS Integers, FiniteSets, SequencesExt

CONSTANTS
  Symbols,       \* option symbols
  Requests,      \* suggestion requests
  FeedFailures,      \* the failures that may happen, a subset of FeedFailureKinds
  MaxSubscribed, \* MAX_SUBSCRIPTIONS
  MaxEvents,     \* bound: events ever created for a symbol
  MaxConnections     \* bound: connections of the manager

FeedFailureKinds ==
  { "subscribe", \* the broker does not take a subscription
    "drop",      \* the connection is lost
    "timeout",   \* CACHE_WAIT_TIMEOUT is over
    "onesided",  \* a quote has no bid or no ask
    "hour" }     \* SUBSCRIPTION_CLEANUP_SECONDS are over

ASSUME QuoteFeedAssumption ==
  /\ FeedFailures \subseteq FeedFailureKinds
  /\ MaxSubscribed \in Nat \ {0} /\ MaxEvents \in Nat /\ MaxConnections \in Nat
  /\ IsFiniteSet(Symbols)

Absent == 0

VARIABLES
  stream,     \* the connection in use, Absent while is_streaming is not set
  connections,    \* connections made so far
  feeds,      \* symbols the broker sends on the connection in use
  subscribed, \* subscribed_symbols, in the order of subscription_timestamps
  lapsed,     \* how many of them, the first ones, are older than an hour
  pending,    \* pending_symbol_events: the event registered for each symbol
  made,       \* the last event made for each symbol
  rung,       \* events that are set
  cache,      \* what the quote cache has for each symbol
  ringing,    \* the symbol whose quote is cached and not signalled yet
  stage, legs,
  asked,      \* what a request subscribes, and on which connection
  awaits      \* the events a request waits for

feedVars == <<stream, connections, feeds, subscribed, lapsed, pending, made, rung,
          cache, ringing, stage, legs, asked, awaits>>
connection    == <<stream, connections, feeds>>
subscriptions == <<subscribed, lapsed>>
events        == <<pending, made, rung>>
quotes        == <<cache, ringing>>

\* A payload: how old, and its sides; a bid of 0.0 is a price, yet falsy.
Ages   == {"missing", "fresh", "stale"}
Sides  == {"both", "zero", "one"}
NoData == [age |-> "missing", sides |-> "one"]

NotAsked == [on |-> Absent, new |-> {}]

FeedInit ==
  /\ stream = Absent /\ connections = 0 /\ feeds = {}
  /\ subscribed = <<>> /\ lapsed = 0
  /\ pending = [s \in Symbols |-> Absent]
  /\ made = [s \in Symbols |-> Absent]
  /\ rung = {}
  /\ cache = [s \in Symbols |-> NoData]
  /\ ringing = {}
  /\ stage = [r \in Requests |-> "idle"]
  /\ legs = [r \in Requests |-> {}]
  /\ asked = [r \in Requests |-> NotAsked]
  /\ awaits = [r \in Requests |-> {}]

Moves(r, l) == stage' = [stage EXCEPT ![r] = l]

\* A new asyncio.Event for each symbol of S takes the place of the old one.
Register(S) ==
  /\ \A s \in S : made[s] < MaxEvents
  /\ made' = [s \in Symbols |-> IF s \in S THEN made[s] + 1 ELSE made[s]]
  /\ pending' = [s \in Symbols |-> IF s \in S THEN made'[s] ELSE pending[s]]
  /\ UNCHANGED rung

-----------------------------------------------------------------------------
(***************************************************************************)
(* The connection and what arrives on it.                                  *)
(***************************************************************************)
StreamStarts ==
  /\ stream = Absent /\ connections < MaxConnections
  /\ connections' = connections + 1 /\ stream' = connections + 1
  /\ feeds' = {}
  /\ UNCHANGED <<subscriptions, events, quotes, stage, legs, asked, awaits>>

\* The manager keeps what it holds of the subscriptions.
StreamDrops ==
  /\ stream # Absent /\ "drop" \in FeedFailures
  /\ stream' = Absent /\ feeds' = {}
  /\ UNCHANGED <<connections, subscriptions, events, quotes, stage, legs, asked, awaits>>

\* _handle_quote_event: the quote is stored first ...
QuoteArrives(s) ==
  /\ s \in feeds /\ ringing = {}
  /\ \E e \in Sides :
       /\ e = "one" => "onesided" \in FeedFailures
       /\ cache' = [cache EXCEPT ![s] = [age |-> "fresh", sides |-> e]]
  /\ ringing' = {s}
  /\ UNCHANGED <<connection, subscriptions, events, stage, legs, asked, awaits>>

\* The events of E that somebody waits for; the others are garbage.
Awaited(E) == {e \in E : \E r \in Requests : e \in awaits'[r]}

\* ... then signal_data_received sets the registered event and forgets it.
Signal(s) ==
  /\ ringing = {s}
  /\ ringing' = {}
  /\ UNCHANGED <<connection, subscriptions, made, cache, stage, legs, asked, awaits>>
  /\ rung' = Awaited(rung \cup {<<s, pending[s]>>})
  /\ pending' = [pending EXCEPT ![s] = Absent]

\* Beyond DEFAULT_MAX_AGE a quote is stale; after QUOTE_CACHE_TTL it is gone.
QuoteAges(s) ==
  /\ cache[s].age # "missing" /\ ringing # {s}
  /\ cache' = [cache EXCEPT ![s] =
       IF @.age = "fresh" THEN [@ EXCEPT !.age = "stale"] ELSE NoData]
  /\ UNCHANGED <<connection, subscriptions, events, ringing, stage, legs, asked, awaits>>

\* Of the subscriptions the oldest are the first to be an hour old.
HourPasses ==
  /\ "hour" \in FeedFailures
  /\ lapsed' \in lapsed + 1 .. Len(subscribed)
  /\ UNCHANGED <<connection, subscribed, events, quotes, stage, legs, asked, awaits>>

-----------------------------------------------------------------------------
(***************************************************************************)
(* _wait_for_cache.                                                        *)
(***************************************************************************)
Fresh(s) == cache[s].age = "fresh"

\* Every leg has a fresh quote with both sides.
MayPrice(L) == \A s \in L : Fresh(s) /\ cache[s].sides # "one"

Answer(r, L) ==
  /\ Moves(r, IF MayPrice(L) THEN "answered" ELSE "failed")
  /\ awaits' = [awaits EXCEPT ![r] = {}]

\* Legs without fresh data have their event awaited, or a new one made for them;
\* a stale quote with two prices other than 0 and no event is waited for by nobody.
LooksAt(r, L) ==
  LET old     == {s \in L : ~Fresh(s)}
      missing == {s \in old : pending[s] = Absent
                              /\ ~(cache[s].age = "stale" /\ cache[s].sides = "both")}
      waited  == missing \cup {s \in old : pending[s] # Absent}
  IN /\ Register(missing)
     /\ IF waited = {}
          THEN Answer(r, L)
          ELSE /\ awaits' = [awaits EXCEPT ![r] = {<<s, pending'[s]>> : s \in waited}]
               /\ Moves(r, "wait")

-----------------------------------------------------------------------------
(***************************************************************************)
(* subscribe_to_new_symbols.                                               *)
(***************************************************************************)
\* cleanup_old_subscriptions.
Live == SubSeq(subscribed, lapsed + 1, Len(subscribed))

\* Mutant: room is made when the limit is passed already.
RoomForOneMore(n) ==
  LET over == Len(Live) + n - MaxSubscribed
  IN IF over <= 1 THEN Live ELSE SubSeq(Live, over + 1, Len(Live))

\* enforce_subscription_limits: the oldest give way to n new ones.
RoomFor(n) ==
  LET over == Len(Live) + n - MaxSubscribed
  IN IF over <= 0 THEN Live ELSE SubSeq(Live, over + 1, Len(Live))

\* Without a stream nothing is subscribed, and the request goes on to wait.
AsksFor(r, L) ==
  LET new == L \ ToSet(Live)
  IN /\ legs' = [legs EXCEPT ![r] = L]
     /\ IF stream = Absent
          THEN LooksAt(r, L) /\ UNCHANGED <<subscriptions, asked>>
          ELSE /\ lapsed' = 0
               /\ IF new = {}
                    THEN subscribed' = Live /\ LooksAt(r, L) /\ UNCHANGED asked
                    ELSE /\ \E order \in SetToSeqs(new) :
                              subscribed' = RoomFor(Cardinality(new)) \o order
                         /\ Register(new)
                         /\ asked' = [asked EXCEPT ![r] = [on |-> stream, new |-> new]]
                         /\ Moves(r, "subscribing")
                         /\ UNCHANGED awaits

Asks(r) ==
  /\ stage[r] = "idle"
  /\ \E L \in SUBSET Symbols :
       L # {} /\ Cardinality(L) <= MaxSubscribed /\ AsksFor(r, L)
  /\ UNCHANGED <<connection, quotes>>

\* Mutant: the subscriptions replace the earlier ones.
SubscribesOnly(r) ==
  /\ stage[r] = "subscribing" /\ asked[r].on = stream
  /\ feeds' = asked[r].new
  /\ Moves(r, "look")
  /\ asked' = [asked EXCEPT ![r] = NotAsked]
  /\ UNCHANGED <<stream, connections, subscriptions, events, quotes, legs, awaits>>

\* The broker takes the subscriptions.
Subscribes(r) ==
  /\ stage[r] = "subscribing" /\ asked[r].on = stream
  /\ feeds' = feeds \cup asked[r].new
  /\ Moves(r, "look")
  /\ asked' = [asked EXCEPT ![r] = NotAsked]
  /\ UNCHANGED <<stream, connections, subscriptions, events, quotes, legs, awaits>>

\* An error is logged and swallowed, only an orderly close ends the request;
\* the symbols stay marked as subscribed either way.
SubscribeFails(r) ==
  /\ stage[r] = "subscribing"
  /\ \/ Moves(r, "look")
     \/ asked[r].on # stream /\ Moves(r, "failed")
  /\ asked[r].on = stream => "subscribe" \in FeedFailures
  /\ asked' = [asked EXCEPT ![r] = NotAsked]
  /\ UNCHANGED <<connection, subscriptions, events, quotes, legs, awaits>>

Looks(r) ==
  /\ stage[r] = "look"
  /\ LooksAt(r, legs[r])
  /\ UNCHANGED <<connection, subscriptions, quotes, legs, asked>>

\* remove_pending_event, for every symbol waited for, whosever event it is by now.
Forget(r) ==
  pending' = [s \in Symbols |->
                IF \E e \in awaits[r] : e[1] = s THEN Absent ELSE pending[s]]

WaitEnds(r) ==
  /\ stage[r] = "wait" /\ awaits[r] \subseteq rung
  /\ Forget(r)
  /\ Answer(r, legs[r])
  /\ rung' = Awaited(rung)
  /\ UNCHANGED <<connection, subscriptions, made, quotes, legs, asked>>

WaitTimesOut(r) ==
  /\ stage[r] = "wait" /\ "timeout" \in FeedFailures
  /\ Forget(r)
  /\ Moves(r, "failed")
  /\ awaits' = [awaits EXCEPT ![r] = {}]
  /\ rung' = Awaited(rung)
  /\ UNCHANGED <<connection, subscriptions, made, quotes, legs, asked>>

\* build_pricing: both sides of every leg, of which the newest quote must be fresh.
HasPricing(L) ==
  /\ \A s \in L : cache[s].age # "missing" /\ cache[s].sides # "one"
  /\ \E s \in L : Fresh(s)

\* The user and the strategy were read since the wait; the quotes are read again.
Prices(r) ==
  /\ stage[r] = "answered"
  /\ Moves(r, IF HasPricing(legs[r]) THEN "priced" ELSE "failed")
  /\ UNCHANGED <<connection, subscriptions, events, quotes, legs, asked, awaits>>

-----------------------------------------------------------------------------
FeedNext ==
  \/ StreamStarts \/ StreamDrops \/ HourPasses
  \/ \E s \in Symbols : QuoteArrives(s) \/ Signal(s) \/ QuoteAges(s)
  \/ \E r \in Requests :
       \/ Asks(r) \/ Subscribes(r) \/ SubscribeFails(r)
       \/ Looks(r) \/ WaitEnds(r) \/ WaitTimesOut(r) \/ Prices(r)

FeedSpec == FeedInit /\ [][FeedNext]_feedVars

-----------------------------------------------------------------------------
(***************************************************************************)
(* Properties.                                                             *)
(***************************************************************************)
Events == Symbols \X (1..MaxEvents)

FeedTypeOK ==
  /\ stream \in 0..connections /\ connections \in 0..MaxConnections
  /\ feeds \subseteq Symbols
  /\ subscribed \in Seq(Symbols) /\ IsInjective(subscribed)
  /\ lapsed \in 0..Len(subscribed)
  /\ pending \in [Symbols -> 0..MaxEvents] /\ made \in [Symbols -> 0..MaxEvents]
  /\ rung \subseteq Events
  /\ cache \in [Symbols -> [age : Ages, sides : Sides]]
  /\ ringing \subseteq Symbols
  /\ stage \in [Requests -> {"idle", "subscribing", "look", "wait", "answered", "priced", "failed"}]
  /\ legs \in [Requests -> SUBSET Symbols]
  /\ asked \in [Requests -> [on : 0..MaxConnections, new : SUBSET Symbols]]
  /\ awaits \in [Requests -> SUBSET Events]

\* Whatever is subscribed, lapses and is asked for again by several requests, no more
\* symbols count as subscribed than the limit: room is made before the subscribe is
\* awaited, and a second request counts what the first has added
\* (stream_subscription_manager.py:76, 135).
WithinSubscriptionLimit == Len(subscribed) <= MaxSubscribed

\* A symbol that counts as subscribed is sent by the broker, or is on its way to
\* be subscribed: no later request would ask for it.
SubscribedIsFed ==
  stream # Absent => \A s \in ToSet(subscribed) :
    s \in feeds \/ \E r \in Requests : s \in asked[r].new

\* As far as that holds: on the first connection, while every subscribe succeeds.
FirstStreamFeeds ==
  stream = 1 /\ "subscribe" \notin FeedFailures => SubscribedIsFed

\* A suggestion is priced with fresh quotes only: _wait_for_cache wants every leg fresh,
\* but the pricing, some awaits later, only the newest of them.
PricedIsFresh ==
  [][\A r \in Requests : stage[r] # "priced" /\ stage'[r] = "priced"
       => \A s \in legs[r] : Fresh(s)]_feedVars

\* The next quote of a leg wakes whoever waits for it.
WaiterIsWoken ==
  \A r \in Requests : \A e \in awaits[r] :
    e \in rung \/ pending[e[1]] = e[2]

=============================================================================
