----------------------- MODULE EntryAdmission_proofs -----------------------
(***************************************************************************)
(* Proofs about EntryAdmission for any number of cycles, requests,         *)
(* suggestions and accounts: a cycle goes on only when the stale orders it *)
(* found are gone, a suggestion stands approved only while somebody        *)
(* executes it, and orders placed on the buying power of the moment never  *)
(* take more than the capital.                                             *)
(***************************************************************************)
EXTENDS EntryAdmission, FiniteSetTheorems, TLAPS

\* The local variables of an actor are a record; the amounts in it are whatever
\* the broker and the sums of risk gave.
Shaped(x) ==
  x = [seen |-> x.seen, handled |-> x.handled, kept |-> x.kept,
       tries |-> x.tries, bp |-> x.bp, risk |-> x.risk, whole |-> x.whole]

Rows ==
  /\ status \in [Suggestions -> {"none", "pending", "approved", "rejected",
                                 "executed"}]
  /\ position \in [Actors -> {"none", "pending_entry", "open_full",
                               "expired", "closed"}]
  /\ order \in [Actors -> {"none", "live", "filled", "cancelled", "closed"}]
  /\ mine \in [Actors -> Suggestions]
  /\ old \subseteq Actors

Locals ==
  /\ pc \in [Actors -> Places]
  /\ local = [p \in Actors |-> local[p]]
  /\ \A p \in Actors : Shaped(local[p])

-----------------------------------------------------------------------------
\* An actor has an order only after it has left the submission, and a position
\* opens only for an order: nobody's order can come to life a second time.
Sent ==
  \A p \in Actors :
    /\ pc[p] \notin {"finish", "done"} => order[p] = "none"
    /\ order[p] = "none" => position[p] # "open_full"

\* Why StaleOrdersGone holds: an order a cycle has handled and not kept was
\* seen cancelled, filled or closed, and a cycle goes on with all handled.
Handled ==
  \A c \in Cycles :
    /\ \A p \in (local[c].handled \cap Actors) \ local[c].kept :
         order[p] \in {"filled", "cancelled", "closed"}
    /\ local[c].seen \subseteq Actors
    /\ pc[c] \notin {"idle", "cancel"} => local[c].seen \subseteq local[c].handled

\* Why ApprovedIsInHand holds: who has approved a suggestion has come to the
\* execution, where no actor takes up another suggestion.
Approver(p, s) ==
  /\ mine[p] = s
  /\ \/ p \in Cycles /\ pc[p] \notin {"idle", "cancel", "suggest", "approve"}
     \/ pc[p] \in {"execute", "submit", "finish"}

InHand == \A s \in Suggestions : status[s] = "approved" => \E p \in Actors : Approver(p, s)

Inv == Rows /\ Locals /\ Sent /\ Handled /\ InHand

-----------------------------------------------------------------------------
Over == {"filled", "cancelled", "closed"}

\* No step takes an actor back before its submission or an order back to life.
Onward(q) ==
  /\ pc[q] \in {"finish", "done"} => pc'[q] \in {"finish", "done"}
  /\ order[q] = "none" => order'[q] = "none" \/ pc'[q] \in {"finish", "done"}
  /\ order[q] # "none" => order'[q] # "none"
  /\ order[q] \in Over => order'[q] \in Over
  /\ position'[q] = "open_full" => position[q] = "open_full" \/ order[q] # "none"

SameLists(x, y) == y.seen = x.seen /\ y.handled = x.handled /\ y.kept = x.kept

\* What a step does to the lists of a cycle: nothing, unless it goes on with all
\* handled; a new list or none; or one position more that is over or kept.
ListsMove(c) ==
  \/ /\ SameLists(local[c], local'[c])
     /\ \/ pc'[c] \in {"idle", "cancel"}
        \/ pc[c] \notin {"idle", "cancel"}
        \/ local[c].seen \subseteq local[c].handled
  \/ /\ local'[c].handled = {} /\ local'[c].seen \subseteq Actors
     /\ pc'[c] = "cancel" \/ local'[c].seen = {}
  \/ /\ local'[c].seen = local[c].seen /\ pc'[c] = "cancel"
     /\ local[c].kept \subseteq local'[c].kept
     /\ \A q \in local'[c].handled \ local'[c].kept :
          q \in local[c].handled \/ order'[q] \in Over

\* Who has a suggestion in hand keeps it, or it stands approved no longer.
StaysInHand(s) ==
  status'[s] = "approved" =>
    \/ status[s] = "approved" /\ \A p \in Actors : Approver(p, s) => Approver(p, s)'
    \/ \E p \in Actors : Approver(p, s)'

\* A step with these effects keeps the invariant.
LEMMA Keeps ==
  ASSUME Inv, Rows', Locals',
         \A q \in Actors : Onward(q),
         \A c \in Cycles : ListsMove(c),
         \A s \in Suggestions : StaysInHand(s)
  PROVE  Inv'
<1>1. Sent'
  BY DEF Inv, Sent, Onward, Locals, Places
<1>2. Handled'
  <2> SUFFICES ASSUME NEW c \in Cycles
               PROVE  /\ \A p \in (local'[c].handled \cap Actors) \ local'[c].kept :
                           order'[p] \in Over
                      /\ local'[c].seen \subseteq Actors
                      /\ pc'[c] \notin {"idle", "cancel"} =>
                           local'[c].seen \subseteq local'[c].handled
    BY DEF Handled, Over
  <2>1. /\ \A p \in (local[c].handled \cap Actors) \ local[c].kept : order[p] \in Over
        /\ local[c].seen \subseteq Actors
        /\ pc[c] \notin {"idle", "cancel"} => local[c].seen \subseteq local[c].handled
    BY DEF Inv, Handled, Over
  <2>2. \A p \in Actors : order[p] \in Over => order'[p] \in Over
    BY DEF Onward
  <2>3. ListsMove(c)
    OBVIOUS
  <2> QED
    BY <2>1, <2>2, <2>3 DEF ListsMove, SameLists
<1>3. InHand'
  BY DEF Inv, InHand, StaysInHand
<1> QED
  BY <1>1, <1>2, <1>3 DEF Inv

-----------------------------------------------------------------------------
(* How an actor moves. *)

\* Actor p is at l with the local variables v, and nobody else has moved.
MovedTo(p, l, v) ==
  /\ Locals'
  /\ pc'[p] = l /\ local'[p] = v
  /\ \A q \in Actors \ {p} : pc'[q] = pc[q] /\ local'[q] = local[q]

LEMMA BlankShaped ==
  Shaped(Blank) /\ Blank.seen = {} /\ Blank.handled = {} /\ Blank.kept = {}
  BY DEF Shaped, Blank

\* A record whose fields are known is shaped, whatever they are.
LEMMA AnyShaped ==
  ASSUME NEW a, NEW b, NEW c, NEW d, NEW e, NEW f, NEW g
  PROVE  LET v == [seen |-> a, handled |-> b, kept |-> c, tries |-> d, bp |-> e,
                   risk |-> f, whole |-> g]
         IN  Shaped(v) /\ v.seen = a /\ v.handled = b /\ v.kept = c
  BY DEF Shaped

LEMMA NewList ==
  ASSUME NEW S
  PROVE  LET v == [Blank EXCEPT !.seen = S]
         IN  Shaped(v) /\ v.seen = S /\ v.handled = {} /\ v.kept = {}
<1>1. [Blank EXCEPT !.seen = S] =
        [seen |-> S, handled |-> Blank.handled, kept |-> Blank.kept,
         tries |-> Blank.tries, bp |-> Blank.bp, risk |-> Blank.risk,
         whole |-> Blank.whole]
  BY BlankShaped DEF Shaped
<1> QED
  BY <1>1, BlankShaped DEF Shaped

LEMMA OtherFields ==
  ASSUME NEW x, Shaped(x), NEW a
  PROVE  /\ Shaped([x EXCEPT !.bp = a]) /\ SameLists(x, [x EXCEPT !.bp = a])
         /\ Shaped([x EXCEPT !.risk = a]) /\ SameLists(x, [x EXCEPT !.risk = a])
         /\ Shaped([x EXCEPT !.whole = a]) /\ SameLists(x, [x EXCEPT !.whole = a])
         /\ Shaped([x EXCEPT !.tries = a]) /\ SameLists(x, [x EXCEPT !.tries = a])
<1>1. [x EXCEPT !.bp = a] =
        [seen |-> x.seen, handled |-> x.handled, kept |-> x.kept, tries |-> x.tries,
         bp |-> a, risk |-> x.risk, whole |-> x.whole]
  BY DEF Shaped
<1>r. [x EXCEPT !.risk = a] =
        [seen |-> x.seen, handled |-> x.handled, kept |-> x.kept, tries |-> x.tries,
         bp |-> x.bp, risk |-> a, whole |-> x.whole]
  BY DEF Shaped
<1>2. [x EXCEPT !.whole = a] =
        [seen |-> x.seen, handled |-> x.handled, kept |-> x.kept, tries |-> x.tries,
         bp |-> x.bp, risk |-> x.risk, whole |-> a]
  BY DEF Shaped
<1>3. [x EXCEPT !.tries = a] =
        [seen |-> x.seen, handled |-> x.handled, kept |-> x.kept, tries |-> a,
         bp |-> x.bp, risk |-> x.risk, whole |-> x.whole]
  BY DEF Shaped
<1>4. /\ Shaped([x EXCEPT !.bp = a]) /\ SameLists(x, [x EXCEPT !.bp = a])
      /\ Shaped([x EXCEPT !.risk = a]) /\ SameLists(x, [x EXCEPT !.risk = a])
  BY <1>1, <1>r DEF Shaped, SameLists
<1>5. Shaped([x EXCEPT !.whole = a]) /\ SameLists(x, [x EXCEPT !.whole = a])
  BY <1>2 DEF Shaped, SameLists
<1>6. Shaped([x EXCEPT !.tries = a]) /\ SameLists(x, [x EXCEPT !.tries = a])
  BY <1>3 DEF Shaped, SameLists
<1> QED
  BY <1>4, <1>5, <1>6

LEMMA OtherAmounts ==
  ASSUME NEW x, Shaped(x), NEW a
  PROVE  /\ [x EXCEPT !.bp = a].bp = a
         /\ [x EXCEPT !.risk = a].bp = x.bp
         /\ [x EXCEPT !.whole = a].whole = a /\ [x EXCEPT !.whole = a].bp = x.bp
  BY DEF Shaped

LEMMA OneHandled ==
  ASSUME NEW x, Shaped(x), NEW S
  PROVE  LET y == [x EXCEPT !.handled = S]
         IN  Shaped(y) /\ y.seen = x.seen /\ y.handled = S /\ y.kept = x.kept
<1>1. [x EXCEPT !.handled = S] =
        [seen |-> x.seen, handled |-> S, kept |-> x.kept, tries |-> x.tries,
         bp |-> x.bp, risk |-> x.risk, whole |-> x.whole]
  BY DEF Shaped
<1> QED
  BY <1>1, AnyShaped

LEMMA OneKept ==
  ASSUME NEW x, Shaped(x), NEW S
  PROVE  LET y == [x EXCEPT !.kept = S]
         IN  Shaped(y) /\ y.seen = x.seen /\ y.handled = x.handled /\ y.kept = S
<1>1. [x EXCEPT !.kept = S] =
        [seen |-> x.seen, handled |-> x.handled, kept |-> S, tries |-> x.tries,
         bp |-> x.bp, risk |-> x.risk, whole |-> x.whole]
  BY DEF Shaped
<1> QED
  BY <1>1, AnyShaped

LEMMA MoveWith ==
  ASSUME Locals, NEW p \in Actors, NEW l \in Places, NEW v, Shaped(v), GotoWith(p, l, v)
  PROVE  MovedTo(p, l, v)
<1>1. pc' = [pc EXCEPT ![p] = l] /\ local' = [local EXCEPT ![p] = v]
  BY DEF GotoWith
<1>2. local = [q \in Actors |-> local[q]] /\ pc \in [Actors -> Places]
  BY DEF Locals
<1>3. local' = [q \in Actors |-> IF q = p THEN v ELSE local[q]]
  BY <1>1, <1>2
<1>4. pc' \in [Actors -> Places] /\ local' = [q \in Actors |-> local'[q]]
  BY <1>1, <1>2, <1>3
<1>5. /\ pc'[p] = l /\ local'[p] = v
      /\ \A q \in Actors \ {p} : pc'[q] = pc[q] /\ local'[q] = local[q]
  BY <1>1, <1>2, <1>3
<1>6. \A q \in Actors : Shaped(local'[q])
  BY <1>3 DEF Locals
<1> QED
  BY <1>4, <1>5, <1>6 DEF MovedTo, Locals

LEMMA Move ==
  ASSUME Locals, NEW p \in Actors, NEW l \in Places, Goto(p, l)
  PROVE  MovedTo(p, l, local[p])
<1>1. pc' = [pc EXCEPT ![p] = l] /\ local' = local
  BY DEF Goto
<1> QED
  BY <1>1 DEF MovedTo, Locals

LEMMA Stop ==
  ASSUME Locals, NEW p \in Actors, End(p) PROVE MovedTo(p, "done", Blank)
  BY MoveWith, BlankShaped DEF End, Places

\* Nobody moves.
LEMMA NoMove ==
  ASSUME Inv, UNCHANGED <<pc, local, mine>>, Rows', \A s \in Suggestions :
           status'[s] = "approved" => status[s] = "approved",
         \A q \in Actors : Onward(q)
  PROVE  Inv'
<1>1. Locals'
  BY DEF Inv, Locals
<1>2. \A c \in Cycles : ListsMove(c)
  BY DEF ListsMove, SameLists, Inv, Handled
<1>3. \A s \in Suggestions : StaysInHand(s)
  BY DEF StaysInHand, Approver
<1> QED
  BY <1>1, <1>2, <1>3, Keeps

\* Somebody moves, and nobody's order or position does.
LEMMA OnlyMove ==
  ASSUME Inv, NEW p \in Actors, NEW l \in Places, NEW v, MovedTo(p, l, v), Rows',
         UNCHANGED <<order, position>>,
         pc[p] \in {"finish", "done"} => l \in {"finish", "done"},
         p \in Cycles => ListsMove(p),
         \A s \in Suggestions : StaysInHand(s)
  PROVE  Inv'
<1>1. \A q \in Actors : Onward(q)
  BY DEF Onward, MovedTo
<1>2. \A c \in Cycles : ListsMove(c)
  <2> SUFFICES ASSUME NEW c \in Cycles, c # p PROVE ListsMove(c)
    OBVIOUS
  <2>1. pc'[c] = pc[c] /\ local'[c] = local[c]
    BY DEF MovedTo, Actors
  <2> QED
    BY <2>1 DEF ListsMove, SameLists, Inv, Handled
<1> QED
  BY <1>1, <1>2, Keeps DEF MovedTo

-----------------------------------------------------------------------------
(* The cycle: what it does before it has a suggestion. *)

\* A suggestion nobody approves stays in hand if the one who moves keeps it.
LEMMA StillInHand ==
  ASSUME NEW p \in Actors, NEW l, NEW v, MovedTo(p, l, v),
         \A q \in Actors \ {p} : mine'[q] = mine[q],
         NEW s \in Suggestions, status'[s] = "approved" => status[s] = "approved",
         Approver(p, s) /\ status'[s] = "approved" => Approver(p, s)'
  PROVE  StaysInHand(s)
<1>1. ASSUME NEW q \in Actors \ {p}, Approver(q, s) PROVE Approver(q, s)'
  BY <1>1 DEF Approver, MovedTo
<1> QED
  BY <1>1 DEF StaysInHand

LEMMA StartStep ==
  ASSUME Inv, NEW c \in Cycles, CycleStart(c) PROVE Inv'
<1>1. PICK a \in Accounts : GotoWith(c, "cancel", [Blank EXCEPT !.seen = Stale(a)])
  BY DEF CycleStart
<1> DEFINE v == [Blank EXCEPT !.seen = Stale(a)]
<1>2. Shaped(v) /\ v.seen = Stale(a) /\ v.handled = {} /\ v.kept = {}
  BY NewList
<1>3. MovedTo(c, "cancel", v)
  BY <1>1, <1>2, MoveWith DEF Inv, Places, Actors
<1> HIDE DEF v
<1>4. \A s \in Suggestions : StaysInHand(s)
  <2>1. mine' = mine /\ status' = status /\ pc[c] = "idle" /\ c \in Actors
    BY DEF CycleStart, Actors
  <2>2. \A s \in Suggestions : ~Approver(c, s)
    BY <2>1 DEF Approver
  <2> QED
    BY <1>3, <2>1, <2>2, StillInHand
<1>5. ListsMove(c)
  <2>1. Stale(a) \subseteq old /\ \A p \in Stale(a) : position[p] = "pending_entry"
    BY DEF Stale
  <2>2. old \subseteq Actors
    BY DEF Inv, Rows
  <2> QED
    BY <1>2, <1>3, <2>1, <2>2 DEF ListsMove, MovedTo
<1>6. Rows' /\ UNCHANGED <<order, position>> /\ pc[c] = "idle"
  BY DEF CycleStart, Inv, Rows
<1>7. c \in Actors /\ "cancel" \in Places
  BY DEF Actors, Places
<1> QED
  BY <1>3, <1>4, <1>5, <1>6, <1>7, OnlyMove

LEMMA CancelStep ==
  ASSUME Inv, NEW c \in Cycles, CycleCancel(c) PROVE Inv'
<1>1. PICK p \in local[c].seen \ local[c].handled :
        LET tried == [local[c] EXCEPT !.handled = local[c].handled \cup {p}]
        IN  \/ /\ Cancels(p)
               /\ GotoWith(c, "cancel", tried)
            \/ /\ order[p] = "filled"
               /\ GotoWith(c, "cancel", tried)
               /\ UNCHANGED <<order, position>>
            \/ /\ GotoWith(c, "cancel", [tried EXCEPT !.kept = local[c].kept \cup {p}])
               /\ UNCHANGED <<order, position>>
  <2>1. Shaped(local[c])
    BY DEF Inv, Locals, Actors
  <2>2. \A p : [local[c] EXCEPT !.handled = local[c].handled \cup {p}].kept = local[c].kept
    BY <2>1, OneHandled
  <2> QED
    BY <2>2 DEF CycleCancel
<1> DEFINE tried == [local[c] EXCEPT !.handled = local[c].handled \cup {p}]
           left  == [tried EXCEPT !.kept = local[c].kept \cup {p}]
<1>2. /\ Shaped(tried) /\ tried.seen = local[c].seen /\ tried.kept = local[c].kept
      /\ tried.handled = local[c].handled \cup {p}
  <2>1. Shaped(local[c])
    BY DEF Inv, Locals, Actors
  <2> QED
    BY <2>1, OneHandled
<1>3. /\ Shaped(left) /\ left.seen = local[c].seen /\ left.handled = tried.handled
      /\ left.kept = local[c].kept \cup {p}
  <2> HIDE DEF tried
  <2> QED
    BY <1>2, OneKept
<1> HIDE DEF tried, left
<1>4. /\ p \in Actors /\ c \in Actors /\ "cancel" \in Places /\ Locals /\ pc[c] = "cancel"
      /\ UNCHANGED <<status, mine, old>>
  BY DEF Inv, Handled, Actors, Places, CycleCancel
<1>5. PICK v \in {tried, left} :
        /\ MovedTo(c, "cancel", v)
        /\ \/ v = tried /\ Cancels(p)
           \/ v = tried /\ order[p] = "filled" /\ UNCHANGED <<order, position>>
           \/ v = left /\ UNCHANGED <<order, position>>
  BY <1>1, <1>2, <1>3, <1>4, MoveWith DEF tried, left
<1>6. Rows' /\ \A q \in Actors : order[q] \in Over => order'[q] \in Over
  <2>1. Rows
    BY DEF Inv
  <2>2. CASE Cancels(p)
    BY <1>4, <2>1, <2>2 DEF Rows, Cancels, SetPosition, Over
  <2>3. CASE UNCHANGED <<order, position>>
    BY <1>4, <2>1, <2>3 DEF Rows
  <2> QED
    BY <1>5, <2>2, <2>3
<1>7. \A q \in Actors : Onward(q)
  <2>1. Rows
    BY DEF Inv
  <2>2. \A q \in Actors : pc[q] \in {"finish", "done"} => pc'[q] \in {"finish", "done"}
    BY <1>4, <1>5 DEF MovedTo
  <2>3. CASE Cancels(p)
    BY <1>4, <2>1, <2>2, <2>3 DEF Rows, Cancels, SetPosition, Over, Onward
  <2>4. CASE UNCHANGED <<order, position>>
    BY <2>2, <2>4 DEF Onward
  <2> QED
    BY <1>5, <2>3, <2>4
<1>8. ListsMove(c)
  <2>1. local'[c] = v /\ pc'[c] = "cancel"
    BY <1>5 DEF MovedTo
  <2>2. CASE v = tried /\ order'[p] \in Over
    BY <1>2, <2>1, <2>2 DEF ListsMove
  <2>3. CASE v = left
    BY <1>2, <1>3, <2>1, <2>3 DEF ListsMove
  <2>4. Cancels(p) => order'[p] \in Over
    BY <1>4 DEF Inv, Rows, Cancels, Over
  <2>5. order[p] = "filled" /\ UNCHANGED order => order'[p] \in Over
    BY DEF Over
  <2> QED
    BY <1>5, <2>2, <2>3, <2>4, <2>5
<1>9. \A d \in Cycles : ListsMove(d)
  <2> SUFFICES ASSUME NEW d \in Cycles, d # c PROVE ListsMove(d)
    BY <1>8
  <2>1. pc'[d] = pc[d] /\ local'[d] = local[d]
    BY <1>5 DEF MovedTo, Actors
  <2> QED
    BY <2>1 DEF ListsMove, SameLists, Inv, Handled
<1>10. \A s \in Suggestions : StaysInHand(s)
  <2>1. \A s \in Suggestions : ~Approver(c, s)
    BY <1>4 DEF Approver
  <2> QED
    BY <1>4, <1>5, <2>1, StillInHand
<1> QED
  BY <1>5, <1>6, <1>7, <1>9, <1>10, Keeps DEF MovedTo

LEMMA CheckStep ==
  ASSUME Inv, NEW c \in Cycles, CycleCheck(c) PROVE Inv'
<1>1. /\ pc[c] = "cancel" /\ local[c].handled = local[c].seen /\ c \in Actors
      /\ UNCHANGED <<status, mine, old, order, position>>
  BY DEF CycleCheck, records, Actors
<1>2. Rows' /\ Locals
  BY <1>1 DEF Inv, Rows
<1>3. \A s \in Suggestions : ~Approver(c, s)
  BY <1>1 DEF Approver
<1>4. CASE End(c)
  <2>1. MovedTo(c, "done", Blank)
    BY <1>1, <1>2, <1>4, Stop
  <2>2. ListsMove(c)
    BY <2>1, BlankShaped DEF ListsMove, MovedTo
  <2>3. \A s \in Suggestions : StaysInHand(s)
    BY <1>1, <1>3, <2>1, StillInHand
  <2>4. "done" \in Places
    BY DEF Places
  <2> QED
    BY <1>1, <1>2, <2>1, <2>2, <2>3, <2>4, OnlyMove
<1>5. CASE Goto(c, "suggest")
  <2>1. MovedTo(c, "suggest", local[c])
    BY <1>1, <1>2, <1>5, Move DEF Places
  <2>2. ListsMove(c)
    BY <1>1, <2>1 DEF ListsMove, MovedTo, SameLists
  <2>3. \A s \in Suggestions : StaysInHand(s)
    BY <1>1, <1>3, <2>1, StillInHand
  <2>4. "suggest" \in Places
    BY DEF Places
  <2> QED
    BY <1>1, <1>2, <2>1, <2>2, <2>3, <2>4, OnlyMove
<1> QED
  BY <1>4, <1>5 DEF CycleCheck

\* Every later step of an actor, if it does not write the lists.
LEMMA LaterMove ==
  ASSUME Inv, NEW p \in Actors, NEW l \in Places, NEW v, MovedTo(p, l, v), Rows',
         UNCHANGED <<order, position>>, pc[p] \notin {"cancel", "finish", "done"},
         pc[p] = "idle" => p \notin Cycles,
         v = Blank \/ SameLists(local[p], v),
         \A s \in Suggestions : StaysInHand(s)
  PROVE  Inv'
<1>1. p \in Cycles => ListsMove(p)
  BY BlankShaped DEF ListsMove, MovedTo, SameLists
<1> QED
  BY <1>1, OnlyMove

LEMMA SuggestStep ==
  ASSUME Inv, NEW c \in Cycles, CycleSuggest(c) PROVE Inv'
<1>1. /\ pc[c] = "suggest" /\ c \in Actors /\ Locals /\ Shaped(local[c])
      /\ UNCHANGED <<old, order, position>>
  BY DEF CycleSuggest, records, Actors, Inv, Locals
<1>2. \A s \in Suggestions : ~Approver(c, s)
  BY <1>1 DEF Approver
<1>3. {"approve", "suggest", "done"} \subseteq Places
  BY DEF Places
<1>4. ASSUME NEW s \in Suggestions, status[s] = "none", SetStatus(s, "pending"),
             mine' = [mine EXCEPT ![c] = s], Goto(c, "approve")
      PROVE  Inv'
  <2>1. MovedTo(c, "approve", local[c])
    BY <1>1, <1>3, <1>4, Move
  <2>2. /\ \A q \in Actors \ {c} : mine'[q] = mine[q]
        /\ \A t \in Suggestions : status'[t] = "approved" => status[t] = "approved"
        /\ Rows'
    BY <1>1, <1>4 DEF Inv, Rows, SetStatus
  <2>3. \A t \in Suggestions : StaysInHand(t)
    BY <1>1, <1>2, <2>1, <2>2, StillInHand
  <2> QED
    BY <1>1, <1>3, <2>1, <2>2, <2>3, LaterMove DEF SameLists
<1>5. ASSUME GotoWith(c, "suggest", [local[c] EXCEPT !.tries = local[c].tries + 1]),
             UNCHANGED <<status, mine>>
      PROVE  Inv'
  <2> DEFINE v == [local[c] EXCEPT !.tries = local[c].tries + 1]
  <2>1. Shaped(v) /\ SameLists(local[c], v)
    BY <1>1, OtherFields
  <2>2. MovedTo(c, "suggest", v)
    BY <1>1, <1>3, <1>5, <2>1, MoveWith
  <2> HIDE DEF v
  <2>3. Rows' /\ \A t \in Suggestions : StaysInHand(t)
    <3>1. Rows'
      BY <1>1, <1>5 DEF Inv, Rows
    <3> QED
      BY <1>1, <1>2, <1>5, <2>2, <3>1, StillInHand
  <2> QED
    BY <1>1, <1>3, <2>1, <2>2, <2>3, LaterMove
<1>6. ASSUME End(c), UNCHANGED <<status, mine>> PROVE Inv'
  <2>1. MovedTo(c, "done", Blank)
    BY <1>1, <1>6, Stop
  <2>2. Rows'
    BY <1>1, <1>6 DEF Inv, Rows
  <2>3. \A t \in Suggestions : StaysInHand(t)
    BY <1>1, <1>2, <1>6, <2>1, StillInHand
  <2> QED
    BY <1>1, <1>3, <2>1, <2>2, <2>3, LaterMove
<1> QED
  BY <1>4, <1>5, <1>6 DEF CycleSuggest

\* A suggestion approved by the one who moves is in hand then.
LEMMA NowInHand ==
  ASSUME NEW p \in Actors, NEW l, NEW v, MovedTo(p, l, v), mine' = mine,
         status \in [Suggestions -> {"none", "pending", "approved", "rejected", "executed"}],
         SetStatus(mine[p], "approved"), mine[p] \in Suggestions,
         \/ p \in Cycles /\ l \notin {"idle", "cancel", "suggest", "approve"}
         \/ l \in {"execute", "submit", "finish"},
         NEW s \in Suggestions
  PROVE  StaysInHand(s)
<1>1. CASE s = mine[p]
  BY <1>1 DEF StaysInHand, Approver, MovedTo
<1>2. CASE s # mine[p]
  <2>1. status'[s] = status[s]
    BY <1>2 DEF SetStatus
  <2>2. Approver(p, s) => Approver(p, s)'
    BY <1>2 DEF Approver
  <2> QED
    BY <2>1, <2>2, StillInHand
<1> QED
  BY <1>1, <1>2

\* A suggestion the one who moves gives away stands approved no longer.
LEMMA GivenAway ==
  ASSUME NEW p \in Actors, NEW l, NEW v, MovedTo(p, l, v), mine' = mine,
         status \in [Suggestions -> {"none", "pending", "approved", "rejected", "executed"}],
         NEW x, x # "approved", SetStatus(mine[p], x), mine[p] \in Suggestions,
         NEW s \in Suggestions
  PROVE  StaysInHand(s)
<1>1. CASE s = mine[p]
  BY <1>1 DEF StaysInHand, SetStatus
<1>2. CASE s # mine[p]
  <2>1. status'[s] = status[s]
    BY <1>2 DEF SetStatus
  <2>2. Approver(p, s) => Approver(p, s)'
    BY <1>2 DEF Approver
  <2> QED
    BY <2>1, <2>2, StillInHand
<1> QED
  BY <1>1, <1>2

\* The end of an execution that gives the suggestion back if it is a request's.
LEMMA Returned ==
  ASSUME NEW p \in Actors, NEW v, MovedTo(p, "done", v), mine' = mine,
         status \in [Suggestions -> {"none", "pending", "approved", "rejected", "executed"}],
         GiveBack(p), mine[p] \in Suggestions,
         pc[p] \notin {"idle", "cancel", "suggest", "approve"},
         NEW s \in Suggestions
  PROVE  StaysInHand(s)
<1>1. CASE p \in Requests
  BY <1>1, GivenAway DEF GiveBack
<1>2. CASE p \notin Requests
  <2>1. status' = status /\ p \in Cycles
    BY <1>2 DEF GiveBack, Actors
  <2>2. Approver(p, s) => Approver(p, s)'
    BY <2>1 DEF Approver, MovedTo
  <2> QED
    BY <2>1, <2>2, StillInHand
<1> QED
  BY <1>1, <1>2

LEMMA ApproveStep ==
  ASSUME Inv, NEW c \in Cycles, CycleApprove(c) PROVE Inv'
<1>1. /\ pc[c] = "approve" /\ c \in Actors /\ Locals /\ Rows /\ mine[c] \in Suggestions
      /\ UNCHANGED <<mine, old, order, position>> /\ SetStatus(mine[c], "approved")
      /\ "validate" \in Places /\ Goto(c, "validate")
  BY DEF CycleApprove, records, Actors, Inv, Rows, Places
<1>2. MovedTo(c, "validate", local[c])
  BY <1>1, Move
<1>3. Rows'
  BY <1>1 DEF Rows, SetStatus
<1>4. \A s \in Suggestions : StaysInHand(s)
  BY <1>1, <1>2, NowInHand DEF Rows
<1> QED
  BY <1>1, <1>2, <1>3, <1>4, LaterMove DEF SameLists

-----------------------------------------------------------------------------
(* Requests. *)

LEMMA RequestReadStep ==
  ASSUME Inv, NEW r \in Requests, RequestRead(r) PROVE Inv'
<1>1. /\ pc[r] = "idle" /\ r \in Actors /\ r \notin Cycles /\ Locals /\ Rows
      /\ UNCHANGED <<status, old, order, position>>
  BY AdmissionAssumption DEF RequestRead, records, Actors, Inv
<1>2. PICK l \in {"validate", "reject"} : Goto(r, l)
  BY DEF RequestRead
<1>3. l \in Places
  BY DEF Places
<1>4. MovedTo(r, l, local[r])
  BY <1>1, <1>2, <1>3, Move
<1>5. PICK t \in Suggestions : status[t] = "pending" /\ mine' = [mine EXCEPT ![r] = t]
  BY DEF RequestRead
<1>6. Rows' /\ \A q \in Actors \ {r} : mine'[q] = mine[q]
  BY <1>1, <1>5 DEF Rows
<1>7. \A s \in Suggestions : ~Approver(r, s)
  BY <1>1 DEF Approver
<1>8. \A s \in Suggestions : StaysInHand(s)
  BY <1>1, <1>4, <1>6, <1>7, StillInHand
<1> QED
  BY <1>1, <1>3, <1>4, <1>6, <1>8, LaterMove DEF SameLists

LEMMA RequestStep ==
  ASSUME Inv, NEW r \in Requests, Request(r) PROVE Inv'
<1>1. /\ pc[r] \in {"market", "reject"} /\ r \in Actors /\ Locals /\ Rows
      /\ UNCHANGED <<mine, old, order, position>> /\ mine[r] \in Suggestions
      /\ {"execute", "done"} \subseteq Places
  BY DEF Request, RequestApprove, RejectSave, records, Actors, Inv, Rows, Places
<1>2. ASSUME SetStatus(mine[r], "approved"), Goto(r, "execute") PROVE Inv'
  <2>1. MovedTo(r, "execute", local[r])
    BY <1>1, <1>2, Move
  <2>2. Rows'
    BY <1>1, <1>2 DEF Rows, SetStatus
  <2>3. \A s \in Suggestions : StaysInHand(s)
    BY <1>1, <1>2, <2>1, NowInHand DEF Rows
  <2> QED
    BY <1>1, <2>1, <2>2, <2>3, LaterMove DEF SameLists
<1>3. ASSUME SetStatus(mine[r], "rejected"), End(r) PROVE Inv'
  <2>1. MovedTo(r, "done", Blank)
    BY <1>1, <1>3, Stop
  <2>2. Rows'
    BY <1>1, <1>3 DEF Rows, SetStatus
  <2>3. \A s \in Suggestions : StaysInHand(s)
    BY <1>1, <1>3, <2>1, GivenAway DEF Rows
  <2> QED
    BY <1>1, <2>1, <2>2, <2>3, LaterMove
<1>4. ASSUME status' = status, End(r), pc[r] = "market" PROVE Inv'
  <2>1. MovedTo(r, "done", Blank)
    BY <1>1, <1>4, Stop
  <2>2. Rows'
    BY <1>1, <1>4 DEF Rows
  <2>3. \A s \in Suggestions : StaysInHand(s)
    <3>1. r \notin Cycles
      BY AdmissionAssumption
    <3>2. \A s \in Suggestions : ~Approver(r, s)
      BY <1>4, <3>1 DEF Approver
    <3> QED
      BY <1>1, <1>4, <2>1, <3>2, StillInHand
  <2> QED
    BY <1>1, <2>1, <2>2, <2>3, LaterMove
<1> QED
  BY <1>2, <1>3, <1>4 DEF Request, RequestApprove, RejectSave

-----------------------------------------------------------------------------
(* The budget and the execution, of cycles and of requests. *)

\* Whoever reads or checks the budget approves nothing and gives nothing away.
LEMMA BudgetMove ==
  ASSUME Inv, NEW p \in Actors, pc[p] \in {"validate", "risk", "budget"},
         NEW l \in {"risk", "budget", "execute", "market", "done"}, NEW v, MovedTo(p, l, v),
         v = Blank \/ SameLists(local[p], v),
         UNCHANGED <<status, mine, old, order, position>>
  PROVE  Inv'
<1>1. Rows'
  BY DEF Inv, Rows
<1>2. \A s \in Suggestions : Approver(p, s) => Approver(p, s)'
  BY DEF Approver, MovedTo
<1>3. \A s \in Suggestions : StaysInHand(s)
  BY <1>2, StillInHand
<1>4. l \in Places
  BY DEF Places
<1> QED
  BY <1>1, <1>3, <1>4, LaterMove

LEMMA CapitalStep ==
  ASSUME Inv, NEW p \in Actors, ReadCapital(p) PROVE Inv'
<1>1. /\ pc[p] = "validate" /\ Locals /\ Shaped(local[p]) /\ "risk" \in Places
      /\ UNCHANGED <<status, mine, old, order, position>>
  BY DEF ReadCapital, records, Inv, Locals, Places
<1>2. ASSUME NEW bp, ReadBuyingPower(p, bp) PROVE Inv'
  <2> DEFINE v == [local[p] EXCEPT !.bp = bp]
  <2>1. Shaped(v) /\ SameLists(local[p], v)
    BY <1>1, OtherFields
  <2>2. MovedTo(p, "risk", v)
    BY <1>1, <1>2, <2>1, MoveWith DEF ReadBuyingPower
  <2> HIDE DEF v
  <2> QED
    BY <1>1, <2>1, <2>2, BudgetMove
<1>3. ASSUME End(p) PROVE Inv'
  BY <1>1, <1>3, Stop, BudgetMove
<1> QED
  BY <1>2, <1>3 DEF ReadCapital

LEMMA RiskStep ==
  ASSUME Inv, NEW p \in Actors, ReadManagedRisk(p) PROVE Inv'
<1>1. /\ pc[p] = "risk" /\ Locals /\ Shaped(local[p]) /\ "budget" \in Places
      /\ UNCHANGED <<status, mine, old, order, position>>
  BY DEF ReadManagedRisk, records, Inv, Locals, Places
<1> DEFINE v == [local[p] EXCEPT !.risk = RiskOf(Counted)]
<1>2. Shaped(v) /\ SameLists(local[p], v)
  BY <1>1, OtherFields
<1>3. MovedTo(p, "budget", v)
  BY <1>1, <1>2, MoveWith DEF ReadManagedRisk
<1> HIDE DEF v
<1> QED
  BY <1>1, <1>2, <1>3, BudgetMove

LEMMA BudgetStep ==
  ASSUME Inv, NEW p \in Actors, CheckBudget(p) PROVE Inv'
<1>1. /\ pc[p] = "budget" /\ Locals /\ Shaped(local[p])
      /\ {"execute", "market"} \subseteq Places
      /\ UNCHANGED <<status, mine, old, order, position>>
  BY DEF CheckBudget, records, Inv, Locals, Places
<1>2. \/ GotoWith(p, IF p \in Cycles THEN "execute" ELSE "market",
                 [local[p] EXCEPT !.whole = (RiskOf(Counted) = local[p].risk)])
      \/ End(p)
  BY DEF CheckBudget
<1>3. ASSUME NEW l \in {"execute", "market"}, NEW b,
             GotoWith(p, l, [local[p] EXCEPT !.whole = b])
      PROVE  Inv'
  <2> DEFINE v == [local[p] EXCEPT !.whole = b]
  <2>1. Shaped(v) /\ SameLists(local[p], v)
    BY <1>1, OtherFields
  <2>2. MovedTo(p, l, v)
    BY <1>1, <1>3, <2>1, MoveWith
  <2> HIDE DEF v
  <2> QED
    BY <1>1, <2>1, <2>2, BudgetMove
<1>4. ASSUME End(p) PROVE Inv'
  BY <1>1, <1>4, Stop, BudgetMove
<1> QED
  BY <1>2, <1>3, <1>4

\* A move past the budget that changes the actor's own order or position.
LEMMA OwnMove ==
  ASSUME Inv, NEW p \in Actors, NEW l \in Places, NEW v, MovedTo(p, l, v), Rows',
         \A q \in Actors : Onward(q), pc[p] \notin {"idle", "cancel"},
         v = Blank \/ SameLists(local[p], v),
         \A s \in Suggestions : StaysInHand(s)
  PROVE  Inv'
<1>1. p \in Cycles => ListsMove(p)
  BY BlankShaped DEF ListsMove, MovedTo, SameLists
<1>2. \A c \in Cycles : ListsMove(c)
  <2> SUFFICES ASSUME NEW c \in Cycles, c # p PROVE ListsMove(c)
    BY <1>1
  <2>1. pc'[c] = pc[c] /\ local'[c] = local[c]
    BY DEF MovedTo, Actors
  <2> QED
    BY <2>1 DEF ListsMove, SameLists, Inv, Handled
<1> QED
  BY <1>2, Keeps DEF MovedTo

LEMMA ExecCheckStep ==
  ASSUME Inv, NEW p \in Actors, ExecCheck(p) PROVE Inv'
<1>1. /\ pc[p] = "execute" /\ Locals /\ Rows /\ mine[p] \in Suggestions
      /\ UNCHANGED <<mine, old, order>> /\ {"submit", "done"} \subseteq Places
  BY DEF ExecCheck, Inv, Rows, Places
<1>2. ASSUME SetPosition(p, "pending_entry"), Goto(p, "submit"), UNCHANGED status
      PROVE  Inv'
  <2>1. MovedTo(p, "submit", local[p])
    BY <1>1, <1>2, Move
  <2>2. Rows'
    BY <1>1, <1>2 DEF Rows, SetPosition
  <2>3. \A q \in Actors : Onward(q)
    BY <1>1, <1>2, <2>1 DEF Onward, SetPosition, MovedTo, Rows
  <2>4. \A s \in Suggestions : Approver(p, s) => Approver(p, s)'
    BY <1>1, <2>1 DEF Approver, MovedTo
  <2>5. \A s \in Suggestions : StaysInHand(s)
    BY <1>1, <1>2, <2>1, <2>4, StillInHand
  <2> QED
    BY <1>1, <2>1, <2>2, <2>3, <2>5, OwnMove DEF SameLists
<1>3. ASSUME GiveBack(p), End(p), UNCHANGED position PROVE Inv'
  <2>1. MovedTo(p, "done", Blank)
    BY <1>1, <1>3, Stop
  <2>2. Rows'
    BY <1>1, <1>3 DEF Rows, GiveBack, SetStatus
  <2>3. \A s \in Suggestions : StaysInHand(s)
    BY <1>1, <1>3, <2>1, Returned DEF Rows
  <2> QED
    BY <1>1, <1>3, <2>1, <2>2, <2>3, LaterMove
<1> QED
  BY <1>2, <1>3 DEF ExecCheck

LEMMA ExecSubmitStep ==
  ASSUME Inv, NEW p \in Actors, ExecSubmit(p) PROVE Inv'
<1>1. /\ pc[p] = "submit" /\ Locals /\ Rows /\ mine[p] \in Suggestions
      /\ UNCHANGED <<mine, old>> /\ {"finish", "done"} \subseteq Places
      /\ order[p] = "none"
  BY DEF ExecSubmit, Inv, Rows, Places, Sent
<1>2. ASSUME order' = [order EXCEPT ![p] = "live"], GotoWith(p, "finish", Blank),
             UNCHANGED <<status, position>>
      PROVE  Inv'
  <2>1. MovedTo(p, "finish", Blank)
    BY <1>1, <1>2, MoveWith, BlankShaped
  <2>2. Rows'
    BY <1>1, <1>2 DEF Rows
  <2>3. \A q \in Actors : Onward(q)
    BY <1>1, <1>2, <2>1 DEF Onward, MovedTo, Rows, Over
  <2>4. \A s \in Suggestions : Approver(p, s) => Approver(p, s)'
    BY <1>1, <2>1 DEF Approver, MovedTo
  <2>5. \A s \in Suggestions : StaysInHand(s)
    BY <1>1, <1>2, <2>1, <2>4, StillInHand
  <2> QED
    BY <1>1, <2>1, <2>2, <2>3, <2>5, OwnMove
<1>3. ASSUME SetPosition(p, "none"), GiveBack(p), End(p), UNCHANGED order PROVE Inv'
  <2>1. MovedTo(p, "done", Blank)
    BY <1>1, <1>3, Stop
  <2>2. Rows'
    BY <1>1, <1>3 DEF Rows, GiveBack, SetStatus, SetPosition
  <2>3. \A q \in Actors : Onward(q)
    BY <1>1, <1>3, <2>1 DEF Onward, SetPosition, MovedTo, Rows
  <2>4. \A s \in Suggestions : StaysInHand(s)
    BY <1>1, <1>3, <2>1, Returned DEF Rows
  <2> QED
    BY <1>1, <2>1, <2>2, <2>3, <2>4, OwnMove
<1> QED
  BY <1>2, <1>3 DEF ExecSubmit

LEMMA ExecFinishStep ==
  ASSUME Inv, NEW p \in Actors, ExecFinish(p) PROVE Inv'
<1>1. /\ pc[p] = "finish" /\ Locals /\ Rows /\ mine[p] \in Suggestions /\ End(p)
      /\ UNCHANGED <<mine, old, order>> /\ "done" \in Places
  BY DEF ExecFinish, Inv, Rows, Places
<1>2. MovedTo(p, "done", Blank)
  BY <1>1, Stop
<1>3. ASSUME SetStatus(mine[p], "executed"), UNCHANGED position PROVE Inv'
  <2>1. Rows'
    BY <1>1, <1>3 DEF Rows, SetStatus
  <2>2. \A q \in Actors : Onward(q)
    BY <1>1, <1>2, <1>3 DEF Onward, MovedTo
  <2>3. \A s \in Suggestions : StaysInHand(s)
    BY <1>1, <1>2, <1>3, GivenAway DEF Rows
  <2> QED
    BY <1>1, <1>2, <2>1, <2>2, <2>3, OwnMove
<1>4. ASSUME SetPosition(p, "none"), GiveBack(p) PROVE Inv'
  <2>1. Rows'
    BY <1>1, <1>4 DEF Rows, GiveBack, SetStatus, SetPosition
  <2>2. \A q \in Actors : Onward(q)
    BY <1>1, <1>2, <1>4 DEF Onward, SetPosition, MovedTo, Rows
  <2>3. \A s \in Suggestions : StaysInHand(s)
    BY <1>1, <1>2, <1>4, Returned DEF Rows
  <2> QED
    BY <1>1, <1>2, <2>1, <2>2, <2>3, OwnMove
<1> QED
  BY <1>3, <1>4 DEF ExecFinish

-----------------------------------------------------------------------------
(* The broker, time and those who only look. *)

LEMMA OrderStep ==
  ASSUME Inv, NEW p \in Actors, Order(p) PROVE Inv'
<1>1. Rows /\ UNCHANGED <<status, old, pc, mine, local>>
  BY DEF Order, Inv
<1>2. Rows'
  BY <1>1 DEF Rows, Order, Fills, Opens, Closes, Listed, SetPosition
<1>3. \A q \in Actors : Onward(q)
  <2>1. order[p] = "none" => position[p] # "open_full"
    BY DEF Inv, Sent
  <2> QED
    BY <1>1, <2>1 DEF Rows, Order, Fills, Opens, Closes, Listed, SetPosition, Onward, Over
<1> QED
  BY <1>1, <1>2, <1>3, NoMove

\* Positions grow old, others look at the budget or make suggestions.
LEMMA OtherStep ==
  ASSUME Inv,
         \/ \E p \in Actors : Age(p)
         \/ \E s \in Suggestions : Generate(s)
         \/ \E a \in Accounts : Forget(a)
         \/ GetRiskBudget \/ ValidateTradeRisk
         \/ UNCHANGED vars
  PROVE  Inv'
<1>1. Rows /\ UNCHANGED <<order, position, pc, mine, local>>
  BY DEF Inv, Age, Generate, Forget, GetRiskBudget, ValidateTradeRisk, LookAtBudget,
         vars, records
<1>2. Rows'
  BY <1>1 DEF Rows, Age, Generate, Forget, GetRiskBudget, ValidateTradeRisk,
              LookAtBudget, vars, records, SetStatus
<1>3. \A s \in Suggestions : status'[s] = "approved" => status[s] = "approved"
  BY <1>1 DEF Rows, Age, Generate, Forget, GetRiskBudget, ValidateTradeRisk,
              LookAtBudget, vars, records, SetStatus
<1>4. \A q \in Actors : Onward(q)
  BY <1>1 DEF Onward
<1> QED
  BY <1>1, <1>2, <1>3, <1>4, NoMove

\* Every action keeps the invariant.
LEMMA InvStep == Inv /\ [Next]_vars => Inv'
<1> SUFFICES ASSUME Inv, [Next]_vars PROVE Inv'
  OBVIOUS
<1>1. ASSUME NEW c \in Cycles, CycleStart(c) \/ Cycle(c) PROVE Inv'
  BY <1>1, StartStep, CancelStep, CheckStep, SuggestStep, ApproveStep DEF Cycle
<1>2. ASSUME NEW r \in Requests, RequestRead(r) \/ Request(r) PROVE Inv'
  BY <1>2, RequestReadStep, RequestStep
<1>3. ASSUME NEW p \in Actors, Execute(p) \/ Order(p) PROVE Inv'
  BY <1>3, CapitalStep, RiskStep, BudgetStep, ExecCheckStep, ExecSubmitStep, ExecFinishStep,
     OrderStep DEF Execute
<1> QED
  BY <1>1, <1>2, <1>3, OtherStep DEF Next

LEMMA InvInit == Init => Inv
<1> SUFFICES ASSUME Init PROVE Inv
  OBVIOUS
<1>1. \A p \in Actors : local[p] = Blank /\ pc[p] = "idle" /\ order[p] = "none"
  BY DEF Init
<1>2. Locals
  <2>1. pc \in [Actors -> Places]
    BY DEF Init, Places
  <2>2. local = [p \in Actors |-> local[p]]
    BY DEF Init
  <2> QED
    BY <1>1, <2>1, <2>2, BlankShaped DEF Locals
<1>3. Sent
  BY <1>1 DEF Init, Sent
<1>4. Handled
  BY <1>1, BlankShaped DEF Handled, Actors
<1>5. InHand
  BY DEF Init, InHand
<1>6. Rows
  <2>1. (CHOOSE s \in Suggestions : TRUE) \in Suggestions
    BY AdmissionAssumption
  <2> QED
    BY <2>1 DEF Init, Rows
<1> QED
  BY <1>2, <1>3, <1>4, <1>5, <1>6 DEF Inv

-----------------------------------------------------------------------------
(* The sum of risk. *)

\* A sum is a number; one more position adds its own risk; fewer positions of the
\* same suggestions do not add up to more.
LEMMA OneRisk ==
  ASSUME NEW p, NEW n \in Nat
  PROVE  IsFiniteSet({p} \X (1..n)) /\ Cardinality({p} \X (1..n)) = n
<1>1. IsFiniteSet({p}) /\ Cardinality({p}) = 1
  BY FS_Singleton
<1>2. IsFiniteSet(1..n) /\ Cardinality(1..n) = n
  BY FS_Interval
<1>3. /\ IsFiniteSet({p} \X (1..n))
      /\ Cardinality({p} \X (1..n)) = Cardinality({p}) * Cardinality(1..n)
  BY <1>1, <1>2, FS_Product
<1> QED
  BY <1>1, <1>2, <1>3

\* The sum when m says which suggestion is whose.
Sum(m, ps) == Cardinality(UNION {{p} \X (1..Risk[m[p]]) : p \in ps})

LEMMA SumIsNat ==
  ASSUME NEW m \in [Actors -> Suggestions], NEW ps \in SUBSET Actors
  PROVE  /\ IsFiniteSet(UNION {{p} \X (1..Risk[m[p]]) : p \in ps})
         /\ Sum(m, ps) \in Nat
<1> DEFINE D(p) == {p} \X (1..Risk[m[p]])
<1>1. IsFiniteSet(ps)
  BY AdmissionAssumption, FS_Subset
<1>2. IsFiniteSet({D(p) : p \in ps})
  <2> DEFINE T == {D(p) : p \in ps}
             f == [p \in ps |-> D(p)]
  <2>1. f \in Surjection(ps, T)
    BY DEF Surjection
  <2> HIDE DEF f, T
  <2>2. IsFiniteSet(T)
    BY <1>1, <2>1, FS_Surjection
  <2> QED
    BY <2>2 DEF T
<1>3. \A p \in ps : Risk[m[p]] \in Nat
  BY AdmissionAssumption
<1>4. \A p \in ps : IsFiniteSet(D(p))
  BY <1>3, OneRisk
<1>5. IsFiniteSet(UNION {D(p) : p \in ps})
  <2> HIDE DEF D
  <2> QED
    BY <1>2, <1>4, FS_UNION
<1> QED
  BY <1>5, FS_CardinalityType DEF Sum

LEMMA SumAdds ==
  ASSUME NEW m \in [Actors -> Suggestions], NEW ps \in SUBSET Actors,
         NEW p \in Actors, p \notin ps
  PROVE  Sum(m, ps \cup {p}) = Sum(m, ps) + Risk[m[p]]
<1> DEFINE D(q) == {q} \X (1..Risk[m[q]])
           U == UNION {D(q) : q \in ps}
<1>1. UNION {D(q) : q \in ps \cup {p}} = U \cup D(p)
  OBVIOUS
<1>2. U \cap D(p) = {}
  OBVIOUS
<1>3. IsFiniteSet(U) /\ Sum(m, ps) = Cardinality(U)
  BY SumIsNat DEF Sum
<1>4. Risk[m[p]] \in Nat
  BY AdmissionAssumption
<1>5. IsFiniteSet(D(p)) /\ Cardinality(D(p)) = Risk[m[p]]
  BY <1>4, OneRisk
<1>6. Sum(m, ps \cup {p}) = Cardinality(U \cup D(p))
  BY <1>1 DEF Sum
<1> HIDE DEF U, D
<1>7. Cardinality(U \cup D(p)) = Cardinality(U) + Cardinality(D(p)) - Cardinality(U \cap D(p))
  BY <1>3, <1>5, FS_Union
<1>8. Cardinality(U \cap D(p)) = 0 /\ Cardinality(U) \in Nat
  BY <1>2, <1>3, FS_EmptySet, FS_CardinalityType
<1> QED
  BY <1>3, <1>4, <1>5, <1>6, <1>7, <1>8

LEMMA SumOfFewer ==
  ASSUME NEW m \in [Actors -> Suggestions], NEW ps \in SUBSET Actors, NEW qs \in SUBSET ps,
         NEW n, \A q \in qs : n[q] = m[q]
  PROVE  Sum(n, qs) <= Sum(m, ps)
<1>1. UNION {{q} \X (1..Risk[n[q]]) : q \in qs} \subseteq UNION {{p} \X (1..Risk[m[p]]) : p \in ps}
  OBVIOUS
<1> QED
  BY <1>1, SumIsNat, FS_Subset DEF Sum

LEMMA RiskIsSum == \A ps : RiskOf(ps) = Sum(mine, ps)
  BY DEF RiskOf, Dollars, Sum

-----------------------------------------------------------------------------
(* The buying power. *)

\* What an actor between the budget and the broker has made sure of: unless the
\* risk changed between the two reads of it, its trade risks nothing or no more than the
\* buying power it read.
Covered(p) ==
  /\ pc[p] \in {"risk", "budget"} => local[p].bp \in Int
  /\ pc[p] \in {"market", "execute", "submit"} /\ local[p].whole =>
       Risk[mine[p]] = 0 \/ (local[p].bp \in Int /\ Risk[mine[p]] <= local[p].bp)

\* Why NeverOvercommitted holds: an order placed on what the broker has at that
\* moment takes no more than that.
Money ==
  /\ cached \in [Accounts -> Int] /\ on \in [Actors -> Accounts]
  /\ \A p \in Actors : Covered(p)
  /\ NeverOvercommitted

\* No order comes to hold buying power, or is moved to another account.
HoldsLess ==
  \A q \in Actors : order'[q] \in {"live", "filled"} =>
    order[q] \in {"live", "filled"} /\ on'[q] = on[q] /\ mine'[q] = mine[q]

\* A step that brings no order keeps the books if who moves stays covered.
LEMMA NothingBought ==
  ASSUME Inv, Money, Rows', HoldsLess, blind' = blind,
         cached' \in [Accounts -> Int], on' \in [Actors -> Accounts],
         \A q \in Actors : Covered(q)'
  PROVE  Money'
<1>1. ASSUME ~blind, NEW a \in Accounts PROVE RiskOf(Held(a))' <= Capital
  <2>1. RiskOf(Held(a)) = Sum(mine, Held(a)) /\ RiskOf(Held(a))' = Sum(mine', Held(a)')
    BY DEF RiskOf, Dollars, Sum
  <2>2. Sum(mine, Held(a)) <= Capital
    BY <1>1, <2>1 DEF Money, NeverOvercommitted
  <2>3. /\ mine \in [Actors -> Suggestions] /\ mine' \in [Actors -> Suggestions]
        /\ Held(a) \in SUBSET Actors /\ Held(a)' \in SUBSET Actors
    BY DEF Inv, Rows, Held
  <2>4. Held(a)' \in SUBSET Held(a) /\ \A q \in Held(a)' : mine'[q] = mine[q]
    BY DEF HoldsLess, Held
  <2>5. Sum(mine', Held(a)') <= Sum(mine, Held(a))
    BY <2>3, <2>4, SumOfFewer
  <2>6. Sum(mine, Held(a)) \in Nat /\ Sum(mine', Held(a)') \in Nat
    BY <2>3, SumIsNat
  <2> QED
    BY <2>1, <2>2, <2>5, <2>6, AdmissionAssumption
<1>2. NeverOvercommitted'
  BY <1>1 DEF NeverOvercommitted
<1> QED
  BY <1>2 DEF Money

\* Actor p goes to l with the local variables v, and the others stay covered.
LEMMA OthersCovered ==
  ASSUME Inv, Money, NEW p \in Actors, NEW l, NEW v, GotoWith(p, l, v),
         \A q \in Actors \ {p} : mine'[q] = mine[q],
         l \in {"risk", "budget"} => v.bp \in Int,
         l \in {"market", "execute", "submit"} /\ v.whole =>
           Risk[mine'[p]] = 0 \/ (v.bp \in Int /\ Risk[mine'[p]] <= v.bp)
  PROVE  \A q \in Actors : Covered(q)'
<1>1. pc \in [Actors -> Places] /\ local = [q \in Actors |-> local[q]]
  BY DEF Inv, Locals
<1>2. /\ pc'[p] = l /\ local'[p] = v
      /\ \A q \in Actors \ {p} : pc'[q] = pc[q] /\ local'[q] = local[q]
  <2>1. local' = [q \in Actors |-> IF q = p THEN v ELSE local[q]]
    BY <1>1 DEF GotoWith
  <2> QED
    BY <1>1, <2>1 DEF GotoWith
<1>3. Covered(p)'
  BY <1>2 DEF Covered
<1>4. ASSUME NEW q \in Actors \ {p} PROVE Covered(q)'
  BY <1>2, <1>4 DEF Covered, Money
<1> QED
  BY <1>3, <1>4

\* The same when p keeps its local variables.
LEMMA StillCovered ==
  ASSUME Inv, Money, NEW p \in Actors, NEW l, Goto(p, l),
         \A q \in Actors \ {p} : mine'[q] = mine[q],
         \/ l \notin {"risk", "budget", "market", "execute", "submit"}
         \/ /\ l \in {"execute", "submit"} /\ pc[p] \in {"market", "execute"}
            /\ mine'[p] = mine[p]
  PROVE  \A q \in Actors : Covered(q)'
<1>1. /\ pc'[p] = l /\ local' = local
      /\ \A q \in Actors \ {p} : pc'[q] = pc[q]
  BY DEF Goto, Inv, Locals
<1>2. Covered(p)'
  BY <1>1 DEF Covered, Money
<1>3. ASSUME NEW q \in Actors \ {p} PROVE Covered(q)'
  BY <1>1, <1>3 DEF Covered, Money
<1> QED
  BY <1>2, <1>3

\* The steps of cycles and requests that come before the budget: who has no order
\* yet takes a suggestion or an account, and orders are only cancelled.
LEMMA BeforeBudget ==
  ASSUME Inv, Money, Rows', NEW p \in Actors,
         \/ p \in Cycles /\ (CycleStart(p) \/ Cycle(p))
         \/ p \in Requests /\ (RequestRead(p) \/ RejectSave(p))
  PROVE  Money'
<1>1. UNCHANGED <<cached, blind>>
  BY DEF CycleStart, Cycle, CycleCancel, CycleCheck, CycleSuggest, CycleApprove,
         RequestRead, RejectSave
<1>2. on' \in [Actors -> Accounts] /\ \A q \in Actors \ {p} : on'[q] = on[q]
  BY DEF CycleStart, Cycle, CycleCancel, CycleCheck, CycleSuggest, CycleApprove,
         RequestRead, RejectSave, records, Money
<1>3. \A q \in Actors \ {p} : mine'[q] = mine[q]
  BY DEF CycleStart, Cycle, CycleCancel, CycleCheck, CycleSuggest, CycleApprove,
         RequestRead, RejectSave, Inv, Rows
<1>4. HoldsLess
  <2>1. CASE CycleCancel(p)
    BY <2>1 DEF CycleCancel, Cancels, HoldsLess, Inv, Rows
  <2>2. CASE ~CycleCancel(p)
    <3>1. order' = order
      BY <2>2 DEF CycleStart, Cycle, CycleCheck, CycleSuggest, CycleApprove,
                  RequestRead, RejectSave, records
    <3>2. (on'[p] = on[p] /\ mine'[p] = mine[p]) \/ order[p] = "none"
      BY <2>2 DEF CycleStart, Cycle, CycleCheck, CycleSuggest, CycleApprove,
                  RequestRead, RejectSave, records, Inv, Sent
    <3> QED
      BY <1>2, <1>3, <3>1, <3>2 DEF HoldsLess
  <2> QED
    BY <2>1, <2>2
<1>5. \/ \E l \in {"validate", "reject", "suggest", "approve"} : Goto(p, l)
      \/ \E l \in {"cancel", "suggest", "done"} : \E v : GotoWith(p, l, v)
  BY DEF CycleStart, Cycle, CycleCancel, CycleCheck, CycleSuggest, CycleApprove,
         RequestRead, RejectSave, End
<1>6. \A q \in Actors : Covered(q)'
  BY <1>3, <1>5, OthersCovered, StillCovered
<1> QED
  BY <1>1, <1>2, <1>4, <1>6, NothingBought DEF Money

LEMMA PowerIsInt ==
  ASSUME Inv, NEW a PROVE BuyingPower(a) \in Int
<1>1. Held(a) \in SUBSET Actors /\ mine \in [Actors -> Suggestions]
  BY DEF Held, Inv, Rows
<1>2. RiskOf(Held(a)) \in Nat
  BY <1>1, SumIsNat, RiskIsSum
<1> QED
  BY <1>2, AdmissionAssumption DEF BuyingPower

LEMMA CapitalMoney ==
  ASSUME Inv, Money, Rows', NEW p \in Actors, ReadCapital(p) PROVE Money'
<1>1. UNCHANGED <<blind, on, mine, order>> /\ on \in [Actors -> Accounts]
  BY DEF ReadCapital, records, Money
<1>2. HoldsLess
  BY <1>1 DEF HoldsLess
<1>3. cached' \in [Accounts -> Int] /\ cached[Primary] \in Int
  BY PowerIsInt, AdmissionAssumption DEF ReadCapital, Money
<1>4. \/ \E bp \in Int : ReadBuyingPower(p, bp)
      \/ End(p)
  BY <1>3, PowerIsInt DEF ReadCapital
<1>5. ASSUME NEW bp \in Int, ReadBuyingPower(p, bp) PROVE \A q \in Actors : Covered(q)'
  <2> DEFINE v == [local[p] EXCEPT !.bp = bp]
  <2>1. v.bp = bp
    BY OtherAmounts DEF Inv, Locals
  <2> HIDE DEF v
  <2>2. GotoWith(p, "risk", v)
    BY <1>5 DEF ReadBuyingPower, v
  <2> QED
    BY <1>1, <1>5, <2>1, <2>2, OthersCovered
<1>6. ASSUME End(p) PROVE \A q \in Actors : Covered(q)'
  BY <1>1, <1>6, OthersCovered DEF End
<1> QED
  BY <1>1, <1>2, <1>3, <1>4, <1>5, <1>6, NothingBought

LEMMA RiskMoney ==
  ASSUME Inv, Money, Rows', NEW p \in Actors, ReadManagedRisk(p) PROVE Money'
<1>1. /\ UNCHANGED <<cached, blind, on, mine, order>>
      /\ pc[p] = "risk" /\ Shaped(local[p])
  BY DEF ReadManagedRisk, records, Inv, Locals
<1>2. HoldsLess
  BY <1>1 DEF HoldsLess
<1> DEFINE v == [local[p] EXCEPT !.risk = RiskOf(Counted)]
<1>3. v.bp \in Int
  BY <1>1, OtherAmounts DEF Money, Covered
<1>4. GotoWith(p, "budget", v)
  BY DEF ReadManagedRisk
<1> HIDE DEF v
<1>5. \A q \in Actors : Covered(q)'
  BY <1>1, <1>3, <1>4, OthersCovered
<1> QED
  BY <1>1, <1>2, <1>5, NothingBought DEF Money

\* A trade within the remaining budget, computed with one value of the used risk,
\* risks nothing or is within the buying power: the tolerance is at most one.
LEMMA FitsInPower ==
  ASSUME NEW t1 \in Nat, NEW t2 \in Nat \ {0}, t1 <= t2,
         NEW r \in Nat, NEW b \in Int, NEW u \in Nat,
         t2 * r <= t1 * (b + u) - t2 * u
  PROVE  r = 0 \/ r <= b
<1>1. CASE b + u >= 0
  <2>1. t1 * (b + u) <= t2 * (b + u)
    <3> DEFINE n == b + u
               d == t2 - t1
    <3>1. d \in Nat /\ n \in Nat /\ t2 = t1 + d
      BY <1>1
    <3> HIDE DEF n, d
    <3>2. (t1 + d) * n = t1 * n + d * n /\ d * n >= 0
      BY <3>1
    <3>3. t1 * n <= t2 * n
      BY <3>1, <3>2
    <3> QED
      BY <3>3 DEF n
  <2>2. t2 * (b + u) = t2 * b + t2 * u
    OBVIOUS
  <2>3. t2 * r <= t2 * b
    BY <2>1, <2>2
  <2>4. ASSUME r > b PROVE FALSE
    <3>1. t2 * r >= t2 * (b + 1)
      <4> DEFINE d == r - b - 1
      <4>1. d \in Nat /\ r = (b + 1) + d
        BY <2>4
      <4> HIDE DEF d
      <4>2. t2 * ((b + 1) + d) = t2 * (b + 1) + t2 * d /\ t2 * d >= 0
        BY <4>1
      <4> QED
        BY <4>1, <4>2
    <3>2. t2 * (b + 1) = t2 * b + t2
      OBVIOUS
    <3> QED
      BY <2>3, <3>1, <3>2
  <2> QED
    BY <2>4
<1>2. CASE b + u < 0
  <2>1. t1 * (b + u) <= 0
    BY <1>2
  <2>2. t2 * r >= 0 /\ t2 * u >= 0
    OBVIOUS
  <2>3. t2 * r = 0
    BY <2>1, <2>2
  <2> QED
    BY <2>3
<1> QED
  BY <1>1, <1>2

LEMMA BudgetMoney ==
  ASSUME Inv, Money, Rows', NEW p \in Actors, CheckBudget(p) PROVE Money'
<1>1. UNCHANGED <<cached, blind, on, mine, order>> /\ pc[p] = "budget" /\ Shaped(local[p])
  BY DEF CheckBudget, records, Inv, Locals
<1>2. HoldsLess
  BY <1>1 DEF HoldsLess
<1>3. CASE End(p)
  BY <1>1, <1>2, <1>3, OthersCovered, NothingBought DEF End, Money
<1>4. CASE ~End(p)
  <2> DEFINE used == RiskOf(Counted)
             v == [local[p] EXCEPT !.whole = (used = local[p].risk)]
  <2>1. PICK l \in {"execute", "market"} : GotoWith(p, l, v)
    BY <1>4 DEF CheckBudget
  <2>2. Tolerance[2] * Risk[mine[p]] <= Remaining(local[p].bp, local[p].risk, used)
    BY <1>4 DEF CheckBudget
  <2>3. v.bp = local[p].bp /\ v.whole = (used = local[p].risk)
    BY <1>1, OtherAmounts
  <2>4. used \in Nat
    <3>1. Counted \in SUBSET Actors /\ mine \in [Actors -> Suggestions]
      BY DEF Counted, Inv, Rows
    <3> QED
      BY <3>1, SumIsNat, RiskIsSum
  <2>5. local[p].bp \in Int /\ Risk[mine[p]] \in Nat
    BY <1>1, AdmissionAssumption DEF Money, Covered, Inv, Rows
  <2> HIDE DEF v, used
  <2>6. ASSUME v.whole PROVE Risk[mine'[p]] = 0 \/ (v.bp \in Int /\ Risk[mine'[p]] <= v.bp)
    <3>1. Tolerance[2] * Risk[mine[p]] <=
            Tolerance[1] * (local[p].bp + used) - Tolerance[2] * used
      BY <2>2, <2>3, <2>6 DEF Remaining
    <3>2. Tolerance[1] \in Nat /\ Tolerance[2] \in Nat \ {0} /\ Tolerance[1] <= Tolerance[2]
      BY AdmissionAssumption
    <3>3. Risk[mine[p]] = 0 \/ Risk[mine[p]] <= local[p].bp
      BY <2>4, <2>5, <3>1, <3>2, FitsInPower
    <3> QED
      BY <1>1, <2>3, <2>5, <3>3
  <2>7. \A q \in Actors : Covered(q)'
    BY <1>1, <2>1, <2>6, OthersCovered
  <2> QED
    BY <1>1, <1>2, <2>7, NothingBought DEF Money
<1> QED
  BY <1>3, <1>4

LEMMA CheckMoney ==
  ASSUME Inv, Money, Rows', NEW p \in Actors, ExecCheck(p) \/ RequestApprove(p) PROVE Money'
<1>1. UNCHANGED <<cached, blind, mine, order>> /\ Primary \in Accounts
  BY AdmissionAssumption DEF ExecCheck, RequestApprove, records
<1>2. on' \in [Actors -> Accounts] /\ \A q \in Actors \ {p} : on'[q] = on[q]
  BY <1>1 DEF ExecCheck, RequestApprove, records, Money
<1>3. order[p] = "none"
  BY DEF Inv, Sent, ExecCheck, RequestApprove
<1>4. HoldsLess
  BY <1>1, <1>2, <1>3 DEF HoldsLess
<1>5. \/ \E l \in {"execute", "submit"} : pc[p] \in {"market", "execute"} /\ Goto(p, l)
      \/ GotoWith(p, "done", Blank)
  BY DEF ExecCheck, RequestApprove, End
<1>6. \A q \in Actors : Covered(q)'
  BY <1>1, <1>5, OthersCovered, StillCovered
<1> QED
  BY <1>1, <1>2, <1>4, <1>6, NothingBought DEF Money

\* The order placed on what the broker has left takes no more than that.
LEMMA SubmitMoney ==
  ASSUME Inv, Money, Rows', NEW p \in Actors, ExecSubmit(p) \/ ExecFinish(p) PROVE Money'
<1>1. UNCHANGED <<cached, on, mine>>
  BY DEF ExecSubmit, ExecFinish
<1>2. \E l \in {"finish", "done"} : GotoWith(p, l, Blank)
  BY DEF ExecSubmit, ExecFinish, End
<1>3. \A q \in Actors : Covered(q)'
  BY <1>1, <1>2, OthersCovered
<1>4. CASE UNCHANGED <<order, blind>>
  <2>1. HoldsLess
    BY <1>1, <1>4 DEF HoldsLess
  <2> QED
    BY <1>1, <1>3, <1>4, <2>1, NothingBought DEF Money
<1>5. CASE ~UNCHANGED <<order, blind>>
  <2>1. /\ pc[p] = "submit" /\ order' = [order EXCEPT ![p] = "live"]
        /\ blind' = (blind \/ ~local[p].whole \/ BuyingPower(on[p]) # local[p].bp)
    BY <1>5 DEF ExecSubmit, ExecFinish
  <2>2. ASSUME ~blind', NEW a \in Accounts PROVE RiskOf(Held(a))' <= Capital
    <3>1. ~blind /\ local[p].whole /\ BuyingPower(on[p]) = local[p].bp
      BY <2>1, <2>2
    <3>2. /\ mine \in [Actors -> Suggestions] /\ order \in [Actors -> {"none", "live", "filled",
                                                              "cancelled", "closed"}]
          /\ order[p] = "none" /\ Held(a) \in SUBSET Actors /\ p \notin Held(a)
      BY <2>1 DEF Inv, Rows, Sent, Held
    <3>3. Held(a)' = IF on[p] = a THEN Held(a) \cup {p} ELSE Held(a)
      BY <1>1, <2>1, <3>2 DEF Held
    <3>4. RiskOf(Held(a)) = Sum(mine, Held(a)) /\ RiskOf(Held(a))' = Sum(mine, Held(a)')
      BY <1>1 DEF RiskOf, Dollars, Sum
    <3>5. Sum(mine, Held(a)) \in Nat /\ Sum(mine, Held(a)) <= Capital
      BY <3>1, <3>2, <3>4, SumIsNat DEF Money, NeverOvercommitted
    <3>6. CASE on[p] = a
      <4>1. Sum(mine, Held(a)') = Sum(mine, Held(a)) + Risk[mine[p]]
        BY <3>2, <3>3, <3>6, SumAdds
      <4>2. Risk[mine[p]] = 0 \/ (local[p].bp \in Int /\ Risk[mine[p]] <= local[p].bp)
        BY <2>1, <3>1 DEF Money, Covered
      <4>3. local[p].bp = Capital - Sum(mine, Held(a))
        BY <3>1, <3>4, <3>6 DEF BuyingPower
      <4>4. Risk[mine[p]] \in Nat /\ Capital \in Nat
        BY <3>2, AdmissionAssumption
      <4> QED
        BY <3>4, <3>5, <4>1, <4>2, <4>3, <4>4
    <3>7. CASE on[p] # a
      BY <3>3, <3>4, <3>5, <3>7
    <3> QED
      BY <3>6, <3>7
  <2>3. NeverOvercommitted'
    BY <2>2 DEF NeverOvercommitted
  <2> QED
    BY <1>1, <1>3, <2>3 DEF Money
<1> QED
  BY <1>4, <1>5

\* The broker, time and those who only look buy nothing.
LEMMA OtherMoney ==
  ASSUME Inv, Money, Rows',
         \/ \E p \in Actors : Order(p) \/ Age(p)
         \/ \E s \in Suggestions : Generate(s)
         \/ \E a \in Accounts : Forget(a)
         \/ GetRiskBudget \/ ValidateTradeRisk
         \/ UNCHANGED vars
  PROVE  Money'
<1>1. UNCHANGED <<on, pc, mine, local, blind>>
  BY DEF Order, Age, Generate, Forget, GetRiskBudget, ValidateTradeRisk, LookAtBudget,
         vars, records
<1>2. HoldsLess
  BY <1>1 DEF Order, Fills, Opens, Closes, Listed, Age, Generate, Forget, GetRiskBudget,
              ValidateTradeRisk, LookAtBudget, vars, records, HoldsLess, Inv, Rows
<1>3. cached' \in [Accounts -> Int]
  <2>1. BuyingPower(Primary) \in Int /\ NoValue \in Int
    BY PowerIsInt DEF NoValue
  <2> QED
    BY <2>1 DEF Order, Age, Generate, Forget, GetRiskBudget, ValidateTradeRisk,
                LookAtBudget, vars, Money
<1>4. \A q \in Actors : Covered(q)'
  BY <1>1 DEF Money, Covered
<1> QED
  BY <1>1, <1>2, <1>3, <1>4, NothingBought DEF Money

LEMMA MoneyStep == Inv /\ Money /\ Inv' /\ [Next]_vars => Money'
<1> SUFFICES ASSUME Inv, Money, Inv', [Next]_vars PROVE Money'
  OBVIOUS
<1>1. Rows'
  BY DEF Inv
<1>2. ASSUME NEW c \in Cycles, CycleStart(c) \/ Cycle(c) PROVE Money'
  BY <1>1, <1>2, BeforeBudget DEF Actors
<1>3. ASSUME NEW r \in Requests, RequestRead(r) \/ Request(r) PROVE Money'
  BY <1>1, <1>3, BeforeBudget, CheckMoney DEF Request, Actors
<1>4. ASSUME NEW p \in Actors, Execute(p) PROVE Money'
  BY <1>1, <1>4, CapitalMoney, RiskMoney, BudgetMoney, CheckMoney, SubmitMoney DEF Execute
<1> QED
  BY <1>1, <1>2, <1>3, <1>4, OtherMoney DEF Next

LEMMA MoneyInit == Init => Money
<1> SUFFICES ASSUME Init PROVE Money
  OBVIOUS
<1>1. \A p \in Actors : Covered(p)
  BY DEF Init, Covered
<1>2. ASSUME NEW a \in Accounts PROVE RiskOf(Held(a)) <= Capital
  <2>1. Held(a) = {}
    BY DEF Init, Held
  <2>2. RiskOf({}) = 0
    BY FS_EmptySet DEF RiskOf
  <2> QED
    BY <2>1, <2>2, AdmissionAssumption
<1>3. cached \in [Accounts -> Int] /\ on \in [Actors -> Accounts]
  BY AdmissionAssumption DEF Init, NoValue
<1> QED
  BY <1>1, <1>2, <1>3 DEF Money, NeverOvercommitted

\* What is held against an account never exceeds its capital, however many cycles
\* and requests read the budget at once, as long as every order was placed on the
\* buying power the broker had at that moment.
THEOREM NoOvercommitment == Spec => []NeverOvercommitted
<1>1. Money => NeverOvercommitted
  BY DEF Money
<1> QED
  BY <1>1, InvInit, InvStep, MoneyInit, MoneyStep, PTL DEF Spec

-----------------------------------------------------------------------------
\* A cycle that goes on to a new entry has left none of the orders it found
\* stale working at the broker, but one it could not cancel, however the cycles
\* of all accounts, the requests and the fills interleave.
THEOREM StaleOrdersAreGone == Spec => []StaleOrdersGone
<1>1. Inv => StaleOrdersGone
  <2> SUFFICES ASSUME Inv, NEW c \in Cycles, pc[c] \notin {"idle", "cancel"},
                      NEW p \in local[c].seen \ local[c].kept
               PROVE  order[p] # "live"
    BY DEF StaleOrdersGone
  <2>1. p \in (local[c].handled \cap Actors) \ local[c].kept
    BY DEF Inv, Handled
  <2> QED
    BY <2>1 DEF Inv, Handled
<1> QED
  BY <1>1, InvInit, InvStep, PTL DEF Spec

\* A suggestion that stands approved is being executed by the request that
\* approved it or was approved by a cycle, whoever else requests or rejects it.
THEOREM ApprovedOnlyInHand == Spec => []ApprovedIsInHand
<1>1. Inv => ApprovedIsInHand
  BY DEF Inv, InHand, Approver, ApprovedIsInHand
<1> QED
  BY <1>1, InvInit, InvStep, PTL DEF Spec

-----------------------------------------------------------------------------
\* What a cycle, an entry and a request keep while they run.
LocalRecord ==
  [seen : SUBSET Actors, handled : SUBSET Actors, kept : SUBSET Actors,
   tries : 0..Attempts, bp : Int, risk : Nat, whole : BOOLEAN]

\* What TypeOK says of the actors, and of everything else.
ActorsTyped ==
  pc \in [Actors -> Places] /\ mine \in [Actors -> Suggestions]
    /\ local \in [Actors -> LocalRecord]

RowsTyped ==
  /\ cached \in [Accounts -> Int]
  /\ Rows
  /\ on \in [Actors -> Accounts]
  /\ working \subseteq Actors
  /\ blind \in BOOLEAN

LEMMA TypesInParts ==
  (TypeOK <=> ActorsTyped /\ RowsTyped) /\ (TypeOK' <=> ActorsTyped' /\ RowsTyped')
  BY DEF TypeOK, ActorsTyped, RowsTyped, LocalRecord, Rows

LEMMA BlankTyped == Blank \in LocalRecord
  BY AdmissionAssumption DEF Blank, LocalRecord, NoValue

\* An actor goes on with local variables of their types.
LEMMA GoneWith ==
  ASSUME ActorsTyped, NEW p \in Actors, NEW l \in Places, NEW v \in LocalRecord,
         GotoWith(p, l, v), mine' \in [Actors -> Suggestions]
  PROVE  ActorsTyped'
  BY DEF ActorsTyped, GotoWith

LEMMA Gone ==
  ASSUME ActorsTyped, NEW p \in Actors, NEW l \in Places, Goto(p, l),
         mine' \in [Actors -> Suggestions]
  PROVE  ActorsTyped'
  BY DEF ActorsTyped, Goto

LEMMA Ended ==
  ASSUME ActorsTyped, NEW p \in Actors, End(p), mine' = mine PROVE ActorsTyped'
<1>1. "done" \in Places /\ mine' \in [Actors -> Suggestions]
  BY DEF Places, ActorsTyped
<1> QED
  BY <1>1, BlankTyped, GoneWith DEF End

\* The sum of risk of some positions is a number.
LEMMA RiskTyped == ASSUME TypeOK, NEW ps \in SUBSET Actors PROVE RiskOf(ps) \in Nat
<1>1. mine \in [Actors -> Suggestions]
  BY DEF TypeOK
<1> QED
  BY <1>1, SumIsNat, RiskIsSum

LEMMA PowerTyped == ASSUME TypeOK, NEW a PROVE BuyingPower(a) \in Int
<1>1. RiskOf(Held(a)) \in Nat
  BY RiskTyped DEF Held
<1> QED
  BY <1>1, AdmissionAssumption DEF BuyingPower

LEMMA CycleTypes ==
  ASSUME TypeOK, NEW c \in Cycles, CycleStart(c) \/ Cycle(c) PROVE TypeOK'
<1>t. ActorsTyped /\ RowsTyped /\ c \in Actors
  BY TypesInParts DEF Actors
<1>l. local[c] \in LocalRecord /\ mine[c] \in Suggestions
  BY <1>t DEF ActorsTyped
<1> SUFFICES ActorsTyped' /\ RowsTyped'
  BY TypesInParts
<1>1. CASE CycleStart(c)
  <2>1. PICK a \in Accounts : /\ on' = [on EXCEPT ![c] = a]
                              /\ GotoWith(c, "cancel", [Blank EXCEPT !.seen = Stale(a)])
    BY <1>1 DEF CycleStart
  <2>2. Stale(a) \in SUBSET Actors
    BY <1>t DEF Stale, RowsTyped, Rows
  <2>3. [Blank EXCEPT !.seen = Stale(a)] \in LocalRecord
    BY <2>2, BlankTyped DEF LocalRecord
  <2>4. ActorsTyped'
    BY <1>1, <1>t, <2>1, <2>3, GoneWith DEF CycleStart, Places, ActorsTyped
  <2> QED
    BY <1>1, <1>t, <2>1, <2>4 DEF CycleStart, RowsTyped, Rows
<1>2. CASE CycleCancel(c)
  <2>1. PICK p \in local[c].seen \ local[c].handled :
          \/ Cancels(p) /\ GotoWith(c, "cancel", [local[c] EXCEPT !.handled = @ \cup {p}])
          \/ /\ GotoWith(c, "cancel", [local[c] EXCEPT !.handled = @ \cup {p}])
             /\ UNCHANGED <<order, position>>
          \/ /\ GotoWith(c, "cancel", [[local[c] EXCEPT !.handled = @ \cup {p}]
                                         EXCEPT !.kept = @ \cup {p}])
             /\ UNCHANGED <<order, position>>
    BY <1>2 DEF CycleCancel
  <2>2. p \in Actors
    BY <1>l DEF LocalRecord
  <2>3. [local[c] EXCEPT !.handled = @ \cup {p}] \in LocalRecord
    BY <1>l, <2>2 DEF LocalRecord
  <2>4. [[local[c] EXCEPT !.handled = @ \cup {p}] EXCEPT !.kept = @ \cup {p}] \in LocalRecord
    BY <2>2, <2>3 DEF LocalRecord
  <2>5. ActorsTyped'
    <3>1. "cancel" \in Places /\ mine' \in [Actors -> Suggestions]
      BY <1>2, <1>t DEF CycleCancel, Places, ActorsTyped
    <3> QED
      BY <1>t, <2>1, <2>3, <2>4, <3>1, GoneWith
  <2>6. /\ order' \in [Actors -> {"none", "live", "filled", "cancelled", "closed"}]
        /\ position' \in [Actors -> {"none", "pending_entry", "open_full", "expired", "closed"}]
    BY <1>t, <2>1, <2>2 DEF Cancels, SetPosition, RowsTyped, Rows
  <2> QED
    BY <1>2, <1>t, <2>5, <2>6 DEF CycleCancel, RowsTyped, Rows
<1>3. CASE CycleCheck(c)
  <2>1. ActorsTyped'
    BY <1>3, <1>t, Gone, Ended DEF CycleCheck, Places, ActorsTyped
  <2> QED
    BY <1>3, <1>t, <2>1 DEF CycleCheck, RowsTyped, Rows, records
<1>4. CASE CycleSuggest(c)
  <2>1. CASE \E s \in Suggestions :
               /\ SetStatus(s, "pending") /\ mine' = [mine EXCEPT ![c] = s]
               /\ Goto(c, "approve")
    <3>1. mine' \in [Actors -> Suggestions]
      BY <1>t, <2>1 DEF ActorsTyped
    <3>2. ActorsTyped'
      BY <1>t, <2>1, <3>1, Gone DEF Places
    <3> QED
      BY <1>4, <1>t, <2>1, <3>2 DEF CycleSuggest, SetStatus, RowsTyped, Rows, records
  <2>2. CASE /\ local[c].tries + 1 < Attempts
             /\ GotoWith(c, "suggest", [local[c] EXCEPT !.tries = @ + 1])
             /\ UNCHANGED <<status, mine>>
    <3>1. [local[c] EXCEPT !.tries = @ + 1] \in LocalRecord
      BY <1>l, <2>2, AdmissionAssumption DEF LocalRecord
    <3>2. ActorsTyped'
      BY <1>t, <2>2, <3>1, GoneWith DEF Places, ActorsTyped
    <3> QED
      BY <1>4, <1>t, <2>2, <3>2 DEF CycleSuggest, RowsTyped, Rows, records
  <2>3. CASE End(c) /\ UNCHANGED <<status, mine>>
    BY <1>4, <1>t, <2>3, Ended DEF CycleSuggest, RowsTyped, Rows, records
  <2> QED
    BY <1>4, <2>1, <2>2, <2>3 DEF CycleSuggest
<1>5. CASE CycleApprove(c)
  <2>1. ActorsTyped'
    BY <1>5, <1>t, Gone DEF CycleApprove, Places, ActorsTyped
  <2> QED
    BY <1>5, <1>t, <1>l, <2>1 DEF CycleApprove, SetStatus, RowsTyped, Rows, records
<1> QED
  BY <1>1, <1>2, <1>3, <1>4, <1>5 DEF Cycle

LEMMA RequestTypes ==
  ASSUME TypeOK, NEW r \in Requests, RequestRead(r) \/ Request(r) PROVE TypeOK'
<1>t. ActorsTyped /\ RowsTyped /\ r \in Actors
  BY TypesInParts DEF Actors
<1>l. mine[r] \in Suggestions
  BY <1>t DEF ActorsTyped
<1> SUFFICES ActorsTyped' /\ RowsTyped'
  BY TypesInParts
<1>1. CASE RequestRead(r)
  <2>1. mine' \in [Actors -> Suggestions]
    BY <1>1, <1>t DEF RequestRead, ActorsTyped
  <2>2. ActorsTyped'
    BY <1>1, <1>t, <2>1, Gone DEF RequestRead, Places
  <2> QED
    BY <1>1, <1>t, <2>2 DEF RequestRead, RowsTyped, Rows, records
<1>2. CASE RequestApprove(r)
  <2>1. ActorsTyped'
    BY <1>2, <1>t, Gone, Ended DEF RequestApprove, Places, ActorsTyped
  <2> QED
    BY <1>2, <1>t, <1>l, <2>1 DEF RequestApprove, SetStatus, RowsTyped, Rows, records
<1>3. CASE RejectSave(r)
  <2>1. ActorsTyped'
    BY <1>3, <1>t, Ended DEF RejectSave
  <2> QED
    BY <1>3, <1>t, <1>l, <2>1 DEF RejectSave, SetStatus, RowsTyped, Rows, records
<1> QED
  BY <1>1, <1>2, <1>3 DEF Request

LEMMA ExecuteTypes == ASSUME TypeOK, NEW p \in Actors, Execute(p) PROVE TypeOK'
<1>t. ActorsTyped /\ RowsTyped
  BY TypesInParts
<1>l. local[p] \in LocalRecord /\ mine[p] \in Suggestions
  BY <1>t DEF ActorsTyped
<1>r. RiskOf(Counted) \in Nat
  BY RiskTyped DEF Counted
<1> SUFFICES ActorsTyped' /\ RowsTyped'
  BY TypesInParts
<1>1. CASE ReadCapital(p)
  <2>1. ASSUME NEW bp \in Int, ReadBuyingPower(p, bp), mine' = mine PROVE ActorsTyped'
    <3>1. [local[p] EXCEPT !.bp = bp] \in LocalRecord
      BY <1>l DEF LocalRecord
    <3> QED
      BY <1>t, <2>1, <3>1, GoneWith DEF ReadBuyingPower, Places, ActorsTyped
  <2>2. cached[Primary] \in Int /\ BuyingPower(Primary) \in Int
    BY <1>t, PowerTyped, AdmissionAssumption DEF RowsTyped
  <2>3. ActorsTyped'
    BY <1>1, <1>t, <2>1, <2>2, Ended DEF ReadCapital
  <2>4. cached' \in [Accounts -> Int]
    BY <1>1, <1>t, <2>2 DEF ReadCapital, RowsTyped
  <2> QED
    BY <1>1, <1>t, <2>3, <2>4 DEF ReadCapital, RowsTyped, Rows, records
<1>2. CASE CheckBudget(p)
  <2>1. \A v \in BOOLEAN : [local[p] EXCEPT !.whole = v] \in LocalRecord
    BY <1>l DEF LocalRecord
  <2>2. \/ End(p)
        \/ \E l \in {"execute", "market"}, v \in BOOLEAN :
             GotoWith(p, l, [local[p] EXCEPT !.whole = v])
    BY <1>2 DEF CheckBudget
  <2>3. ActorsTyped'
    BY <1>2, <1>t, <2>1, <2>2, GoneWith, Ended DEF CheckBudget, Places, ActorsTyped
  <2> QED
    BY <1>2, <1>t, <2>3 DEF CheckBudget, RowsTyped, Rows, records
<1>3. CASE ExecCheck(p)
  <2>1. ActorsTyped'
    BY <1>3, <1>t, Gone, Ended DEF ExecCheck, Places, ActorsTyped
  <2>2. /\ status' \in [Suggestions -> {"none", "pending", "approved", "rejected", "executed"}]
        /\ position' \in [Actors -> {"none", "pending_entry", "open_full", "expired", "closed"}]
        /\ on' \in [Actors -> Accounts]
    BY <1>3, <1>t, <1>l, AdmissionAssumption
       DEF ExecCheck, GiveBack, SetStatus, SetPosition, RowsTyped, Rows
  <2> QED
    BY <1>3, <1>t, <2>1, <2>2 DEF ExecCheck, RowsTyped, Rows
<1>4. CASE ExecSubmit(p)
  <2>1. ActorsTyped'
    BY <1>4, <1>t, BlankTyped, GoneWith, Ended DEF ExecSubmit, Places, ActorsTyped
  <2>2. /\ status' \in [Suggestions -> {"none", "pending", "approved", "rejected", "executed"}]
        /\ position' \in [Actors -> {"none", "pending_entry", "open_full", "expired", "closed"}]
        /\ order' \in [Actors -> {"none", "live", "filled", "cancelled", "closed"}]
        /\ blind' \in BOOLEAN
    BY <1>4, <1>t, <1>l DEF ExecSubmit, GiveBack, SetStatus, SetPosition, RowsTyped, Rows
  <2> QED
    BY <1>4, <1>t, <2>1, <2>2 DEF ExecSubmit, RowsTyped, Rows
<1>5. CASE ExecFinish(p)
  <2>1. ActorsTyped'
    BY <1>5, <1>t, Ended DEF ExecFinish
  <2>2. /\ status' \in [Suggestions -> {"none", "pending", "approved", "rejected", "executed"}]
        /\ position' \in [Actors -> {"none", "pending_entry", "open_full", "expired", "closed"}]
    BY <1>5, <1>t, <1>l DEF ExecFinish, GiveBack, SetStatus, SetPosition, RowsTyped, Rows
  <2> QED
    BY <1>5, <1>t, <2>1, <2>2 DEF ExecFinish, RowsTyped, Rows
<1>6. CASE ReadManagedRisk(p)
  <2>1. [local[p] EXCEPT !.risk = RiskOf(Counted)] \in LocalRecord
    BY <1>l, <1>r DEF LocalRecord
  <2>2. "budget" \in Places /\ mine' \in [Actors -> Suggestions]
    BY <1>6, <1>t DEF ReadManagedRisk, Places, ActorsTyped
  <2>3. ActorsTyped'
    BY <1>6, <1>t, <2>1, <2>2, GoneWith DEF ReadManagedRisk
  <2> QED
    BY <1>6, <1>t, <2>3 DEF ReadManagedRisk, RowsTyped, Rows, records
<1> QED
  BY <1>1, <1>2, <1>3, <1>4, <1>5, <1>6 DEF Execute

LEMMA OtherTypes ==
  ASSUME TypeOK,
         \/ \E p \in Actors : Order(p) \/ Age(p)
         \/ \E s \in Suggestions : Generate(s)
         \/ \E a \in Accounts : Forget(a)
         \/ LookAtBudget
         \/ UNCHANGED vars
  PROVE  TypeOK'
<1>t. ActorsTyped /\ RowsTyped
  BY TypesInParts
<1> SUFFICES ActorsTyped' /\ RowsTyped'
  BY TypesInParts
<1>1. ActorsTyped'
  BY <1>t DEF Order, Age, Generate, Forget, LookAtBudget, vars, ActorsTyped
<1>2. ASSUME NEW p \in Actors, Order(p) PROVE RowsTyped'
  BY <1>2, <1>t DEF Order, Fills, Opens, Closes, Listed, SetPosition, RowsTyped, Rows
<1>3. ASSUME NEW p \in Actors, Age(p) PROVE RowsTyped'
  BY <1>3, <1>t DEF Age, RowsTyped, Rows
<1>4. ASSUME NEW s \in Suggestions, Generate(s) PROVE RowsTyped'
  BY <1>4, <1>t DEF Generate, SetStatus, records, RowsTyped, Rows
<1>5. ASSUME NEW a \in Accounts, Forget(a) PROVE RowsTyped'
  BY <1>5, <1>t DEF Forget, NoValue, records, RowsTyped, Rows
<1>6. ASSUME LookAtBudget PROVE RowsTyped'
  <2>1. BuyingPower(Primary) \in Int
    BY PowerTyped
  <2>2. cached' \in [Accounts -> Int]
    BY <1>6, <1>t, <2>1 DEF LookAtBudget, RowsTyped
  <2> QED
    BY <1>6, <1>t, <2>2 DEF LookAtBudget, records, RowsTyped, Rows
<1>7. ASSUME UNCHANGED vars PROVE RowsTyped'
  BY <1>7, <1>t DEF vars, records, RowsTyped, Rows
<1> QED
  BY <1>1, <1>2, <1>3, <1>4, <1>5, <1>6, <1>7

\* However the cycles, the requests, the orders and time interleave, every row and
\* every local variable keeps its type: no attempt beyond the last, sums of risk
\* that are numbers, buying power that may be negative.
THEOREM TypeCorrect == Spec => []TypeOK
<1>1. Init => TypeOK
  <2> SUFFICES ASSUME Init PROVE ActorsTyped /\ RowsTyped
    BY TypesInParts
  <2>1. (CHOOSE s \in Suggestions : TRUE) \in Suggestions
    BY AdmissionAssumption
  <2>2. ActorsTyped
    BY <2>1, BlankTyped DEF Init, ActorsTyped, Places
  <2>3. RowsTyped
    <3>1. cached \in [Accounts -> Int] /\ on \in [Actors -> Accounts]
      BY AdmissionAssumption DEF Init, NoValue
    <3>2. Rows
      BY InvInit DEF Inv
    <3> QED
      BY <3>1, <3>2 DEF Init, RowsTyped
  <2> QED
    BY <2>2, <2>3
<1>2. TypeOK /\ [Next]_vars => TypeOK'
  BY CycleTypes, RequestTypes, ExecuteTypes, OtherTypes
     DEF Next, GetRiskBudget, ValidateTradeRisk
<1> QED
  BY <1>1, <1>2, PTL DEF Spec

=============================================================================
