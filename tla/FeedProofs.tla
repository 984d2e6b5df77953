----------------------------- MODULE FeedProofs -----------------------------
(***************************************************************************)
(* Theorems about Feed for every set of sessions and users, every capacity *)
(* and every length of the history.  FInv types the variables and says     *)
(* what the safety properties rest on: who shows the room is in the hub's  *)
(* map, and who is not sending has nobody left to send to.                 *)
(*   - PendingKept, that an event on its way stays so, is dropped or is    *)
(*     handled, carries the proofs of what a screen cannot miss.           *)
(*   - The order of the lists rests on Queued, the order in a channel, and *)
(*     on ComesShown: one of the last messages that is still to come has   *)
(*     been shown already if a later one of the same session has.          *)
(*   - The unread count rests on RaisedOnce, that of a message one event   *)
(*     on its way raises it, and on Recorded, that none does once it has   *)
(*     been counted, unless Init counted it early.                         *)
(*   - TrulyGone, that only deleted messages pass for deleted, completes   *)
(*     what is shown once nothing is on its way.                           *)
(***************************************************************************)
EXTENDS Feed, FiniteSetTheorems, TLAPS

-----------------------------------------------------------------------------
(* Types                                                                   *)

\* A room_msg event names a message, a msg_deleted event none.
Proper(ev) ==
    /\ ev.kind = "room_msg" => ev.id # 0
    /\ ev.kind = "msg_deleted" => ev.id = 0

\* There is room for the messages that may still be sent.
RoomLeft == Len(author) + commands =< MaxId

Joined ==
    \A s \in Sessions :
        /\ at[s] \notin {"off", "subscribe"} => s \in users
        /\ at[s] \notin {"off", "subscribe", "join"} => s \in inRoom

\* Nobody shows the room before the first view is opened.
NotYet ==
    \A s \in Sessions : at[s] \in {"off", "subscribe", "join", "first"} => view[s] = "away"

NothingLeft == \A s \in Sessions : at[s] # "sending" => to[s] = {}

AllProper ==
    \A s \in Sessions : Proper(event[s]) /\ \A j \in 1 .. Len(inbox[s]) : Proper(inbox[s][j])

FInv == TypeOK /\ RoomLeft /\ Joined /\ NotYet /\ NothingLeft /\ AllProper

USE DEF Goto, Command, Deletion, store, hubVars, calls, screen

LEMMA Bounds ==
    /\ MaxId \in Nat /\ InboxCap \in Nat \ {0} /\ HistoryLimit \in Nat \ {0}
    /\ MaxCommands \in Nat /\ Len(OldMessages) \in Nat
    /\ UserOf \in [Sessions -> Users]
BY FeedAssumption DEF MaxId

LEMMA EventTypes ==
    ASSUME NEW k \in Kinds, NEW i \in 0 .. MaxId, NEW g \in BOOLEAN, NEW m \in SUBSET Users
    PROVE  NewEvent(k, i, g, m) \in Events
BY DEF NewEvent, Events

LEMMA NoEventProper == NoEvent \in Events /\ Proper(NoEvent)
BY Bounds DEF NoEvent, NewEvent, Events, Kinds, Proper

LEMMA RowTypes == \A i \in 1 .. MaxId : Row(i) \in Shown
BY DEF Row, Shown

LEMMA GoneTypes ==
    ASSUME NEW ev \in Events, NEW g \in BOOLEAN
    PROVE  /\ [ev EXCEPT !.gone = g] \in Events
           /\ Proper(ev) => Proper([ev EXCEPT !.gone = g])
BY DEF Events, Proper

LEMMA HistoryTypes ==
    ASSUME TypeOK
    PROVE  History \in Seq(Shown)
<1> DEFINE n == IF Len(author) < HistoryLimit THEN Len(author) ELSE HistoryLimit
<1>1. Len(author) \in Nat /\ n \in Nat /\ n =< Len(author) /\ Len(author) =< MaxId
  BY Bounds DEF TypeOK
<1>2. \A j \in 1 .. n : Row(Len(author) - n + j) \in Shown
  BY <1>1, Bounds DEF Row, Shown
<1>3. History \in [1 .. n -> Shown]
  BY <1>2 DEF History
<1> HIDE DEF n
<1> QED BY <1>1, <1>3

LEMMA OfferTypes ==
    ASSUME NEW q \in Seq(Events), NEW ev \in Events, Len(q) =< InboxCap
    PROVE  Offer(q, ev) \in Seq(Events) /\ Len(Offer(q, ev)) =< InboxCap
BY Bounds DEF Offer

LEMMA InitInv == Init => FInv
<1> SUFFICES ASSUME Init PROVE FInv
  OBVIOUS
<1>1. TypeOK
  BY NoEventProper, Bounds, FeedAssumption DEF Init, TypeOK, Stages, Ids, MaxId
<1>2. RoomLeft
  BY Bounds, FeedAssumption DEF Init, RoomLeft, MaxId
<1>3. Joined /\ NotYet /\ NothingLeft
  BY DEF Init, Joined, NotYet, NothingLeft
<1>4. AllProper
  BY NoEventProper DEF Init, AllProper
<1> QED BY <1>1, <1>2, <1>3, <1>4 DEF FInv

LEMMA CountTypes ==
    ASSUME NEW n \in Nat, NEW S, S \subseteq 1 .. n
    PROVE  Cardinality(S) \in 0 .. n
<1>1. IsFiniteSet(1 .. n) /\ Cardinality(1 .. n) = n
  <2>1. 1 \in Int /\ n \in Int
    OBVIOUS
  <2>2. IsFiniteSet(1 .. n) /\ Cardinality(1 .. n) = IF 1 > n THEN 0 ELSE n - 1 + 1
    BY <2>1, FS_Interval
  <2> QED BY <2>2
<1>2. IsFiniteSet(S) /\ Cardinality(S) =< Cardinality(1 .. n)
  BY <1>1, FS_Subset
<1>3. Cardinality(S) \in Nat
  BY <1>2, FS_CardinalityType
<1> QED BY <1>1, <1>2, <1>3

LEMMA ConnectTypes ==
    ASSUME FInv, NEW s \in Sessions,
           Connect(s) \/ Subscribe(s) \/ JoinRoom(s) \/ FirstElsewhere(s)
    PROVE  FInv'
<1>1. CASE Connect(s)
  <2> DEFINE n == Cardinality({i \in Ids : <<UserOf[s], i>> \in notes})
  <2>1. n \in 0 .. MaxId
    <3>1. Len(author) \in Nat /\ Len(author) =< MaxId /\ MaxId \in Nat
      BY Bounds DEF FInv, TypeOK
    <3>2. {i \in Ids : <<UserOf[s], i>> \in notes} \subseteq 1 .. Len(author)
      BY DEF Ids
    <3>3. n \in 0 .. Len(author)
      BY <3>1, <3>2, CountTypes
    <3> QED BY <3>1, <3>3
  <2> DEFINE R == {[by |-> IF ToNotify(i, UserOf[s]) THEN "early" ELSE "init", id |-> i] :
                      i \in {i \in Ids : <<UserOf[s], i>> \in notes}}
  <2>2. unread' = [unread EXCEPT ![s] = n] /\ raised' = [raised EXCEPT ![s] = R]
    BY <1>1 DEF Connect
  <2>4. R \in SUBSET Raisings
    <3>1. Ids \subseteq 1 .. MaxId
      BY Bounds DEF FInv, TypeOK, Ids
    <3> SUFFICES ASSUME NEW m \in R PROVE m \in Raisings
      OBVIOUS
    <3>2. PICK i \in Ids :
              m = [by |-> IF ToNotify(i, UserOf[s]) THEN "early" ELSE "init", id |-> i]
      OBVIOUS
    <3>3. i \in 0 .. MaxId
      BY <3>1
    <3>4. (IF ToNotify(i, UserOf[s]) THEN "early" ELSE "init") \in Causes
      BY DEF Causes
    <3> QED BY <3>2, <3>3, <3>4 DEF Raisings
  <2> HIDE DEF n, R
  <2>3. unread' \in [Sessions -> Nat] /\ raised' \in [Sessions -> SUBSET Raisings]
    BY <2>1, <2>2, <2>4, Bounds DEF FInv, TypeOK
  <2> QED BY <1>1, <2>3 DEF Connect, FInv, RoomLeft, Joined, NotYet, NothingLeft, AllProper, TypeOK, Stages, Ids
<1> USE DEF FInv, RoomLeft, Joined, NotYet, NothingLeft, AllProper, TypeOK, Stages, Ids
<1>2. CASE Subscribe(s)
  BY <1>2 DEF Subscribe
<1>3. CASE JoinRoom(s)
  BY <1>3 DEF JoinRoom
<1>4. CASE FirstElsewhere(s)
  BY <1>4 DEF FirstElsewhere
<1> QED BY <1>1, <1>2, <1>3, <1>4

LEMMA ViewTypes ==
    ASSUME FInv, NEW s \in Sessions,
           OpenRoom(s) \/ MarkRead(s) \/ LookAway(s)
    PROVE  FInv'
<1> USE DEF FInv, RoomLeft, Joined, NotYet, NothingLeft, AllProper, TypeOK, Stages, Ids
<1>1. CASE OpenRoom(s)
  BY <1>1, HistoryTypes DEF OpenRoom, Reload
<1>2. CASE MarkRead(s)
  <2>1. notes' \subseteq Users \X Ids /\ author' = author /\ deleted' = deleted
    BY <1>2 DEF MarkRead, AfterRead
  <2>2. /\ unmarked' \in [Sessions -> SUBSET (0 .. MaxId)] /\ unread' \in [Sessions -> Nat]
        /\ settled' \in [Sessions -> SUBSET Raisings]
    BY <1>2, Bounds DEF MarkRead
  <2> QED BY <1>2, <2>1, <2>2 DEF MarkRead
<1>3. CASE LookAway(s)
  BY <1>3 DEF LookAway
<1> QED BY <1>1, <1>2, <1>3

LEMMA SearchTypes ==
    ASSUME FInv, NEW s \in Sessions, NEW found \in SUBSET Ids, Search(s, found)
    PROVE  FInv'
<1>1. Len(author) \in Nat /\ Len(author) =< MaxId /\ MaxId \in Nat
  BY Bounds DEF FInv, TypeOK
<1>2. found \subseteq 1 .. Len(author) /\ found \subseteq 1 .. MaxId
  BY <1>1 DEF Ids
<1>3. Cardinality(found) \in Nat
  <2>1. Cardinality(found) \in 0 .. Len(author)
    BY <1>1, <1>2, CountTypes
  <2> QED BY <1>1, <2>1
<1>4. PICK ids \in NewestFirst(found) :
          list' = [list EXCEPT ![s] = [j \in 1 .. Cardinality(found) |-> Row(ids[j])]]
  BY DEF Search
<1> DEFINE result == [j \in 1 .. Cardinality(found) |-> Row(ids[j])]
<1>5. ids \in [1 .. Cardinality(found) -> found]
  BY DEF NewestFirst
<1>6. result \in Seq(Shown)
  <2>1. result \in [1 .. Cardinality(found) -> Shown]
    <3>1. \A j \in 1 .. Cardinality(found) : ids[j] \in 1 .. MaxId
      BY <1>2, <1>5
    <3> QED BY <3>1, RowTypes
  <2> HIDE DEF result
  <2> QED BY <1>3, <2>1
<1> HIDE DEF result
<1>7. list' \in [Sessions -> Seq(Shown)]
  BY <1>4, <1>6 DEF FInv, TypeOK, result
<1>8. commands' \in 0 .. MaxCommands /\ commands' =< commands /\ searching' \subseteq Sessions
  BY Bounds DEF Search, FInv, TypeOK
<1>9. UNCHANGED <<store, hubVars, at, event, to, notified, view, unread, missed, unmarked,
                  raised, settled, stale>>
  BY DEF Search
<1>10. TypeOK'
  BY <1>7, <1>8, <1>9 DEF FInv, TypeOK, Ids
<1>11. RoomLeft'
  BY <1>1, <1>8, <1>9 DEF FInv, TypeOK, RoomLeft
<1> QED
  BY <1>9, <1>10, <1>11 DEF FInv, Joined, NotYet, NothingLeft, AllProper

LEMMA SendTypes ==
    ASSUME FInv, NEW s \in Sessions, NEW mentions \in SUBSET Users, SendInsert(s, mentions)
    PROVE  FInv'
<1> DEFINE i == Len(author) + 1
           mset == mentions \ {UserOf[s]}
<1>1. /\ Len(author) \in Nat /\ MaxId \in Nat /\ i \in 1 .. MaxId
      /\ commands' \in 0 .. MaxCommands /\ commands' = commands - 1 /\ commands \in Nat
  BY Bounds DEF FInv, TypeOK, RoomLeft, SendInsert
<1>2. author' \in Seq(Sessions) /\ Len(author') = i /\ i =< MaxId
  BY <1>1 DEF FInv, TypeOK, SendInsert
<1>3. Ids \subseteq Ids' /\ i \in Ids'
  BY <1>1, <1>2 DEF Ids
<1>4. NewEvent("room_msg", i, FALSE, mset) \in Events
  <2>1. i \in 0 .. MaxId /\ mset \in SUBSET Users /\ FALSE \in BOOLEAN /\ "room_msg" \in Kinds
    BY <1>1 DEF Kinds
  <2> HIDE DEF i, mset
  <2> QED BY <2>1, EventTypes
<1>5. Proper(NewEvent("room_msg", i, FALSE, mset))
  BY <1>1 DEF Proper, NewEvent
<1>6. event' = [event EXCEPT ![s] = NewEvent("room_msg", i, FALSE, mset)]
  BY DEF SendInsert
<1>7. event' \in [Sessions -> Events]
  BY <1>4, <1>6 DEF FInv, TypeOK
<1>8. deleted' \subseteq Ids' /\ notes' \subseteq Users \X Ids'
  BY <1>3 DEF FInv, TypeOK, SendInsert
<1>9. stale' \in [Sessions -> SUBSET Ids']
  BY <1>3 DEF FInv, TypeOK, SendInsert
<1>10. notified' \in [Sessions -> SUBSET Users] /\ at' \in [Sessions -> Stages]
  BY DEF FInv, TypeOK, SendInsert, Stages
<1>11. UNCHANGED <<hubVars, to, view, list, searching, unread, missed, unmarked,
                   raised, settled>>
  BY DEF SendInsert
<1>12. TypeOK'
  BY <1>1, <1>2, <1>7, <1>8, <1>9, <1>10, <1>11 DEF FInv, TypeOK
<1>13. RoomLeft'
  BY <1>1, <1>2, Bounds DEF FInv, RoomLeft
<1>14. Joined' /\ NotYet' /\ NothingLeft'
  BY DEF FInv, Joined, NotYet, NothingLeft, SendInsert, TypeOK
<1>15. AllProper'
  BY <1>5, <1>6, <1>11 DEF FInv, AllProper, TypeOK
<1> QED BY <1>12, <1>13, <1>14, <1>15 DEF FInv

LEMMA DeleteTypes ==
    ASSUME FInv, NEW s \in Sessions, NEW i \in Ids, Delete(s, i)
    PROVE  FInv'
<1>1. deleted' \subseteq Ids /\ UNCHANGED <<author, notes, hubVars, to, notified, screen>>
  BY DEF FInv, TypeOK, Delete
<1>2. commands' \in 0 .. MaxCommands /\ commands' =< commands
  BY Bounds DEF Delete, FInv, TypeOK
<1>3. event' = [event EXCEPT ![s] = NoEvent] /\ at' = [at EXCEPT ![s] = "publish"]
  BY DEF Delete
<1>4. event' \in [Sessions -> Events] /\ at' \in [Sessions -> Stages]
  BY <1>3, NoEventProper DEF FInv, TypeOK, Stages
<1>5. TypeOK'
  BY <1>1, <1>2, <1>4 DEF FInv, TypeOK, Ids
<1>6. RoomLeft'
  BY <1>1, <1>2, Bounds DEF FInv, TypeOK, RoomLeft
<1>7. Joined' /\ NotYet' /\ NothingLeft'
  BY <1>1, <1>3 DEF FInv, Joined, NotYet, NothingLeft, Delete, TypeOK
<1>8. AllProper'
  BY <1>1, <1>3, NoEventProper DEF FInv, AllProper, TypeOK
<1> QED BY <1>5, <1>6, <1>7, <1>8 DEF FInv

LEMMA PublishTypes ==
    ASSUME FInv, NEW s \in Sessions, Publish(s)
    PROVE  FInv'
<1>1. /\ event' = [event EXCEPT ![s].gone = event[s].id \in deleted]
      /\ UNCHANGED <<store, hubVars, notified, commands, screen>>
      /\ at' = [at EXCEPT ![s] = "sending"] /\ to' = [to EXCEPT ![s] = inRoom]
  BY DEF Publish, Recipients
<1>2. event[s] \in Events
  BY DEF FInv, TypeOK
<1>3. [event[s] EXCEPT !.gone = event[s].id \in deleted] \in Events
  <2>1. (event[s].id \in deleted) \in BOOLEAN
    OBVIOUS
  <2> QED BY <1>2, <2>1, GoneTypes
<1>4. event' \in [Sessions -> Events]
  BY <1>1, <1>3 DEF FInv, TypeOK
<1>5. TypeOK'
  BY <1>1, <1>4 DEF FInv, TypeOK, Ids, Stages
<1>6. RoomLeft' /\ Joined' /\ NotYet' /\ NothingLeft'
  BY <1>1 DEF FInv, TypeOK, RoomLeft, Joined, NotYet, NothingLeft, Publish
<1>7. AllProper'
  BY <1>1, <1>2 DEF FInv, TypeOK, AllProper, Proper, Events
<1> QED BY <1>5, <1>6, <1>7 DEF FInv

LEMMA DeliverTypes ==
    ASSUME FInv, NEW s \in Sessions, NEW r \in Sessions, Deliver(s, r)
    PROVE  FInv'
<1>1. /\ inbox' = [inbox EXCEPT ![r] = Offer(@, event[s])]
      /\ to' = [to EXCEPT ![s] = @ \ {r}]
      /\ UNCHANGED <<store, users, inRoom, at, event, notified, commands,
                     view, list, searching, unread, raised, settled, stale>>
  BY DEF Deliver
<1>2. inbox[r] \in Seq(Events) /\ event[s] \in Events /\ Len(inbox[r]) =< InboxCap
  BY DEF FInv, TypeOK
<1>3. Offer(inbox[r], event[s]) \in Seq(Events) /\ Len(Offer(inbox[r], event[s])) =< InboxCap
  BY <1>2, OfferTypes
<1>4. /\ inbox' \in [Sessions -> Seq(Events)]
      /\ \A q \in Sessions : Len(inbox'[q]) =< InboxCap
  BY <1>1, <1>3 DEF FInv, TypeOK
<1>5. missed' \in [Sessions -> SUBSET (0 .. MaxId)] /\ unmarked' \in [Sessions -> SUBSET (0 .. MaxId)]
  <2> DEFINE lost == IF Len(inbox[r]) < InboxCap \/ event[s].kind = "notify"
                     THEN {} ELSE {event[s].id}
  <2>1. lost \subseteq 0 .. MaxId
    BY <1>2 DEF Events
  <2>2. /\ missed' = [missed EXCEPT ![r] = @ \union lost]
        /\ unmarked' = [unmarked EXCEPT ![r] = @ \union lost]
    BY DEF Deliver
  <2> HIDE DEF lost
  <2> QED BY <2>1, <2>2 DEF FInv, TypeOK
<1>6. to' \in [Sessions -> SUBSET Sessions]
  BY <1>1 DEF FInv, TypeOK
<1>7. TypeOK'
  BY <1>1, <1>4, <1>5, <1>6 DEF FInv, TypeOK, Ids
<1>8. RoomLeft' /\ Joined' /\ NotYet' /\ NothingLeft'
  BY <1>1 DEF FInv, TypeOK, RoomLeft, Joined, NotYet, NothingLeft, Deliver
<1>9. AllProper'
  <2>1. \A j \in 1 .. Len(Offer(inbox[r], event[s])) : Proper(Offer(inbox[r], event[s])[j])
    BY <1>2 DEF Offer, FInv, AllProper
  <2> QED BY <1>1, <2>1 DEF FInv, TypeOK, AllProper
<1> QED BY <1>7, <1>8, <1>9 DEF FInv

LEMMA NotifyTypes ==
    ASSUME FInv, NEW s \in Sessions, NEW u \in Users, NotifyUser(s, u)
    PROVE  FInv'
<1> DEFINE ev == NewEvent("notify", event[s].id, FALSE, {})
<1>1. ev \in Events /\ Proper(ev)
  BY DEF FInv, TypeOK, Events, NewEvent, Kinds, Proper
<1>2. /\ event' = [event EXCEPT ![s] = ev]
      /\ to' = [to EXCEPT ![s] = {r \in users : UserOf[r] = u}]
      /\ notified' = [notified EXCEPT ![s] = @ \ {u}]
      /\ UNCHANGED <<store, hubVars, at, commands, screen>>
      /\ at[s] = "sending"
  BY DEF NotifyUser
<1> HIDE DEF ev
<1>3. event' \in [Sessions -> Events]
  BY <1>1, <1>2 DEF FInv, TypeOK
<1>4. to' \in [Sessions -> SUBSET Sessions] /\ notified' \in [Sessions -> SUBSET Users]
  BY <1>2 DEF FInv, TypeOK
<1>5. TypeOK'
  BY <1>2, <1>3, <1>4 DEF FInv, TypeOK, Ids
<1>6. RoomLeft' /\ Joined' /\ NotYet' /\ NothingLeft'
  BY <1>2 DEF FInv, TypeOK, RoomLeft, Joined, NotYet, NothingLeft
<1>7. AllProper'
  BY <1>1, <1>2 DEF FInv, TypeOK, AllProper
<1> QED BY <1>5, <1>6, <1>7 DEF FInv

LEMMA ReturnTypes ==
    ASSUME FInv, NEW s \in Sessions, Return(s)
    PROVE  FInv'
<1>1. /\ event' = [event EXCEPT ![s] = NoEvent] /\ at' = [at EXCEPT ![s] = "idle"]
      /\ UNCHANGED <<store, hubVars, to, notified, commands, screen>>
      /\ at[s] = "sending" /\ to[s] = {}
  BY DEF Return
<1>2. event' \in [Sessions -> Events] /\ at' \in [Sessions -> Stages]
  BY <1>1, NoEventProper DEF FInv, TypeOK, Stages
<1>3. TypeOK'
  BY <1>1, <1>2 DEF FInv, TypeOK, Ids
<1>4. RoomLeft' /\ Joined' /\ NotYet' /\ NothingLeft'
  BY <1>1 DEF FInv, TypeOK, RoomLeft, Joined, NotYet, NothingLeft
<1>5. AllProper'
  BY <1>1, NoEventProper DEF FInv, TypeOK, AllProper
<1> QED BY <1>3, <1>4, <1>5 DEF FInv

\* Receiving an event shifts the channel by one.
LEMMA TakeTypes ==
    ASSUME FInv, NEW s \in Sessions, NEW kind, Take(s, kind)
    PROVE  /\ inbox' \in [Sessions -> Seq(Events)]
           /\ \A q \in Sessions : Len(inbox'[q]) =< InboxCap
           /\ \A q \in Sessions : \A j \in 1 .. Len(inbox'[q]) :
                 inbox'[q][j] = IF q = s THEN inbox[s][j + 1] ELSE inbox[q][j]
           /\ Len(inbox[s]) > 0 /\ Len(inbox'[s]) = Len(inbox[s]) - 1
           /\ \A q \in Sessions : q # s => inbox'[q] = inbox[q]
           /\ Head(inbox[s]) = inbox[s][1] /\ inbox[s][1] \in Events /\ inbox[s][1].kind = kind
           /\ Proper(inbox[s][1]) /\ at[s] = "idle"
           /\ \A q \in Sessions : \A j \in 1 .. Len(inbox'[q]) : Proper(inbox'[q][j])
<1>1. inbox' = [inbox EXCEPT ![s] = Tail(inbox[s])] /\ inbox[s] # <<>> /\ inbox[s] \in Seq(Events)
  BY DEF Take, FInv, TypeOK
<1>2. /\ Tail(inbox[s]) \in Seq(Events) /\ Len(Tail(inbox[s])) = Len(inbox[s]) - 1
      /\ \A j \in 1 .. Len(Tail(inbox[s])) : Tail(inbox[s])[j] = inbox[s][j + 1]
      /\ Head(inbox[s]) = inbox[s][1] /\ Len(inbox[s]) \in Nat /\ Len(inbox[s]) > 0
      /\ inbox[s][1] \in Events
  BY <1>1
<1>3. inbox' \in [Sessions -> Seq(Events)] /\ \A q \in Sessions : q # s => inbox'[q] = inbox[q]
  BY <1>1, <1>2 DEF FInv, TypeOK
<1>4. inbox'[s] = Tail(inbox[s])
  BY <1>1 DEF FInv, TypeOK
<1>5. \A q \in Sessions : Len(inbox'[q]) =< InboxCap
  <2>1. Len(inbox[s]) =< InboxCap /\ \A q \in Sessions : Len(inbox[q]) =< InboxCap
    BY DEF FInv, TypeOK
  <2>2. Len(inbox'[s]) =< InboxCap
    <3>1. Len(inbox'[s]) = Len(inbox[s]) - 1
      BY <1>2, <1>4
    <3> QED BY <1>2, <2>1, <3>1, Bounds
  <2> QED BY <1>3, <2>1, <2>2
<1>6. \A q \in Sessions : \A j \in 1 .. Len(inbox'[q]) : Proper(inbox'[q][j])
  <2> SUFFICES ASSUME NEW q \in Sessions, NEW j \in 1 .. Len(inbox'[q]) PROVE Proper(inbox'[q][j])
    OBVIOUS
  <2>1. CASE q = s
    <3>0. j \in 1 .. Len(Tail(inbox[s]))
      BY <1>4, <2>1
    <3> DEFINE n == Len(inbox[s])
               m == Len(Tail(inbox[s]))
    <3>1. n \in Nat /\ m = n - 1 /\ j \in 1 .. m
      BY <1>2, <3>0
    <3> HIDE DEF n, m
    <3>2. j + 1 \in 1 .. n
      BY <3>1
    <3>3. Tail(inbox[s])[j] = inbox[s][j + 1]
      BY <1>2, <3>0
    <3>4. inbox'[q][j] = inbox[s][j + 1]
      BY <1>4, <2>1, <3>3
    <3> QED BY <3>2, <3>4 DEF n, FInv, AllProper
  <2>2. CASE q # s
    BY <1>3, <2>2 DEF FInv, AllProper
  <2> QED BY <2>1, <2>2
<1>7. Proper(inbox[s][1]) /\ at[s] = "idle" /\ inbox[s][1].kind = kind
  BY <1>2 DEF FInv, AllProper, Take
<1> QED BY <1>2, <1>3, <1>4, <1>5, <1>6, <1>7

LEMMA RaiseTypes ==
    ASSUME FInv, NEW s \in Sessions, NEW ev \in Events, ev.kind # "msg_deleted",
           Raise(s, ev) \/ UNCHANGED <<unread, raised>>
    PROVE  unread' \in [Sessions -> Nat] /\ raised' \in [Sessions -> SUBSET Raisings]
<1> DEFINE m == [by |-> ev.kind, id |-> ev.id]
<1>1. m \in Raisings
  BY DEF Events, Kinds, Raisings, Causes
<1>2. \/ UNCHANGED <<unread, raised>>
      \/ /\ unread' = [unread EXCEPT ![s] = @ + 1]
         /\ raised' = [raised EXCEPT ![s] = @ \union {m}]
  BY DEF Raise
<1>3. unread \in [Sessions -> Nat] /\ raised \in [Sessions -> SUBSET Raisings]
  BY DEF FInv, TypeOK
<1> HIDE DEF m
<1> QED BY <1>1, <1>2, <1>3

LEMMA HandleTypes ==
    ASSUME FInv, NEW s \in Sessions, HandleMessage(s) \/ HandleNotify(s) \/ HandleDeleted(s)
    PROVE  FInv'
<1>1. CASE HandleMessage(s)
  <2>1. Take(s, "room_msg") /\ "room_msg" # "notify"
    BY <1>1 DEF HandleMessage
  <2> DEFINE ev == inbox[s][1]
  <2>2. /\ Head(inbox[s]) = ev /\ ev \in Events /\ Proper(ev) /\ ev.kind = "room_msg"
        /\ inbox' \in [Sessions -> Seq(Events)] /\ \A q \in Sessions : Len(inbox'[q]) =< InboxCap
        /\ \A q \in Sessions : \A j \in 1 .. Len(inbox'[q]) : Proper(inbox'[q][j])
    BY <2>1, TakeTypes
  <2>3. /\ list' = [list EXCEPT ![s] = Append(@, [id |-> ev.id, gone |-> ev.gone])]
        /\ stale' = [stale EXCEPT ![s] = IF ev.id \in deleted /\ ~ev.gone THEN @ \union {ev.id} ELSE @]
        /\ Raise(s, ev) \/ UNCHANGED <<unread, raised>>
        /\ notes' \subseteq notes
        /\ unmarked' = unmarked \/ unmarked' = [unmarked EXCEPT ![s] = {}]
        /\ UNCHANGED <<author, deleted, users, inRoom, calls, view, searching, missed, settled>>
    BY <1>1, <2>2 DEF HandleMessage, AfterRead
  <2> HIDE DEF ev
  <2>4. [id |-> ev.id, gone |-> ev.gone] \in Shown
    BY <2>2, Bounds DEF Shown, Events, Proper
  <2>5. list' \in [Sessions -> Seq(Shown)]
    BY <2>3, <2>4 DEF FInv, TypeOK
  <2>6. stale' \in [Sessions -> SUBSET Ids]
    BY <2>3 DEF FInv, TypeOK
  <2>7. unread' \in [Sessions -> Nat] /\ raised' \in [Sessions -> SUBSET Raisings]
    BY <2>2, <2>3, RaiseTypes
  <2>8. unmarked' \in [Sessions -> SUBSET (0 .. MaxId)]
    BY <2>3 DEF FInv, TypeOK
  <2>9. TypeOK'
    BY <2>2, <2>3, <2>5, <2>6, <2>7, <2>8 DEF FInv, TypeOK, Ids
  <2>10. RoomLeft' /\ Joined' /\ NotYet' /\ NothingLeft' /\ AllProper'
    BY <2>2, <2>3 DEF FInv, TypeOK, RoomLeft, Joined, NotYet, NothingLeft, AllProper
  <2> QED BY <2>9, <2>10 DEF FInv
<1>2. CASE HandleNotify(s)
  <2>1. /\ Take(s, "notify") /\ Raise(s, Head(inbox[s]))
        /\ UNCHANGED <<store, users, inRoom, calls, view, list, searching,
                       missed, unmarked, settled, stale>>
    BY <1>2 DEF HandleNotify
  <2>2. /\ inbox' \in [Sessions -> Seq(Events)] /\ \A q \in Sessions : Len(inbox'[q]) =< InboxCap
        /\ \A q \in Sessions : \A j \in 1 .. Len(inbox'[q]) : Proper(inbox'[q][j])
    BY <2>1, TakeTypes
  <2>3. unread' \in [Sessions -> Nat] /\ raised' \in [Sessions -> SUBSET Raisings]
    BY <2>1, TakeTypes, RaiseTypes
  <2> QED BY <2>1, <2>2, <2>3 DEF FInv, TypeOK, Ids, RoomLeft, Joined, NotYet, NothingLeft, AllProper
<1>3. CASE HandleDeleted(s)
  <2>1. /\ Take(s, "msg_deleted")
        /\ Reload(s) \/ UNCHANGED <<list, searching, missed, stale>>
        /\ UNCHANGED <<store, users, inRoom, calls, view, unread, unmarked, raised, settled>>
    BY <1>3 DEF HandleDeleted
  <2>2. /\ inbox' \in [Sessions -> Seq(Events)] /\ \A q \in Sessions : Len(inbox'[q]) =< InboxCap
        /\ \A q \in Sessions : \A j \in 1 .. Len(inbox'[q]) : Proper(inbox'[q][j])
    BY <2>1, TakeTypes
  <2>3. /\ list' \in [Sessions -> Seq(Shown)] /\ searching' \subseteq Sessions
        /\ missed' \in [Sessions -> SUBSET (0 .. MaxId)] /\ stale' \in [Sessions -> SUBSET Ids]
    <3>1. CASE Reload(s)
      BY <3>1, HistoryTypes DEF Reload, FInv, TypeOK
    <3>2. CASE UNCHANGED <<list, searching, missed, stale>>
      BY <3>2 DEF FInv, TypeOK
    <3> QED BY <2>1, <3>1, <3>2
  <2>4. TypeOK'
    BY <2>1, <2>2, <2>3 DEF FInv, TypeOK, Ids
  <2>5. RoomLeft' /\ Joined' /\ NotYet' /\ NothingLeft' /\ AllProper'
    BY <2>1, <2>2 DEF FInv, RoomLeft, Joined, NotYet, NothingLeft, AllProper
  <2> QED BY <2>4, <2>5 DEF FInv
<1> QED BY <1>1, <1>2, <1>3

LEMMA NextInv == FInv /\ [Next]_vars => FInv'
<1> SUFFICES ASSUME FInv, [Next]_vars PROVE FInv'
  OBVIOUS
<1>1. CASE UNCHANGED vars
  BY <1>1 DEF vars, FInv, TypeOK, Ids, RoomLeft, Joined, NotYet, NothingLeft, AllProper
<1>2. CASE Next
  BY <1>2, ConnectTypes, ViewTypes, SearchTypes, SendTypes, DeleteTypes, PublishTypes,
     DeliverTypes, NotifyTypes, ReturnTypes, HandleTypes DEF Next
<1> QED BY <1>1, <1>2

LEMMA AlwaysFInv == Spec => []FInv
BY InitInv, NextInv, PTL DEF Spec

\* Every reachable state is well typed: channels stay within their capacity
\* (hub.go:190), lists hold messages that exist, and the session counts what it
\* marks.
THEOREM TypeCorrect == Spec => []TypeOK
<1>1. FInv => TypeOK
  BY DEF FInv
<1> QED BY <1>1, AlwaysFInv, PTL

-----------------------------------------------------------------------------
(* Events on their way                                                     *)

\* A step of a session that has no publication under way, and that touches
\* neither the channels nor the publications of the others.
Quiet(s) ==
    /\ inbox' = inbox
    /\ at[s] # "publish" /\ to[s] = {}
    /\ \A a \in Sessions \ {s} : at'[a] = at[a] /\ event'[a] = event[a] /\ to'[a] = to[a]

QuietStep(s) ==
    \/ Connect(s) \/ Subscribe(s) \/ JoinRoom(s) \/ FirstElsewhere(s)
    \/ OpenRoom(s) \/ MarkRead(s) \/ LookAway(s)
    \/ \E found \in SUBSET Ids : Search(s, found)
    \/ \E mentions \in SUBSET Users : SendInsert(s, mentions)
    \/ \E i \in Ids : Delete(s, i)
    \/ (\E u \in Users : NotifyUser(s, u)) \/ Return(s)

HandleStep(s) == HandleMessage(s) \/ HandleNotify(s) \/ HandleDeleted(s)

LEMMA Steps ==
    ASSUME Next
    PROVE  \E s \in Sessions : QuietStep(s) \/ Publish(s) \/ (\E r \in Sessions : Deliver(s, r)) \/ HandleStep(s)
BY DEF Next, QuietStep, HandleStep

LEMMA QuietSteps ==
    ASSUME FInv, NEW s \in Sessions, QuietStep(s)
    PROVE  Quiet(s)
<1> USE DEF FInv, TypeOK, NothingLeft, Quiet
<1>1. CASE Connect(s) \/ Subscribe(s)
  BY <1>1 DEF Connect, Subscribe
<1>2. CASE JoinRoom(s) \/ FirstElsewhere(s)
  BY <1>2 DEF JoinRoom, FirstElsewhere
<1>3. CASE OpenRoom(s)
  BY <1>3 DEF OpenRoom
<1>4. CASE MarkRead(s) \/ LookAway(s)
  BY <1>4 DEF MarkRead, LookAway
<1>5. CASE \E found \in SUBSET Ids : Search(s, found)
  BY <1>5 DEF Search
<1>6. CASE \E mentions \in SUBSET Users : SendInsert(s, mentions)
  BY <1>6 DEF SendInsert
<1>7. CASE \E i \in Ids : Delete(s, i)
  BY <1>7 DEF Delete
<1>8. CASE \E u \in Users : NotifyUser(s, u)
  BY <1>8 DEF NotifyUser
<1>9. CASE Return(s)
  BY <1>9 DEF Return
<1> QED BY <1>1, <1>2, <1>5, <1>6, <1>7, <1>8, <1>3, <1>4, <1>9 DEF QuietStep

\* Between the event the hub sends and the channel of q.
Pending(q, kind, id) ==
    \/ \E a \in Sessions : /\ event[a].kind = kind /\ event[a].id = id
                           /\ at[a] = "publish" \/ q \in to[a]
    \/ \E j \in 1 .. Len(inbox[q]) : inbox[q][j].kind = kind /\ inbox[q][j].id = id

\* An event of a room stays on its way to whoever is in the room, is dropped and
\* remembered as missed, or is the one that q handles in this step.
LEMMA PendingKept ==
    ASSUME FInv, Next, NEW q \in Sessions, q \in inRoom,
           NEW kind \in {"room_msg", "msg_deleted"}, NEW id, Pending(q, kind, id)
    PROVE  \/ Pending(q, kind, id)'
           \/ id \in missed'[q] /\ id \in unmarked'[q]
           \/ HandleStep(q) /\ Head(inbox[q]).kind = kind /\ Head(inbox[q]).id = id
<1>1. PICK s \in Sessions :
          QuietStep(s) \/ Publish(s) \/ (\E r \in Sessions : Deliver(s, r)) \/ HandleStep(s)
  BY Steps
<1>2. CASE QuietStep(s)
  <2>1. Quiet(s)
    BY <1>2, QuietSteps
  <2> QED BY <2>1 DEF Quiet, Pending
<1>3. CASE Publish(s)
  <2>1. /\ event' = [event EXCEPT ![s].gone = event[s].id \in deleted] /\ inbox' = inbox
        /\ at' = [at EXCEPT ![s] = "sending"] /\ to' = [to EXCEPT ![s] = inRoom]
    BY <1>3 DEF Publish, Recipients
  <2>2. \A a \in Sessions : event'[a].kind = event[a].kind /\ event'[a].id = event[a].id
    BY <2>1 DEF FInv, TypeOK, Events
  <2>3. q \in to'[s] /\ \A a \in Sessions \ {s} : at'[a] = at[a] /\ to'[a] = to[a]
    BY <2>1 DEF FInv, TypeOK
  <2> QED BY <2>1, <2>2, <2>3 DEF Pending
<1>4. ASSUME NEW r \in Sessions, Deliver(s, r)
      PROVE  Pending(q, kind, id)' \/ (id \in missed'[q] /\ id \in unmarked'[q])
  <2>1. /\ inbox' = [inbox EXCEPT ![r] = Offer(@, event[s])]
        /\ to' = [to EXCEPT ![s] = @ \ {r}] /\ at' = at /\ event' = event
    BY <1>4 DEF Deliver
  <2>2. inbox[r] \in Seq(Events) /\ event[s] \in Events
    BY DEF FInv, TypeOK
  <2>3. ASSUME NEW j \in 1 .. Len(inbox[q]), inbox[q][j].kind = kind, inbox[q][j].id = id
        PROVE  Pending(q, kind, id)'
    <3>1. CASE q = r
      <4>1. j \in 1 .. Len(Offer(inbox[r], event[s])) /\ Offer(inbox[r], event[s])[j] = inbox[r][j]
        BY <2>2, <2>3, <3>1 DEF Offer
      <4>2. inbox'[q] = Offer(inbox[r], event[s])
        BY <2>1, <3>1 DEF FInv, TypeOK
      <4> QED BY <2>3, <3>1, <4>1, <4>2 DEF Pending
    <3>2. CASE q # r
      BY <2>1, <2>3, <3>2 DEF Pending, FInv, TypeOK
    <3> QED BY <3>1, <3>2
  <2>4. ASSUME NEW a \in Sessions, event[a].kind = kind, event[a].id = id, at[a] = "publish" \/ q \in to[a]
        PROVE  Pending(q, kind, id)' \/ (id \in missed'[q] /\ id \in unmarked'[q])
    <3>1. CASE at'[a] = "publish" \/ q \in to'[a]
      BY <2>1, <2>4, <3>1 DEF Pending
    <3>2. CASE a = s /\ q = r
      <4>1. CASE Len(inbox[r]) < InboxCap
        <5>1. inbox'[q] = Append(inbox[r], event[s])
          BY <2>1, <3>2, <4>1 DEF FInv, TypeOK, Offer
        <5>2. Len(inbox[r]) + 1 \in 1 .. Len(inbox'[q]) /\ inbox'[q][Len(inbox[r]) + 1] = event[s]
          BY <2>2, <5>1
        <5> QED BY <2>4, <3>2, <5>2 DEF Pending
      <4>2. CASE ~(Len(inbox[r]) < InboxCap)
        BY <1>4, <2>4, <3>2, <4>2 DEF Deliver, FInv, TypeOK
      <4> QED BY <4>1, <4>2
    <3>3. at'[a] = "publish" \/ q \in to'[a] \/ (a = s /\ q = r)
      BY <2>1, <2>4 DEF FInv, TypeOK
    <3> QED BY <3>1, <3>2, <3>3
  <2> QED BY <2>3, <2>4 DEF Pending
<1>5. CASE HandleStep(s)
  <2>1. /\ UNCHANGED <<at, event, to>>
        /\ \E k \in {"room_msg", "notify", "msg_deleted"} : Take(s, k)
    BY <1>5 DEF HandleStep, HandleMessage, HandleNotify, HandleDeleted
  <2>2. /\ \A p \in Sessions : p # s => inbox'[p] = inbox[p]
        /\ Len(inbox[s]) > 0 /\ Len(inbox'[s]) = Len(inbox[s]) - 1
        /\ \A j \in 1 .. Len(inbox'[s]) : inbox'[s][j] = inbox[s][j + 1]
        /\ Head(inbox[s]) = inbox[s][1] /\ Len(inbox[s]) \in Nat
    <3>1. PICK k \in {"room_msg", "notify", "msg_deleted"} : Take(s, k)
      BY <2>1
    <3>2. /\ \A p \in Sessions : p # s => inbox'[p] = inbox[p]
          /\ Len(inbox[s]) > 0 /\ Len(inbox'[s]) = Len(inbox[s]) - 1
          /\ \A p \in Sessions : \A j \in 1 .. Len(inbox'[p]) :
                inbox'[p][j] = IF p = s THEN inbox[s][j + 1] ELSE inbox[p][j]
          /\ Head(inbox[s]) = inbox[s][1]
      BY <3>1, TakeTypes, Zenon
    <3>3. Len(inbox[s]) \in Nat
      BY DEF FInv, TypeOK
    <3> QED BY <3>2, <3>3
  <2>3. CASE q # s
    BY <2>1, <2>2, <2>3 DEF Pending
  <2>4. CASE q = s
    <3>1. ASSUME NEW j \in 1 .. Len(inbox[q]), inbox[q][j].kind = kind, inbox[q][j].id = id
          PROVE  Pending(q, kind, id)' \/ (Head(inbox[q]).kind = kind /\ Head(inbox[q]).id = id)
      <4>1. CASE j = 1
        BY <2>2, <2>4, <3>1, <4>1
      <4>2. CASE j # 1
        <5>1. j - 1 \in 1 .. Len(inbox'[s]) /\ (j - 1) + 1 = j
          BY <2>2, <2>4, <4>2
        <5>2. inbox'[q][j - 1] = inbox[q][j]
          BY <2>2, <2>4, <5>1
        <5> QED BY <2>4, <3>1, <5>1, <5>2 DEF Pending
      <4> QED BY <4>1, <4>2
    <3> QED BY <1>5, <2>1, <2>4, <3>1 DEF Pending
  <2> QED BY <2>3, <2>4
<1> QED BY <1>1, <1>2, <1>3, <1>4, <1>5

\* Whoever shows the room is in the hub's map, and was showing it before, unless
\* the step opened it.
LEMMA LooksKept ==
    ASSUME FInv, Next, NEW q \in Sessions, Looks(q)'
    PROVE  OpenRoom(q) \/ (Looks(q) /\ q \in inRoom)
<1>1. PICK s \in Sessions :
          QuietStep(s) \/ Publish(s) \/ (\E r \in Sessions : Deliver(s, r)) \/ HandleStep(s)
  BY Steps
<1> USE DEF FInv, TypeOK, NotYet, Joined, Looks, Stages
<1>2. CASE Connect(s) \/ Subscribe(s) \/ JoinRoom(s) \/ FirstElsewhere(s)
  BY <1>2 DEF Connect, Subscribe, JoinRoom, FirstElsewhere
<1>3. CASE OpenRoom(s) \/ MarkRead(s) \/ LookAway(s)
  BY <1>3 DEF OpenRoom, MarkRead, LookAway
<1>4. CASE \E found \in SUBSET Ids : Search(s, found)
  BY <1>4 DEF Search
<1>5. CASE \E mentions \in SUBSET Users : SendInsert(s, mentions)
  BY <1>5 DEF SendInsert
<1>6. CASE \E i \in Ids : Delete(s, i)
  BY <1>6 DEF Delete
<1>7. CASE (\E u \in Users : NotifyUser(s, u)) \/ Return(s) \/ Publish(s) \/ \E r \in Sessions : Deliver(s, r)
  BY <1>7 DEF NotifyUser, Return, Publish, Deliver
<1>8. CASE HandleStep(s)
  BY <1>8 DEF HandleStep, HandleMessage, HandleNotify, HandleDeleted
<1> QED BY <1>1, <1>2, <1>3, <1>4, <1>5, <1>6, <1>7, <1>8 DEF QuietStep

\* What a step does to the list of q.
LEMMA ListKept ==
    ASSUME FInv, Next, NEW q \in Sessions, ~OpenRoom(q), ~HandleStep(q), q \notin searching'
    PROVE  list'[q] = list[q] /\ q \notin searching /\ stale'[q] = stale[q] /\ missed[q] \subseteq missed'[q]
<1>1. PICK s \in Sessions :
          QuietStep(s) \/ Publish(s) \/ (\E r \in Sessions : Deliver(s, r)) \/ HandleStep(s)
  BY Steps
<1> USE DEF FInv, TypeOK
<1>2. CASE Connect(s) \/ Subscribe(s) \/ JoinRoom(s) \/ FirstElsewhere(s)
  BY <1>2 DEF Connect, Subscribe, JoinRoom, FirstElsewhere
<1>3. CASE OpenRoom(s) \/ MarkRead(s) \/ LookAway(s)
  BY <1>3 DEF OpenRoom, MarkRead, LookAway, Reload
<1>4. CASE \E found \in SUBSET Ids : Search(s, found)
  BY <1>4 DEF Search
<1>5. CASE \E mentions \in SUBSET Users : SendInsert(s, mentions)
  BY <1>5 DEF SendInsert
<1>6. CASE \E i \in Ids : Delete(s, i)
  BY <1>6 DEF Delete
<1>7. CASE (\E u \in Users : NotifyUser(s, u)) \/ Return(s) \/ Publish(s)
  BY <1>7 DEF NotifyUser, Return, Publish
<1>8. CASE \E r \in Sessions : Deliver(s, r)
  BY <1>8 DEF Deliver
<1>9. CASE HandleStep(s)
  <2>1. q # s
    BY <1>9
  <2> QED BY <1>9, <2>1 DEF HandleStep, HandleMessage, HandleNotify, HandleDeleted, Reload
<1> QED BY <1>1, <1>2, <1>3, <1>4, <1>5, <1>6, <1>7, <1>8, <1>9 DEF QuietStep

\* What a step does to the table.
LEMMA TableKept ==
    ASSUME FInv, Next
    PROVE  \/ /\ author' = author
              /\ deleted' = deleted \/ \E s \in Sessions : \E i \in Ids : Delete(s, i)
              /\ notes' \subseteq notes
           \/ \E s \in Sessions : \E mentions \in SUBSET Users : SendInsert(s, mentions)
<1>1. PICK s \in Sessions :
          QuietStep(s) \/ Publish(s) \/ (\E r \in Sessions : Deliver(s, r)) \/ HandleStep(s)
  BY Steps
<1>2. CASE Connect(s) \/ Subscribe(s) \/ JoinRoom(s) \/ FirstElsewhere(s)
  BY <1>2 DEF Connect, Subscribe, JoinRoom, FirstElsewhere
<1>3. CASE OpenRoom(s) \/ MarkRead(s) \/ LookAway(s)
  BY <1>3 DEF OpenRoom, MarkRead, LookAway, AfterRead
<1>4. CASE \E found \in SUBSET Ids : Search(s, found)
  BY <1>4 DEF Search
<1>6. CASE \E i \in Ids : Delete(s, i)
  BY <1>6 DEF Delete
<1>7. CASE (\E u \in Users : NotifyUser(s, u)) \/ Return(s) \/ Publish(s) \/ \E r \in Sessions : Deliver(s, r)
  BY <1>7 DEF NotifyUser, Return, Publish, Deliver
<1>8. CASE HandleStep(s)
  BY <1>8 DEF HandleStep, HandleMessage, HandleNotify, HandleDeleted, AfterRead
<1> QED BY <1>1, <1>2, <1>3, <1>4, <1>6, <1>7, <1>8 DEF QuietStep

LEMMA WayIsPending ==
    ASSUME NEW q \in Sessions, NEW i
    PROVE  OnItsWay(i, q) <=> Pending(q, "room_msg", i)
BY DEF OnItsWay, Pending

\* A message that has just been inserted is on its way to everybody.
LEMMA SentIsPending ==
    ASSUME FInv, NEW s \in Sessions, NEW mentions \in SUBSET Users, SendInsert(s, mentions),
           NEW q \in Sessions, NEW i, i = Len(author) + 1
    PROVE  Pending(q, "room_msg", i)'
<1>1. event'[s] = NewEvent("room_msg", Len(author) + 1, FALSE, mentions \ {UserOf[s]})
  BY DEF SendInsert, FInv, TypeOK
<1>2. at'[s] = "publish"
  BY DEF SendInsert, FInv, TypeOK
<1>3. event'[s].kind = "room_msg" /\ event'[s].id = i
  BY <1>1 DEF NewEvent
<1> QED BY <1>2, <1>3 DEF Pending

LEMMA ReloadCovers ==
    ASSUME FInv, NEW i \in Ids, i > Len(author) - HistoryLimit
    PROVE  \E j \in 1 .. Len(History) : History[j].id = i
<1> DEFINE n == IF Len(author) < HistoryLimit THEN Len(author) ELSE HistoryLimit
<1>1. Len(author) \in Nat /\ n \in Nat /\ n =< Len(author)
  BY Bounds DEF FInv, TypeOK
<1>2. History = [j \in 1 .. n |-> Row(Len(author) - n + j)]
  BY DEF History
<1>3. i - (Len(author) - n) \in 1 .. n /\ (Len(author) - n) + (i - (Len(author) - n)) = i
  <2>1. Len(author) - n < i /\ i \in 1 .. Len(author)
    BY <1>1, Bounds DEF Ids
  <2> HIDE DEF n
  <2> QED BY <1>1, <2>1
<1> HIDE DEF n
<1>4. Len(History) = n
  BY <1>1, <1>2
<1>5. History[i - (Len(author) - n)].id = i
  BY <1>2, <1>3 DEF Row
<1> QED BY <1>3, <1>4, <1>5

LEMMA VanishStep == FInv /\ NothingVanishes /\ Next => NothingVanishes'
<1> SUFFICES ASSUME FInv, NothingVanishes, Next,
                    NEW q \in Sessions, Looks(q)', q \notin searching',
                    NEW i \in Ids', i > Len(author') - HistoryLimit
             PROVE  InList(i, q)' \/ Pending(q, "room_msg", i)' \/ i \in missed'[q]
  BY WayIsPending DEF NothingVanishes, OnItsWay, Pending
<1>1. \/ i \in Ids /\ i > Len(author) - HistoryLimit
      \/ Pending(q, "room_msg", i)'
  <2>1. CASE author' = author
    BY <2>1 DEF Ids
  <2>2. ASSUME NEW s \in Sessions, NEW mentions \in SUBSET Users, SendInsert(s, mentions)
        PROVE  (i \in Ids /\ i > Len(author) - HistoryLimit) \/ Pending(q, "room_msg", i)'
    <3>1. Len(author') = Len(author) + 1 /\ Len(author) \in Nat
      BY <2>2 DEF SendInsert, FInv, TypeOK
    <3>2. CASE i = Len(author) + 1
      BY <2>2, <3>2, SentIsPending
    <3>3. CASE i # Len(author) + 1
      BY <3>1, <3>3, Bounds DEF Ids
    <3> QED BY <3>2, <3>3
  <2> QED BY <2>1, <2>2, TableKept
<1>2. CASE ~(i \in Ids /\ i > Len(author) - HistoryLimit)
  BY <1>1, <1>2
<1>3. CASE i \in Ids /\ i > Len(author) - HistoryLimit
  <2>1. CASE OpenRoom(q)
    <3>1. list'[q] = History
      BY <2>1 DEF OpenRoom, Reload, FInv, TypeOK
    <3> QED BY <1>3, <3>1, ReloadCovers DEF InList
  <2>2. CASE ~OpenRoom(q) /\ ~HandleStep(q)
    <3>1. Looks(q) /\ q \in inRoom
      BY <2>2, LooksKept
    <3>2. list'[q] = list[q] /\ q \notin searching /\ missed[q] \subseteq missed'[q]
      BY <2>2, ListKept
    <3>3. InList(i, q) \/ Pending(q, "room_msg", i) \/ i \in missed[q]
      BY <1>3, <3>1, <3>2, WayIsPending DEF NothingVanishes
    <3>4. Pending(q, "room_msg", i) => Pending(q, "room_msg", i)' \/ i \in missed'[q]
      BY <2>2, <3>1, PendingKept
    <3> QED BY <3>2, <3>3, <3>4 DEF InList
  <2>3. CASE ~OpenRoom(q) /\ HandleStep(q)
    <3>1. Looks(q) /\ q \in inRoom /\ view[q] = "room"
      BY <2>3, LooksKept DEF Looks
    <3>2. CASE HandleDeleted(q)
      <4>1. list'[q] = History
        BY <3>1, <3>2 DEF HandleDeleted, Reload, FInv, TypeOK
      <4> QED BY <1>3, <4>1, ReloadCovers DEF InList
    <3>3. CASE HandleMessage(q) \/ HandleNotify(q)
      <4>1. q \notin searching /\ missed' = missed
        BY <3>3 DEF HandleMessage, HandleNotify
      <4>2. InList(i, q) \/ Pending(q, "room_msg", i) \/ i \in missed[q]
        BY <1>3, <3>1, <4>1, WayIsPending DEF NothingVanishes
      <4>3. Pending(q, "room_msg", i) =>
               \/ Pending(q, "room_msg", i)' \/ i \in missed'[q]
               \/ Head(inbox[q]).kind = "room_msg" /\ Head(inbox[q]).id = i
        BY <3>1, PendingKept
      <4>4. CASE HandleMessage(q)
        <5> DEFINE entry == [id |-> Head(inbox[q]).id, gone |-> Head(inbox[q]).gone]
        <5>1. list'[q] = Append(list[q], entry) /\ list[q] \in Seq(Shown)
          BY <4>4 DEF HandleMessage, FInv, TypeOK
        <5>2. entry.id = Head(inbox[q]).id
          OBVIOUS
        <5> HIDE DEF entry
        <5>3. /\ Len(list'[q]) = Len(list[q]) + 1 /\ Len(list[q]) \in Nat
              /\ list'[q][Len(list[q]) + 1] = entry
              /\ \A j \in 1 .. Len(list[q]) : list'[q][j] = list[q][j]
          BY <5>1
        <5>4. InList(i, q) => InList(i, q)'
          BY <5>3 DEF InList
        <5>5. Head(inbox[q]).id = i => InList(i, q)'
          BY <5>2, <5>3 DEF InList
        <5> QED BY <4>1, <4>2, <4>3, <5>4, <5>5
      <4>5. CASE HandleNotify(q)
        <5>1. list' = list /\ Head(inbox[q]).kind = "notify"
          BY <4>5 DEF HandleNotify, Take
        <5>2. InList(i, q) => InList(i, q)'
          BY <5>1 DEF InList
        <5> QED BY <4>1, <4>2, <4>3, <5>1, <5>2
      <4> QED BY <3>3, <4>4, <4>5
    <3> QED BY <2>3, <3>2, <3>3 DEF HandleStep
  <2> QED BY <2>1, <2>2, <2>3
<1> QED BY <1>2, <1>3

\* No message falls between the history a session reads and the events it
\* receives (app.go:275-286, 597-603, 626-628), for any number of sessions.
THEOREM NoneVanishes == Spec => []NothingVanishes
<1>1. Init => NothingVanishes
  BY DEF Init, NothingVanishes, Looks
<1>2. FInv /\ NothingVanishes /\ [Next]_vars => NothingVanishes'
  <2>1. UNCHANGED vars /\ NothingVanishes => NothingVanishes'
    BY DEF vars, NothingVanishes, Looks, Ids, InList, OnItsWay
  <2> QED BY <2>1, VanishStep
<1> QED BY <1>1, <1>2, AlwaysFInv, PTL DEF Spec

-----------------------------------------------------------------------------
(* Tombstones                                                              *)

\* A publication that has still to reach somebody is being sent, and a
\* msg_deleted event names no message.
LEMMA ComingIsPending ==
    ASSUME FInv, NEW q \in Sessions
    PROVE  DeletionComing(q) <=> Pending(q, "msg_deleted", Deletion)
<1>1. \A a \in Sessions : q \in to[a] => at[a] = "sending"
  BY DEF FInv, NothingLeft
<1>2. \A a \in Sessions : event[a].kind = "msg_deleted" => event[a].id = 0
  BY DEF FInv, AllProper, Proper
<1>3. \A j \in 1 .. Len(inbox[q]) : inbox[q][j].kind = "msg_deleted" => inbox[q][j].id = 0
  BY DEF FInv, AllProper, Proper
<1> QED BY <1>1, <1>2, <1>3 DEF DeletionComing, Pending

\* A list just read from the store shows what is deleted as deleted.
LEMMA ReloadMarks ==
    ASSUME FInv, NEW j \in 1 .. Len(History), History[j].id \in deleted
    PROVE  History[j].gone
<1> DEFINE n == IF Len(author) < HistoryLimit THEN Len(author) ELSE HistoryLimit
<1>1. n \in Nat
  BY Bounds DEF FInv, TypeOK
<1>2. History = [k \in 1 .. n |-> Row(Len(author) - n + k)]
  BY DEF History
<1> HIDE DEF n
<1>3. Len(History) = n
  BY <1>1, <1>2
<1>4. History[j] = Row(Len(author) - n + j)
  BY <1>2, <1>3
<1>5. \A k : Row(k).id = k /\ (Row(k).gone <=> k \in deleted)
  BY Zenon DEF Row
<1> QED BY <1>4, <1>5, Zenon

LEMMA TombstoneStep == FInv /\ FInv' /\ TombstoneShown /\ Next => TombstoneShown'
<1> SUFFICES ASSUME FInv, FInv', TombstoneShown, Next,
                    NEW q \in Sessions, Looks(q)', q \notin searching',
                    NEW j \in 1 .. Len(list'[q]),
                    list'[q][j].id \in deleted', ~list'[q][j].gone
             PROVE  \/ DeletionComing(q)' \/ Deletion \in missed'[q]
                    \/ list'[q][j].id \in stale'[q]
  BY DEF TombstoneShown
<1>1. CASE \E s \in Sessions : \E i \in Ids : Delete(s, i)
  <2>1. PICK s \in Sessions : \E i \in Ids : Delete(s, i)
    BY <1>1
  <2>2. event'[s] = NoEvent /\ at'[s] = "publish"
    BY <2>1 DEF Delete, FInv, TypeOK
  <2>3. event'[s].kind = "msg_deleted"
    BY <2>2 DEF NoEvent, NewEvent
  <2> QED BY <2>2, <2>3 DEF DeletionComing
<1>2. CASE ~\E s \in Sessions : \E i \in Ids : Delete(s, i)
  <2>1. deleted' = deleted
    <3>1. ASSUME NEW s \in Sessions, NEW mentions \in SUBSET Users, SendInsert(s, mentions)
          PROVE  deleted' = deleted
      BY <3>1 DEF SendInsert
    <3> QED BY <1>2, <3>1, TableKept
  <2>2. CASE list'[q] = History
    BY <2>1, <2>2, ReloadMarks
  <2>3. CASE OpenRoom(q) \/ HandleDeleted(q)
    <3>1. ~OpenRoom(q) => view[q] = "room"
      BY LooksKept DEF Looks
    <3>2. list'[q] = History
      BY <2>3, <3>1 DEF OpenRoom, HandleDeleted, Reload, FInv, TypeOK
    <3> QED BY <2>2, <3>2
  <2>4. CASE ~OpenRoom(q) /\ ~HandleDeleted(q)
    <3>1. Looks(q) /\ q \in inRoom
      BY <2>4, LooksKept
    <3>2. Pending(q, "msg_deleted", Deletion) =>
             Pending(q, "msg_deleted", Deletion)' \/ Deletion \in missed'[q]
      <4>1. HandleStep(q) => Head(inbox[q]).kind # "msg_deleted"
        BY <2>4 DEF HandleStep, HandleMessage, HandleNotify, Take
      <4> QED BY <3>1, <4>1, PendingKept
    <3>3. DeletionComing(q) => DeletionComing(q)' \/ Deletion \in missed'[q]
      <4>1. DeletionComing(q)' <=> Pending(q, "msg_deleted", Deletion)'
        <5>1. \A a \in Sessions : q \in to'[a] => at'[a] = "sending"
          BY DEF FInv, NothingLeft
        <5>2. \A a \in Sessions : event'[a].kind = "msg_deleted" => event'[a].id = 0
          BY DEF FInv, AllProper, Proper
        <5>3. \A k \in 1 .. Len(inbox'[q]) : inbox'[q][k].kind = "msg_deleted" => inbox'[q][k].id = 0
          BY DEF FInv, AllProper, Proper
        <5> QED BY <5>1, <5>2, <5>3 DEF DeletionComing, Pending
      <4> QED BY <3>2, <4>1, ComingIsPending
    <3>4. CASE HandleMessage(q)
      <4> DEFINE ev == Head(inbox[q])
                 entry == [id |-> ev.id, gone |-> ev.gone]
      <4>1. /\ list'[q] = Append(list[q], entry) /\ list[q] \in Seq(Shown)
            /\ stale'[q] = IF ev.id \in deleted /\ ~ev.gone THEN stale[q] \union {ev.id} ELSE stale[q]
            /\ q \notin searching /\ missed' = missed
        BY <3>4 DEF HandleMessage, FInv, TypeOK
      <4>2. entry.id = ev.id /\ entry.gone = ev.gone
        OBVIOUS
      <4> HIDE DEF entry, ev
      <4>3. /\ Len(list'[q]) = Len(list[q]) + 1 /\ Len(list[q]) \in Nat
            /\ list'[q][Len(list[q]) + 1] = entry
            /\ \A k \in 1 .. Len(list[q]) : list'[q][k] = list[q][k]
        BY <4>1
      <4>4. CASE j = Len(list[q]) + 1
        BY <2>1, <4>1, <4>2, <4>3, <4>4
      <4>5. CASE j # Len(list[q]) + 1
        <5>1. j \in 1 .. Len(list[q]) /\ list'[q][j] = list[q][j]
          BY <4>3, <4>5
        <5>2. DeletionComing(q) \/ Deletion \in missed[q] \/ list[q][j].id \in stale[q]
          BY <2>1, <3>1, <4>1, <5>1 DEF TombstoneShown
        <5> QED BY <3>3, <4>1, <5>1, <5>2
      <4> QED BY <4>4, <4>5
    <3>5. CASE ~HandleMessage(q)
      <4>1. list'[q] = list[q] /\ q \notin searching /\ stale'[q] = stale[q] /\ missed[q] \subseteq missed'[q]
        <5>1. CASE HandleNotify(q)
          BY <5>1 DEF HandleNotify
        <5>2. CASE ~HandleNotify(q)
          BY <2>4, <3>5, <5>2, ListKept DEF HandleStep
        <5> QED BY <5>1, <5>2
      <4>2. DeletionComing(q) \/ Deletion \in missed[q] \/ list[q][j].id \in stale[q]
        BY <2>1, <3>1, <4>1 DEF TombstoneShown
      <4> QED BY <3>3, <4>1, <4>2
    <3> QED BY <3>4, <3>5
  <2> QED BY <2>3, <2>4
<1> QED BY <1>1, <1>2

\* Whoever shows the room sees a deleted message as deleted, or the event that
\* tells of the deletion is coming, was dropped, or came first
\* (app.go:597-603, 660-669; commands.go:259-284).
THEOREM TombstonesShown == Spec => []TombstoneShown
<1>1. Init => TombstoneShown
  BY DEF Init, TombstoneShown, Looks
<1>2. FInv /\ FInv' /\ TombstoneShown /\ [Next]_vars => TombstoneShown'
  <2>1. UNCHANGED vars /\ TombstoneShown => TombstoneShown'
    BY DEF vars, TombstoneShown, Looks, DeletionComing
  <2> QED BY <2>1, TombstoneStep
<1> QED BY <1>1, <1>2, AlwaysFInv, PTL DEF Spec

-----------------------------------------------------------------------------
(* Notifications                                                           *)

\* Who marks a room as read, and what that leaves.
LEMMA MarksKept ==
    ASSUME FInv, Next, NEW q \in Sessions, Looks(q)', at'[q] # "mark", ~MarkRead(q), ~HandleMessage(q)
    PROVE  Looks(q) /\ q \in inRoom /\ at[q] # "mark" /\ unmarked[q] \subseteq unmarked'[q]
<1>1. ~OpenRoom(q)
  BY DEF OpenRoom, FInv, TypeOK
<1>2. Looks(q) /\ q \in inRoom
  BY <1>1, LooksKept
<1>3. PICK s \in Sessions :
          QuietStep(s) \/ Publish(s) \/ (\E r \in Sessions : Deliver(s, r)) \/ HandleStep(s)
  BY Steps
<1> USE DEF FInv, TypeOK
<1>4. CASE Connect(s) \/ Subscribe(s) \/ JoinRoom(s) \/ FirstElsewhere(s)
  BY <1>2, <1>4 DEF Connect, Subscribe, JoinRoom, FirstElsewhere
<1>5. CASE OpenRoom(s) \/ MarkRead(s) \/ LookAway(s)
  <2>1. s # q \/ LookAway(s)
    BY <1>1, <1>5
  <2> QED BY <1>2, <1>5, <2>1 DEF OpenRoom, MarkRead, LookAway
<1>6. CASE \E found \in SUBSET Ids : Search(s, found)
  BY <1>2, <1>6 DEF Search
<1>7. CASE \E mentions \in SUBSET Users : SendInsert(s, mentions)
  BY <1>2, <1>7 DEF SendInsert
<1>8. CASE \E i \in Ids : Delete(s, i)
  BY <1>2, <1>8 DEF Delete
<1>9. CASE (\E u \in Users : NotifyUser(s, u)) \/ Return(s) \/ Publish(s)
  BY <1>2, <1>9 DEF NotifyUser, Return, Publish
<1>10. CASE \E r \in Sessions : Deliver(s, r)
  BY <1>2, <1>10 DEF Deliver
<1>11. CASE HandleStep(s)
  <2>1. CASE HandleMessage(s)
    <3>1. s # q
      BY <2>1
    <3> QED BY <1>2, <2>1, <3>1 DEF HandleMessage
  <2>2. CASE HandleNotify(s) \/ HandleDeleted(s)
    BY <1>2, <2>2 DEF HandleNotify, HandleDeleted
  <2> QED BY <1>11, <2>1, <2>2 DEF HandleStep
<1> QED BY <1>2, <1>3, <1>4, <1>5, <1>6, <1>7, <1>8, <1>9, <1>10, <1>11 DEF QuietStep

LEMMA ReadStep == FInv /\ ReadWhenShown /\ Next => ReadWhenShown'
<1> SUFFICES ASSUME FInv, ReadWhenShown, Next,
                    NEW q \in Sessions, Looks(q)', at'[q] # "mark",
                    NEW i \in Ids', <<UserOf[q], i>> \in notes'
             PROVE  Pending(q, "room_msg", i)' \/ i \in unmarked'[q]
  BY DEF ReadWhenShown, OnItsWay, Pending
<1>1. CASE MarkRead(q)
  BY <1>1 DEF MarkRead, AfterRead
<1>2. CASE HandleMessage(q)
  <2>1. ~OpenRoom(q)
    BY DEF OpenRoom, FInv, TypeOK
  <2>2. view[q] = "room"
    BY <2>1, LooksKept DEF Looks
  <2> QED BY <1>2, <2>2 DEF HandleMessage, AfterRead
<1>3. CASE ~MarkRead(q) /\ ~HandleMessage(q)
  <2>1. Looks(q) /\ q \in inRoom /\ at[q] # "mark" /\ unmarked[q] \subseteq unmarked'[q]
    BY <1>3, MarksKept
  <2>2. (i \in Ids /\ <<UserOf[q], i>> \in notes) \/ Pending(q, "room_msg", i)'
    <3>1. CASE author' = author /\ notes' \subseteq notes
      BY <3>1 DEF Ids
    <3>2. ASSUME NEW s \in Sessions, NEW mentions \in SUBSET Users, SendInsert(s, mentions)
          PROVE  (i \in Ids /\ <<UserOf[q], i>> \in notes) \/ Pending(q, "room_msg", i)'
      <4>1. Len(author') = Len(author) + 1 /\ Len(author) \in Nat
        BY <3>2 DEF SendInsert, FInv, TypeOK
      <4>2. CASE i = Len(author) + 1
        BY <3>2, <4>2, SentIsPending
      <4>3. CASE i # Len(author) + 1
        <5>1. i \in Ids
          BY <4>1, <4>3 DEF Ids
        <5>2. <<UserOf[q], i>> \in notes
          BY <3>2, <4>3 DEF SendInsert
        <5> QED BY <5>1, <5>2
      <4> QED BY <4>2, <4>3
    <3> QED BY <3>1, <3>2, TableKept
  <2>3. i \in Ids /\ <<UserOf[q], i>> \in notes => Pending(q, "room_msg", i) \/ i \in unmarked[q]
    BY <2>1, WayIsPending DEF ReadWhenShown
  <2>4. Pending(q, "room_msg", i) => Pending(q, "room_msg", i)' \/ i \in unmarked'[q]
    <3>1. HandleStep(q) => Head(inbox[q]).kind # "room_msg"
      BY <1>3 DEF HandleStep, HandleNotify, HandleDeleted, Take
    <3> QED BY <2>1, <3>1, PendingKept
  <2> QED BY <2>1, <2>2, <2>3, <2>4
<1> QED BY <1>1, <1>2, <1>3

\* Who has the room on the screen has no unread notification of a message whose
\* event has come (app.go:282, 631; store.go:785-789).
THEOREM ReadOnceShown == Spec => []ReadWhenShown
<1>1. Init => ReadWhenShown
  BY DEF Init, ReadWhenShown, Looks
<1>2. FInv /\ ReadWhenShown /\ [Next]_vars => ReadWhenShown'
  <2>1. UNCHANGED vars /\ ReadWhenShown => ReadWhenShown'
    BY DEF vars, ReadWhenShown, Looks, Ids, OnItsWay
  <2> QED BY <2>1, ReadStep
<1> QED BY <1>1, <1>2, AlwaysFInv, PTL DEF Spec

-----------------------------------------------------------------------------
(* What the events say                                                     *)

\* Sending(a, q): the publication of a has not reached q.
Sending(a, q) == at[a] = "publish" \/ q \in to[a]

\* Whom a session has still to notify: the members its message mentions that
\* it has not notified, and whoever it is notifying now is none of them.
Telling ==
    \A a \in Sessions :
        /\ at[a] \notin {"publish", "sending"} => notified[a] = {}
        /\ at[a] = "publish" => event[a].kind # "notify"
        /\ event[a].kind = "msg_deleted" => notified[a] = {}
        /\ event[a].kind = "room_msg" => notified[a] \subseteq event[a].mset
        /\ event[a].kind = "notify" => \A r \in to[a] : UserOf[r] \notin notified[a]

\* Events and lists are about messages of the room, and a session publishes
\* the messages it sent.
Written ==
    \A s \in Sessions :
        /\ event[s].kind # "msg_deleted" => event[s].id \in Ids /\ author[event[s].id] = s
        /\ \A j \in 1 .. Len(inbox[s]) : inbox[s][j].kind # "msg_deleted" => inbox[s][j].id \in Ids
        /\ \A j \in 1 .. Len(list[s]) : list[s][j].id \in Ids

\* No message is removed and none changes its author.
LEMMA AuthorsKept ==
    ASSUME FInv, Next
    PROVE  /\ Len(author) \in Nat /\ Len(author') \in Nat /\ Len(author) =< Len(author')
           /\ \A i \in Ids : i \in Ids' /\ author'[i] = author[i]
<1>1. Len(author) \in Nat /\ author \in Seq(Sessions)
  BY DEF FInv, TypeOK
<1>2. ASSUME NEW s \in Sessions, NEW mentions \in SUBSET Users, SendInsert(s, mentions)
      PROVE  author' = Append(author, s)
  BY <1>2 DEF SendInsert
<1>3. CASE author' = author
  BY <1>1, <1>3 DEF Ids
<1>4. CASE \E s \in Sessions : author' = Append(author, s)
  BY <1>1, <1>4 DEF Ids
<1> QED BY <1>2, <1>3, <1>4, TableKept

\* What a step does to the publication of a: it goes on, it ends or becomes a
\* deletion, it goes over to the next user, or it begins.
LEMMA EventMoves ==
    ASSUME FInv, Telling, Next, NEW a \in Sessions
    PROVE  \/ /\ event'[a].kind = event[a].kind /\ event'[a].id = event[a].id
              /\ event'[a].mset = event[a].mset /\ notified'[a] = notified[a]
              /\ \A q \in Sessions : Sending(a, q)' => Sending(a, q)
              /\ at'[a] = "publish" => at[a] = "publish"
           \/ event'[a].kind = "msg_deleted" /\ notified'[a] = {}
           \/ \E u \in Users : NotifyUser(a, u)
           \/ \E mentions \in SUBSET Users : SendInsert(a, mentions)
<1>1. PICK s \in Sessions :
          QuietStep(s) \/ Publish(s) \/ (\E r \in Sessions : Deliver(s, r)) \/ HandleStep(s)
  BY Steps
<1> DEFINE Still == /\ event'[a] = event[a] /\ notified'[a] = notified[a] /\ to'[a] \subseteq to[a]
                    /\ at'[a] = "publish" => at[a] = "publish"
<1>0. Still => /\ event'[a].kind = event[a].kind /\ event'[a].id = event[a].id
               /\ event'[a].mset = event[a].mset /\ notified'[a] = notified[a]
               /\ \A q \in Sessions : Sending(a, q)' => Sending(a, q)
               /\ at'[a] = "publish" => at[a] = "publish"
  BY DEF Sending
<1> USE DEF FInv, TypeOK
<1>2. CASE \/ Connect(s) \/ Subscribe(s) \/ JoinRoom(s) \/ FirstElsewhere(s)
  <2>1. Still
    BY <1>2 DEF Connect, Subscribe, JoinRoom, FirstElsewhere
  <2> QED BY <1>0, <2>1
<1>3. CASE OpenRoom(s) \/ MarkRead(s) \/ LookAway(s)
  <2>1. Still
    BY <1>3 DEF OpenRoom, MarkRead, LookAway
  <2> QED BY <1>0, <2>1
<1>4. CASE \E found \in SUBSET Ids : Search(s, found)
  <2>1. Still
    BY <1>4 DEF Search
  <2> QED BY <1>0, <2>1
<1>10. CASE \E r \in Sessions : Deliver(s, r)
  <2>1. Still
    BY <1>10 DEF Deliver
  <2> QED BY <1>0, <2>1
<1>11. CASE HandleStep(s)
  <2>1. Still
    BY <1>11 DEF HandleStep, HandleMessage, HandleNotify, HandleDeleted
  <2> QED BY <1>0, <2>1
<1>5. CASE \E mentions \in SUBSET Users : SendInsert(s, mentions)
  <2>1. a # s => Still
    BY <1>5 DEF SendInsert
  <2> QED BY <1>0, <1>5, <2>1
<1>6. CASE \E i \in Ids : Delete(s, i)
  <2>1. a # s => Still
    BY <1>6 DEF Delete
  <2>2. a = s => event'[a] = NoEvent /\ notified'[a] = {}
    BY <1>6 DEF Delete, Telling
  <2>3. NoEvent.kind = "msg_deleted"
    BY DEF NoEvent, NewEvent
  <2> QED BY <1>0, <2>1, <2>2, <2>3
<1>7. CASE \E u \in Users : NotifyUser(s, u)
  <2>1. a # s => Still
    BY <1>7 DEF NotifyUser
  <2> QED BY <1>0, <1>7, <2>1
<1>8. CASE Return(s)
  <2>1. a # s => Still
    BY <1>8 DEF Return
  <2>2. a = s => event'[a] = NoEvent /\ notified'[a] = {}
    BY <1>8 DEF Return
  <2>3. NoEvent.kind = "msg_deleted"
    BY DEF NoEvent, NewEvent
  <2> QED BY <1>0, <2>1, <2>2, <2>3
<1>9. CASE Publish(s)
  <2>1. /\ event' = [event EXCEPT ![s].gone = event[s].id \in deleted] /\ at[s] = "publish"
        /\ at' = [at EXCEPT ![s] = "sending"] /\ to' = [to EXCEPT ![s] = inRoom]
        /\ notified' = notified
    BY <1>9 DEF Publish, Recipients
  <2>2. /\ event'[a].kind = event[a].kind /\ event'[a].id = event[a].id
        /\ event'[a].mset = event[a].mset
    BY <2>1 DEF Events
  <2>3. at'[a] = "publish" => at[a] = "publish"
    BY <2>1
  <2>4. \A q \in Sessions : Sending(a, q)' => Sending(a, q)
    BY <2>1 DEF Sending
  <2> QED BY <2>1, <2>2, <2>3, <2>4
<1> QED BY <1>1, <1>2, <1>3, <1>4, <1>5, <1>6, <1>7, <1>8, <1>9, <1>10, <1>11 DEF QuietStep

\* What a step does to the channel of q: nothing, one event more at the end,
\* or one less at the front.
LEMMA InboxMoves ==
    ASSUME FInv, Next, NEW q \in Sessions
    PROVE  \/ inbox'[q] = inbox[q]
           \/ \E a \in Sessions :
                 /\ Deliver(a, q) /\ author' = author
                 /\ Len(inbox'[q]) = Len(inbox[q]) + 1
                 /\ inbox'[q][Len(inbox[q]) + 1] = event[a]
                 /\ \A j \in 1 .. Len(inbox[q]) : inbox'[q][j] = inbox[q][j]
           \/ /\ HandleStep(q) /\ author' = author
              /\ Len(inbox[q]) > 0 /\ Len(inbox'[q]) = Len(inbox[q]) - 1
              /\ \A j \in 1 .. Len(inbox'[q]) : inbox'[q][j] = inbox[q][j + 1]
              /\ Head(inbox[q]) = inbox[q][1]
<1>1. PICK s \in Sessions :
          QuietStep(s) \/ Publish(s) \/ (\E r \in Sessions : Deliver(s, r)) \/ HandleStep(s)
  BY Steps
<1>2. CASE QuietStep(s) \/ Publish(s)
  BY <1>2, QuietSteps DEF Quiet, Publish
<1>3. ASSUME NEW r \in Sessions, Deliver(s, r), inbox'[q] # inbox[q]
      PROVE  /\ Deliver(s, q) /\ author' = author
             /\ Len(inbox'[q]) = Len(inbox[q]) + 1
             /\ inbox'[q][Len(inbox[q]) + 1] = event[s]
             /\ \A j \in 1 .. Len(inbox[q]) : inbox'[q][j] = inbox[q][j]
  <2>1. inbox' = [inbox EXCEPT ![r] = Offer(@, event[s])] /\ author' = author
    BY <1>3 DEF Deliver
  <2>2. r = q /\ inbox'[q] = Offer(inbox[q], event[s])
    BY <1>3, <2>1 DEF FInv, TypeOK
  <2>3. inbox'[q] = Append(inbox[q], event[s])
    BY <1>3, <2>2 DEF Offer
  <2>4. inbox[q] \in Seq(Events) /\ event[s] \in Events
    BY DEF FInv, TypeOK
  <2> QED BY <1>3, <2>1, <2>2, <2>3, <2>4
<1>4. CASE HandleStep(s)
  <2>1. PICK k \in {"room_msg", "notify", "msg_deleted"} : Take(s, k) /\ author' = author
    BY <1>4 DEF HandleStep, HandleMessage, HandleNotify, HandleDeleted
  <2>2. /\ \A p \in Sessions : p # s => inbox'[p] = inbox[p]
        /\ Len(inbox[s]) > 0 /\ Len(inbox'[s]) = Len(inbox[s]) - 1
        /\ \A j \in 1 .. Len(inbox'[s]) : inbox'[s][j] = inbox[s][j + 1]
        /\ Head(inbox[s]) = inbox[s][1]
    BY <2>1, TakeTypes, ZenonT(40)
  <2> QED BY <1>4, <2>1, <2>2
<1> QED BY <1>1, <1>2, <1>3, <1>4

LEMMA InitTold == Init => Telling /\ Written
<1> SUFFICES ASSUME Init PROVE Telling /\ Written
  OBVIOUS
<1>1. NoEvent.kind = "msg_deleted"
  BY DEF NoEvent, NewEvent
<1> QED BY <1>1 DEF Init, Telling, Written

\* Only Return ends a publication, and then nobody is left to notify.
LEMMA EndsEmpty ==
    ASSUME FInv, Next, NEW a \in Sessions,
           at[a] \in {"publish", "sending"}, at'[a] \notin {"publish", "sending"}
    PROVE  notified'[a] = {}
<1>1. PICK s \in Sessions :
          QuietStep(s) \/ Publish(s) \/ (\E r \in Sessions : Deliver(s, r)) \/ HandleStep(s)
  BY Steps
<1> USE DEF FInv, TypeOK
<1>2. CASE \/ Connect(s) \/ Subscribe(s) \/ JoinRoom(s) \/ FirstElsewhere(s)
  BY <1>2 DEF Connect, Subscribe, JoinRoom, FirstElsewhere
<1>3. CASE OpenRoom(s) \/ MarkRead(s) \/ LookAway(s)
  BY <1>3 DEF OpenRoom, MarkRead, LookAway
<1>4. CASE \/ \E found \in SUBSET Ids : Search(s, found)
           \/ \E mentions \in SUBSET Users : SendInsert(s, mentions)
           \/ \E i \in Ids : Delete(s, i)
  BY <1>4 DEF Search, SendInsert, Delete
<1>5. CASE (\E u \in Users : NotifyUser(s, u)) \/ Publish(s) \/ (\E r \in Sessions : Deliver(s, r))
  BY <1>5 DEF NotifyUser, Publish, Deliver
<1>6. CASE Return(s)
  BY <1>6 DEF Return
<1>7. CASE HandleStep(s)
  BY <1>7 DEF HandleStep, HandleMessage, HandleNotify, HandleDeleted
<1> QED BY <1>1, <1>2, <1>3, <1>4, <1>5, <1>6, <1>7 DEF QuietStep

LEMMA TellingStep == FInv /\ Telling /\ Next => Telling'
<1> SUFFICES ASSUME FInv, Telling, Next, NEW a \in Sessions
             PROVE  /\ at'[a] \notin {"publish", "sending"} => notified'[a] = {}
                    /\ at'[a] = "publish" => event'[a].kind # "notify"
                    /\ event'[a].kind = "msg_deleted" => notified'[a] = {}
                    /\ event'[a].kind = "room_msg" => notified'[a] \subseteq event'[a].mset
                    /\ event'[a].kind = "notify" => \A r \in to'[a] : UserOf[r] \notin notified'[a]
  BY DEF Telling
<1>0. to'[a] \in SUBSET Sessions
  BY NextInv DEF FInv, TypeOK
<1>1. CASE /\ event'[a].kind = event[a].kind /\ event'[a].id = event[a].id
           /\ event'[a].mset = event[a].mset /\ notified'[a] = notified[a]
           /\ \A q \in Sessions : Sending(a, q)' => Sending(a, q)
           /\ at'[a] = "publish" => at[a] = "publish"
  <2>1. at'[a] \notin {"publish", "sending"} => notified'[a] = {}
    <3>1. at[a] \notin {"publish", "sending"} => notified'[a] = {}
      BY <1>1 DEF Telling
    <3> QED BY <3>1, EndsEmpty
  <2>2. event'[a].kind = "notify" => \A r \in to'[a] : r \in to[a]
    BY <1>0, <1>1 DEF Telling, Sending
  <2> QED BY <1>1, <2>1, <2>2 DEF Telling
<1>2. CASE event'[a].kind = "msg_deleted" /\ notified'[a] = {}
  BY <1>2
<1>3. CASE \E u \in Users : NotifyUser(a, u)
  <2>1. PICK u \in Users : NotifyUser(a, u)
    BY <1>3
  <2>2. /\ event'[a] = NewEvent("notify", event[a].id, FALSE, {}) /\ at'[a] = "sending"
        /\ to'[a] = {r \in users : UserOf[r] = u} /\ notified'[a] = notified[a] \ {u}
    BY <2>1 DEF NotifyUser, FInv, TypeOK
  <2>3. event'[a].kind = "notify"
    BY <2>2 DEF NewEvent
  <2> QED BY <2>2, <2>3
<1>4. CASE \E mentions \in SUBSET Users : SendInsert(a, mentions)
  <2>1. PICK mentions \in SUBSET Users : SendInsert(a, mentions)
    BY <1>4
  <2>2. /\ event'[a] = NewEvent("room_msg", Len(author) + 1, FALSE, mentions \ {UserOf[a]})
        /\ at'[a] = "publish" /\ notified'[a] = mentions \ {UserOf[a]}
    BY <2>1 DEF SendInsert, FInv, TypeOK
  <2>3. event'[a].kind = "room_msg" /\ event'[a].mset = mentions \ {UserOf[a]}
    BY <2>2 DEF NewEvent
  <2> QED BY <2>2, <2>3
<1> QED BY <1>1, <1>2, <1>3, <1>4, EventMoves

\* The messages a list has are those it had, those of the table, or the one of
\* the event just handled.
LEMMA ListIds ==
    ASSUME FInv, Written, Next, NEW q \in Sessions, NEW j \in 1 .. Len(list'[q])
    PROVE  list'[q][j].id \in Ids
<1>1. PICK s \in Sessions :
          QuietStep(s) \/ Publish(s) \/ (\E r \in Sessions : Deliver(s, r)) \/ HandleStep(s)
  BY Steps
<1>2. CASE list'[q] = list[q]
  BY <1>2 DEF Written
<1>3. CASE list'[q] = History
  <2> DEFINE n == IF Len(author) < HistoryLimit THEN Len(author) ELSE HistoryLimit
  <2>1. Len(author) \in Nat /\ n \in Nat /\ n =< Len(author)
    BY Bounds DEF FInv, TypeOK
  <2>2. History = [k \in 1 .. n |-> Row(Len(author) - n + k)]
    BY DEF History
  <2> HIDE DEF n
  <2>3. j \in 1 .. n /\ list'[q][j].id = Len(author) - n + j
    BY <1>3, <2>1, <2>2 DEF Row
  <2> QED BY <2>1, <2>3 DEF Ids
<1> USE DEF FInv, TypeOK
<1>4. CASE \/ Connect(s) \/ Subscribe(s) \/ JoinRoom(s) \/ FirstElsewhere(s)
           \/ MarkRead(s) \/ LookAway(s)
  BY <1>2, <1>4 DEF Connect, Subscribe, JoinRoom, FirstElsewhere, MarkRead, LookAway
<1>5. CASE OpenRoom(s)
  BY <1>2, <1>3, <1>5 DEF OpenRoom, Reload
<1>6. ASSUME NEW found \in SUBSET Ids, Search(s, found)
      PROVE  list'[q][j].id \in Ids
  <2>1. PICK ids \in NewestFirst(found) :
            list' = [list EXCEPT ![s] = [k \in 1 .. Cardinality(found) |-> Row(ids[k])]]
    BY <1>6 DEF Search
  <2> DEFINE m == Cardinality(found)
  <2>2. ids \in [1 .. m -> found]
    BY <2>1 DEF NewestFirst
  <2>3. m \in Nat
    <3>1. Len(author) \in Nat /\ found \subseteq 1 .. Len(author)
      BY DEF Ids
    <3>2. m \in 0 .. Len(author)
      BY <3>1, CountTypes
    <3> QED BY <3>1, <3>2
  <2> HIDE DEF m
  <2>4. CASE q = s
    <3>1. list'[q] = [k \in 1 .. m |-> Row(ids[k])]
      BY <2>1, <2>4 DEF m
    <3>2. j \in 1 .. m /\ list'[q][j] = Row(ids[j])
      BY <2>3, <3>1
    <3>3. list'[q][j].id = ids[j]
      BY <3>2 DEF Row
    <3> QED BY <2>2, <3>2, <3>3
  <2>5. CASE q # s
    BY <1>2, <2>1, <2>5
  <2> QED BY <2>4, <2>5
<1>7. CASE \/ \E mentions \in SUBSET Users : SendInsert(s, mentions)
           \/ \E i \in Ids : Delete(s, i)
           \/ (\E u \in Users : NotifyUser(s, u)) \/ Return(s) \/ Publish(s)
           \/ \E r \in Sessions : Deliver(s, r)
  BY <1>2, <1>7 DEF SendInsert, Delete, NotifyUser, Return, Publish, Deliver
<1>8. CASE HandleMessage(s)
  <2> DEFINE entry == [id |-> Head(inbox[s]).id, gone |-> Head(inbox[s]).gone]
  <2>1. Take(s, "room_msg") /\ list' = [list EXCEPT ![s] = Append(@, entry)]
    BY <1>8 DEF HandleMessage
  <2>2. entry.id = Head(inbox[s]).id
    OBVIOUS
  <2> HIDE DEF entry
  <2>3. entry.id \in Ids
    <3>1. /\ Head(inbox[s]) = inbox[s][1] /\ inbox[s][1].kind = "room_msg" /\ Len(inbox[s]) > 0
      BY <2>1, TakeTypes, Zenon
    <3>2. 1 \in 1 .. Len(inbox[s])
      BY <3>1
    <3> QED BY <2>2, <3>1, <3>2 DEF Written
  <2>4. CASE q = s
    <3>1. list'[q] = Append(list[q], entry) /\ list[q] \in Seq(Shown)
      BY <2>1, <2>4
    <3>2. (j \in 1 .. Len(list[q]) /\ list'[q][j] = list[q][j]) \/ list'[q][j] = entry
      BY <3>1
    <3> QED BY <2>3, <3>2 DEF Written
  <2>5. CASE q # s
    BY <1>2, <2>1, <2>5
  <2> QED BY <2>4, <2>5
<1>9. CASE HandleNotify(s) \/ HandleDeleted(s)
  BY <1>2, <1>3, <1>9 DEF HandleNotify, HandleDeleted, Reload
<1> QED BY <1>1, <1>4, <1>5, <1>6, <1>7, <1>8, <1>9 DEF QuietStep, HandleStep

\* NotifyUser goes on with the message the session sent.
LEMMA NotifiesSame ==
    ASSUME FInv, Telling, NEW a \in Sessions, NEW u \in Users, NotifyUser(a, u)
    PROVE  /\ event[a].kind # "msg_deleted" /\ u \in notified[a] /\ at[a] = "sending" /\ to[a] = {}
           /\ event'[a].kind = "notify" /\ event'[a].id = event[a].id /\ event'[a].mset = {}
           /\ notified'[a] = notified[a] \ {u} /\ at'[a] = "sending"
           /\ \A r \in to'[a] : UserOf[r] = u
<1>1. /\ event'[a] = NewEvent("notify", event[a].id, FALSE, {}) /\ at'[a] = "sending"
      /\ to'[a] = {r \in users : UserOf[r] = u} /\ notified'[a] = notified[a] \ {u}
      /\ u \in notified[a] /\ at[a] = "sending" /\ to[a] = {}
  BY DEF NotifyUser, FInv, TypeOK
<1> QED BY <1>1 DEF NewEvent, Telling

\* A message that is sent is the newest of the room.
LEMMA SendsNew ==
    ASSUME FInv, NEW s \in Sessions, NEW mentions \in SUBSET Users, SendInsert(s, mentions)
    PROVE  /\ event'[s].kind = "room_msg" /\ event'[s].id = Len(author) + 1
           /\ event'[s].mset = mentions \ {UserOf[s]}
           /\ notified'[s] = mentions \ {UserOf[s]}
           /\ Len(author) \in Nat /\ Len(author') = Len(author) + 1
           /\ author'[Len(author) + 1] = s
           /\ inbox' = inbox /\ list' = list /\ unread' = unread /\ raised' = raised
           /\ \A a \in Sessions \ {s} : /\ event'[a] = event[a] /\ at'[a] = at[a]
                                        /\ to'[a] = to[a] /\ notified'[a] = notified[a]
<1>1. /\ event' = [event EXCEPT ![s] = NewEvent("room_msg", Len(author) + 1, FALSE, mentions \ {UserOf[s]})]
      /\ at' = [at EXCEPT ![s] = "publish"] /\ notified' = [notified EXCEPT ![s] = mentions \ {UserOf[s]}]
      /\ author' = Append(author, s)
      /\ to' = to /\ inbox' = inbox /\ list' = list /\ unread' = unread /\ raised' = raised
  BY DEF SendInsert
<1>2. event'[s] = NewEvent("room_msg", Len(author) + 1, FALSE, mentions \ {UserOf[s]})
  BY <1>1 DEF FInv, TypeOK
<1>3. /\ event'[s].kind = "room_msg" /\ event'[s].id = Len(author) + 1
      /\ event'[s].mset = mentions \ {UserOf[s]}
  BY <1>2 DEF NewEvent
<1>4. /\ Len(author) \in Nat /\ Len(author') = Len(author) + 1
      /\ author'[Len(author) + 1] = s
  BY <1>1 DEF FInv, TypeOK
<1> QED BY <1>1, <1>3, <1>4 DEF FInv, TypeOK

LEMMA WrittenStep == FInv /\ Telling /\ Written /\ Next => Written'
<1> SUFFICES ASSUME FInv, Telling, Written, Next, NEW s \in Sessions
             PROVE  /\ event'[s].kind # "msg_deleted" =>
                          event'[s].id \in Ids' /\ author'[event'[s].id] = s
                    /\ \A j \in 1 .. Len(inbox'[s]) :
                          inbox'[s][j].kind # "msg_deleted" => inbox'[s][j].id \in Ids'
                    /\ \A j \in 1 .. Len(list'[s]) : list'[s][j].id \in Ids'
  BY DEF Written
<1>1. event'[s].kind # "msg_deleted" => event'[s].id \in Ids' /\ author'[event'[s].id] = s
  <2>1. CASE event'[s].kind = event[s].kind /\ event'[s].id = event[s].id
    BY <2>1, AuthorsKept DEF Written
  <2>2. CASE event'[s].kind = "msg_deleted"
    BY <2>2
  <2>3. CASE \E u \in Users : NotifyUser(s, u)
    BY <2>3, NotifiesSame, AuthorsKept DEF Written
  <2>4. CASE \E mentions \in SUBSET Users : SendInsert(s, mentions)
    BY <2>4, SendsNew DEF Ids
  <2> QED BY <2>1, <2>2, <2>3, <2>4, EventMoves
<1>2. ASSUME NEW j \in 1 .. Len(inbox'[s]), inbox'[s][j].kind # "msg_deleted"
      PROVE  inbox'[s][j].id \in Ids'
  <2>0. Len(inbox[s]) \in Nat
    BY DEF FInv, TypeOK
  <2>4. \A k \in 1 .. Len(inbox[s]) : inbox[s][k].kind # "msg_deleted" => inbox[s][k].id \in Ids'
    BY AuthorsKept DEF Written
  <2>1. CASE inbox'[s] = inbox[s]
    BY <1>2, <2>1, <2>4
  <2>2. ASSUME NEW a \in Sessions,
               Len(inbox'[s]) = Len(inbox[s]) + 1, inbox'[s][Len(inbox[s]) + 1] = event[a],
               \A k \in 1 .. Len(inbox[s]) : inbox'[s][k] = inbox[s][k]
        PROVE  inbox'[s][j].id \in Ids'
    <3>1. j \in 1 .. Len(inbox[s]) \/ j = Len(inbox[s]) + 1
      BY <2>0, <2>2
    <3> QED BY <1>2, <2>2, <2>4, <3>1, AuthorsKept DEF Written
  <2>3. CASE /\ Len(inbox'[s]) = Len(inbox[s]) - 1
             /\ \A k \in 1 .. Len(inbox'[s]) : inbox'[s][k] = inbox[s][k + 1]
    <3>1. j + 1 \in 1 .. Len(inbox[s])
      BY <2>0, <2>3
    <3> QED BY <1>2, <2>3, <2>4, <3>1
  <2> QED BY <2>1, <2>2, <2>3, InboxMoves
<1>3. \A j \in 1 .. Len(list'[s]) : list'[s][j].id \in Ids'
  BY ListIds, AuthorsKept
<1> QED BY <1>1, <1>2, <1>3

-----------------------------------------------------------------------------
(* The order of the events                                                 *)

\* A message of a, and one of a's that has still to reach q.
From(ev, a) == ev.kind = "room_msg" /\ author[ev.id] = a

Coming(a, q) == event[a].kind = "room_msg" /\ Sending(a, q)

\* A channel holds the messages of one session in the order they were sent,
\* and the one that has still to reach it is newer.
Queued ==
    \A q, a \in Sessions : \A k \in 1 .. Len(inbox[q]) : From(inbox[q][k], a) =>
        /\ \A j \in 1 .. (k - 1) : From(inbox[q][j], a) => inbox[q][j].id < inbox[q][k].id
        /\ Coming(a, q) => inbox[q][k].id < event[a].id

LEMMA DeliversTo ==
    ASSUME FInv, NEW a \in Sessions, NEW q \in Sessions, Deliver(a, q)
    PROVE  /\ at[a] = "sending" /\ q \in to[a] /\ to'[a] = to[a] \ {q}
           /\ event' = event /\ at' = at /\ notified' = notified /\ author' = author
           /\ \A b \in Sessions \ {a} : to'[b] = to[b]
           /\ list' = list /\ unread' = unread /\ raised' = raised
BY DEF Deliver, FInv, TypeOK

\* What comes to q was coming, or has just been sent.
LEMMA ComingKept ==
    ASSUME FInv, Telling, Next, NEW a \in Sessions, NEW q \in Sessions, Coming(a, q)'
    PROVE  \/ Coming(a, q) /\ event'[a].id = event[a].id
           \/ event'[a].id = Len(author) + 1 /\ inbox' = inbox /\ list' = list
<1> USE DEF Coming
<1>1. CASE /\ event'[a].kind = event[a].kind /\ event'[a].id = event[a].id
           /\ \A r \in Sessions : Sending(a, r)' => Sending(a, r)
  BY <1>1
<1>2. CASE event'[a].kind = "msg_deleted"
  BY <1>2
<1>3. CASE \E u \in Users : NotifyUser(a, u)
  BY <1>3, NotifiesSame
<1>4. CASE \E mentions \in SUBSET Users : SendInsert(a, mentions)
  BY <1>4, SendsNew
<1> QED BY <1>1, <1>2, <1>3, <1>4, EventMoves

LEMMA QueuedStep == FInv /\ Telling /\ Written /\ Queued /\ Next => Queued'
<1> SUFFICES ASSUME FInv, Telling, Written, Queued, Next,
                    NEW q \in Sessions, NEW a \in Sessions, NEW k \in 1 .. Len(inbox'[q]),
                    From(inbox[q][k], a)'
             PROVE  /\ \A j \in 1 .. (k - 1) :
                          From(inbox[q][j], a)' => inbox'[q][j].id < inbox'[q][k].id
                    /\ Coming(a, q)' => inbox'[q][k].id < event'[a].id
  BY DEF Queued
<1>0. Len(inbox[q]) \in Nat /\ Len(author) \in Nat
  BY DEF FInv, TypeOK
<1>1. \A i \in 1 .. Len(inbox[q]) : inbox[q][i].kind = "room_msg" =>
          inbox[q][i].id \in Ids /\ author'[inbox[q][i].id] = author[inbox[q][i].id]
  BY AuthorsKept DEF Written
<1>2. \A i \in 1 .. Len(inbox[q]) :
          From(inbox[q][i], a) /\ Coming(a, q)' => inbox[q][i].id < event'[a].id
  <2> SUFFICES ASSUME NEW i \in 1 .. Len(inbox[q]), From(inbox[q][i], a), Coming(a, q)'
               PROVE  inbox[q][i].id < event'[a].id
    OBVIOUS
  <2>1. inbox[q][i].id \in Ids
    BY <1>1 DEF From
  <2>2. CASE Coming(a, q) /\ event'[a].id = event[a].id
    BY <2>2 DEF Queued
  <2>3. CASE event'[a].id = Len(author) + 1
    BY <1>0, <2>1, <2>3 DEF Ids
  <2> QED BY <2>2, <2>3, ComingKept
<1>3. CASE inbox'[q] = inbox[q]
  <2>1. \A i \in 1 .. Len(inbox[q]) : From(inbox[q][i], a)' => From(inbox[q][i], a)
    BY <1>1, <1>3 DEF From
  <2>2. k \in 1 .. Len(inbox[q]) /\ \A j \in 1 .. (k - 1) : j \in 1 .. Len(inbox[q])
    BY <1>0, <1>3
  <2>3. From(inbox[q][k], a)
    BY <2>1, <2>2
  <2>4. \A j \in 1 .. (k - 1) : From(inbox[q][j], a)' => inbox[q][j].id < inbox[q][k].id
    BY <2>1, <2>2, <2>3 DEF Queued
  <2> QED BY <1>2, <1>3, <2>2, <2>3, <2>4
<1>4. ASSUME NEW b \in Sessions, Deliver(b, q), Len(inbox'[q]) = Len(inbox[q]) + 1,
             inbox'[q][Len(inbox[q]) + 1] = event[b],
             \A j \in 1 .. Len(inbox[q]) : inbox'[q][j] = inbox[q][j]
      PROVE  /\ \A j \in 1 .. (k - 1) :
                   From(inbox[q][j], a)' => inbox'[q][j].id < inbox'[q][k].id
             /\ Coming(a, q)' => inbox'[q][k].id < event'[a].id
  <2>1. \A i \in 1 .. Len(inbox[q]) : From(inbox[q][i], a)' => From(inbox[q][i], a)
    BY <1>1, <1>4 DEF From
  <2>2. \A j \in 1 .. (k - 1) : j \in 1 .. Len(inbox[q])
    BY <1>0, <1>4
  <2>3. CASE k \in 1 .. Len(inbox[q])
    <3>1. From(inbox[q][k], a)
      BY <2>1, <2>3
    <3>2. \A j \in 1 .. (k - 1) : From(inbox[q][j], a)' => inbox[q][j].id < inbox[q][k].id
      BY <2>1, <2>2, <2>3, <3>1 DEF Queued
    <3> QED BY <1>2, <1>4, <2>2, <2>3, <3>1, <3>2
  <2>4. CASE k = Len(inbox[q]) + 1
    <3>1. event[b].kind = "room_msg" /\ author'[event[b].id] = a
      BY <1>4, <2>4 DEF From
    <3>2. a = b /\ Coming(a, q)
      BY <1>4, <3>1, DeliversTo, AuthorsKept DEF Written, Coming, Sending
    <3>3. ~Coming(a, q)'
      BY <1>4, <3>2, DeliversTo DEF Coming, Sending
    <3>4. \A j \in 1 .. (k - 1) : From(inbox[q][j], a)' => inbox[q][j].id < event[b].id
      BY <2>1, <2>2, <3>2 DEF Queued
    <3> QED BY <1>4, <2>2, <2>4, <3>3, <3>4
  <2>5. k \in 1 .. Len(inbox[q]) \/ k = Len(inbox[q]) + 1
    BY <1>0, <1>4
  <2> QED BY <2>3, <2>4, <2>5, Zenon
<1>5. CASE /\ Len(inbox'[q]) = Len(inbox[q]) - 1
           /\ \A j \in 1 .. Len(inbox'[q]) : inbox'[q][j] = inbox[q][j + 1]
  <2>1. \A j \in 1 .. k : /\ j \in 1 .. Len(inbox'[q]) /\ j + 1 \in 1 .. Len(inbox[q])
                          /\ inbox'[q][j] = inbox[q][j + 1]
    BY <1>0, <1>5
  <2>2. \A j \in 1 .. k : From(inbox[q][j], a)' => From(inbox[q][j + 1], a)
    BY <1>1, <2>1 DEF From
  <2>3. From(inbox[q][k + 1], a) /\ k + 1 \in 1 .. Len(inbox[q]) /\ inbox'[q][k] = inbox[q][k + 1]
    BY <2>1, <2>2
  <2>4. \A j \in 1 .. (k - 1) : j \in 1 .. k /\ j + 1 \in 1 .. ((k + 1) - 1)
    BY <1>0, <1>5
  <2>5. \A j \in 1 .. (k - 1) : From(inbox[q][j], a)' => inbox'[q][j].id < inbox'[q][k].id
    BY <2>1, <2>2, <2>3, <2>4 DEF Queued
  <2> QED BY <1>2, <2>3, <2>5
<1> QED BY <1>3, <1>4, <1>5, InboxMoves

-----------------------------------------------------------------------------
(* The order of the lists                                                  *)

\* What is still to come of the last messages has been shown, if a later one
\* of the same session has: an event may come twice, none comes late.
ComesShown ==
    \A s \in Sessions : Looks(s) /\ s \notin searching =>
        \A e \in Ids : Pending(s, "room_msg", e) /\ e > Len(author) - HistoryLimit =>
            \A k \in 1 .. Len(list[s]) :
                e < list[s][k].id /\ author[e] = author[list[s][k].id] =>
                    \E h \in 1 .. (k - 1) : list[s][h].id = e

\* The history ends with the last message and leaves none out.
LEMMA HistoryShape ==
    ASSUME FInv
    PROVE  /\ Len(author) \in Nat /\ Len(History) \in 0 .. Len(author)
           /\ \A j \in 1 .. Len(History) : History[j].id = Len(author) - Len(History) + j
           /\ \A i \in Ids : i > Len(author) - HistoryLimit => i > Len(author) - Len(History)
<1> DEFINE n == IF Len(author) < HistoryLimit THEN Len(author) ELSE HistoryLimit
<1>1. Len(author) \in Nat /\ n \in 0 .. Len(author)
  BY Bounds DEF FInv, TypeOK
<1>2. History = [j \in 1 .. n |-> Row(Len(author) - n + j)]
  BY DEF History
<1>3. \A i \in Ids : i > Len(author) - HistoryLimit => i > Len(author) - n
  BY <1>1, Bounds DEF Ids
<1> HIDE DEF n
<1>4. Len(History) = n
  BY <1>1, <1>2
<1>5. \A j \in 1 .. n : History[j].id = Len(author) - n + j
  BY <1>2 DEF Row
<1> QED BY <1>1, <1>3, <1>4, <1>5

\* How the list of q, who shows the room, comes to be: read again, as it was,
\* or with the message of the event q handles at its end.
LEMMA ShownMoves ==
    ASSUME FInv, Next, NEW q \in Sessions, Looks(q)', q \notin searching'
    PROVE  \/ list'[q] = History /\ author' = author
           \/ /\ Looks(q) /\ q \notin searching
              /\ \/ list'[q] = list[q]
                 \/ /\ author' = author
                    /\ Len(inbox[q]) > 0 /\ inbox[q][1].kind = "room_msg"
                    /\ Len(list'[q]) = Len(list[q]) + 1
                    /\ list'[q][Len(list[q]) + 1].id = inbox[q][1].id
                    /\ \A j \in 1 .. Len(list[q]) : list'[q][j] = list[q][j]
<1>1. CASE OpenRoom(q)
  BY <1>1 DEF OpenRoom, Reload, FInv, TypeOK
<1>2. CASE ~OpenRoom(q)
  <2>1. Looks(q) /\ view[q] = "room"
    BY <1>2, LooksKept DEF Looks
  <2>2. CASE HandleDeleted(q)
    BY <2>1, <2>2 DEF HandleDeleted, Reload, FInv, TypeOK
  <2>3. CASE HandleNotify(q)
    BY <2>1, <2>3 DEF HandleNotify
  <2>4. CASE HandleMessage(q)
    <3> DEFINE entry == [id |-> Head(inbox[q]).id, gone |-> Head(inbox[q]).gone]
    <3>1. /\ Take(q, "room_msg") /\ list[q] \in Seq(Shown) /\ list'[q] = Append(list[q], entry)
          /\ author' = author /\ q \notin searching
      BY <2>4 DEF HandleMessage, FInv, TypeOK
    <3>2. entry.id = Head(inbox[q]).id
      OBVIOUS
    <3> HIDE DEF entry
    <3>3. Len(inbox[q]) > 0 /\ inbox[q][1].kind = "room_msg" /\ Head(inbox[q]) = inbox[q][1]
      BY <3>1, TakeTypes, Zenon
    <3>4. /\ Len(list'[q]) = Len(list[q]) + 1 /\ list'[q][Len(list[q]) + 1] = entry
          /\ \A j \in 1 .. Len(list[q]) : list'[q][j] = list[q][j]
      BY <3>1
    <3> QED BY <2>1, <3>1, <3>2, <3>3, <3>4
  <2>5. CASE ~HandleStep(q)
    BY <1>2, <2>1, <2>5, ListKept
  <2> QED BY <2>2, <2>3, <2>4, <2>5 DEF HandleStep
<1> QED BY <1>1, <1>2

\* What is on its way to q was, or has just been sent.
LEMMA WasPending ==
    ASSUME FInv, Telling, Next, NEW q \in Sessions, NEW e, Pending(q, "room_msg", e)'
    PROVE  Pending(q, "room_msg", e) \/ (e = Len(author) + 1 /\ list' = list)
<1>1. ASSUME NEW a \in Sessions, Coming(a, q), event[a].id = e
      PROVE  Pending(q, "room_msg", e)
  BY <1>1 DEF Coming, Sending, Pending
<1>2. ASSUME NEW a \in Sessions, Coming(a, q)', event'[a].id = e
      PROVE  Pending(q, "room_msg", e) \/ (e = Len(author) + 1 /\ list' = list)
  BY <1>1, <1>2, ComingKept
<1>3. ASSUME NEW j \in 1 .. Len(inbox'[q]), inbox'[q][j].kind = "room_msg", inbox'[q][j].id = e
      PROVE  Pending(q, "room_msg", e)
  <2>0. Len(inbox[q]) \in Nat
    BY DEF FInv, TypeOK
  <2>1. CASE inbox'[q] = inbox[q]
    BY <1>3, <2>1 DEF Pending
  <2>2. ASSUME NEW b \in Sessions, Deliver(b, q), Len(inbox'[q]) = Len(inbox[q]) + 1,
               inbox'[q][Len(inbox[q]) + 1] = event[b],
               \A i \in 1 .. Len(inbox[q]) : inbox'[q][i] = inbox[q][i]
        PROVE  Pending(q, "room_msg", e)
    <3>1. j \in 1 .. Len(inbox[q]) \/ j = Len(inbox[q]) + 1
      BY <2>0, <2>2
    <3>2. Sending(b, q)
      BY <2>2, DeliversTo DEF Sending
    <3> QED BY <1>1, <1>3, <2>2, <3>1, <3>2 DEF Coming, Pending
  <2>3. CASE /\ Len(inbox'[q]) = Len(inbox[q]) - 1
             /\ \A i \in 1 .. Len(inbox'[q]) : inbox'[q][i] = inbox[q][i + 1]
    <3>1. j + 1 \in 1 .. Len(inbox[q])
      BY <2>0, <2>3
    <3> QED BY <1>3, <2>3, <3>1 DEF Pending
  <2> QED BY <2>1, <2>2, <2>3, InboxMoves
<1> QED BY <1>2, <1>3 DEF Pending, Coming, Sending

\* Nothing of the same session is on its way that is older than the message of
\* the event q handles.
LEMMA HeadIsOldest ==
    ASSUME FInv, Written, Queued, NEW q \in Sessions,
           Len(inbox[q]) > 0, inbox[q][1].kind = "room_msg",
           NEW e \in Ids, Pending(q, "room_msg", e), author[e] = author[inbox[q][1].id]
    PROVE  ~(e < inbox[q][1].id)
<1> DEFINE l == inbox[q][1].id
           a == author[e]
<1>0. Len(inbox[q]) \in Nat /\ 1 \in 1 .. Len(inbox[q])
  <2>1. Len(inbox[q]) \in Nat
    BY DEF FInv, TypeOK
  <2> QED BY <2>1
<1>1. l \in Ids /\ l \in Int /\ e \in Int
  BY <1>0 DEF Written, Ids
<1>2. a \in Sessions /\ From(inbox[q][1], a)
  <2>1. author \in Seq(Sessions) /\ e \in 1 .. Len(author)
    BY DEF FInv, TypeOK, Ids
  <2>2. author[e] \in Sessions
    BY <2>1
  <2> QED BY <2>2 DEF From
<1>3. ASSUME NEW b \in Sessions, Coming(b, q), event[b].id = e
      PROVE  l < e
  <2>1. event[b].kind = "room_msg"
    BY <1>3 DEF Coming
  <2>2. b = a
    BY <1>3, <2>1 DEF Written
  <2> QED BY <1>0, <1>2, <1>3, <2>2 DEF Queued
<1>4. ASSUME NEW j \in 1 .. Len(inbox[q]), inbox[q][j].kind = "room_msg", inbox[q][j].id = e, j # 1
      PROVE  l < e
  <2>1. 1 \in 1 .. (j - 1) /\ From(inbox[q][j], a)
    BY <1>0, <1>4 DEF From
  <2> QED BY <1>2, <1>4, <2>1 DEF Queued
<1>5. e = l \/ l < e
  BY <1>3, <1>4 DEF Pending, Coming, Sending
<1> QED BY <1>1, <1>5

\* One of the last messages of the room that a step leaves one of the last was
\* one before, unless the step sent it.
LEMMA RecentKept ==
    ASSUME FInv, Next, NEW e \in Ids', e > Len(author') - HistoryLimit
    PROVE  (e \in Ids /\ e > Len(author) - HistoryLimit) \/ e = Len(author) + 1
<1>1. Len(author) \in Nat /\ Len(author) =< Len(author') /\ Len(author') \in Nat
  BY AuthorsKept
<1>2. Len(author') =< Len(author) + 1
  <2>1. CASE author' = author
    BY <1>1, <2>1
  <2>2. CASE \E s \in Sessions : \E mentions \in SUBSET Users : SendInsert(s, mentions)
    BY <1>1, <2>2, SendsNew
  <2> QED BY <2>1, <2>2, TableKept
<1> QED BY <1>1, <1>2, Bounds DEF Ids

LEMMA ComesStep == FInv /\ Telling /\ Written /\ Queued /\ ComesShown /\ Next => ComesShown'
<1> SUFFICES ASSUME FInv, Telling, Written, Queued, ComesShown, Next,
                    NEW q \in Sessions, Looks(q)', q \notin searching',
                    NEW e \in Ids', Pending(q, "room_msg", e)', e > Len(author') - HistoryLimit,
                    NEW k \in 1 .. Len(list'[q]),
                    e < list'[q][k].id, author'[e] = author'[list'[q][k].id]
             PROVE  \E h \in 1 .. (k - 1) : list'[q][h].id = e
  BY DEF ComesShown
<1>0. Len(author) \in Nat /\ list'[q][k].id \in Ids /\ Len(list[q]) \in Nat
  <2>1. Len(author) \in Nat /\ Len(list[q]) \in Nat
    BY DEF FInv, TypeOK
  <2> QED BY <2>1, ListIds
<1>1. e \in Ids /\ e > Len(author) - HistoryLimit
  BY <1>0, RecentKept DEF Ids
<1>2. author[e] = author[list'[q][k].id]
  BY <1>0, <1>1, AuthorsKept
<1>3. Pending(q, "room_msg", e)
  BY <1>0, <1>1, WasPending DEF Ids
<1>4. CASE list'[q] = History
  <2> DEFINE n == Len(History)
  <2>1. n \in 0 .. Len(author) /\ k \in 1 .. n /\ e \in 1 .. Len(author) /\ e > Len(author) - n
    BY <1>1, <1>4, HistoryShape DEF Ids
  <2>2. History[k].id = Len(author) - n + k
    BY <2>1, HistoryShape
  <2> DEFINE h == e - (Len(author) - n)
  <2> HIDE DEF n
  <2>3. h \in 1 .. n /\ h \in 1 .. (k - 1)
    BY <1>0, <1>4, <2>1, <2>2
  <2>4. History[h].id = Len(author) - n + h
    BY <2>3, HistoryShape DEF n
  <2>5. Len(author) - n + h = e
    BY <1>0, <2>1
  <2> HIDE DEF h
  <2> QED BY <1>4, <2>3, <2>4, <2>5
<1>5. CASE Looks(q) /\ q \notin searching /\ list'[q] = list[q]
  BY <1>1, <1>2, <1>3, <1>5 DEF ComesShown
<1>6. CASE /\ Looks(q) /\ q \notin searching
           /\ Len(inbox[q]) > 0 /\ inbox[q][1].kind = "room_msg"
           /\ Len(list'[q]) = Len(list[q]) + 1
           /\ list'[q][Len(list[q]) + 1].id = inbox[q][1].id
           /\ \A j \in 1 .. Len(list[q]) : list'[q][j] = list[q][j]
  <2>1. k \in 1 .. Len(list[q])
    <3>1. CASE k = Len(list[q]) + 1
      <4>1. author[e] = author[inbox[q][1].id] /\ e < inbox[q][1].id
        BY <1>2, <1>6, <3>1
      <4>2. ~(e < inbox[q][1].id)
        BY <1>1, <1>3, <1>6, <4>1, HeadIsOldest
      <4> QED BY <4>1, <4>2
    <3> QED BY <1>0, <1>6, <3>1
  <2>2. \E h \in 1 .. (k - 1) : list[q][h].id = e
    BY SMTT(30), <1>1, <1>2, <1>3, <1>6, <2>1 DEF ComesShown
  <2>3. \A h \in 1 .. (k - 1) : h \in 1 .. Len(list[q])
    BY <1>0, <2>1
  <2> QED BY <1>6, <2>2, <2>3
<1> QED BY <1>4, <1>5, <1>6, ShownMoves

LEMMA OrderStep ==
    FInv /\ Written /\ ComesShown /\ FirstShownInOrder /\ Next => FirstShownInOrder'
<1> SUFFICES ASSUME FInv, Written, ComesShown, FirstShownInOrder, Next,
                    NEW q \in Sessions, Looks(q)', q \notin searching',
                    NEW j \in 1 .. Len(list'[q]), NEW k \in 1 .. (j - 1),
                    Len(author') - HistoryLimit < list'[q][j].id,
                    list'[q][j].id < list'[q][k].id,
                    author'[list'[q][j].id] = author'[list'[q][k].id]
             PROVE  \E h \in 1 .. (k - 1) : list'[q][h].id = list'[q][j].id
  BY DEF FirstShownInOrder
<1>0. Len(author) \in Nat /\ Len(list'[q]) \in Nat /\ Len(list[q]) \in Nat
  <2>1. list \in [Sessions -> Seq(Shown)] /\ author \in Seq(Sessions)
    BY DEF FInv, TypeOK
  <2>2. list' \in [Sessions -> Seq(Shown)]
    BY NextInv DEF FInv, TypeOK
  <2> QED BY <2>1, <2>2
<1>1. k \in 1 .. Len(list'[q]) /\ list'[q][j].id \in Ids /\ list'[q][k].id \in Ids
  <2>1. k \in 1 .. Len(list'[q])
    BY <1>0
  <2> QED BY <2>1, ListIds
<1>2. author[list'[q][j].id] = author[list'[q][k].id]
  BY <1>1, AuthorsKept
<1>3. Len(author) - HistoryLimit < list'[q][j].id
  BY SMTT(20), <1>0, <1>1, AuthorsKept, Bounds DEF Ids
<1>4. CASE list'[q] = History
  <2>1. /\ Len(History) \in 0 .. Len(author)
        /\ list'[q][j].id = Len(author) - Len(History) + j
        /\ list'[q][k].id = Len(author) - Len(History) + k
    BY <1>1, <1>4, HistoryShape
  <2> DEFINE n == Len(History)
  <2> HIDE DEF n
  <2>2. n \in Nat /\ list'[q][j].id = Len(author) - n + j /\ list'[q][k].id = Len(author) - n + k
    BY <1>0, <2>1 DEF n
  <2>3. FALSE
    BY <1>0, <2>2
  <2> QED BY <2>3
<1>5. CASE Looks(q) /\ q \notin searching /\ list'[q] = list[q]
  BY <1>2, <1>3, <1>5 DEF FirstShownInOrder
<1>6. CASE /\ Looks(q) /\ q \notin searching
           /\ Len(inbox[q]) > 0 /\ inbox[q][1].kind = "room_msg"
           /\ Len(list'[q]) = Len(list[q]) + 1
           /\ list'[q][Len(list[q]) + 1].id = inbox[q][1].id
           /\ \A i \in 1 .. Len(list[q]) : list'[q][i] = list[q][i]
  <2>1. k \in 1 .. Len(list[q]) /\ (j \in 1 .. Len(list[q]) \/ j = Len(list[q]) + 1)
    BY <1>0, <1>6
  <2>2. \A h \in 1 .. (k - 1) : h \in 1 .. Len(list[q])
    BY <1>0, <2>1
  <2>3. CASE j \in 1 .. Len(list[q])
    <3>1. list'[q][j] = list[q][j] /\ list'[q][k] = list[q][k]
      BY <1>6, <2>1, <2>3
    <3>2. \E h \in 1 .. (k - 1) : list[q][h].id = list[q][j].id
      BY <1>2, <1>3, <1>6, <2>3, <3>1 DEF FirstShownInOrder
    <3> QED BY <1>6, <2>2, <3>1, <3>2
  <2>4. CASE j = Len(list[q]) + 1
    <3> DEFINE e == list'[q][j].id
    <3>1. e = inbox[q][1].id /\ list'[q][k] = list[q][k]
      BY <1>6, <2>1, <2>4
    <3>2. Pending(q, "room_msg", e)
      <4>1. Len(inbox[q]) \in Nat
        BY DEF FInv, TypeOK
      <4>2. 1 \in 1 .. Len(inbox[q])
        BY <1>6, <4>1
      <4> QED BY <1>6, <3>1, <4>2 DEF Pending
    <3>3. /\ e \in Ids /\ e > Len(author) - HistoryLimit
          /\ e < list[q][k].id /\ author[e] = author[list[q][k].id]
      <4>1. e > Len(author) - HistoryLimit
        BY <1>0, <1>1, <1>3, Bounds DEF Ids
      <4> QED BY <1>1, <1>2, <3>1, <4>1
    <3> HIDE DEF e
    <3>4. \E h \in 1 .. (k - 1) : list[q][h].id = e
      BY <1>6, <2>1, <3>2, <3>3 DEF ComesShown
    <3> QED BY <1>6, <2>2, <3>4 DEF e
  <2> QED BY <2>1, <2>3, <2>4
<1> QED BY <1>4, <1>5, <1>6, ShownMoves

\* What the order of the lists rests on.
OInv == Telling /\ Written /\ Queued /\ ComesShown

LEMMA AlwaysOInv == Spec => [](OInv /\ FirstShownInOrder)
<1>1. Init => OInv /\ FirstShownInOrder
  <2>1. Init => Queued /\ ComesShown /\ FirstShownInOrder
    BY DEF Init, Queued, ComesShown, FirstShownInOrder, Looks
  <2> QED BY <2>1, InitTold DEF OInv
<1>2. FInv /\ OInv /\ FirstShownInOrder /\ [Next]_vars => (OInv /\ FirstShownInOrder)'
  <2> SUFFICES ASSUME FInv, OInv, FirstShownInOrder, [Next]_vars
               PROVE  (OInv /\ FirstShownInOrder)'
    OBVIOUS
  <2>1. CASE Next
    BY <2>1, TellingStep, WrittenStep, QueuedStep, ComesStep, OrderStep DEF OInv
  <2>2. CASE UNCHANGED vars
    <3> USE <2>2 DEF vars
    <3>1. Telling' /\ Written' /\ Queued'
      BY DEF OInv, Telling, Written, Ids, Queued, From, Coming, Sending
    <3>2. \A s \in Sessions : \A i : Pending(s, "room_msg", i)' <=> Pending(s, "room_msg", i)
      BY DEF Pending
    <3>3. /\ author' = author /\ list' = list /\ searching' = searching
          /\ \A s \in Sessions : Looks(s)' <=> Looks(s)
      BY DEF Looks
    <3> HIDE <2>2 DEF vars
    <3>4. ComesShown'
      <4> SUFFICES ASSUME NEW s \in Sessions, Looks(s)', s \notin searching',
                          NEW e \in Ids', Pending(s, "room_msg", e)',
                          e > Len(author') - HistoryLimit,
                          NEW k \in 1 .. Len(list'[s]), e < list'[s][k].id,
                          author'[e] = author'[list'[s][k].id]
                   PROVE  \E h \in 1 .. (k - 1) : list'[s][h].id = e
        BY DEF ComesShown
      <4> QED BY <3>2, <3>3 DEF OInv, ComesShown, Ids
    <3>5. FirstShownInOrder'
      BY <3>3 DEF FirstShownInOrder
    <3> QED BY <3>1, <3>4, <3>5 DEF OInv
  <2> QED BY <2>1, <2>2
<1> QED BY <1>1, <1>2, AlwaysFInv, PTL DEF Spec

\* The last messages of one session come up in the order they were sent, the
\* first time they do: the history is read from the store and the events come
\* through the channel, each of which has an order of its own, and the list is
\* put together from both (app.go:275-286, 626-636; store.go:535-555).
THEOREM FirstShownOrdered == Spec => []FirstShownInOrder
BY AlwaysOInv, PTL

-----------------------------------------------------------------------------
(* The unread count                                                        *)

\* An event that can raise the count of q: a notify event, or a message that
\* does not mention its user.
Raises(ev, q) == ev.kind = "notify" \/ (ev.kind = "room_msg" /\ UserOf[q] \notin ev.mset)

\* The publication of a has such an event for q, now or when it comes to notify.
Owed(a, q) == UserOf[q] \in notified[a] \/ (Raises(event[a], q) /\ Sending(a, q))

\* The message of that id can still raise the count of q.
Awaited(i, q) ==
    \/ \E a \in Sessions : Owed(a, q) /\ event[a].id = i
    \/ \E j \in 1 .. Len(inbox[q]) : Raises(inbox[q][j], q) /\ inbox[q][j].id = i

\* One event for each of those messages.
RaisedOnce ==
    \A q \in Sessions : \A k \in 1 .. Len(inbox[q]) : Raises(inbox[q][k], q) =>
        /\ \A j \in 1 .. (k - 1) : Raises(inbox[q][j], q) => inbox[q][j].id # inbox[q][k].id
        /\ \A a \in Sessions : Owed(a, q) => event[a].id # inbox[q][k].id

\* The store has a notification of a message that is being published only for
\* those it mentions.
Noted ==
    \A a \in Sessions : event[a].kind = "room_msg" =>
        \A u \in Users : <<u, event[a].id>> \in notes => u \in event[a].mset

\* The hub has nothing for a session it does not know, and the screen of a
\* session that is off has marked nothing.
Outside ==
    \A q \in Sessions :
        /\ at[q] = "off" => q \notin users /\ settled[q] = {}
        /\ q \notin users => Len(inbox[q]) = 0 /\ \A a \in Sessions : q \notin to[a]

\* Every room_msg event of that message, among those that may come to q,
\* mentions the user of q.
MentionedIn(i, q) ==
    /\ \A a \in Sessions :
          event[a].kind = "room_msg" /\ event[a].id = i => UserOf[q] \in event[a].mset
    /\ \A j \in 1 .. Len(inbox[q]) :
          inbox[q][j].kind = "room_msg" /\ inbox[q][j].id = i => UserOf[q] \in inbox[q][j].mset

\* What has raised the count of q raises it no more, but for what Init counted
\* early, which is left to the notify event.
Recorded ==
    \A q \in Sessions : \A m \in raised[q] :
        /\ m.id \in Ids
        /\ m.by # "early" => ~Awaited(m.id, q)
        /\ m.by = "early" => MentionedIn(m.id, q)

\* The count is what has raised it since the room was marked as read.
Tallied ==
    \A q \in Sessions :
        /\ IsFiniteSet(raised[q]) /\ settled[q] \subseteq raised[q]
        /\ unread[q] = Cardinality(raised[q] \ settled[q])

OnceEach ==
    \A q \in Sessions : \A m, n \in raised[q] :
        m.id = n.id /\ m # n => {m.by, n.by} = {"early", "notify"}

LEMMA OwedKind ==
    ASSUME Telling, NEW a \in Sessions, NEW q \in Sessions, Owed(a, q)
    PROVE  event[a].kind # "msg_deleted"
BY DEF Telling, Owed, Raises

\* What a session owes it owed before, for the same message, or has just sent.
LEMMA OwedKept ==
    ASSUME FInv, Telling, Next, NEW a \in Sessions, NEW q \in Sessions, Owed(a, q)'
    PROVE  \/ Owed(a, q) /\ event'[a].id = event[a].id
           \/ /\ event'[a].id = Len(author) + 1 /\ inbox' = inbox
              /\ Len(author') = Len(author) + 1
<1>1. CASE /\ event'[a].kind = event[a].kind /\ event'[a].id = event[a].id
           /\ event'[a].mset = event[a].mset /\ notified'[a] = notified[a]
           /\ \A r \in Sessions : Sending(a, r)' => Sending(a, r)
  BY <1>1 DEF Owed, Raises
<1>2. CASE event'[a].kind = "msg_deleted" /\ notified'[a] = {}
  BY <1>2 DEF Owed, Raises
<1>3. CASE \E u \in Users : NotifyUser(a, u)
  <2>1. PICK u \in Users : NotifyUser(a, u)
    BY <1>3
  <2>2. /\ u \in notified[a] /\ event'[a].id = event[a].id /\ at'[a] = "sending"
        /\ notified'[a] = notified[a] \ {u} /\ \A r \in to'[a] : UserOf[r] = u
    BY <2>1, NotifiesSame
  <2> QED BY <2>2 DEF Owed, Sending
<1>4. CASE \E mentions \in SUBSET Users : SendInsert(a, mentions)
  BY <1>4, SendsNew
<1> QED BY <1>1, <1>2, <1>3, <1>4, EventMoves

LEMMA RaisedStep == FInv /\ Telling /\ Written /\ RaisedOnce /\ Next => RaisedOnce'
<1> SUFFICES ASSUME FInv, Telling, Written, RaisedOnce, Next,
                    NEW q \in Sessions, NEW k \in 1 .. Len(inbox'[q]), Raises(inbox'[q][k], q)
             PROVE  /\ \A j \in 1 .. (k - 1) :
                          Raises(inbox'[q][j], q) => inbox'[q][j].id # inbox'[q][k].id
                    /\ \A a \in Sessions : Owed(a, q)' => event'[a].id # inbox'[q][k].id
  BY DEF RaisedOnce, Raises
<1>0. Len(inbox[q]) \in Nat /\ Len(author) \in Nat
  BY DEF FInv, TypeOK
<1>1. \A i \in 1 .. Len(inbox[q]) : Raises(inbox[q][i], q) =>
          \A a \in Sessions : Owed(a, q)' => event'[a].id # inbox[q][i].id
  <2> SUFFICES ASSUME NEW i \in 1 .. Len(inbox[q]), Raises(inbox[q][i], q),
                      NEW a \in Sessions, Owed(a, q)'
               PROVE  event'[a].id # inbox[q][i].id
    OBVIOUS
  <2>1. inbox[q][i].id \in Ids
    BY DEF Raises, Written
  <2>2. CASE Owed(a, q) /\ event'[a].id = event[a].id
    BY <2>2 DEF RaisedOnce
  <2>3. CASE event'[a].id = Len(author) + 1
    BY <1>0, <2>1, <2>3 DEF Ids
  <2> QED BY <2>2, <2>3, OwedKept
<1>2. CASE inbox'[q] = inbox[q]
  BY <1>1, <1>2 DEF RaisedOnce
<1>3. ASSUME NEW b \in Sessions, Deliver(b, q), author' = author,
             Len(inbox'[q]) = Len(inbox[q]) + 1,
             inbox'[q][Len(inbox[q]) + 1] = event[b],
             \A j \in 1 .. Len(inbox[q]) : inbox'[q][j] = inbox[q][j]
      PROVE  /\ \A j \in 1 .. (k - 1) :
                   Raises(inbox'[q][j], q) => inbox'[q][j].id # inbox'[q][k].id
             /\ \A a \in Sessions : Owed(a, q)' => event'[a].id # inbox'[q][k].id
  <2>1. \A j \in 1 .. (k - 1) : j \in 1 .. Len(inbox[q])
    BY <1>0, <1>3
  <2>2. CASE k \in 1 .. Len(inbox[q])
    <3>1. inbox'[q][k] = inbox[q][k] /\ Raises(inbox[q][k], q)
      BY <1>3, <2>2
    <3>2. \A j \in 1 .. (k - 1) : inbox'[q][j] = inbox[q][j]
      BY <1>3, <2>1
    <3>3. \A j \in 1 .. (k - 1) : Raises(inbox[q][j], q) => inbox[q][j].id # inbox[q][k].id
      BY <2>2, <3>1 DEF RaisedOnce
    <3> QED BY <1>1, <2>2, <3>1, <3>2, <3>3
  <2>3. CASE k = Len(inbox[q]) + 1
    <3>1. inbox'[q][k] = event[b] /\ Raises(event[b], q)
      BY <1>3, <2>3
    <3>2. Owed(b, q)
      BY <1>3, <3>1, DeliversTo DEF Owed, Sending
    <3>3. ASSUME NEW j \in 1 .. (k - 1), Raises(inbox'[q][j], q)
          PROVE  inbox'[q][j].id # event[b].id
      <4>1. j \in 1 .. Len(inbox[q]) /\ inbox'[q][j] = inbox[q][j]
        BY <1>3, <2>1
      <4> QED BY <3>2, <3>3, <4>1 DEF RaisedOnce
    <3>4. ASSUME NEW a \in Sessions, Owed(a, q)'
          PROVE  event'[a].id # event[b].id
      <4>1. CASE a = b
        <5>1. UserOf[q] \in notified[b] /\ q \in to[b]
          BY <1>3, <3>4, <4>1, DeliversTo DEF Owed, Sending
        <5> QED BY <3>1, <5>1 DEF Telling, Raises
      <4>2. CASE a # b
        <5>1. Owed(a, q) /\ event'[a].id = event[a].id
          BY <1>0, <1>3, <3>4, OwedKept
        <5>2. author[event[a].id] = a /\ author[event[b].id] = b
          BY <3>2, <5>1, OwedKind DEF Written
        <5> QED BY <4>2, <5>1, <5>2
      <4> QED BY <4>1, <4>2
    <3> QED BY <3>1, <3>3, <3>4
  <2>4. k \in 1 .. Len(inbox[q]) \/ k = Len(inbox[q]) + 1
    BY <1>0, <1>3
  <2> QED BY <2>2, <2>3, <2>4, Zenon
<1>4. CASE /\ Len(inbox'[q]) = Len(inbox[q]) - 1
           /\ \A j \in 1 .. Len(inbox'[q]) : inbox'[q][j] = inbox[q][j + 1]
  <2>1. \A j \in 1 .. k : j + 1 \in 1 .. Len(inbox[q]) /\ inbox'[q][j] = inbox[q][j + 1]
    BY <1>0, <1>4
  <2>2. k + 1 \in 1 .. Len(inbox[q]) /\ inbox'[q][k] = inbox[q][k + 1]
    BY <2>1
  <2>3. \A j \in 1 .. (k - 1) : j \in 1 .. k /\ j + 1 \in 1 .. ((k + 1) - 1)
    BY <1>0, <1>4
  <2>4. \A i \in 1 .. ((k + 1) - 1) : Raises(inbox[q][i], q) => inbox[q][i].id # inbox[q][k + 1].id
    BY <2>2 DEF RaisedOnce
  <2>5. \A j \in 1 .. (k - 1) : Raises(inbox'[q][j], q) => inbox'[q][j].id # inbox'[q][k].id
    BY <2>1, <2>2, <2>3, <2>4
  <2> QED BY <1>1, <2>2, <2>5
<1> QED BY <1>2, <1>3, <1>4, InboxMoves

\* A message that can raise the count could before, or has just been sent.
LEMMA WasAwaited ==
    ASSUME FInv, Telling, Written, Next, NEW q \in Sessions, NEW i, Awaited(i, q)'
    PROVE  Awaited(i, q) \/ (i = Len(author) + 1 /\ Len(author') = Len(author) + 1)
<1>0. Len(inbox[q]) \in Nat
  BY DEF FInv, TypeOK
<1>1. ASSUME NEW a \in Sessions, Owed(a, q)', event'[a].id = i
      PROVE  Awaited(i, q) \/ (i = Len(author) + 1 /\ Len(author') = Len(author) + 1)
  BY <1>1, OwedKept DEF Awaited
<1>2. ASSUME NEW j \in 1 .. Len(inbox'[q]), Raises(inbox'[q][j], q), inbox'[q][j].id = i
      PROVE  Awaited(i, q)
  <2>1. CASE inbox'[q] = inbox[q]
    BY <1>2, <2>1 DEF Awaited
  <2>2. ASSUME NEW b \in Sessions, Deliver(b, q), Len(inbox'[q]) = Len(inbox[q]) + 1,
               inbox'[q][Len(inbox[q]) + 1] = event[b],
               \A k \in 1 .. Len(inbox[q]) : inbox'[q][k] = inbox[q][k]
        PROVE  Awaited(i, q)
    <3>1. j \in 1 .. Len(inbox[q]) \/ j = Len(inbox[q]) + 1
      BY <1>0, <2>2
    <3>2. Sending(b, q)
      BY <2>2, DeliversTo DEF Sending
    <3> QED BY <1>2, <2>2, <3>1, <3>2 DEF Awaited, Owed
  <2>3. CASE /\ Len(inbox'[q]) = Len(inbox[q]) - 1
             /\ \A k \in 1 .. Len(inbox'[q]) : inbox'[q][k] = inbox[q][k + 1]
    <3>1. j + 1 \in 1 .. Len(inbox[q]) /\ inbox'[q][j] = inbox[q][j + 1]
      BY <1>0, <2>3
    <3> QED BY <1>2, <3>1 DEF Awaited
  <2> QED BY <2>1, <2>2, <2>3, InboxMoves
<1> QED BY <1>1, <1>2 DEF Awaited, Raises

\* The message of the event q handles cannot raise its count again.
LEMMA Spent ==
    ASSUME FInv, Telling, RaisedOnce, Next, NEW q \in Sessions,
           Raises(inbox[q][1], q), author' = author,
           Len(inbox[q]) > 0, Len(inbox'[q]) = Len(inbox[q]) - 1,
           \A j \in 1 .. Len(inbox'[q]) : inbox'[q][j] = inbox[q][j + 1],
           NEW i, i = inbox[q][1].id
    PROVE  ~Awaited(i, q)'
<1>0. Len(inbox[q]) \in Nat /\ Len(author) \in Nat
  BY DEF FInv, TypeOK
<1>1. ASSUME NEW a \in Sessions, Owed(a, q)'
      PROVE  event'[a].id # i
  <2>1. Owed(a, q) /\ event'[a].id = event[a].id
    BY <1>0, <1>1, OwedKept
  <2>2. 1 \in 1 .. Len(inbox[q])
    BY <1>0
  <2> QED BY <2>1, <2>2 DEF RaisedOnce
<1>2. ASSUME NEW j \in 1 .. Len(inbox'[q]), Raises(inbox'[q][j], q)
      PROVE  inbox'[q][j].id # i
  <2>1. j + 1 \in 1 .. Len(inbox[q]) /\ 1 \in 1 .. ((j + 1) - 1)
    BY <1>0, <1>2
  <2>2. inbox'[q][j] = inbox[q][j + 1]
    BY <1>2
  <2> QED BY <1>2, <2>1, <2>2 DEF RaisedOnce
<1> QED BY <1>1, <1>2 DEF Awaited, Raises

LEMMA NotedStep == FInv /\ Telling /\ Written /\ Noted /\ Next => Noted'
<1> SUFFICES ASSUME FInv, Telling, Written, Noted, Next, NEW a \in Sessions,
                    event'[a].kind = "room_msg", NEW u \in Users, <<u, event'[a].id>> \in notes'
             PROVE  u \in event'[a].mset
  BY DEF Noted
<1>0. Len(author) \in Nat /\ notes \subseteq Users \X Ids /\ Len(author) + 1 \notin Ids
  BY DEF FInv, TypeOK, Ids
<1>1. ASSUME NEW s \in Sessions, NEW mentions \in SUBSET Users, SendInsert(s, mentions)
      PROVE  notes' = notes \union ((mentions \ {UserOf[s]}) \X {Len(author) + 1})
  BY <1>1 DEF SendInsert
<1>2. CASE /\ event'[a].kind = event[a].kind /\ event'[a].id = event[a].id
           /\ event'[a].mset = event[a].mset
  <2>1. event[a].id \in Ids /\ event[a].id # Len(author) + 1
    BY <1>0, <1>2 DEF Written
  <2>2. <<u, event[a].id>> \in notes
    BY <1>1, <1>2, <2>1, TableKept
  <2> QED BY <1>2, <2>2 DEF Noted
<1>3. CASE \E v \in Users : NotifyUser(a, v)
  BY <1>3, NotifiesSame
<1>4. CASE \E mentions \in SUBSET Users : SendInsert(a, mentions)
  <2>1. PICK mentions \in SUBSET Users : SendInsert(a, mentions)
    BY <1>4
  <2>2. event'[a].id = Len(author) + 1 /\ event'[a].mset = mentions \ {UserOf[a]}
    BY <2>1, SendsNew
  <2>3. <<u, Len(author) + 1>> \notin notes
    BY <1>0
  <2> QED BY <1>1, <2>1, <2>2, <2>3
<1> QED BY <1>2, <1>3, <1>4, EventMoves

LEMMA OutsideStep == FInv /\ Outside /\ Next => Outside'
<1> SUFFICES ASSUME FInv, Outside, Next, NEW q \in Sessions
             PROVE  /\ at'[q] = "off" => q \notin users' /\ settled'[q] = {}
                    /\ q \notin users' =>
                          Len(inbox'[q]) = 0 /\ \A a \in Sessions : q \notin to'[a]
  BY DEF Outside
<1>1. PICK s \in Sessions :
          QuietStep(s) \/ Publish(s) \/ (\E r \in Sessions : Deliver(s, r)) \/ HandleStep(s)
  BY Steps
<1> USE DEF FInv, TypeOK, Outside
<1>2. CASE Connect(s) \/ Subscribe(s) \/ JoinRoom(s) \/ FirstElsewhere(s)
  BY <1>2 DEF Connect, Subscribe, JoinRoom, FirstElsewhere
<1>3. CASE OpenRoom(s) \/ MarkRead(s) \/ LookAway(s)
  <2>1. /\ UNCHANGED <<users, inbox, to>>
        /\ at'[q] = "off" => at[q] = "off"
        /\ at'[q] = "off" => settled'[q] = settled[q]
    <3>1. CASE OpenRoom(s)
      BY <3>1 DEF OpenRoom
    <3>2. CASE MarkRead(s)
      BY <3>2 DEF MarkRead
    <3>3. CASE LookAway(s)
      BY <3>3 DEF LookAway
    <3> QED BY <1>3, <3>1, <3>2, <3>3
  <2> QED BY <2>1
<1>4. CASE \/ \E found \in SUBSET Ids : Search(s, found)
           \/ \E mentions \in SUBSET Users : SendInsert(s, mentions)
           \/ \E i \in Ids : Delete(s, i)
  BY <1>4 DEF Search, SendInsert, Delete
<1>5. CASE (\E u \in Users : NotifyUser(s, u)) \/ Return(s)
  <2>1. /\ UNCHANGED <<users, inbox, settled>>
        /\ at'[q] = "off" => at[q] = "off"
        /\ \A a \in Sessions : to'[a] = to[a] \/ to'[a] \subseteq users
    <3>1. CASE \E u \in Users : NotifyUser(s, u)
      BY <3>1 DEF NotifyUser
    <3>2. CASE Return(s)
      BY <3>2 DEF Return
    <3> QED BY <1>5, <3>1, <3>2
  <2> QED BY <2>1
<1>6. CASE Publish(s)
  <2>1. /\ to' = [to EXCEPT ![s] = inRoom] /\ at' = [at EXCEPT ![s] = "sending"]
        /\ UNCHANGED <<users, inbox, settled>>
    BY <1>6 DEF Publish, Recipients
  <2>2. \A a \in Sessions : to'[a] = to[a] \/ to'[a] \subseteq users
    BY <2>1
  <2>3. at'[q] = "off" => at[q] = "off"
    BY <2>1
  <2> QED BY <2>1, <2>2, <2>3
<1>7. ASSUME NEW r \in Sessions, Deliver(s, r)
      PROVE  /\ at'[q] = "off" => q \notin users' /\ settled'[q] = {}
             /\ q \notin users' => Len(inbox'[q]) = 0 /\ \A a \in Sessions : q \notin to'[a]
  <2>1. /\ inbox' = [inbox EXCEPT ![r] = Offer(@, event[s])] /\ r \in to[s]
        /\ to' = [to EXCEPT ![s] = @ \ {r}] /\ UNCHANGED <<users, at, settled>>
    BY <1>7 DEF Deliver
  <2>2. q \notin users => q # r
    BY <2>1
  <2> QED BY <2>1, <2>2
<1>8. CASE HandleStep(s)
  <2>1. PICK k \in {"room_msg", "notify", "msg_deleted"} : Take(s, k)
    BY <1>8 DEF HandleStep, HandleMessage, HandleNotify, HandleDeleted
  <2>2. /\ UNCHANGED <<users, at, to, settled>>
    BY <1>8 DEF HandleStep, HandleMessage, HandleNotify, HandleDeleted
  <2>3. Len(inbox[s]) > 0 /\ \A p \in Sessions : p # s => inbox'[p] = inbox[p]
    BY <2>1, TakeTypes
  <2>4. q \notin users => q # s
    BY <2>3
  <2> QED BY <2>2, <2>3, <2>4
<1> QED BY <1>1, <1>2, <1>3, <1>4, <1>5, <1>6, <1>7, <1>8 DEF QuietStep

LEMMA MentionedKept ==
    ASSUME FInv, Telling, Written, Next, NEW q \in Sessions, NEW i \in Ids, MentionedIn(i, q)
    PROVE  MentionedIn(i, q)'
<1>0. Len(author) \in Nat /\ Len(inbox[q]) \in Nat /\ i # Len(author) + 1
  BY DEF FInv, TypeOK, Ids
<1>1. ASSUME NEW a \in Sessions, event'[a].kind = "room_msg", event'[a].id = i
      PROVE  UserOf[q] \in event'[a].mset
  <2>1. CASE /\ event'[a].kind = event[a].kind /\ event'[a].id = event[a].id
             /\ event'[a].mset = event[a].mset
    BY <1>1, <2>1 DEF MentionedIn
  <2>2. ~\E u \in Users : NotifyUser(a, u)
    BY <1>1, NotifiesSame
  <2>3. ~\E mentions \in SUBSET Users : SendInsert(a, mentions)
    BY <1>0, <1>1, SendsNew
  <2> QED BY <1>1, <2>1, <2>2, <2>3, EventMoves
<1>2. ASSUME NEW j \in 1 .. Len(inbox'[q]), inbox'[q][j].kind = "room_msg", inbox'[q][j].id = i
      PROVE  UserOf[q] \in inbox'[q][j].mset
  <2>1. CASE inbox'[q] = inbox[q]
    BY <1>2, <2>1 DEF MentionedIn
  <2>2. ASSUME NEW a \in Sessions,
               Len(inbox'[q]) = Len(inbox[q]) + 1, inbox'[q][Len(inbox[q]) + 1] = event[a],
               \A k \in 1 .. Len(inbox[q]) : inbox'[q][k] = inbox[q][k]
        PROVE  UserOf[q] \in inbox'[q][j].mset
    <3>1. j \in 1 .. Len(inbox[q]) \/ j = Len(inbox[q]) + 1
      BY <1>0, <2>2
    <3> QED BY <1>2, <2>2, <3>1 DEF MentionedIn
  <2>3. CASE /\ Len(inbox'[q]) = Len(inbox[q]) - 1
             /\ \A k \in 1 .. Len(inbox'[q]) : inbox'[q][k] = inbox[q][k + 1]
    <3>1. j + 1 \in 1 .. Len(inbox[q]) /\ inbox'[q][j] = inbox[q][j + 1]
      BY <1>0, <2>3
    <3> QED BY <1>2, <3>1 DEF MentionedIn
  <2> QED BY <2>1, <2>2, <2>3, InboxMoves
<1> QED BY <1>1, <1>2 DEF MentionedIn

\* What Init counts of the messages of q's notifications: one record for each.
CountedAs(i, q) == [by |-> IF ToNotify(i, UserOf[q]) THEN "early" ELSE "init", id |-> i]

Mentions(q) == {i \in Ids : <<UserOf[q], i>> \in notes}

\* What a step does to the count of q and what has raised it: nothing, start
\* over, settle all, or one more for the event it handles.
Same(q) == unread'[q] = unread[q] /\ raised'[q] = raised[q] /\ settled'[q] = settled[q]

Raised(q) ==
    /\ unread'[q] = unread[q] + 1 /\ settled'[q] = settled[q] /\ author' = author
    /\ raised'[q] = raised[q] \union {[by |-> inbox[q][1].kind, id |-> inbox[q][1].id]}
    /\ Len(inbox[q]) > 0 /\ Raises(inbox[q][1], q)
    /\ Len(inbox'[q]) = Len(inbox[q]) - 1
    /\ \A j \in 1 .. Len(inbox'[q]) : inbox'[q][j] = inbox[q][j + 1]

LEMMA UnreadMoves ==
    ASSUME FInv, Next, NEW q \in Sessions
    PROVE  \/ Same(q)
           \/ /\ Connect(q) /\ unread'[q] = Cardinality(Mentions(q)) /\ settled'[q] = settled[q]
              /\ raised'[q] = {CountedAs(i, q) : i \in Mentions(q)}
           \/ unread'[q] = 0 /\ raised'[q] = raised[q] /\ settled'[q] = raised[q]
           \/ Raised(q)
<1>1. PICK s \in Sessions :
          QuietStep(s) \/ Publish(s) \/ (\E r \in Sessions : Deliver(s, r)) \/ HandleStep(s)
  BY Steps
<1>2. /\ unread \in [Sessions -> Nat]
      /\ raised \in [Sessions -> SUBSET Raisings] /\ settled \in [Sessions -> SUBSET Raisings]
  BY DEF FInv, TypeOK
<1>3. CASE Connect(s)
  <2> DEFINE R == {CountedAs(i, s) : i \in Mentions(s)}
             n == Cardinality(Mentions(s))
  <2>1. /\ unread' = [unread EXCEPT ![s] = n] /\ raised' = [raised EXCEPT ![s] = R]
        /\ settled' = settled
    BY <1>3 DEF Connect, CountedAs, Mentions
  <2> HIDE DEF R, n
  <2>2. q = s => unread'[q] = n /\ raised'[q] = R
    BY <1>2, <2>1
  <2>3. q # s => Same(q)
    BY <1>2, <2>1 DEF Same
  <2> QED BY <1>3, <2>1, <2>2, <2>3 DEF R, n
<1>4. CASE MarkRead(s)
  BY <1>2, <1>4 DEF MarkRead, Same
<1>5. CASE \/ Subscribe(s) \/ JoinRoom(s) \/ FirstElsewhere(s) \/ OpenRoom(s) \/ LookAway(s)
  BY <1>5 DEF Subscribe, JoinRoom, FirstElsewhere, OpenRoom, LookAway, Same
<1>6. CASE \/ \E found \in SUBSET Ids : Search(s, found)
           \/ \E mentions \in SUBSET Users : SendInsert(s, mentions)
           \/ \E i \in Ids : Delete(s, i)
           \/ (\E u \in Users : NotifyUser(s, u)) \/ Return(s) \/ Publish(s)
           \/ \E r \in Sessions : Deliver(s, r)
  BY <1>6 DEF Search, SendInsert, Delete, NotifyUser, Return, Publish, Deliver, Same
<1>7. CASE HandleDeleted(s)
  BY <1>7 DEF HandleDeleted, Same
<1>8. CASE HandleMessage(s) \/ HandleNotify(s)
  <2> DEFINE m == [by |-> Head(inbox[s]).kind, id |-> Head(inbox[s]).id]
  <2>1. PICK k \in {"room_msg", "notify"} : Take(s, k)
    BY <1>8 DEF HandleMessage, HandleNotify
  <2>2. /\ Len(inbox[s]) > 0 /\ Len(inbox'[s]) = Len(inbox[s]) - 1
        /\ \A p \in Sessions : \A j \in 1 .. Len(inbox'[p]) :
              inbox'[p][j] = IF p = s THEN inbox[s][j + 1] ELSE inbox[p][j]
        /\ Head(inbox[s]) = inbox[s][1]
    BY <2>1, TakeTypes, Zenon
  <2>3. /\ author' = author /\ settled' = settled
        /\ \/ UNCHANGED <<unread, raised>>
           \/ /\ Raises(Head(inbox[s]), s)
              /\ unread' = [unread EXCEPT ![s] = @ + 1]
              /\ raised' = [raised EXCEPT ![s] = @ \union {m}]
    <3>1. CASE HandleMessage(s)
      BY <3>1 DEF HandleMessage, Take, Bumps, Raise, Raises
    <3>2. CASE HandleNotify(s)
      BY <3>2 DEF HandleNotify, Take, Raise, Raises
    <3> QED BY <1>8, <3>1, <3>2
  <2> HIDE DEF m
  <2>4. CASE q # s \/ UNCHANGED <<unread, raised>>
    BY <1>2, <2>3, <2>4 DEF Same
  <2>5. CASE q = s /\ ~UNCHANGED <<unread, raised>>
    <3>1. unread'[q] = unread[q] + 1 /\ raised'[q] = raised[q] \union {m}
      BY <1>2, <2>3, <2>5
    <3> QED BY <2>2, <2>3, <2>5, <3>1 DEF Raised, m
  <2> QED BY <2>4, <2>5
<1> QED BY <1>1, <1>3, <1>4, <1>5, <1>6, <1>7, <1>8 DEF QuietStep, HandleStep

\* A message that Init counts is mentioned by all that is on its way, and if
\* nobody has still to be notified of it, nothing on its way raises the count.
LEMMA ConnectCounts ==
    ASSUME FInv, Telling, Written, Noted, Outside, NEW q \in Sessions, at[q] = "off",
           NEW i \in Mentions(q)
    PROVE  MentionedIn(i, q) /\ (ToNotify(i, UserOf[q]) \/ ~Awaited(i, q))
<1>1. Len(inbox[q]) = 0 /\ \A a \in Sessions : q \notin to[a]
  BY DEF Outside
<1>2. UserOf[q] \in Users /\ <<UserOf[q], i>> \in notes
  BY Bounds DEF Mentions
<1>3. \A a \in Sessions :
          event[a].kind = "room_msg" /\ event[a].id = i => UserOf[q] \in event[a].mset
  BY <1>2 DEF Noted
<1>4. \A j \in 1 .. Len(inbox[q]) : FALSE
  BY <1>1
<1>5. ASSUME NEW a \in Sessions, Owed(a, q), event[a].id = i
      PROVE  ToNotify(i, UserOf[q])
  <2>1. CASE UserOf[q] \in notified[a]
    BY <1>5, <2>1 DEF ToNotify
  <2>2. CASE Raises(event[a], q) /\ Sending(a, q)
    <3>1. at[a] = "publish" /\ event[a].kind # "notify"
      BY <1>1, <2>2 DEF Sending, Telling
    <3> QED BY <1>3, <1>5, <2>2, <3>1 DEF Raises
  <2> QED BY <1>5, <2>1, <2>2 DEF Owed
<1> QED BY <1>3, <1>4, <1>5 DEF MentionedIn, Awaited

LEMMA RecordedStep ==
    FInv /\ Telling /\ Written /\ RaisedOnce /\ Noted /\ Outside /\ Recorded /\ Next => Recorded'
<1> SUFFICES ASSUME FInv, Telling, Written, RaisedOnce, Noted, Outside, Recorded, Next,
                    NEW q \in Sessions, NEW m \in raised'[q]
             PROVE  /\ m.id \in Ids'
                    /\ m.by # "early" => ~Awaited(m.id, q)'
                    /\ m.by = "early" => MentionedIn(m.id, q)'
  BY DEF Recorded, Awaited, MentionedIn, Owed, Raises, Sending
<1>0. \A i \in Ids : i \in Ids' /\ i # Len(author) + 1
  <2>1. Len(author) \in Nat /\ Len(author') \in Nat /\ Len(author') >= Len(author)
    BY AuthorsKept DEF FInv, TypeOK
  <2> QED BY <2>1 DEF Ids
<1>1. \A i \in Ids : ~Awaited(i, q) => ~Awaited(i, q)'
  BY <1>0, WasAwaited
<1>2. CASE m \in raised[q]
  <2>1. m.id \in Ids
    BY <1>2 DEF Recorded
  <2>2. m.by # "early" => ~Awaited(m.id, q)'
    BY <1>1, <1>2, <2>1 DEF Recorded
  <2>3. ASSUME m.by = "early" PROVE MentionedIn(m.id, q)'
    <3>1. MentionedIn(m.id, q)
      BY <1>2, <2>3 DEF Recorded
    <3> QED BY <2>1, <3>1, MentionedKept
  <2> QED BY <1>0, <2>1, <2>2, <2>3
<1>3. CASE Connect(q) /\ raised'[q] = {CountedAs(i, q) : i \in Mentions(q)}
  <2>1. PICK i \in Mentions(q) : m = CountedAs(i, q)
    BY <1>3
  <2>2. i \in Ids /\ m.id = i /\ (m.by # "early" => ~ToNotify(i, UserOf[q])) /\ at[q] = "off"
    BY <1>3, <2>1 DEF Mentions, CountedAs, Connect
  <2>3. MentionedIn(i, q) /\ (ToNotify(i, UserOf[q]) \/ ~Awaited(i, q))
    BY <2>2, ConnectCounts
  <2>4. MentionedIn(i, q)'
    BY <2>2, <2>3, MentionedKept
  <2> QED BY <1>0, <1>1, <2>2, <2>3, <2>4
<1>4. CASE Raised(q)
  <2> DEFINE i == inbox[q][1].id
  <2>1. CASE m \notin raised[q]
    <3>1. m = [by |-> inbox[q][1].kind, id |-> inbox[q][1].id]
      BY <1>4, <2>1 DEF Raised
    <3>2. m.by \in {"room_msg", "notify"} /\ m.id = i
      BY <1>4, <3>1 DEF Raised, Raises
    <3>3. 1 \in 1 .. Len(inbox[q])
      BY <1>4 DEF Raised, FInv, TypeOK
    <3>4. i \in Ids
      BY <3>1, <3>2, <3>3 DEF Written
    <3>5. \A k : k = inbox[q][1].id => ~Awaited(k, q)'
      BY <1>4, Spent DEF Raised
    <3> QED BY <1>0, <3>2, <3>4, <3>5
  <2> QED BY <1>2, <2>1
<1> QED BY <1>2, <1>3, <1>4, UnreadMoves DEF Same

\* What has already raised the count by the message of the event that raises it
\* now is Init, early, and the event is notify.
LEMMA RaisedAnew ==
    ASSUME FInv, Written, Recorded, NEW q \in Sessions, Raised(q), NEW m \in raised[q],
           m.id = inbox[q][1].id
    PROVE  m.by = "early" /\ inbox[q][1].kind = "notify"
<1>1. 1 \in 1 .. Len(inbox[q]) /\ Raises(inbox[q][1], q)
  BY DEF Raised, FInv, TypeOK
<1>2. Awaited(m.id, q)
  BY <1>1 DEF Awaited
<1>3. m.by = "early" /\ MentionedIn(m.id, q)
  BY <1>2 DEF Recorded
<1> QED BY <1>1, <1>3 DEF MentionedIn, Raises

LEMMA OnceEachStep ==
    FInv /\ Written /\ Recorded /\ OnceEach /\ Next => OnceEach'
<1> SUFFICES ASSUME FInv, Written, Recorded, OnceEach, Next, NEW q \in Sessions,
                    NEW m \in raised'[q], NEW n \in raised'[q], m.id = n.id, m # n
             PROVE  {m.by, n.by} = {"early", "notify"}
  BY DEF OnceEach
<1>1. CASE raised'[q] = raised[q]
  BY <1>1 DEF OnceEach
<1>2. CASE raised'[q] = {CountedAs(i, q) : i \in Mentions(q)}
  BY <1>2 DEF CountedAs
<1>3. CASE Raised(q)
  <2> DEFINE x == [by |-> inbox[q][1].kind, id |-> inbox[q][1].id]
  <2>1. (m \in raised[q] \/ m = x) /\ (n \in raised[q] \/ n = x)
    BY <1>3 DEF Raised
  <2>2. CASE m \in raised[q] /\ n \in raised[q]
    BY <2>2 DEF OnceEach
  <2>3. CASE m \in raised[q] /\ n = x
    <3>1. m.by = "early" /\ n.by = "notify"
      BY <1>3, <2>3, RaisedAnew
    <3> QED BY <3>1
  <2>4. CASE m = x /\ n \in raised[q]
    <3>1. n.by = "early" /\ m.by = "notify"
      BY <1>3, <2>4, RaisedAnew
    <3> QED BY <3>1
  <2> QED BY <2>1, <2>2, <2>3, <2>4
<1> QED BY <1>1, <1>2, <1>3, UnreadMoves DEF Same

LEMMA RecordsCount ==
    ASSUME FInv, NEW q \in Sessions
    PROVE  /\ IsFiniteSet({CountedAs(i, q) : i \in Mentions(q)})
           /\ Cardinality({CountedAs(i, q) : i \in Mentions(q)}) = Cardinality(Mentions(q))
<1> DEFINE S == Mentions(q)
           T == {CountedAs(i, q) : i \in S}
           f == [i \in S |-> CountedAs(i, q)]
<1>1. IsFiniteSet(S)
  <2>1. Len(author) \in Nat /\ S \subseteq 1 .. Len(author)
    BY DEF FInv, TypeOK, Mentions, Ids
  <2>2. IsFiniteSet(1 .. Len(author))
    BY <2>1, FS_Interval
  <2> HIDE DEF S
  <2> QED BY <2>1, <2>2, FS_Subset
<1>2. f \in Bijection(S, T)
  <2>1. f \in [S -> T] /\ \A t \in T : \E i \in S : f[i] = t
    OBVIOUS
  <2>2. \A i, j \in S : f[i] = f[j] => i = j
    BY DEF CountedAs
  <2> QED BY <2>1, <2>2 DEF Bijection, Injection, Surjection, IsInjective
<1> HIDE DEF S, T, f
<1>3. IsFiniteSet(T) /\ Cardinality(T) = Cardinality(S)
  BY <1>1, <1>2, FS_Bijection DEF ExistsBijection
<1> QED BY <1>3 DEF S, T

LEMMA TalliedStep ==
    FInv /\ Written /\ Outside /\ Recorded /\ Tallied /\ Next => Tallied'
<1> SUFFICES ASSUME FInv, Written, Outside, Recorded, Tallied, Next, NEW q \in Sessions
             PROVE  /\ IsFiniteSet(raised'[q]) /\ settled'[q] \subseteq raised'[q]
                    /\ unread'[q] = Cardinality(raised'[q] \ settled'[q])
  BY DEF Tallied
<1>0. /\ IsFiniteSet(raised[q]) /\ settled[q] \subseteq raised[q]
      /\ unread[q] = Cardinality(raised[q] \ settled[q])
  BY DEF Tallied
<1>1. CASE Same(q)
  BY <1>0, <1>1 DEF Same
<1>2. CASE /\ Connect(q) /\ unread'[q] = Cardinality(Mentions(q)) /\ settled'[q] = settled[q]
           /\ raised'[q] = {CountedAs(i, q) : i \in Mentions(q)}
  <2>1. settled'[q] = {}
    BY <1>2 DEF Connect, Outside
  <2>2. raised'[q] \ settled'[q] = raised'[q]
    BY <2>1
  <2> QED BY <1>2, <2>1, <2>2, RecordsCount
<1>3. CASE unread'[q] = 0 /\ raised'[q] = raised[q] /\ settled'[q] = raised[q]
  <2>1. raised'[q] \ settled'[q] = {}
    BY <1>3
  <2> QED BY <1>0, <1>3, <2>1, FS_EmptySet
<1>4. CASE Raised(q)
  <2> DEFINE x == [by |-> inbox[q][1].kind, id |-> inbox[q][1].id]
             R == raised[q]
             D == raised[q] \ settled[q]
  <2>1. raised'[q] = R \union {x} /\ settled'[q] = settled[q] /\ unread'[q] = unread[q] + 1
    BY <1>4 DEF Raised
  <2>2. x \notin R
    <3> SUFFICES ASSUME x \in R PROVE FALSE
      OBVIOUS
    <3>1. x.by = "early" /\ inbox[q][1].kind = "notify"
      BY <1>4, RaisedAnew
    <3> QED BY <3>1
  <2> HIDE DEF x, R
  <2>3. raised'[q] \ settled'[q] = D \union {x} /\ x \notin D
    BY <1>0, <2>1, <2>2 DEF R
  <2>4. IsFiniteSet(D) /\ IsFiniteSet(R)
    BY <1>0, FS_Subset DEF R
  <2> HIDE DEF D
  <2>5. /\ IsFiniteSet(R \union {x})
        /\ Cardinality(D \union {x}) = Cardinality(D) + 1
    BY <2>3, <2>4, FS_AddElement
  <2>6. unread[q] = Cardinality(D) /\ settled[q] \subseteq R
    BY <1>0 DEF D, R
  <2> QED BY <2>1, <2>3, <2>5, <2>6
<1> QED BY <1>1, <1>2, <1>3, <1>4, UnreadMoves

\* What the count rests on.
CInv ==
    /\ Telling /\ Written /\ RaisedOnce /\ Noted /\ Outside
    /\ Recorded /\ OnceEach /\ Tallied

LEMMA AlwaysCInv == Spec => []CInv
<1>1. Init => CInv
  <2> SUFFICES ASSUME Init PROVE CInv
    OBVIOUS
  <2>1. RaisedOnce /\ Noted /\ Outside /\ Recorded /\ OnceEach
    BY DEF Init, RaisedOnce, Noted, Outside, Recorded, OnceEach
  <2>2. Tallied
    <3>1. \A q \in Sessions : raised[q] = {} /\ settled[q] = {} /\ unread[q] = 0
      BY DEF Init
    <3>2. \A q \in Sessions : raised[q] \ settled[q] = {}
      BY <3>1
    <3> QED BY <3>1, <3>2, FS_EmptySet DEF Tallied
  <2> QED BY <2>1, <2>2, InitTold DEF CInv
<1>2. FInv /\ CInv /\ [Next]_vars => CInv'
  <2> SUFFICES ASSUME FInv, CInv, [Next]_vars PROVE CInv'
    OBVIOUS
  <2>1. CASE Next
    <3>1. Telling' /\ Written' /\ RaisedOnce'
      BY <2>1, TellingStep, WrittenStep, RaisedStep DEF CInv
    <3>2. Noted' /\ Outside'
      BY <2>1, NotedStep, OutsideStep DEF CInv
    <3>3. Recorded' /\ OnceEach' /\ Tallied'
      BY <2>1, RecordedStep, OnceEachStep, TalliedStep DEF CInv
    <3> QED BY <3>1, <3>2, <3>3 DEF CInv
  <2>2. CASE UNCHANGED vars
    <3> USE <2>2 DEF vars
    <3>1. Telling' /\ Written' /\ RaisedOnce' /\ Noted' /\ Outside'
      BY DEF CInv, Telling, Written, Ids, RaisedOnce, Raises, Owed, Sending, Noted, Outside
    <3>2. Recorded'
      BY DEF CInv, Recorded, Ids, Awaited, MentionedIn, Raises, Owed, Sending
    <3>3. OnceEach' /\ Tallied'
      BY DEF CInv, OnceEach, Tallied
    <3> QED BY <3>1, <3>2, <3>3 DEF CInv
  <2> QED BY <2>1, <2>2
<1> QED BY <1>1, <1>2, AlwaysFInv, PTL DEF Spec

\* No message raises the unread count of a session twice in the session's life,
\* by whichever two of Init, its room_msg event and its notify event, nor by a
\* copy of one, whichever the channel drops; but for what Init counts before
\* the author has published the notify event, which counts it again.  And the
\* count is exactly what has raised it since the room was marked as read
\* (app.go:159, 226-229, 597-606, 632-635, 677-681).
THEOREM BumpedOnceOnly == Spec => []BumpedOnce
<1>1. CInv => BumpedOnce
  BY DEF CInv, OnceEach, Tallied, BumpedOnce
<1> QED BY <1>1, AlwaysCInv, PTL

-----------------------------------------------------------------------------
(* What the screens show once nothing is on its way                        *)

\* No message passes for deleted that is not, in a publication, a channel or
\* a list.
TrulyGone ==
    /\ \A a \in Sessions : event[a].gone => event[a].id \in deleted
    /\ \A q \in Sessions : \A j \in 1 .. Len(inbox[q]) :
          inbox[q][j].gone => inbox[q][j].id \in deleted
    /\ \A q \in Sessions : \A j \in 1 .. Len(list[q]) :
          list[q][j].gone => list[q][j].id \in deleted

LEMMA DeletedKept == ASSUME Next PROVE deleted \subseteq deleted'
<1>1. PICK s \in Sessions :
          QuietStep(s) \/ Publish(s) \/ (\E r \in Sessions : Deliver(s, r)) \/ HandleStep(s)
  BY Steps
<1>2. CASE Connect(s) \/ Subscribe(s) \/ JoinRoom(s) \/ FirstElsewhere(s)
  BY <1>2 DEF Connect, Subscribe, JoinRoom, FirstElsewhere
<1>3. CASE OpenRoom(s) \/ MarkRead(s) \/ LookAway(s)
  BY <1>3 DEF OpenRoom, MarkRead, LookAway
<1>4. CASE \/ \E found \in SUBSET Ids : Search(s, found)
           \/ \E mentions \in SUBSET Users : SendInsert(s, mentions)
           \/ \E i \in Ids : Delete(s, i)
  BY <1>4 DEF Search, SendInsert, Delete
<1>5. CASE \/ (\E u \in Users : NotifyUser(s, u)) \/ Return(s) \/ Publish(s)
           \/ \E r \in Sessions : Deliver(s, r)
  BY <1>5 DEF NotifyUser, Return, Publish, Deliver
<1>6. CASE HandleStep(s)
  BY <1>6 DEF HandleStep, HandleMessage, HandleNotify, HandleDeleted
<1> QED BY <1>1, <1>2, <1>3, <1>4, <1>5, <1>6 DEF QuietStep

\* The flag of a publication is read just before the snapshot, and is of no
\* account in what is made otherwise.
LEMMA EventGone ==
    ASSUME FInv, TrulyGone, Next, NEW a \in Sessions
    PROVE  event'[a].gone => event'[a].id \in deleted'
<1>1. PICK s \in Sessions :
          QuietStep(s) \/ Publish(s) \/ (\E r \in Sessions : Deliver(s, r)) \/ HandleStep(s)
  BY Steps
<1>0. event'[a] = event[a] => (event'[a].gone => event'[a].id \in deleted')
  BY DeletedKept DEF TrulyGone
<1> USE DEF FInv, TypeOK
<1>2. CASE Connect(s) \/ Subscribe(s) \/ JoinRoom(s) \/ FirstElsewhere(s)
  BY <1>0, <1>2 DEF Connect, Subscribe, JoinRoom, FirstElsewhere
<1>3. CASE OpenRoom(s) \/ MarkRead(s) \/ LookAway(s) \/ \E found \in SUBSET Ids : Search(s, found)
  BY <1>0, <1>3 DEF OpenRoom, MarkRead, LookAway, Search
<1>4. CASE HandleStep(s) \/ \E r \in Sessions : Deliver(s, r)
  BY <1>0, <1>4 DEF HandleStep, HandleMessage, HandleNotify, HandleDeleted, Deliver
<1>5. CASE \/ \E mentions \in SUBSET Users : SendInsert(s, mentions)
           \/ \E i \in Ids : Delete(s, i)
           \/ (\E u \in Users : NotifyUser(s, u)) \/ Return(s)
  <2>1. a # s => event'[a] = event[a]
    BY <1>5 DEF SendInsert, Delete, NotifyUser, Return
  <2>2. PICK kind, i, mset : event' = [event EXCEPT ![s] = NewEvent(kind, i, FALSE, mset)]
    BY <1>5 DEF SendInsert, Delete, NotifyUser, Return, NoEvent
  <2>3. a = s => event'[a].gone = FALSE
    BY <2>2 DEF NewEvent
  <2> QED BY <1>0, <2>1, <2>3
<1>6. CASE Publish(s)
  <2>1. event' = [event EXCEPT ![s].gone = event[s].id \in deleted] /\ deleted' = deleted
    BY <1>6 DEF Publish
  <2>2. a # s => event'[a] = event[a]
    BY <2>1
  <2>3. a = s => event'[a].id = event[s].id /\ event'[a].gone = (event[s].id \in deleted)
    BY <2>1 DEF Events
  <2> QED BY <1>0, <2>1, <2>2, <2>3
<1> QED BY <1>1, <1>2, <1>3, <1>4, <1>5, <1>6 DEF QuietStep

LEMMA InboxGone ==
    ASSUME FInv, TrulyGone, Next, NEW q \in Sessions, NEW j \in 1 .. Len(inbox'[q])
    PROVE  inbox'[q][j].gone => inbox'[q][j].id \in deleted'
<1>0. Len(inbox[q]) \in Nat
  BY DEF FInv, TypeOK
<1>4. \A k \in 1 .. Len(inbox[q]) : inbox[q][k].gone => inbox[q][k].id \in deleted'
  BY DeletedKept DEF TrulyGone
<1>1. CASE inbox'[q] = inbox[q]
  BY <1>1, <1>4
<1>2. ASSUME NEW a \in Sessions,
             Len(inbox'[q]) = Len(inbox[q]) + 1, inbox'[q][Len(inbox[q]) + 1] = event[a],
             \A k \in 1 .. Len(inbox[q]) : inbox'[q][k] = inbox[q][k]
      PROVE  inbox'[q][j].gone => inbox'[q][j].id \in deleted'
  <2>1. j \in 1 .. Len(inbox[q]) \/ j = Len(inbox[q]) + 1
    BY <1>0, <1>2
  <2> QED BY <1>2, <1>4, <2>1, DeletedKept DEF TrulyGone
<1>3. CASE /\ Len(inbox'[q]) = Len(inbox[q]) - 1
           /\ \A k \in 1 .. Len(inbox'[q]) : inbox'[q][k] = inbox[q][k + 1]
  <2>1. j + 1 \in 1 .. Len(inbox[q])
    BY <1>0, <1>3
  <2> QED BY <1>3, <1>4, <2>1
<1> QED BY <1>1, <1>2, <1>3, InboxMoves

LEMMA RowGone == ASSUME NEW i PROVE Row(i).gone => Row(i).id \in deleted
<1>1. Row(i).id = i /\ Row(i).gone = (i \in deleted)
  BY DEF Row
<1> QED BY <1>1

\* A list is told by a query, which reads the flags, or by an event.
LEMMA ListGone ==
    ASSUME FInv, TrulyGone, Next, NEW q \in Sessions, NEW j \in 1 .. Len(list'[q])
    PROVE  list'[q][j].gone => list'[q][j].id \in deleted'
<1>1. PICK s \in Sessions :
          QuietStep(s) \/ Publish(s) \/ (\E r \in Sessions : Deliver(s, r)) \/ HandleStep(s)
  BY Steps
<1>2. CASE list'[q] = list[q]
  BY <1>2, DeletedKept DEF TrulyGone
<1>3. CASE list'[q] = History
  <2> DEFINE n == IF Len(author) < HistoryLimit THEN Len(author) ELSE HistoryLimit
  <2>1. Len(author) \in Nat /\ n \in Nat
    BY Bounds DEF FInv, TypeOK
  <2>2. History = [k \in 1 .. n |-> Row(Len(author) - n + k)]
    BY DEF History
  <2> HIDE DEF n
  <2>3. list'[q][j] = Row(Len(author) - n + j)
    BY <1>3, <2>1, <2>2
  <2> QED BY <2>3, RowGone, DeletedKept
<1> USE DEF FInv, TypeOK
<1>4. CASE \/ Connect(s) \/ Subscribe(s) \/ JoinRoom(s) \/ FirstElsewhere(s)
           \/ MarkRead(s) \/ LookAway(s)
  BY <1>2, <1>4 DEF Connect, Subscribe, JoinRoom, FirstElsewhere, MarkRead, LookAway
<1>5. CASE OpenRoom(s)
  BY <1>2, <1>3, <1>5 DEF OpenRoom, Reload
<1>6. ASSUME NEW found \in SUBSET Ids, Search(s, found)
      PROVE  list'[q][j].gone => list'[q][j].id \in deleted'
  <2>1. PICK ids \in NewestFirst(found) :
            list' = [list EXCEPT ![s] = [k \in 1 .. Cardinality(found) |-> Row(ids[k])]]
    BY <1>6 DEF Search
  <2> DEFINE m == Cardinality(found)
  <2>2. m \in Nat
    <3>1. Len(author) \in Nat /\ found \subseteq 1 .. Len(author)
      BY DEF Ids
    <3>2. m \in 0 .. Len(author)
      BY <3>1, CountTypes
    <3> QED BY <3>1, <3>2
  <2> HIDE DEF m
  <2>3. CASE q = s
    <3>1. list'[q] = [k \in 1 .. m |-> Row(ids[k])]
      BY <2>1, <2>3 DEF m
    <3>2. list'[q][j] = Row(ids[j])
      BY <2>2, <3>1
    <3> QED BY <3>2, RowGone, DeletedKept
  <2>4. CASE q # s
    BY <1>2, <2>1, <2>4
  <2> QED BY <2>3, <2>4
<1>7. CASE \/ \E mentions \in SUBSET Users : SendInsert(s, mentions)
           \/ \E i \in Ids : Delete(s, i)
           \/ (\E u \in Users : NotifyUser(s, u)) \/ Return(s) \/ Publish(s)
           \/ \E r \in Sessions : Deliver(s, r)
  BY <1>2, <1>7 DEF SendInsert, Delete, NotifyUser, Return, Publish, Deliver
<1>8. CASE HandleMessage(s)
  <2> DEFINE entry == [id |-> Head(inbox[s]).id, gone |-> Head(inbox[s]).gone]
  <2>1. Take(s, "room_msg") /\ list' = [list EXCEPT ![s] = Append(@, entry)]
    BY <1>8 DEF HandleMessage
  <2>2. entry.id = Head(inbox[s]).id /\ entry.gone = Head(inbox[s]).gone
    OBVIOUS
  <2> HIDE DEF entry
  <2>3. entry.gone => entry.id \in deleted
    <3>1. Head(inbox[s]) = inbox[s][1] /\ Len(inbox[s]) > 0
      BY <2>1, TakeTypes, Zenon
    <3>2. 1 \in 1 .. Len(inbox[s])
      BY <3>1
    <3> QED BY <2>2, <3>1, <3>2 DEF TrulyGone
  <2>4. CASE q = s
    <3>1. list'[q] = Append(list[q], entry) /\ list[q] \in Seq(Shown)
      BY <2>1, <2>4
    <3>2. (j \in 1 .. Len(list[q]) /\ list'[q][j] = list[q][j]) \/ list'[q][j] = entry
      BY <3>1
    <3> QED BY <2>3, <3>2, DeletedKept DEF TrulyGone
  <2>5. CASE q # s
    BY <1>2, <2>1, <2>5
  <2> QED BY <2>4, <2>5
<1>9. CASE HandleNotify(s) \/ HandleDeleted(s)
  BY <1>2, <1>3, <1>9 DEF HandleNotify, HandleDeleted, Reload
<1> QED BY <1>1, <1>4, <1>5, <1>6, <1>7, <1>8, <1>9 DEF QuietStep, HandleStep

LEMMA AlwaysTrulyGone == Spec => []TrulyGone
<1>1. Init => TrulyGone
  <2>1. NoEvent.gone = FALSE
    BY DEF NoEvent, NewEvent
  <2> QED BY <2>1 DEF Init, TrulyGone
<1>2. FInv /\ TrulyGone /\ [Next]_vars => TrulyGone'
  <2>1. FInv /\ TrulyGone /\ Next => TrulyGone'
    BY EventGone, InboxGone, ListGone DEF TrulyGone
  <2>2. TrulyGone /\ UNCHANGED vars => TrulyGone'
    BY DEF vars, TrulyGone
  <2> QED BY <2>1, <2>2
<1> QED BY <1>1, <1>2, AlwaysFInv, PTL DEF Spec

\* A session that shows the history of the room and for which nothing of the
\* room is on its way, was dropped, or crossed its deletion.
Settled(s) ==
    /\ Looks(s) /\ at[s] # "mark" /\ s \notin searching
    /\ missed[s] = {} /\ unmarked[s] = {} /\ stale[s] = {}
    /\ ~DeletionComing(s) /\ \A i \in Ids : ~OnItsWay(i, s)

\* Its screen shows what the tables hold.
Current(s) ==
    /\ \A i \in Ids : i > Len(author) - HistoryLimit => InList(i, s)
    /\ \A j \in 1 .. Len(list[s]) : list[s][j].gone <=> list[s][j].id \in deleted
    /\ \A i \in Ids : <<UserOf[s], i>> \notin notes

SettledIsCurrent == \A s \in Sessions : Settled(s) => Current(s)

\* Whatever overlapped on the way there, a screen with nothing on its way to it
\* shows the last messages, those deleted as deleted and no others, and leaves
\* none of them unread: what the events and the reloads of handleHubEvent and
\* openRoom bring about together (app.go:275-286, 597-636, 660-669).
THEOREM SettledScreensCurrent == Spec => []SettledIsCurrent
<1>1. ASSUME NothingVanishes, TombstoneShown, ReadWhenShown, TrulyGone
      PROVE  SettledIsCurrent
  <2> SUFFICES ASSUME NEW s \in Sessions, Settled(s) PROVE Current(s)
    BY DEF SettledIsCurrent
  <2>1. \A i \in Ids : i > Len(author) - HistoryLimit => InList(i, s)
    BY <1>1 DEF NothingVanishes, Settled
  <2>2. \A j \in 1 .. Len(list[s]) : list[s][j].id \in deleted => list[s][j].gone
    BY <1>1 DEF TombstoneShown, Settled
  <2>3. \A j \in 1 .. Len(list[s]) : list[s][j].gone => list[s][j].id \in deleted
    BY <1>1 DEF TrulyGone
  <2>4. \A i \in Ids : <<UserOf[s], i>> \notin notes
    BY <1>1 DEF ReadWhenShown, Settled
  <2>5. \A j \in 1 .. Len(list[s]) : list[s][j].gone <=> list[s][j].id \in deleted
    BY <2>2, <2>3
  <2> QED BY <2>1, <2>4, <2>5 DEF Current
<1> QED BY <1>1, NoneVanishes, TombstonesShown, ReadOnceShown, AlwaysTrulyGone, PTL
=============================================================================
