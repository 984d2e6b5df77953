-------------------------------- MODULE Hub ---------------------------------
(***************************************************************************)
(* The in-process event hub (src/internal/hub/hub.go).                     *)
(*                                                                         *)
(* One mutex guards three maps: the subscriptions of every room, the       *)
(* sessions of every user, and a session count per user.  Every method     *)
(* takes the mutex once, copies the subscriptions it is going to notify,   *)
(* releases the mutex and only then sends, one subscription at a time and  *)
(* without blocking.  A step of this module is one such lock section, the  *)
(* close of a channel, or one send, so everything that can happen between  *)
(* two of them does.                                                       *)
(*                                                                         *)
(* A session is one AppModel: its Update loop calls the hub, one call at a *)
(* time, and its listenHub command receives from its channel.  Subscribe   *)
(* allocates a new Sub, so a session and its Sub are the same element.     *)
(*                                                                         *)
(* Definitions named X_Variant stand before X and are used by nothing here:*)
(* they are the mistakes a property is shown to detect when one replaces X.*)
(***************************************************************************)
EXTENDS Integers, FiniteSets, Sequences

CONSTANTS Sessions,    \* sessions (each owns one Sub once subscribed)
          Users,       \* users
          Rooms,       \* rooms
          UserOf,      \* the user of each session
          ChCap,       \* capacity of Sub.Ch (64 in the code)
          MaxPublished \* BOUND: publications by all sessions, presence aside

ASSUME HubAssumption ==
    /\ IsFiniteSet(Sessions)
    /\ UserOf \in [Sessions -> Users]
    /\ ChCap \in Nat \ {0}
    /\ MaxPublished \in Nat

VARIABLES rooms,       \* [room -> subscribed sessions]; {} is an absent key
          users,       \* [user -> sessions]; {} is an absent key
          presenceCnt, \* [user -> session count]; 0 is an absent key
          ch,          \* [session -> events queued in Sub.Ch]
          chan,        \* [session -> state of Sub.Ch]
          phase,       \* [session -> where its Update loop is in a hub call]
          ev,          \* [session -> event its current call is sending]
          to,          \* [session -> subs its current call has yet to send to]
          made,        \* [session -> number of events it has made]
          published    \* events published so far, for the bound

vars == <<rooms, users, presenceCnt, ch, chan, phase, ev, to, made, published>>
index == <<rooms, users, presenceCnt>>

-----------------------------------------------------------------------------
(* Events.  "room" stands for room_msg, msg_deleted and room_meta, "user"  *)
(* for dm_msg and notify; a presence event is "online" or "offline".  The  *)
(* payload is abstracted to who made the event and its number among the    *)
(* events that session made.                                               *)
Kinds == {"room", "user", "room_removed", "online", "offline"}

Events == [kind : Kinds, of : Rooms \union Users, from : Sessions, n : Nat]

NoEvent == [kind |-> "none"]

Phases == {"new",        \* Subscribe not called yet
           "idle",       \* subscribed, no hub call in progress
           "closing",    \* Unsubscribe is past its lock, channel still open
           "announcing", \* broadcastPresence is about to take its snapshot
           "sending",    \* past the snapshot, sending to each sub in it
           "gone",       \* Unsubscribe has returned
           "panicked"}   \* a send hit a closed channel

TypeOK ==
    /\ rooms \in [Rooms -> SUBSET Sessions]
    /\ users \in [Users -> SUBSET Sessions]
    /\ presenceCnt \in [Users -> Int]
    /\ ch \in [Sessions -> Seq(Events)]
    /\ \A s \in Sessions : Len(ch[s]) =< ChCap
    /\ chan \in [Sessions -> {"none", "open", "closed"}]
    /\ phase \in [Sessions -> Phases]
    /\ ev \in [Sessions -> Events \union {NoEvent}]
    /\ to \in [Sessions -> SUBSET Sessions]
    /\ made \in [Sessions -> Nat]
    /\ published \in Nat

Init ==
    /\ rooms = [r \in Rooms |-> {}]
    /\ users = [u \in Users |-> {}]
    /\ presenceCnt = [u \in Users |-> 0]
    /\ ch = [s \in Sessions |-> <<>>]
    /\ chan = [s \in Sessions |-> "none"]
    /\ phase = [s \in Sessions |-> "new"]
    /\ ev = [s \in Sessions |-> NoEvent]
    /\ to = [s \in Sessions |-> {}]
    /\ made = [s \in Sessions |-> 0]
    /\ published = 0

\* The event s makes next.
NewEvent(s, kind, of) == [kind |-> kind, of |-> of, from |-> s, n |-> made[s]]

\* s has built event e and collected the subs it goes to.
StartSending(s, e, targets) ==
    /\ phase' = [phase EXCEPT ![s] = "sending"]
    /\ ev' = [ev EXCEPT ![s] = e]
    /\ to' = [to EXCEPT ![s] = targets]
    /\ made' = [made EXCEPT ![s] = @ + 1]
    /\ published' = published + 1

-----------------------------------------------------------------------------
(* Subscribe and Unsubscribe                                               *)

Registered(s) == s \in users[UserOf[s]]

\* The lock section of Subscribe.  The user's first session goes on to
\* broadcast presence, outside the lock.
Subscribe(s) ==
    LET u == UserOf[s]
        first == presenceCnt[u] + 1 = 1
    IN
    /\ phase[s] = "new"
    /\ users' = [users EXCEPT ![u] = @ \union {s}]
    /\ presenceCnt' = [presenceCnt EXCEPT ![u] = @ + 1]
    /\ chan' = [chan EXCEPT ![s] = "open"]
    /\ phase' = [phase EXCEPT ![s] = IF first THEN "announcing" ELSE "idle"]
    /\ ev' = [ev EXCEPT ![s] = IF first THEN NewEvent(s, "online", u) ELSE NoEvent]
    /\ made' = [made EXCEPT ![s] = IF first THEN @ + 1 ELSE @]
    /\ UNCHANGED <<rooms, ch, to, published>>

\* Whether u has no session left once one is taken off the count.
IsLast_OffByOne(u) == presenceCnt[u] - 1 =< 1
IsLast(u) == presenceCnt[u] - 1 =< 0

\* The rooms without s; a room left empty loses its key.
RoomsWithout_OnlyIfEmptied(s) ==
    [r \in Rooms |-> IF rooms[r] = {s} THEN {} ELSE rooms[r]]
RoomsWithout(s) == [r \in Rooms |-> rooms[r] \ {s}]

\* The lock section of Unsubscribe: out of every room, out of the user's
\* sessions, and out of the count, whose key goes when it reaches zero.
Unsubscribe(s) ==
    LET u == UserOf[s]
        last == IsLast(u)
    IN
    /\ phase[s] = "idle"
    /\ rooms' = RoomsWithout(s)
    /\ users' = [users EXCEPT ![u] = @ \ {s}]
    /\ presenceCnt' = [presenceCnt EXCEPT ![u] = IF last THEN 0 ELSE @ - 1]
    /\ phase' = [phase EXCEPT ![s] = "closing"]
    /\ ev' = [ev EXCEPT ![s] = IF last THEN NewEvent(s, "offline", u) ELSE NoEvent]
    /\ made' = [made EXCEPT ![s] = IF last THEN @ + 1 ELSE @]
    /\ UNCHANGED <<ch, chan, to, published>>

\* close(s.Ch), after the lock is released and before any broadcast.  What
\* the channel holds can still be received.
CloseChannel(s) ==
    /\ phase[s] = "closing"
    /\ chan' = [chan EXCEPT ![s] = "closed"]
    /\ phase' = [phase EXCEPT ![s] = IF ev[s] = NoEvent THEN "gone" ELSE "announcing"]
    /\ UNCHANGED <<rooms, users, presenceCnt, ch, ev, to, made, published>>

\* broadcastPresence collects, under the read lock, every sub of any room.
\* The lock was released since the count changed.
SnapshotPresence(s) ==
    /\ phase[s] = "announcing"
    /\ phase' = [phase EXCEPT ![s] = "sending"]
    /\ to' = [to EXCEPT ![s] = UNION {rooms[r] : r \in Rooms}]
    /\ UNCHANGED <<rooms, users, presenceCnt, ch, chan, ev, made, published>>

-----------------------------------------------------------------------------
(* Room subscriptions                                                      *)

JoinRoom(s, r) ==
    /\ phase[s] = "idle"
    /\ rooms' = [rooms EXCEPT ![r] = @ \union {s}]
    /\ UNCHANGED <<users, presenceCnt, ch, chan, phase, ev, to, made, published>>

LeaveRoom(s, r) ==
    /\ phase[s] = "idle"
    /\ rooms' = [rooms EXCEPT ![r] = @ \ {s}]
    /\ UNCHANGED <<users, presenceCnt, ch, chan, phase, ev, to, made, published>>

SubsOf_AnyUser(u, r) == rooms[r]
SubsOf(u, r) == {t \in rooms[r] : UserOf[t] = u}

\* s kicks or bans u: u's subs leave the room under the lock and are each
\* told so afterwards.
RemoveUserFromRoom(s, u, r) ==
    /\ phase[s] = "idle"
    /\ published < MaxPublished
    /\ rooms' = [rooms EXCEPT ![r] = @ \ SubsOf(u, r)]
    /\ StartSending(s, NewEvent(s, "room_removed", u), SubsOf(u, r))
    /\ UNCHANGED <<users, presenceCnt, ch, chan>>

-----------------------------------------------------------------------------
(* Publishing                                                              *)

PublishRoom(s, r) ==
    /\ phase[s] = "idle"
    /\ published < MaxPublished
    /\ StartSending(s, NewEvent(s, "room", r), rooms[r])
    /\ UNCHANGED <<rooms, users, presenceCnt, ch, chan>>

PublishUser(s, u) ==
    /\ phase[s] = "idle"
    /\ published < MaxPublished
    /\ StartSending(s, NewEvent(s, "user", u), users[u])
    /\ UNCHANGED <<rooms, users, presenceCnt, ch, chan>>

\* send: a full channel drops the event (select with a default), ...
Offer_Unbounded(q, e) == Append(q, e)
Offer_Twice(q, e) == IF Len(q) < ChCap - 1 THEN Append(Append(q, e), e) ELSE q
Offer(q, e) == IF Len(q) < ChCap THEN Append(q, e) ELSE q

Accepts_WhenNotFull(t) == chan[t] = "open" /\ Len(ch[t]) < ChCap
Accepts(t) == chan[t] = "open"

Send(s, t) ==
    /\ phase[s] = "sending"
    /\ t \in to[s]
    /\ Accepts(t)
    /\ ch' = [ch EXCEPT ![t] = Offer(@, ev[s])]
    /\ to' = [to EXCEPT ![s] = @ \ {t}]
    /\ UNCHANGED <<rooms, users, presenceCnt, chan, phase, ev, made, published>>

\* ... and a closed one panics, default or not.  The calling goroutine
\* runs no further: what is left of its call, and its cleanup, never happen.
SendPanics(s, t) ==
    /\ phase[s] = "sending"
    /\ t \in to[s]
    /\ chan[t] = "closed"
    /\ phase' = [phase EXCEPT ![s] = "panicked"]
    /\ UNCHANGED <<rooms, users, presenceCnt, ch, chan, ev, to, made, published>>

\* The loop over the snapshot is done and the call returns.
Return(s) ==
    /\ phase[s] = "sending"
    /\ to[s] = {}
    /\ phase' = [phase EXCEPT ![s] = IF chan[s] = "open" THEN "idle" ELSE "gone"]
    /\ ev' = [ev EXCEPT ![s] = NoEvent]
    /\ UNCHANGED <<rooms, users, presenceCnt, ch, chan, to, made, published>>

\* listenHub takes one event.  It runs in its own goroutine, so also while
\* the session's Update loop is inside a hub call, and it drains what a
\* closed channel still holds.
Receive(s) ==
    /\ Len(ch[s]) > 0
    /\ ch' = [ch EXCEPT ![s] = Tail(@)]
    /\ UNCHANGED <<rooms, users, presenceCnt, chan, phase, ev, to, made, published>>

-----------------------------------------------------------------------------
\* The steps of a call that is already running.
Step(s) ==
    \/ CloseChannel(s)
    \/ SnapshotPresence(s)
    \/ \E t \in Sessions : Send(s, t)
    \/ \E t \in Sessions : SendPanics(s, t)
    \/ Return(s)

Call(s) ==
    \/ Subscribe(s)
    \/ Unsubscribe(s)
    \/ \E r \in Rooms : JoinRoom(s, r)
    \/ \E r \in Rooms : LeaveRoom(s, r)
    \/ \E u \in Users, r \in Rooms : RemoveUserFromRoom(s, u, r)
    \/ \E r \in Rooms : PublishRoom(s, r)
    \/ \E u \in Users : PublishUser(s, u)

Next == \E s \in Sessions : Call(s) \/ Step(s) \/ Receive(s)

Spec == Init /\ [][Next]_vars

-----------------------------------------------------------------------------
(* Properties                                                              *)

\* IsOnline and OnlineUserIDs read the count, not the session sets.
OnlineUserIDs == {u \in Users : presenceCnt[u] > 0}

\* The three maps of Hub describe the same sessions whatever the order of
\* lock sections: the count of a user is the number of sessions registered
\* for them, a registered session is registered for its own user, its
\* channel is open, and a room holds registered sessions only.  A session
\* left behind in a room by Unsubscribe, or a count that misses one of two
\* connections, would break it (Subscribe, Unsubscribe, hub.go:46-88).
HubIndexConsistent ==
    /\ \A u \in Users : presenceCnt[u] = Cardinality(users[u])
    /\ \A u \in Users : \A s \in users[u] : UserOf[s] = u /\ chan[s] = "open"
    /\ \A r \in Rooms : \A s \in rooms[r] : Registered(s)

\* An event for one user reaches sessions of that user only, in the channel
\* or in the snapshot still being sent: dm_msg and notify events through
\* PublishUser, room_removed through RemoveUserFromRoom (hub.go:110-129,
\* 160-170), even when sessions of both users share the room.
InFlight(t) == {ev[s] : s \in {x \in Sessions : phase[x] = "sending" /\ t \in to[x]}}

Queued(t) == {ch[t][i] : i \in DOMAIN ch[t]}

AddressedToUser ==
    \A t \in Sessions : \A e \in Queued(t) \union InFlight(t) :
        e.kind \in {"user", "room_removed"} => e.of = UserOf[t]

\* One publisher's events reach a subscriber in the order it made them and
\* never twice, however the sends of different goroutines interleave: the
\* loop sends each event once to each sub of its snapshot, and finishes
\* before the goroutine makes the next event (hub.go:147-187).
FifoPerPublisher ==
    \A t \in Sessions :
        /\ \A i, j \in DOMAIN ch[t] :
              i < j /\ ch[t][i].from = ch[t][j].from => ch[t][i].n < ch[t][j].n
        /\ \A i \in DOMAIN ch[t], s \in Sessions :
              phase[s] = "sending" /\ t \in to[s] /\ ch[t][i].from = s
                  => ch[t][i].n < ev[s].n

\* No publisher waits for a slow client: every hub call ends, by returning
\* or by the panic above, although no channel is ever read (the
\* select/default of send, hub.go:189-195).  Presence.tla has the fairness.
CallsReturn ==
    \A s \in Sessions :
        phase[s] \in {"closing", "announcing", "sending"}
            ~> phase[s] \in {"idle", "gone", "panicked"}

\* The hub implements the presence registry: the users it reports online
\* are at every moment those with a session between the lock sections of
\* Subscribe and Unsubscribe (SPEC.md:105).
R == INSTANCE Registry WITH
        live   <- {s \in Sessions : Registered(s)},
        ended  <- {s \in Sessions : phase[s] # "new" /\ ~Registered(s)},
        online <- OnlineUserIDs

RegistrySpec == R!Spec

\* "drop if subscriber is slow; client will see catch-up on next reload"
\* (hub.go:193): a send never does worse than drop the event.
SendNeverPanics == \A s \in Sessions : phase[s] # "panicked"
=============================================================================
