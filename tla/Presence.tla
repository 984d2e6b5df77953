------------------------------ MODULE Presence ------------------------------
(***************************************************************************)
(* Who each client shows as online (AppModel.online), on top of the hub.   *)
(*                                                                         *)
(* A client reads the hub's online users once while it connects, follows   *)
(* the presence events it receives, and replaces its whole map on a tick   *)
(* every two seconds.  Subscribe and Unsubscribe broadcast presence after  *)
(* releasing the hub's lock, so the events of one user can overtake each   *)
(* other, reach only sessions that are in some room at that moment, and    *)
(* are dropped when a channel is full: the events alone do not keep the    *)
(* map right, and the tick has to.                                         *)
(***************************************************************************)
EXTENDS Hub

VARIABLES online,  \* AppModel.online: [session -> users shown online]
          ready    \* [session -> AppModel.Init has returned]

pvars == <<vars, online, ready>>
client == <<online, ready>>

PTypeOK == TypeOK /\ online \in [Sessions -> SUBSET Users] /\ ready \in [Sessions -> BOOLEAN]

PInit ==
    /\ Init
    /\ online = [s \in Sessions |-> {}]
    /\ ready = [s \in Sessions |-> FALSE]

\* The end of AppModel.Init: add whoever the hub counts online now.  Events
\* queued since Subscribe come later.
LoadOnline(s) ==
    /\ phase[s] = "idle"
    /\ ~ready[s]
    /\ online' = [online EXCEPT ![s] = @ \union OnlineUserIDs]
    /\ ready' = [ready EXCEPT ![s] = TRUE]
    /\ UNCHANGED vars

\* handleHubEvent: a presence event sets one user's entry.
HandleEvent(s) ==
    LET e == Head(ch[s]) IN
    /\ ready[s]
    /\ phase[s] = "idle"
    /\ Receive(s)
    /\ online' = [online EXCEPT ![s] = IF e.kind = "online"
                                          THEN @ \union {e.of} ELSE @ \ {e.of}]
    /\ UNCHANGED ready

\* tickMsg builds a new map; what is not in the hub's answer is gone.
Ticked_Merge(old) == old \union OnlineUserIDs
Ticked(old) == OnlineUserIDs

Tick(s) ==
    /\ ready[s]
    /\ phase[s] = "idle"
    /\ online' = [online EXCEPT ![s] = Ticked(@)]
    /\ UNCHANGED <<vars, ready>>

\* The hub calls that matter to presence.  Between Subscribe and LoadOnline
\* a session only joins rooms.  Publications are left out: to presence they
\* only take room in channels, which a small ChCap makes scarce already.
HubCall(s) ==
    /\ \/ Subscribe(s)
       \/ \E r \in Rooms : JoinRoom(s, r)
       \/ ready[s] /\ Unsubscribe(s)
       \/ ready[s] /\ \E r \in Rooms : LeaveRoom(s, r)
    /\ UNCHANGED client

PNext ==
    \E s \in Sessions :
        \/ HubCall(s)
        \/ Step(s) /\ UNCHANGED client
        \/ LoadOnline(s)
        \/ HandleEvent(s)
        \/ Tick(s)

PSpec == PInit /\ [][PNext]_pvars

\* Running calls go on, Init ends, and the timer of tickCmd keeps firing.
\* Nobody has to connect or disconnect, and no client has to read its
\* channel.
PFairSpec ==
    /\ PSpec
    /\ \A s \in Sessions :
          /\ WF_pvars(Step(s) /\ UNCHANGED client)
          /\ WF_pvars(LoadOnline(s))
          /\ WF_pvars(Tick(s))

Connected(s) == ready[s] /\ phase[s] = "idle"

\* Once people stop connecting and disconnecting, every connected client
\* shows exactly the users the hub counts as online, whatever presence
\* events were reordered, dropped or never sent to it, and though stale ones
\* are handled after a tick (Subscribe, Unsubscribe and broadcastPresence in
\* hub.go; the tickMsg and presence cases of app.go).
PresenceConverges ==
    <>[](\A s \in Sessions : Connected(s) => online[s] = OnlineUserIDs)

-----------------------------------------------------------------------------
(* What the events alone keep right, between ticks                         *)

SaysHere(e, u) == e.kind = "online" /\ e.of = u
SaysGone(e, u) == e.kind = "offline" /\ e.of = u

\* A user announced as online is online until the announcement is made: the
\* session that makes it is still inside Subscribe, and counted.  A call
\* that could be overtaken by its own session's Unsubscribe would break it
\* (Subscribe and broadcastPresence, hub.go:46-65, 173-187).
ArrivalsAreTrue ==
    \A s \in Sessions, u \in Users :
        phase[s] \in {"announcing", "sending"} /\ SaysHere(ev[s], u)
            => u \in OnlineUserIDs

\* What s will show of u once it has handled the events it has queued.
WillShow(s, u) ==
    \/ u \in online[s] /\ \A i \in DOMAIN ch[s] : ~SaysGone(ch[s][i], u)
    \/ \E i \in DOMAIN ch[s] :
          /\ SaysHere(ch[s][i], u)
          /\ \A j \in DOMAIN ch[s] : j > i => ~SaysGone(ch[s][j], u)

\* t has yet to tell s that u left.
OnItsWay(t, s, u) ==
    /\ SaysGone(ev[t], u)
    /\ \/ phase[t] \in {"closing", "announcing"}
       \/ phase[t] = "sending" /\ s \in to[t]

\* s shows, and will go on showing, someone who has left.
Ghost(s, u) ==
    /\ u \notin OnlineUserIDs
    /\ WillShow(s, u)
    /\ \A t \in Sessions : ~OnItsWay(t, s, u)

\* t's announcement that u left does not get to s: s is in no room when the
\* subs are collected, its channel is full, or the loop over them panics.
Misses(t, s, u) ==
    /\ SaysGone(ev[t], u)
    /\ \/ SnapshotPresence(t) /\ s \notin to'[t]
       \/ Send(t, s) /\ Len(ch[s]) = ChCap
       \/ \E x \in Sessions : SendPanics(t, x) /\ s \in to[t]

\* A client comes to show someone who has left only by missing the
\* announcement.  No overtaking does it: not an older "online" sent late, not
\* the load at connect, a tick, or another session of the user coming or
\* going meanwhile (handleHubEvent and tickMsg in app.go:386-396, 670-676;
\* hub.go:46-88, 173-195).
GhostsWereMissed ==
    [][\A s \in Sessions, u \in Users :
          Ghost(s, u)' => Ghost(s, u) \/ \E t \in Sessions : Misses(t, s, u)]_pvars
=============================================================================
