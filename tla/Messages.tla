------------------------------ MODULE Messages ------------------------------
(***************************************************************************)
(* Direct messages from the table to the screens, the block list, the      *)
(* notifications and unread counts that go with them, and what deletion,   *)
(* retention and a restart of the server do to them                        *)
(* (src/internal/store/store.go, src/internal/tui/app.go, commands.go).    *)
(*                                                                         *)
(* A step is one SQL statement or transaction, one lock section of the     *)
(* hub, one non-blocking send, or a change of one session's own state.     *)
(* Order on the screen, and the limit of the history query, are in         *)
(* Feed.tla for rooms and the same here; what a session shows is a set.    *)
(*                                                                         *)
(* Definitions named X_Variant stand before X and are used by nothing here:*)
(* they are the mistakes a property is shown to detect when one replaces X.*)
(***************************************************************************)
EXTENDS Integers, Sequences, FiniteSets

CONSTANTS Sessions,
          Users,
          UserOf,       \* [session -> user]
          Admins,       \* users with is_admin when they connected
          Nobody,       \* no direct messages are open
          InboxCap,     \* events a session's channel holds (64)
          MaxSends,     \* BOUND: direct messages sent
          MaxCommands   \* BOUND: blocks, deletions, purges, restarts

ASSUME MessagesAssumption ==
    /\ UserOf \in [Sessions -> Users]
    /\ Admins \subseteq Users
    /\ Nobody \notin Users
    /\ InboxCap \in Nat \ {0}
    /\ MaxSends \in Nat
    /\ MaxCommands \in Nat

VARIABLES
    rows,      \* messages: [id -> message or NoRow]
    notes,     \* notifications not read yet: {<<user, id>>}
    blocks,    \* blocks: [user -> users they blocked]
    users,     \* sessions the hub knows (Hub.users)
    inbox,     \* [session -> its channel]
    at,        \* [session -> where its Update loop is]
    event,     \* [session -> the message it publishes]
    to,        \* [session -> sessions its publication has still to reach]
    view,      \* [session -> currentPeerID, or Nobody]
    peers,     \* AppModel.dmPeers: [session -> users listed]
    shown,     \* [session -> messages of the open thread it shows]
    badge,     \* AppModel.unreadDM: [session -> [peer -> count]]
    sent,      \* messages stored so far; numbers them over id reuse
    commands   \* commands that may still be run

\* History, read by properties only.
VARIABLES
    raced,     \* sessions past both block checks when the peer blocked them
    gap,       \* [session -> messages published while Init had not subscribed]
    dropped    \* [session -> messages whose event met a full channel]

store == <<rows, notes, blocks>>
hubVars == <<users, inbox>>
loops == <<at, event, to>>
screen == <<view, peers, shown, badge>>
bounds == <<sent, commands>>
history == <<raced, gap, dropped>>
vars == <<rows, notes, blocks, users, inbox, at, event, to, view, peers, shown, badge,
          sent, commands, raced, gap, dropped>>

Ids == 1 .. MaxSends
Numbers == 1 .. MaxSends

\* A message; nr tells apart two messages that had the same id.
Rows == [nr : Numbers, id : Ids, from : Users, dest : Users, gone : BOOLEAN]

NoRow == [nr |-> 0]

NoEvent == [nr |-> 0]

Stages == {"off", "gone", "unread", "subscribe", "idle", "mark", "check", "insert", "publish",
           "sending", "echo", "echoing"}

TypeOK ==
    /\ rows \in [Ids -> Rows \union {NoRow}]
    /\ notes \subseteq Users \X Ids
    /\ blocks \in [Users -> SUBSET Users]
    /\ users \subseteq Sessions
    /\ inbox \in [Sessions -> Seq(Rows)]
    /\ \A s \in Sessions : Len(inbox[s]) =< InboxCap
    /\ at \in [Sessions -> Stages]
    /\ event \in [Sessions -> Rows \union {NoEvent}]
    /\ to \in [Sessions -> SUBSET Sessions]
    /\ view \in [Sessions -> Users \union {Nobody}]
    /\ peers \in [Sessions -> SUBSET Users]
    /\ shown \in [Sessions -> SUBSET Numbers]
    /\ badge \in [Sessions -> [Users -> Nat]]
    /\ sent \in 0 .. MaxSends
    /\ commands \in 0 .. MaxCommands
    /\ raced \subseteq Sessions
    /\ gap \in [Sessions -> SUBSET Numbers]
    /\ dropped \in [Sessions -> SUBSET Numbers]

\* Empty tables and nobody connected.  BOUND: some sessions never come, and
\* some of the messages are not sent.
Init ==
    /\ rows = [i \in Ids |-> NoRow]
    /\ notes = {}
    /\ blocks = [u \in Users |-> {}]
    /\ users = {}
    /\ inbox = [s \in Sessions |-> <<>>]
    /\ at \in [Sessions -> {"off", "gone"}]
    /\ event = [s \in Sessions |-> NoEvent]
    /\ to = [s \in Sessions |-> {}]
    /\ view = [s \in Sessions |-> Nobody]
    /\ peers = [s \in Sessions |-> {}]
    /\ shown = [s \in Sessions |-> {}]
    /\ badge = [s \in Sessions |-> [u \in Users |-> 0]]
    /\ sent \in 0 .. MaxSends
    /\ commands = MaxCommands
    /\ raced = {}
    /\ gap = [s \in Sessions |-> {}]
    /\ dropped = [s \in Sessions |-> {}]

Step(s, from, next) == at[s] = from /\ at' = [at EXCEPT ![s] = next]

-----------------------------------------------------------------------------
(* What the store answers                                                  *)

Stored == {i \in Ids : rows[i] # NoRow}

Parties(i) == {rows[i].from, rows[i].dest}

\* Store.DMHistory, for the two in either order (DMKey).
Thread(u, p) == {i \in Stored : Parties(i) = {u, p}}

\* Store.DMPeers
DMPeers(u) == {p \in Users \ {u} : Thread(u, p) # {}}

\* Store.UnreadCounts: the other party of each message not read yet.
UnreadFrom(u, p) == {i \in Thread(u, p) : <<u, i>> \in notes}

\* Store.MarkDMRead
AfterRead_BothSides(u, p) == {n \in notes : n[2] \notin Thread(u, p)}
AfterRead(u, p) == {n \in notes : ~(n[1] = u /\ n[2] \in Thread(u, p))}

\* SQLite gives a new row the id after the largest there is, so the id of a
\* purged row may come back (INTEGER PRIMARY KEY without AUTOINCREMENT).
IsNext(i) == (\A j \in Stored : j < i) /\ (i = 1 \/ i - 1 \in Stored)

-----------------------------------------------------------------------------
(* AppModel.Init and the end of a session                                  *)

Connect(s) ==
    /\ Step(s, "off", "unread")
    /\ peers' = [peers EXCEPT ![s] = DMPeers(UserOf[s])]
    /\ UNCHANGED <<store, hubVars, event, to, view, shown, badge, bounds, history>>

RefreshUnread(s) ==
    /\ Step(s, "unread", "subscribe")
    /\ badge' = [badge EXCEPT ![s] = [p \in Users |-> Cardinality(UnreadFrom(UserOf[s], p))]]
    /\ UNCHANGED <<store, hubVars, event, to, view, peers, shown, bounds, history>>

\* Hub.Subscribe; a room is opened, or nothing.
Subscribe(s) ==
    /\ Step(s, "subscribe", "idle")
    /\ users' = users \union {s}
    /\ UNCHANGED <<store, inbox, event, to, screen, bounds, history>>

\* What is lost with the memory of the sessions in S.
Forget(S) ==
    /\ users' = users \ S
    /\ inbox' = [s \in Sessions |-> IF s \in S THEN <<>> ELSE inbox[s]]
    /\ event' = [s \in Sessions |-> IF s \in S THEN NoEvent ELSE event[s]]
    /\ to' = [s \in Sessions |-> IF s \in S THEN {} ELSE to[s]]
    /\ view' = [s \in Sessions |-> IF s \in S THEN Nobody ELSE view[s]]
    /\ peers' = [s \in Sessions |-> IF s \in S THEN {} ELSE peers[s]]
    /\ shown' = [s \in Sessions |-> IF s \in S THEN {} ELSE shown[s]]
    /\ badge' = [s \in Sessions |-> IF s \in S THEN [u \in Users |-> 0] ELSE badge[s]]
    /\ raced' = raced \ S
    /\ gap' = [s \in Sessions |-> IF s \in S THEN {} ELSE gap[s]]
    /\ dropped' = [s \in Sessions |-> IF s \in S THEN {} ELSE dropped[s]]

\* quit, or the end of the connection: cleanup runs between two messages.
\* BOUND: a session connects once in one life of the server.
Disconnect(s) ==
    /\ Step(s, "idle", "gone")
    /\ Forget({s})
    /\ UNCHANGED <<store, bounds>>

\* The process ends in the middle of whatever it does, and is started again.
Restart ==
    /\ commands > 0
    /\ commands' = commands - 1
    /\ at' = [s \in Sessions |-> IF at[s] = "gone" THEN "gone" ELSE "off"]
    /\ Forget(Sessions)
    /\ UNCHANGED <<store, sent>>

-----------------------------------------------------------------------------
(* Opening a thread                                                        *)

\* Navigation shows a listed peer; /msg lists the peer first.  openDM reads
\* the history, then marks the thread as read and clears its count.
OpenDM(s, p) ==
    /\ Step(s, "idle", "mark")
    /\ p # UserOf[s]
    /\ peers' = [peers EXCEPT ![s] = @ \union {p}]
    /\ view' = [view EXCEPT ![s] = p]
    /\ shown' = [shown EXCEPT ![s] = {rows[i].nr : i \in Thread(UserOf[s], p)}]
    /\ UNCHANGED <<store, hubVars, event, to, badge, bounds, history>>

MarkDMRead(s) ==
    /\ Step(s, "mark", "idle")
    /\ notes' = AfterRead(UserOf[s], view[s])
    /\ badge' = [badge EXCEPT ![s][view[s]] = 0]
    /\ UNCHANGED <<rows, blocks, hubVars, event, to, view, peers, shown, bounds, history>>

\* A room is opened.
LookAway(s) ==
    /\ at[s] = "idle"
    /\ view[s] # Nobody
    /\ view' = [view EXCEPT ![s] = Nobody]
    /\ shown' = [shown EXCEPT ![s] = {}]
    /\ UNCHANGED <<store, hubVars, loops, peers, badge, bounds, history>>

-----------------------------------------------------------------------------
(* Sending                                                                 *)

IsBlocked(by, target) == target \in blocks[by]

\* sendCurrent asks whether the peer blocked the author, and InsertDM asks
\* again; each query is a statement of its own.
Send(s) ==
    /\ sent < MaxSends
    /\ view[s] # Nobody
    /\ ~IsBlocked(view[s], UserOf[s])
    /\ Step(s, "idle", "check")
    /\ UNCHANGED <<store, hubVars, event, to, screen, bounds, history>>

AfterCheck_Skipped(s) == "insert"
AfterCheck(s) == IF IsBlocked(view[s], UserOf[s]) THEN "idle" ELSE "insert"

CheckAgain(s) ==
    /\ Step(s, "check", AfterCheck(s))
    /\ UNCHANGED <<store, hubVars, event, to, screen, bounds, history>>

\* The transaction of InsertDM: the message and the recipient's notification.
Noted(s, i) == {<<view[s], i>>}

NewRow(s, i) == [nr |-> sent + 1, id |-> i, from |-> UserOf[s], dest |-> view[s],
                 gone |-> FALSE]

InsertDM(s, i) ==
    /\ sent < MaxSends
    /\ IsNext(i)
    /\ Step(s, "insert", "publish")
    /\ rows' = [rows EXCEPT ![i] = NewRow(s, i)]
    /\ notes' = notes \union Noted(s, i)
    /\ event' = [event EXCEPT ![s] = NewRow(s, i)]
    /\ sent' = sent + 1
    /\ raced' = raced \ {s}
    /\ UNCHANGED <<blocks, hubVars, to, screen, commands, gap, dropped>>

\* PublishUser's snapshot: first the peer's sessions, then the author's own.
SubsOf_One(u) ==
    LET S == {r \in users : UserOf[r] = u} IN IF S = {} THEN {} ELSE {CHOOSE r \in S : TRUE}
SubsOf(u) == {r \in users : UserOf[r] = u}

Publish(s) ==
    /\ Step(s, "publish", "sending")
    /\ to' = [to EXCEPT ![s] = SubsOf(event[s].dest)]
    /\ gap' = [r \in Sessions |->
                 IF UserOf[r] = event[s].dest /\ at[r] \in {"unread", "subscribe"}
                 THEN gap[r] \union {event[s].nr} ELSE gap[r]]
    /\ UNCHANGED <<store, hubVars, event, screen, bounds, raced, dropped>>

Echo(s) ==
    /\ to[s] = {}
    /\ Step(s, "sending", "echoing")
    /\ to' = [to EXCEPT ![s] = SubsOf(event[s].from)]
    /\ UNCHANGED <<store, hubVars, event, screen, bounds, history>>

Offer(queue, ev) == IF Len(queue) < InboxCap THEN Append(queue, ev) ELSE queue

\* One send.  That a send to a session that has just ended panics is in
\* Hub.tla; here nothing comes of it.
Deliver(s, r) ==
    /\ at[s] \in {"sending", "echoing"}
    /\ r \in to[s]
    /\ to' = [to EXCEPT ![s] = @ \ {r}]
    /\ IF r \in users
       THEN /\ inbox' = [inbox EXCEPT ![r] = Offer(@, event[s])]
            /\ dropped' = [dropped EXCEPT ![r] = IF Len(inbox[r]) < InboxCap THEN @
                                                 ELSE @ \union {event[s].nr}]
       ELSE UNCHANGED <<inbox, dropped>>
    /\ UNCHANGED <<store, users, at, event, screen, bounds, raced, gap>>

Return(s) ==
    /\ to[s] = {}
    /\ Step(s, "echoing", "idle")
    /\ event' = [event EXCEPT ![s] = NoEvent]
    /\ UNCHANGED <<store, hubVars, to, screen, bounds, history>>

-----------------------------------------------------------------------------
(* handleHubEvent, dm_msg                                                  *)

\* PeerID of the event: the other party, for the receiver.
Other(s, ev) == IF ev.from = UserOf[s] THEN ev.dest ELSE ev.from

\* Own messages, sent from another session, do not count as unread.
Bumps_IfListed(s, ev) ==
    view[s] # Other(s, ev) /\ ev.from # UserOf[s] /\ Other(s, ev) \in peers[s]
Bumps(s, ev) == view[s] # Other(s, ev) /\ ev.from # UserOf[s]

HandleDM(s) == LET ev == Head(inbox[s])  p == Other(s, ev) IN
    /\ at[s] = "idle"
    /\ inbox[s] # <<>>
    /\ inbox' = [inbox EXCEPT ![s] = Tail(@)]
    /\ peers' = [peers EXCEPT ![s] = @ \union {p}]
    /\ badge' = [badge EXCEPT ![s][p] = IF Bumps(s, ev) THEN @ + 1 ELSE @]
    /\ IF view[s] = p
       THEN /\ shown' = [shown EXCEPT ![s] = @ \union {ev.nr}]
            /\ notes' = AfterRead(UserOf[s], p)
       ELSE UNCHANGED <<shown, notes>>
    /\ UNCHANGED <<rows, blocks, users, loops, view, bounds, history>>

-----------------------------------------------------------------------------
(* Blocking, deleting, and the retention command of tsocial-admin          *)

Command == commands > 0 /\ commands' = commands - 1 /\ UNCHANGED sent

\* Store.Block.  A session of the blocked user that has passed both checks
\* stores its message all the same.
Block(s, u) ==
    /\ at[s] = "idle" /\ u # UserOf[s]
    /\ Command
    /\ blocks' = [blocks EXCEPT ![UserOf[s]] = @ \union {u}]
    /\ raced' = raced \union
                {r \in Sessions : at[r] = "insert" /\ UserOf[r] = u /\ view[r] = UserOf[s]}
    /\ UNCHANGED <<rows, notes, hubVars, loops, screen, gap, dropped>>

Unblock(s, u) ==
    /\ at[s] = "idle" /\ u \in blocks[UserOf[s]]
    /\ Command
    /\ blocks' = [blocks EXCEPT ![UserOf[s]] = @ \ {u}]
    /\ UNCHANGED <<rows, notes, hubVars, loops, screen, history>>

\* /delete of one's own direct message, or of anyone's by an admin; no event is
\* published for it.
Delete(s, i) ==
    /\ at[s] = "idle"
    /\ i \in Stored /\ ~rows[i].gone
    /\ rows[i].from = UserOf[s] \/ UserOf[s] \in Admins
    /\ Command
    /\ rows' = [rows EXCEPT ![i].gone = TRUE]
    /\ UNCHANGED <<notes, blocks, hubVars, loops, screen, history>>

\* Store.PurgeDeletedOlderThan, of some of the deleted messages; foreign keys
\* take their notifications with them.
Cascade_Off(I) == notes
Cascade(I) == {n \in notes : n[2] \notin I}

Purge(I) ==
    /\ I # {} /\ \A i \in I : rows[i] # NoRow /\ rows[i].gone
    /\ Command
    /\ rows' = [i \in Ids |-> IF i \in I THEN NoRow ELSE rows[i]]
    /\ notes' = Cascade(I)
    /\ UNCHANGED <<blocks, hubVars, loops, screen, history>>

-----------------------------------------------------------------------------
Next ==
    \/ \E s \in Sessions :
          \/ Connect(s) \/ RefreshUnread(s) \/ Subscribe(s) \/ Disconnect(s)
          \/ (\E p \in Users : OpenDM(s, p)) \/ MarkDMRead(s) \/ LookAway(s)
          \/ Send(s) \/ CheckAgain(s) \/ (\E i \in Ids : InsertDM(s, i))
          \/ Publish(s) \/ Echo(s) \/ (\E r \in Sessions : Deliver(s, r)) \/ Return(s)
          \/ HandleDM(s)
          \/ \E u \in Users : Block(s, u) \/ Unblock(s, u)
          \/ \E i \in Ids : Delete(s, i)
    \/ \E I \in SUBSET Ids : Purge(I)
    \/ Restart

Spec == Init /\ [][Next]_vars

-----------------------------------------------------------------------------
(* Properties                                                              *)

\* A user who blocked another gets no direct message from them any more,
\* except one from each session that had passed the last of its two checks
\* when the block came (app.go:608, store.go:457-486).
BlockRespected ==
    \A s \in Sessions : at[s] = "insert" /\ IsBlocked(view[s], UserOf[s]) => s \in raced

\* A notification is always of a message to the user who has it, although ids
\* of purged messages are given out again (store.go:476-484, 849-857, and the
\* ON DELETE CASCADE of the notifications table).
NotificationsFit == \A n \in notes : n[2] \in Stored /\ rows[n[2]].dest = n[1]

\* The message is still on its way to the session.
OnItsWay(nr, s) ==
    \/ \E a \in Sessions :
          /\ event[a].nr = nr
          /\ \/ at[a] = "publish"
             \/ s \in to[a]
             \/ at[a] = "sending" /\ event[a].from = UserOf[s]
    \/ \E j \in 1 .. Len(inbox[s]) : inbox[s][j].nr = nr

Connected(s) == at[s] \notin {"off", "gone", "unread", "subscribe"}

\* A thread on the screen misses no message of the thread: each is shown, on
\* its way to the session, or its event was dropped (app.go:288-299, 607-616,
\* 637-656).
ThreadComplete ==
    \A s \in Sessions : Connected(s) /\ view[s] # Nobody =>
        \A i \in Thread(UserOf[s], view[s]) :
            \/ rows[i].nr \in shown[s] \union dropped[s]
            \/ OnItsWay(rows[i].nr, s)

\* A message that its user has not read is counted in each of their sessions
\* that does not show the thread, or is on its way there.  Exceptions: the
\* event met a full channel, or came while Init had read the counts and not
\* subscribed yet (app.go:156-162, 747-783).
UnreadCounted ==
    \A s \in Sessions : Connected(s) =>
        \A p \in Users \ {view[s]} : \A i \in UnreadFrom(UserOf[s], p) :
            \/ badge[s][p] > 0
            \/ OnItsWay(rows[i].nr, s)
            \/ rows[i].nr \in dropped[s] \union gap[s]

\* A message counts as read only when a session of its recipient has the
\* thread open, and there it is shown, or comes or was dropped on its way; or
\* when it was purged.  Reading one side of a thread leaves the other unread
\* (app.go:292-294, 654-656; store.go:791-798).
ReadByOpening ==
    [][\A n \in notes : n \notin notes' =>
          \/ rows'[n[2]] = NoRow
          \/ \E s \in Sessions :
                /\ UserOf[s] = n[1] /\ view[s] = rows[n[2]].from
                /\ \/ rows[n[2]].nr \in shown[s] \union dropped[s]
                   \/ OnItsWay(rows[n[2]].nr, s)]_vars
=============================================================================
