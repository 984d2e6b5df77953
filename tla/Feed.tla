-------------------------------- MODULE Feed --------------------------------
(***************************************************************************)
(* The messages of one room on their way to the screens: what the store    *)
(* holds, the events between the sessions, and the message list, the       *)
(* unread count and the stored notifications of each session               *)
(* (src/internal/tui/app.go, commands.go, src/internal/store/store.go).    *)
(*                                                                         *)
(* Everybody here is a member of the room and stays one: memberships, and  *)
(* the events about them, are in Rooms.tla.  A session that does not look  *)
(* at the room looks at another room or at direct messages.                *)
(*                                                                         *)
(* A step is one SQL statement or transaction, one lock section of the     *)
(* hub, one non-blocking send, or one handled event.  Bounds: MaxCommands  *)
(* commands (messages, deletions, searches) in all, one life of a session. *)
(*                                                                         *)
(* Definitions named X_Variant stand before X and are used by nothing here:*)
(* they are the mistakes a property is shown to detect when one replaces X.*)
(***************************************************************************)
EXTENDS Integers, Sequences, FiniteSets

CONSTANTS Sessions,
          Users,
          UserOf,        \* [session -> user]
          Moderators,    \* owner, moderators and admins: they delete for others
          InboxCap,      \* events a session's channel holds (64)
          HistoryLimit,  \* messages openRoom reads (200)
          OldMessages,   \* the authors of the messages that are there at the start
          MaxCommands

ASSUME FeedAssumption ==
    /\ UserOf \in [Sessions -> Users]
    /\ Moderators \subseteq Users
    /\ InboxCap \in Nat \ {0}
    /\ HistoryLimit \in Nat \ {0}
    /\ OldMessages \in Seq(Sessions)
    /\ MaxCommands \in Nat

VARIABLES
    author,     \* messages of the room: author[i] is the session that sent i
    deleted,    \* messages with deleted_at set
    notes,      \* notifications not read yet: {<<user, message>>}
    users,      \* sessions the hub knows (Hub.users)
    inRoom,     \* sessions the hub has in the room (Hub.rooms)
    inbox,      \* [session -> its channel]
    at,         \* [session -> where its Update loop is]
    event,      \* [session -> the event it is publishing]
    to,         \* [session -> sessions its publication has still to reach]
    notified,   \* [session -> users it has still to notify]
    view,       \* [session -> what it shows]
    list,       \* AppModel.messages of the room: [session -> <<shown>>]
    searching,  \* sessions whose list is the result of a search
    unread,     \* AppModel.unreadRoom of the room
    commands,   \* commands that may still be run
    missed,     \* history: messages whose event was dropped since the last reload
    unmarked,   \* history: the same, since the session last marked the room as read
    raised,     \* history: what has raised the session's unread count, and by which message
    settled,    \* history: that of it which the session has marked as read since
    stale       \* history: messages that came after their deletion, as they were before it,
                \* since the last reload

store == <<author, deleted, notes>>
hubVars == <<users, inRoom, inbox>>
calls == <<at, event, to, notified, commands>>
screen == <<view, list, searching, unread, missed, unmarked, raised, settled, stale>>
vars == <<store, hubVars, calls, screen>>

Ids == 1 .. Len(author)
MaxId == Len(OldMessages) + MaxCommands

\* Stands in missed for a msg_deleted event, which names no message.
Deletion == 0

Kinds == {"room_msg", "notify", "msg_deleted"}

\* An event.  gone is the deleted flag of the message it carries, mset its
\* MentionSet.
NewEvent(kind, i, gone, mset) == [kind |-> kind, id |-> i, gone |-> gone, mset |-> mset]

Events == [kind : Kinds, id : 0 .. MaxId, gone : BOOLEAN, mset : SUBSET Users]

Shown == [id : 1 .. MaxId, gone : BOOLEAN]

\* What raises a count: Init's read of the notifications, before the author's
\* notify event has been published (early) or after (init), or an event.
Causes == {"init", "early", "room_msg", "notify"}

Raisings == [by : Causes, id : 0 .. MaxId]

Stages == {"off", "subscribe", "join", "first", "idle", "mark", "publish", "sending"}

TypeOK ==
    /\ author \in Seq(Sessions) /\ Len(author) =< MaxId
    /\ deleted \subseteq Ids
    /\ notes \subseteq Users \X Ids
    /\ inRoom \subseteq users /\ users \subseteq Sessions
    /\ inbox \in [Sessions -> Seq(Events)]
    /\ \A s \in Sessions : Len(inbox[s]) =< InboxCap
    /\ at \in [Sessions -> Stages]
    /\ event \in [Sessions -> Events]
    /\ to \in [Sessions -> SUBSET Sessions]
    /\ notified \in [Sessions -> SUBSET Users]
    /\ view \in [Sessions -> {"room", "away"}]
    /\ list \in [Sessions -> Seq(Shown)]
    /\ searching \subseteq Sessions
    /\ unread \in [Sessions -> Nat]
    /\ commands \in 0 .. MaxCommands
    /\ missed \in [Sessions -> SUBSET (0 .. MaxId)]
    /\ unmarked \in [Sessions -> SUBSET (0 .. MaxId)]
    /\ raised \in [Sessions -> SUBSET Raisings]
    /\ settled \in [Sessions -> SUBSET Raisings]
    /\ stale \in [Sessions -> SUBSET Ids]

NoEvent == NewEvent("msg_deleted", Deletion, FALSE, {})

\* A room with some messages, and nobody connected.
Init ==
    /\ author = OldMessages
    /\ deleted = {}
    /\ notes = {}
    /\ users = {}
    /\ inRoom = {}
    /\ inbox = [s \in Sessions |-> <<>>]
    /\ at = [s \in Sessions |-> "off"]
    /\ event = [s \in Sessions |-> NoEvent]
    /\ to = [s \in Sessions |-> {}]
    /\ notified = [s \in Sessions |-> {}]
    /\ view = [s \in Sessions |-> "away"]
    /\ list = [s \in Sessions |-> <<>>]
    /\ searching = {}
    /\ unread = [s \in Sessions |-> 0]
    /\ commands = MaxCommands
    /\ missed = [s \in Sessions |-> {}]
    /\ unmarked = [s \in Sessions |-> {}]
    /\ raised = [s \in Sessions |-> {}]
    /\ settled = [s \in Sessions |-> {}]
    /\ stale = [s \in Sessions |-> {}]

Goto(s, stage) == at' = [at EXCEPT ![s] = stage]

-----------------------------------------------------------------------------
(* What the store answers                                                  *)

\* The message of that id as a query returns it now.
Row(i) == [id |-> i, gone |-> i \in deleted]

\* Store.RoomHistory: the last messages, oldest first.
History_NotReversed ==
    LET n == IF Len(author) < HistoryLimit THEN Len(author) ELSE HistoryLimit
    IN  [j \in 1 .. n |-> Row(Len(author) + 1 - j)]
History ==
    LET n == IF Len(author) < HistoryLimit THEN Len(author) ELSE HistoryLimit
    IN  [j \in 1 .. n |-> Row(Len(author) - n + j)]

\* Store.SearchRoom: the messages that match, newest first.
NewestFirst(found) ==
    {ids \in [1 .. Cardinality(found) -> found] :
        \A j \in DOMAIN ids : \A k \in 1 .. (j - 1) : ids[k] > ids[j]}

\* Store.MarkRoomRead
AfterRead_OneMessage(u) ==
    {n \in notes : n[1] # u \/ \E m \in notes : m[1] = u /\ m[2] < n[2]}
AfterRead(u) == {n \in notes : n[1] # u}

\* A reload shows what the store holds, and makes up for lost events.
Reload(s) ==
    /\ list' = [list EXCEPT ![s] = History]
    /\ searching' = searching \ {s}
    /\ missed' = [missed EXCEPT ![s] = {}]
    /\ stale' = [stale EXCEPT ![s] = {}]

-----------------------------------------------------------------------------
(* AppModel.Init                                                           *)

\* The notify event of that message has still to be published to the user.
ToNotify(i, u) == \E a \in Sessions : event[a].id = i /\ u \in notified[a]

\* refreshUnread: the mentions not read yet.
Connect(s) ==
    LET mentions == {i \in Ids : <<UserOf[s], i>> \in notes} IN
    /\ at[s] = "off"
    /\ unread' = [unread EXCEPT ![s] = Cardinality(mentions)]
    /\ raised' = [raised EXCEPT ![s] =
           {[by |-> IF ToNotify(i, UserOf[s]) THEN "early" ELSE "init", id |-> i] : i \in mentions}]
    /\ Goto(s, "subscribe")
    /\ UNCHANGED <<store, hubVars, event, to, notified, commands, view, list, searching,
                   missed, unmarked, settled, stale>>

\* Hub.Subscribe
Subscribe(s) ==
    /\ at[s] = "subscribe"
    /\ users' = users \union {s}
    /\ Goto(s, "join")
    /\ UNCHANGED <<store, inRoom, inbox, event, to, notified, commands, screen>>

\* Hub.JoinRoom
JoinRoom(s) ==
    /\ at[s] = "join"
    /\ inRoom' = inRoom \union {s}
    /\ Goto(s, "first")
    /\ UNCHANGED <<store, users, inbox, event, to, notified, commands, screen>>

\* Another room is the first of the list and is opened.
FirstElsewhere(s) ==
    /\ at[s] = "first"
    /\ Goto(s, "idle")
    /\ UNCHANGED <<store, hubVars, event, to, notified, commands, screen>>

-----------------------------------------------------------------------------
(* Views                                                                   *)

\* openRoom reads the history, and then marks the room as read.
OpenRoom(s) ==
    /\ at[s] \in {"first", "idle"}
    /\ view' = [view EXCEPT ![s] = "room"]
    /\ Reload(s)
    /\ Goto(s, "mark")
    /\ UNCHANGED <<store, hubVars, event, to, notified, commands, unread, unmarked, raised, settled>>

MarkRead(s) ==
    /\ at[s] = "mark"
    /\ notes' = AfterRead(UserOf[s])
    /\ unmarked' = [unmarked EXCEPT ![s] = {}]
    /\ unread' = [unread EXCEPT ![s] = 0]
    /\ settled' = [settled EXCEPT ![s] = raised[s]]
    /\ Goto(s, "idle")
    /\ UNCHANGED <<author, deleted, hubVars, event, to, notified, commands,
                   view, list, searching, missed, raised, stale>>

\* Another room, or direct messages, are opened.
LookAway(s) ==
    /\ at[s] = "idle"
    /\ view[s] = "room"
    /\ view' = [view EXCEPT ![s] = "away"]
    /\ UNCHANGED <<store, hubVars, calls, list, searching, unread, missed, unmarked,
                   raised, settled, stale>>

Command(s) ==
    /\ at[s] = "idle"
    /\ commands > 0
    /\ commands' = commands - 1

\* /search puts its results in the place of the list.
Search(s, found) ==
    /\ Command(s)
    /\ view[s] = "room"
    /\ found # {}
    /\ \E ids \in NewestFirst(found) :
          list' = [list EXCEPT ![s] = [j \in 1 .. Cardinality(found) |-> Row(ids[j])]]
    /\ searching' = searching \union {s}
    /\ UNCHANGED <<store, hubVars, at, event, to, notified, view, unread,
                   missed, unmarked, raised, settled, stale>>

-----------------------------------------------------------------------------
(* Sending and deleting                                                    *)

\* The transaction of InsertRoomMessage, with the notifications of the
\* members it mentions; the author is never one of them.
SendInsert(s, mentions) ==
    LET i == Len(author) + 1  mset == mentions \ {UserOf[s]} IN
    /\ Command(s)
    /\ view[s] = "room"
    /\ author' = Append(author, s)
    /\ notes' = notes \union (mset \X {i})
    /\ event' = [event EXCEPT ![s] = NewEvent("room_msg", i, FALSE, mset)]
    /\ notified' = [notified EXCEPT ![s] = mset]
    /\ Goto(s, "publish")
    /\ UNCHANGED <<deleted, hubVars, to, screen>>

\* /delete, of a message one may delete, whether it is deleted or not.
Delete(s, i) ==
    /\ Command(s)
    /\ UserOf[author[i]] = UserOf[s] \/ UserOf[s] \in Moderators
    /\ deleted' = deleted \union {i}
    /\ event' = [event EXCEPT ![s] = NoEvent]
    /\ Goto(s, "publish")
    /\ UNCHANGED <<author, notes, hubVars, to, notified, screen>>

\* PublishRoom takes its snapshot; the message is read again just before.
Recipients_NotAuthor(s) == inRoom \ {s}
Recipients(s) == inRoom

Publish(s) ==
    /\ at[s] = "publish"
    /\ to' = [to EXCEPT ![s] = Recipients(s)]
    /\ event' = [event EXCEPT ![s].gone = event[s].id \in deleted]
    /\ Goto(s, "sending")
    /\ UNCHANGED <<store, hubVars, notified, commands, screen>>

\* One send: the channel takes the event or drops it.
Offer(queue, ev) == IF Len(queue) < InboxCap THEN Append(queue, ev) ELSE queue

Deliver(s, r) ==
    /\ at[s] = "sending"
    /\ r \in to[s]
    /\ inbox' = [inbox EXCEPT ![r] = Offer(@, event[s])]
    /\ LET lost == IF Len(inbox[r]) < InboxCap \/ event[s].kind = "notify"
                   THEN {} ELSE {event[s].id}
       IN  /\ missed' = [missed EXCEPT ![r] = @ \union lost]
           /\ unmarked' = [unmarked EXCEPT ![r] = @ \union lost]
    /\ to' = [to EXCEPT ![s] = @ \ {r}]
    /\ UNCHANGED <<store, users, inRoom, at, event, notified, commands,
                   view, list, searching, unread, raised, settled, stale>>

\* PublishUser, for the next of the users that were notified.
NotifyUser(s, u) ==
    /\ at[s] = "sending" /\ to[s] = {}
    /\ u \in notified[s]
    /\ event' = [event EXCEPT ![s] = NewEvent("notify", event[s].id, FALSE, {})]
    /\ to' = [to EXCEPT ![s] = {r \in users : UserOf[r] = u}]
    /\ notified' = [notified EXCEPT ![s] = @ \ {u}]
    /\ UNCHANGED <<store, hubVars, at, commands, screen>>

Return(s) ==
    /\ at[s] = "sending" /\ to[s] = {} /\ notified[s] = {}
    /\ event' = [event EXCEPT ![s] = NoEvent]
    /\ Goto(s, "idle")
    /\ UNCHANGED <<store, hubVars, to, notified, commands, screen>>

-----------------------------------------------------------------------------
(* handleHubEvent                                                          *)

\* The session receives an event of that kind.
Take(s, kind) ==
    /\ at[s] = "idle"
    /\ inbox[s] # <<>> /\ Head(inbox[s]).kind = kind
    /\ inbox' = [inbox EXCEPT ![s] = Tail(@)]

\* Whether a room_msg event raises the count: the notify event of those it
\* mentions does that for them.
Bumps_Always(s, ev) == view[s] # "room"
Bumps(s, ev) == view[s] # "room" /\ UserOf[s] \notin ev.mset

\* m.unreadRoom[...]++, by that event.
Raise(s, ev) ==
    /\ unread' = [unread EXCEPT ![s] = @ + 1]
    /\ raised' = [raised EXCEPT ![s] = @ \union {[by |-> ev.kind, id |-> ev.id]}]

HandleMessage(s) == LET ev == Head(inbox[s]) IN
    /\ Take(s, "room_msg")
    /\ list' = [list EXCEPT ![s] = Append(@, [id |-> ev.id, gone |-> ev.gone])]
    /\ IF view[s] = "room"
       THEN notes' = AfterRead(UserOf[s]) /\ unmarked' = [unmarked EXCEPT ![s] = {}]
       ELSE UNCHANGED <<notes, unmarked>>
    /\ IF Bumps(s, ev) THEN Raise(s, ev) ELSE UNCHANGED <<unread, raised>>
    /\ stale' = [stale EXCEPT ![s] = IF ev.id \in deleted /\ ~ev.gone THEN @ \union {ev.id} ELSE @]
    /\ UNCHANGED <<author, deleted, users, inRoom, calls, view, searching, missed, settled>>

HandleNotify(s) ==
    /\ Take(s, "notify")
    /\ Raise(s, Head(inbox[s]))
    /\ UNCHANGED <<store, users, inRoom, calls, view, list, searching,
                   missed, unmarked, settled, stale>>

\* msg_deleted rebuilds what is shown, whatever that is.
HandleDeleted_Ignored(s) ==
    /\ Take(s, "msg_deleted")
    /\ UNCHANGED <<store, users, inRoom, calls, screen>>
HandleDeleted(s) ==
    /\ Take(s, "msg_deleted")
    /\ IF view[s] = "room" THEN Reload(s) ELSE UNCHANGED <<list, searching, missed, stale>>
    /\ UNCHANGED <<store, users, inRoom, calls, view, unread, unmarked, raised, settled>>

-----------------------------------------------------------------------------
Next == \E s \in Sessions :
    \/ Connect(s) \/ Subscribe(s) \/ JoinRoom(s) \/ FirstElsewhere(s)
    \/ OpenRoom(s) \/ MarkRead(s) \/ LookAway(s)
    \/ \E found \in SUBSET Ids : Search(s, found)
    \/ \E mentions \in SUBSET Users : SendInsert(s, mentions)
    \/ \E i \in Ids : Delete(s, i)
    \/ Publish(s) \/ (\E r \in Sessions : Deliver(s, r))
    \/ (\E u \in Users : NotifyUser(s, u)) \/ Return(s)
    \/ HandleMessage(s) \/ HandleNotify(s) \/ HandleDeleted(s)

Spec == Init /\ [][Next]_vars

-----------------------------------------------------------------------------
(* Properties                                                              *)

\* The message of that id is still on its way to the session: not published
\* yet, published and not sent, or in the channel.
OnItsWay(i, s) ==
    \/ \E a \in Sessions :
          /\ event[a].kind = "room_msg" /\ event[a].id = i
          /\ at[a] = "publish" \/ s \in to[a]
    \/ \E j \in 1 .. Len(inbox[s]) : inbox[s][j].kind = "room_msg" /\ inbox[s][j].id = i

InList(i, s) == \E j \in 1 .. Len(list[s]) : list[s][j].id = i

Looks(s) == at[s] \notin {"off", "subscribe", "join", "first"} /\ view[s] = "room"

\* No message falls between the history a session reads and the events it
\* receives, although the two come from different places and are not
\* synchronised: each one of the last HistoryLimit messages is in the list of
\* whoever shows the room, or on its way, or its event was dropped since the
\* last reload (app.go:161-175, 275-286, 597-603, 626-628; hub.go:193).
NothingVanishes ==
    \A s \in Sessions : Looks(s) /\ s \notin searching =>
        \A i \in Ids : i > Len(author) - HistoryLimit =>
            InList(i, s) \/ OnItsWay(i, s) \/ i \in missed[s]

\* The last HistoryLimit messages of one author's session come up in the
\* order they were sent, however histories and events overlap; a message may
\* come up twice, what counts is the first time.  An older one may come up
\* late, when its event was queued before a reload that left it out
\* (app.go:275-286, 626-636; store.go:535-555).
FirstShownInOrder ==
    \A s \in Sessions : Looks(s) /\ s \notin searching =>
        \A j \in 1 .. Len(list[s]) : \A k \in 1 .. (j - 1) :
            LET later == list[s][k].id  earlier == list[s][j].id IN
            /\ Len(author) - HistoryLimit < earlier
            /\ earlier < later
            /\ author[earlier] = author[later]
            => \E h \in 1 .. (k - 1) : list[s][h].id = earlier

\* Who has the room on the screen has no unread notification of a message
\* of the room, except of messages whose event has not come: the room is
\* marked as read after the history was read, and again with each message,
\* but not when msg_deleted reloads the list (app.go:282, 631, 660-669;
\* store.go:785-789).
ReadWhenShown ==
    \A s \in Sessions : Looks(s) /\ at[s] # "mark" =>
        \A i \in Ids : <<UserOf[s], i>> \in notes => OnItsWay(i, s) \/ i \in unmarked[s]

\* The unread count of a session is the messages that raised it since the room
\* was last marked as read, and no message raises it twice in the session's
\* life: it is Init that counts it, or its room_msg event, or, for those it
\* mentions, their notify event, although the three come separately and either
\* event may be dropped.  Exception: Init read the notification before the
\* author published the notify event; the session subscribes in time for it,
\* and counts the message again (app.go:159, 226-229, 597-606, 632-635,
\* 677-681).
BumpedOnce ==
    \A s \in Sessions :
        /\ unread[s] = Cardinality(raised[s] \ settled[s])
        /\ \A m, n \in raised[s] :
              m.id = n.id /\ m # n => {m.by, n.by} = {"early", "notify"}

\* A msg_deleted event is still on its way to the session.
DeletionComing(s) ==
    \/ \E a \in Sessions :
          /\ event[a].kind = "msg_deleted"
          /\ at[a] = "publish" \/ (at[a] = "sending" /\ s \in to[a])
    \/ \E j \in 1 .. Len(inbox[s]) : inbox[s][j].kind = "msg_deleted"

\* "soft-delete; tombstone shown as [deleted]" (SPEC.md:93): whoever shows the
\* room sees a deleted message as deleted, or an event that reloads the list is
\* coming.  Exceptions: that event was dropped, or the message itself came after
\* it: it is read again before it is published, may be deleted in between, and
\* the events of the two sessions may cross (app.go:597-603, 660-669;
\* commands.go:259-284).
TombstoneShown ==
    \A s \in Sessions : Looks(s) /\ s \notin searching =>
        \A j \in 1 .. Len(list[s]) :
            list[s][j].id \in deleted /\ ~list[s][j].gone =>
                DeletionComing(s) \/ Deletion \in missed[s] \/ list[s][j].id \in stale[s]
=============================================================================
