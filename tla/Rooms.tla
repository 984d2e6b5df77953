------------------------------- MODULE Rooms --------------------------------
(***************************************************************************)
(* Room membership across the three places that keep it: the room_members  *)
(* and room_bans tables (src/internal/store/store.go), the hub's room      *)
(* subscriptions (src/internal/hub/hub.go), and each session's room list   *)
(* and open view (src/internal/tui/app.go, commands.go).                   *)
(*                                                                         *)
(* Every session runs one handler at a time in its own Update loop, but    *)
(* the loops of different sessions are not synchronised: a step here is    *)
(* one SQL statement or transaction, one hub lock section, or one send,    *)
(* together with updates of the session's own state, which no other        *)
(* session can see.  Errors of SQLite itself are not modelled; the hub's   *)
(* presence events are in Hub.tla and change nothing here.                 *)
(*                                                                         *)
(* Definitions named X_Variant stand before X and are used by nothing here:*)
(* they are the mistakes a property is shown to detect when one replaces X.*)
(***************************************************************************)
EXTENDS Integers, FiniteSets, Sequences

CONSTANTS Sessions,     \* SSH sessions
          Users,        \* registered users
          Rooms,        \* rooms, all created and none deleted
          UserOf,       \* the user of each session
          OwnerOf,      \* the creator of each room
          Private,      \* the private rooms
          Admins,       \* users with is_admin when they connected
          InboxCap,     \* capacity of a session's channel (64 in the code)
          MaxCommands,  \* BOUND: slash commands and sends, over all sessions
          NoRoom        \* no room is open (viewNone, or a DM)

ASSUME RoomsAssumption ==
    /\ UserOf \in [Sessions -> Users]
    /\ OwnerOf \in [Rooms -> Users]
    /\ Private \subseteq Rooms
    /\ Admins \subseteq Users
    /\ InboxCap \in Nat \ {0}
    /\ MaxCommands \in Nat
    /\ NoRoom \notin Rooms

VARIABLES
    role,      \* room_members: [room -> [user -> role or "none"]]
    banned,    \* room_bans: [room -> users]
    sub,       \* Hub.rooms: [room -> sessions]
    inbox,     \* Sub.Ch: [session -> events]
    pc,        \* [session -> where its Update loop is]
    arg,       \* [session -> room and user its handler works on]
    to,        \* [session -> sessions its handler has yet to send to]
    todo,      \* [session -> rooms Init has yet to subscribe to]
    nav,       \* AppModel.rooms: [session -> rooms listed]
    view,      \* AppModel.current, currentRoomID: [session -> room or NoRoom]
    commands   \* commands started so far

\* History, read by properties only.
VARIABLES
    kicked,    \* [room -> users removed by /kick or /ban and not added since]
    late,      \* [room -> sessions about to subscribe while their user was removed]
    invited,   \* [room -> users who created it or were ever invited]
    joined,    \* [room -> sessions that subscribed by /join with no removal under way,
               \*          and did not leave and were not removed since]
    fit,       \* [session -> its send met a member who is not banned]
    posted     \* messages stored: who, where, and who they were to the room

store == <<role, banned>>
hub == <<sub, inbox>>
locals == <<todo, nav, view>>
history == <<kicked, late, invited, joined, fit, posted>>
vars == <<role, banned, sub, inbox, pc, arg, to, todo, nav, view, commands,
          kicked, late, invited, joined, fit, posted>>

Events == [kind : {"room_meta", "room_msg", "room_removed"}, room : Rooms]

Labels ==
    {"off", "init_join", "idle", "gone", "panicked",
     "join_ban", "join_add", "join_nav", "join_hub", "join_publish", "join_open",
     "leave_hub", "leave_nav", "leave_publish",
     "invite_ban", "invite_add", "invite_publish",
     "kick_db", "ban_db", "kick_hub", "kick_publish",
     "send_member", "send_ban", "send_add", "send_publish",
     "removed_nav", "sending"}

\* What the handler of s works on: a room, a user, and while it sends, the
\* event it sends and the label it goes on to afterwards.
Arg(r, u) == [room |-> r, user |-> u, kind |-> "none", then |-> "idle"]

TypeOK ==
    /\ role \in [Rooms -> [Users -> {"none", "member", "owner"}]]
    /\ banned \in [Rooms -> SUBSET Users]
    /\ sub \in [Rooms -> SUBSET Sessions]
    /\ inbox \in [Sessions -> Seq(Events)]
    /\ \A s \in Sessions : Len(inbox[s]) =< InboxCap
    /\ pc \in [Sessions -> Labels]
    /\ arg \in [Sessions -> [room : Rooms \union {NoRoom}, user : Users,
                             kind : {"none", "room_meta", "room_msg", "room_removed"},
                             then : {"idle", "join_open", "kick_publish"}]]
    /\ to \in [Sessions -> SUBSET Sessions]
    /\ todo \in [Sessions -> SUBSET Rooms]
    /\ nav \in [Sessions -> SUBSET Rooms]
    /\ view \in [Sessions -> Rooms \union {NoRoom}]
    /\ commands \in 0 .. MaxCommands
    /\ kicked \in [Rooms -> SUBSET Users]
    /\ late \in [Rooms -> SUBSET Sessions]
    /\ invited \in [Rooms -> SUBSET Users]
    /\ joined \in [Rooms -> SUBSET Sessions]
    /\ fit \in [Sessions -> BOOLEAN]
    /\ posted \subseteq [room : Rooms, author : Users, checked : BOOLEAN]

\* Rooms as CreateRoom made them, with any members added since; nobody is
\* connected.  Members of a private room other than its owner were invited.
Init ==
    /\ role \in {f \in [Rooms -> [Users -> {"none", "member", "owner"}]] :
                    \A r \in Rooms, u \in Users : (f[r][u] = "owner") <=> (u = OwnerOf[r])}
    /\ banned = [r \in Rooms |-> {}]
    /\ sub = [r \in Rooms |-> {}]
    /\ inbox = [s \in Sessions |-> <<>>]
    /\ pc = [s \in Sessions |-> "off"]
    /\ arg = [s \in Sessions |-> Arg(NoRoom, UserOf[s])]
    /\ to = [s \in Sessions |-> {}]
    /\ todo = [s \in Sessions |-> {}]
    /\ nav = [s \in Sessions |-> {}]
    /\ view = [s \in Sessions |-> NoRoom]
    /\ commands = 0
    /\ kicked = [r \in Rooms |-> {}]
    /\ late = [r \in Rooms |-> {}]
    /\ invited = [r \in Rooms |-> {u \in Users : role[r][u] # "none"}]
    /\ joined = [r \in Rooms |-> {}]
    /\ fit = [s \in Sessions |-> FALSE]
    /\ posted = {}

-----------------------------------------------------------------------------
(* Queries and the parts that handlers share                               *)

IsMember(r, u) == role[r][u] # "none"

ListUserRooms(u) == {r \in Rooms : IsMember(r, u)}

\* /invite, /kick and /ban ask for role owner or moderator, which no code
\* path assigns, or for the is_admin flag read when the session connected.
MayModerate(s, r) == role[r][UserOf[s]] = "owner" \/ UserOf[s] \in Admins

\* A command given to an idle session.
Begin(s, label, r, u) ==
    /\ pc[s] = "idle"
    /\ commands < MaxCommands
    /\ commands' = commands + 1
    /\ pc' = [pc EXCEPT ![s] = label]
    /\ arg' = [arg EXCEPT ![s] = Arg(r, u)]
    /\ UNCHANGED to

At(s, label) == pc[s] = label /\ UNCHANGED commands

Goto(s, label) == pc' = [pc EXCEPT ![s] = label] /\ UNCHANGED <<arg, to>>

Finish(s) ==
    /\ pc' = [pc EXCEPT ![s] = "idle"]
    /\ arg' = [arg EXCEPT ![s] = Arg(NoRoom, UserOf[s])]
    /\ UNCHANGED to

\* refreshRooms replaces the room list by the user's memberships.
RefreshRooms(s) == nav' = [nav EXCEPT ![s] = ListUserRooms(UserOf[s])]

\* m.openRoom(m.rooms[0]) after a refresh, or no view without rooms.  Rooms
\* are sorted by name, which is abstracted: any listed room may be first.
OpenFirst(s) ==
    \E r \in Rooms \union {NoRoom} :
        /\ IF nav'[s] = {} THEN r = NoRoom ELSE r \in nav'[s]
        /\ view' = [view EXCEPT ![s] = r]

\* Store.JoinRoom is two statements outside any transaction: the ban count,
\* which ends the command when the user is banned, ...
BanCheck(s, label) ==
    /\ IF arg[s].user \in banned[arg[s].room] THEN Finish(s) ELSE Goto(s, label)
    /\ UNCHANGED <<store, hub, locals, history>>

\* ... and INSERT OR IGNORE, which leaves an existing row and its role alone.
RowAfterInsert_Replace(old) == "member"
RowAfterInsert(old) == IF old = "none" THEN "member" ELSE old

InsertMember(s) ==
    LET r == arg[s].room  u == arg[s].user
    IN  /\ role' = [role EXCEPT ![r][u] = RowAfterInsert(@)]
        /\ kicked' = [kicked EXCEPT ![r] = @ \ {u}]
        /\ UNCHANGED <<banned, hub, locals, late, joined, fit, posted>>

\* A publication copies the subscriptions to notify under the hub's lock,
\* then sends to each; the handler goes on at label "then" after the last.
Snapshot(s, kind, targets, then) ==
    IF targets = {}
    THEN IF then = "idle" THEN Finish(s) ELSE Goto(s, then)
    ELSE /\ pc' = [pc EXCEPT ![s] = "sending"]
         /\ arg' = [arg EXCEPT ![s].kind = kind, ![s].then = then]
         /\ to' = [to EXCEPT ![s] = targets]

PublishRoom(s, kind, then) ==
    /\ Snapshot(s, kind, sub[arg[s].room], then)
    /\ UNCHANGED <<store, hub, locals, history>>

\* One send of the loop: dropped when the channel is full.
Offer(q, e) == IF Len(q) < InboxCap THEN Append(q, e) ELSE q

Send(s, t) ==
    LET e == [kind |-> arg[s].kind, room |-> arg[s].room]
    IN
    /\ At(s, "sending")
    /\ t \in to[s]
    /\ pc[t] # "gone"
    /\ inbox' = [inbox EXCEPT ![t] = Offer(@, e)]
    /\ IF to[s] # {t}
       THEN to' = [to EXCEPT ![s] = @ \ {t}] /\ UNCHANGED <<pc, arg>>
       ELSE /\ to' = [to EXCEPT ![s] = {}]
            /\ pc' = [pc EXCEPT ![s] = arg[s].then]
            /\ arg' = [arg EXCEPT ![s] =
                          IF @.then = "idle" THEN Arg(NoRoom, UserOf[s]) ELSE Arg(@.room, @.user)]
    /\ UNCHANGED <<store, sub, locals, history>>

\* A send to the channel of a session that unsubscribed since the snapshot
\* panics in the sender (Hub.tla has the interleaving in full).
SendPanics(s, t) ==
    /\ At(s, "sending")
    /\ t \in to[s]
    /\ pc[t] = "gone"
    /\ pc' = [pc EXCEPT ![s] = "panicked"]
    /\ UNCHANGED <<store, hub, arg, to, locals, history>>

-----------------------------------------------------------------------------
(* Connecting (AppModel.Init) and disconnecting (cleanup)                  *)

\* refreshRooms, before the session is known to the hub.
Connect(s) ==
    /\ At(s, "off")
    /\ RefreshRooms(s)
    /\ todo' = [todo EXCEPT ![s] = nav'[s]]
    /\ Goto(s, "init_join")
    /\ UNCHANGED <<store, hub, view, history>>

\* Hub.JoinRoom for each room of the list read by Connect.
InitJoin(s, r) ==
    /\ At(s, "init_join")
    /\ r \in todo[s]
    /\ sub' = [sub EXCEPT ![r] = @ \union {s}]
    /\ todo' = [todo EXCEPT ![s] = @ \ {r}]
    /\ Goto(s, "init_join")
    /\ UNCHANGED <<store, inbox, nav, view, history>>

InitOpen(s) ==
    /\ At(s, "init_join")
    /\ todo[s] = {}
    /\ nav' = nav
    /\ OpenFirst(s)
    /\ Goto(s, "idle")
    /\ UNCHANGED <<store, hub, todo, history>>

\* quit or disconnectMsg between two handlers: Hub.Unsubscribe.
Disconnect(s) ==
    /\ At(s, "idle")
    /\ sub' = [r \in Rooms |-> sub[r] \ {s}]
    /\ inbox' = [inbox EXCEPT ![s] = <<>>]
    /\ joined' = [r \in Rooms |-> joined[r] \ {s}]
    /\ Goto(s, "gone")
    /\ UNCHANGED <<store, locals, kicked, late, invited, fit, posted>>

-----------------------------------------------------------------------------
(* /join                                                                   *)

\* A private room admits who is a member already (IsMember).
Admits_Anyone(r, u) == TRUE
Admits(r, u) == r \in Private => IsMember(r, u)

Join(s, r) ==
    /\ Admits(r, UserOf[s])
    /\ Begin(s, "join_ban", r, UserOf[s])
    /\ UNCHANGED <<store, hub, locals, history>>

JoinBanCheck(s) == At(s, "join_ban") /\ BanCheck(s, "join_add")

JoinInsert(s) ==
    /\ At(s, "join_add")
    /\ InsertMember(s)
    /\ Goto(s, "join_nav")
    /\ UNCHANGED invited

JoinRefresh(s) ==
    /\ At(s, "join_nav")
    /\ RefreshRooms(s)
    /\ Goto(s, "join_hub")
    /\ UNCHANGED <<store, hub, todo, view, history>>

\* Word of a removal from r is queued for s, or about to be sent to it.
RemovalComing(s, r) ==
    \/ \E i \in DOMAIN inbox[s] : inbox[s][i].kind = "room_removed" /\ inbox[s][i].room = r
    \/ \E k \in Sessions : /\ pc[k] = "sending" /\ s \in to[k]
                          /\ arg[k].kind = "room_removed" /\ arg[k].room = r

JoinSubscribe(s) ==
    LET r == arg[s].room IN
    /\ At(s, "join_hub")
    /\ sub' = [sub EXCEPT ![r] = @ \union {s}]
    /\ joined' = [joined EXCEPT ![r] = IF RemovalComing(s, r) THEN @ ELSE @ \union {s}]
    /\ Goto(s, "join_publish")
    /\ UNCHANGED <<store, inbox, locals, kicked, late, invited, fit, posted>>

JoinPublish(s) == At(s, "join_publish") /\ PublishRoom(s, "room_meta", "join_open")

JoinOpen(s) ==
    /\ At(s, "join_open")
    /\ view' = [view EXCEPT ![s] = arg[s].room]
    /\ Finish(s)
    /\ UNCHANGED <<store, hub, todo, nav, history>>

-----------------------------------------------------------------------------
(* /leave                                                                  *)

\* The error of Store.LeaveRoom is ignored: the command goes on with the hub.
Leave(s) ==
    LET r == view[s] IN
    /\ r # NoRoom
    /\ Begin(s, "leave_hub", r, UserOf[s])
    /\ \/ role' = [role EXCEPT ![r][UserOf[s]] = "none"]
       \/ UNCHANGED role
    /\ UNCHANGED <<banned, hub, locals, history>>

LeaveHub(s) ==
    LET r == arg[s].room IN
    /\ At(s, "leave_hub")
    /\ sub' = [sub EXCEPT ![r] = @ \ {s}]
    /\ joined' = [joined EXCEPT ![r] = @ \ {s}]
    /\ Goto(s, "leave_nav")
    /\ UNCHANGED <<store, inbox, locals, kicked, late, invited, fit, posted>>

LeaveRefresh(s) ==
    /\ At(s, "leave_nav")
    /\ RefreshRooms(s)
    /\ OpenFirst(s)
    /\ Goto(s, "leave_publish")
    /\ UNCHANGED <<store, hub, todo, history>>

LeavePublish(s) == At(s, "leave_publish") /\ PublishRoom(s, "room_meta", "idle")

-----------------------------------------------------------------------------
(* /invite: Store.JoinRoom for another user.  Nothing subscribes the       *)
(* invited user's sessions.                                                *)

Invite(s, u) ==
    /\ view[s] # NoRoom
    /\ MayModerate(s, view[s])
    /\ Begin(s, "invite_ban", view[s], u)
    /\ UNCHANGED <<store, hub, locals, history>>

InviteBanCheck(s) == At(s, "invite_ban") /\ BanCheck(s, "invite_add")

InviteInsert(s) ==
    /\ At(s, "invite_add")
    /\ InsertMember(s)
    /\ invited' = [invited EXCEPT ![arg[s].room] = @ \union {arg[s].user}]
    /\ Goto(s, "invite_publish")

InvitePublish(s) == At(s, "invite_publish") /\ PublishRoom(s, "room_meta", "idle")

-----------------------------------------------------------------------------
(* /kick and /ban                                                          *)

Kick(s, u, label) ==
    /\ label \in {"kick_db", "ban_db"}
    /\ view[s] # NoRoom
    /\ MayModerate(s, view[s])
    /\ Begin(s, label, view[s], u)
    /\ UNCHANGED <<store, hub, locals, history>>

\* KickFromRoom deletes the membership; BanFromRoom also records the ban,
\* in the same transaction.  The row's role is not looked at, and an error
\* of either, after which nothing is changed, is ignored.
KickStore(s) ==
    LET r == arg[s].room  u == arg[s].user
    IN
    /\ pc[s] \in {"kick_db", "ban_db"}
    /\ UNCHANGED commands
    /\ \/ /\ role' = [role EXCEPT ![r][u] = "none"]
          /\ banned' = [banned EXCEPT ![r] = IF pc[s] = "ban_db" THEN @ \union {u} ELSE @]
          /\ kicked' = [kicked EXCEPT ![r] = @ \union {u}]
       \/ UNCHANGED <<role, banned, kicked>>
    /\ Goto(s, "kick_hub")
    /\ UNCHANGED <<hub, locals, late, invited, joined, fit, posted>>

\* Sessions whose running handler is going to subscribe them to r.
AboutToSubscribe(t, r) ==
    \/ pc[t] = "init_join" /\ r \in todo[t]
    \/ pc[t] \in {"join_nav", "join_hub"} /\ arg[t].room = r

SubsOf_First(u, r) == {CHOOSE t \in sub[r] \union Sessions : UserOf[t] = u} \intersect sub[r]
SubsOf_AnyUser(u, r) == sub[r]
SubsOf(u, r) == {t \in sub[r] : UserOf[t] = u}

\* The lock section of RemoveUserFromRoom; those removed are told next.
KickHub(s) ==
    LET r == arg[s].room
        subs == SubsOf(arg[s].user, r)
        pending == {t \in Sessions : UserOf[t] = arg[s].user /\ AboutToSubscribe(t, r)}
    IN
    /\ At(s, "kick_hub")
    /\ sub' = [sub EXCEPT ![r] = @ \ subs]
    /\ joined' = [joined EXCEPT ![r] = {t \in @ : UserOf[t] # arg[s].user}]
    /\ late' = [late EXCEPT ![r] = {t \in @ : UserOf[t] # arg[s].user} \union pending]
    /\ Snapshot(s, "room_removed", subs, "kick_publish")
    /\ UNCHANGED <<store, inbox, locals, kicked, invited, fit, posted>>

KickPublish(s) == At(s, "kick_publish") /\ PublishRoom(s, "room_meta", "idle")

-----------------------------------------------------------------------------
(* Sending a message (sendCurrent, Store.InsertRoomMessage)                *)

\* sendCurrent's own IsMember; InsertRoomMessage repeats it below.
SendMessage(s) ==
    /\ view[s] # NoRoom
    /\ IsMember(view[s], UserOf[s])
    /\ Begin(s, "send_member", view[s], UserOf[s])
    /\ fit' = [fit EXCEPT ![s] = FALSE]
    /\ UNCHANGED <<store, hub, locals, kicked, late, invited, joined, posted>>

Welcome(r, u) == IsMember(r, u) /\ u \notin banned[r]

AfterMemberCheck_Skipped(s, r) == Goto(s, "send_ban")
AfterMemberCheck(s, r) ==
    IF IsMember(r, UserOf[s]) THEN Goto(s, "send_ban") ELSE Finish(s)

SendMemberCheck(s) ==
    LET r == arg[s].room IN
    /\ At(s, "send_member")
    /\ AfterMemberCheck(s, r)
    /\ fit' = [fit EXCEPT ![s] = Welcome(r, UserOf[s])]
    /\ UNCHANGED <<store, hub, locals, kicked, late, invited, joined, posted>>

SendBanCheck(s) ==
    LET r == arg[s].room  u == UserOf[s] IN
    /\ At(s, "send_ban")
    /\ IF u \in banned[r] THEN Finish(s) ELSE Goto(s, "send_add")
    /\ fit' = [fit EXCEPT ![s] = @ \/ Welcome(r, u)]
    /\ UNCHANGED <<store, hub, locals, kicked, late, invited, joined, posted>>

\* The transaction that inserts the message.
SendInsert(s) ==
    LET r == arg[s].room  u == UserOf[s] IN
    /\ At(s, "send_add")
    /\ posted' = posted \union {[room |-> r, author |-> u, checked |-> fit[s]]}
    /\ Goto(s, "send_publish")
    /\ UNCHANGED <<store, hub, locals, kicked, late, invited, joined, fit>>

SendPublish(s) == At(s, "send_publish") /\ PublishRoom(s, "room_msg", "idle")

-----------------------------------------------------------------------------
(* Events and navigation                                                   *)

\* Takes the next event of the given kind, as handleHubEvent does when no
\* other handler of the session runs.
Take(s, kind) ==
    /\ At(s, "idle")
    /\ Len(inbox[s]) > 0
    /\ Head(inbox[s]).kind = kind
    /\ inbox' = [inbox EXCEPT ![s] = Tail(@)]

\* room_msg changes the message list and unread counts only.
HandleMessage(s) ==
    /\ Take(s, "room_msg")
    /\ Goto(s, "idle")
    /\ UNCHANGED <<store, sub, locals, history>>

HandleMeta(s) ==
    /\ Take(s, "room_meta")
    /\ RefreshRooms(s)
    /\ Goto(s, "idle")
    /\ UNCHANGED <<store, sub, todo, view, history>>

\* room_removed: Hub.LeaveRoom whoever the room's members are by now, ...
HandleRemoved(s) ==
    LET r == Head(inbox[s]).room IN
    /\ Take(s, "room_removed")
    /\ sub' = [sub EXCEPT ![r] = @ \ {s}]
    /\ arg' = [arg EXCEPT ![s] = Arg(r, UserOf[s])]
    /\ pc' = [pc EXCEPT ![s] = "removed_nav"]
    /\ UNCHANGED <<store, to, locals, history>>

\* ... then refreshRooms, and away from the room if it is open.
LeaveView_StaleList(s) ==
    IF view[s] = arg[s].room
    THEN \E r \in nav[s] \union {NoRoom} : /\ r = NoRoom <=> nav[s] = {}
                                         /\ view' = [view EXCEPT ![s] = r]
    ELSE UNCHANGED view
LeaveView(s) == IF view[s] = arg[s].room THEN OpenFirst(s) ELSE UNCHANGED view

RemovedRefresh(s) ==
    /\ At(s, "removed_nav")
    /\ RefreshRooms(s)
    /\ LeaveView(s)
    /\ Finish(s)
    /\ UNCHANGED <<store, hub, todo, history>>

\* navMove, navActivate: another room of the list, or a DM.
Open(s, r) ==
    /\ At(s, "idle")
    /\ r \in nav[s] \union {NoRoom}
    /\ view' = [view EXCEPT ![s] = r]
    /\ Goto(s, "idle")
    /\ UNCHANGED <<store, hub, todo, nav, history>>

-----------------------------------------------------------------------------
\* A handler that has begun goes on, and a queued event is handled.
Step(s) ==
    \/ \E r \in Rooms : InitJoin(s, r)
    \/ InitOpen(s)
    \/ JoinBanCheck(s) \/ JoinInsert(s) \/ JoinRefresh(s) \/ JoinSubscribe(s)
    \/ JoinPublish(s) \/ JoinOpen(s)
    \/ LeaveHub(s) \/ LeaveRefresh(s) \/ LeavePublish(s)
    \/ InviteBanCheck(s) \/ InviteInsert(s) \/ InvitePublish(s)
    \/ KickStore(s) \/ KickHub(s) \/ KickPublish(s)
    \/ SendMemberCheck(s) \/ SendBanCheck(s) \/ SendInsert(s) \/ SendPublish(s)
    \/ RemovedRefresh(s)
    \/ \E t \in Sessions : Send(s, t)
    \/ \E t \in Sessions : SendPanics(s, t)

Handle(s) == HandleMessage(s) \/ HandleMeta(s) \/ HandleRemoved(s)

Command(s) ==
    \/ Connect(s)
    \/ Disconnect(s)
    \/ \E r \in Rooms : Join(s, r)
    \/ Leave(s)
    \/ \E u \in Users : Invite(s, u)
    \/ \E u \in Users, label \in {"kick_db", "ban_db"} : Kick(s, u, label)
    \/ SendMessage(s)
    \/ \E r \in Rooms \union {NoRoom} : Open(s, r)

Next == \E s \in Sessions : Command(s) \/ Step(s) \/ Handle(s)

Spec == Init /\ [][Next]_vars

\* Update loops run on, and listenHub hands a session that is idle its next
\* event.  No command is ever forced on anyone.
FairSpec == Spec /\ \A s \in Sessions : WF_vars(Step(s)) /\ WF_vars(Handle(s))

-----------------------------------------------------------------------------
(* What holds                                                              *)

\* Every stored room message comes from someone who, at one instant during
\* InsertRoomMessage, was a member of the room and not banned from it: the
\* two checks are separate reads, and a ban, a kick or a join of another
\* session may fall between them (store.go:392-403).  It rests on bans
\* never being lifted: no command or query of the code deletes one.
SendByUnbannedMember == \A m \in posted : m.checked

\* Nobody is in a private room who was never invited to it, although /join
\* reads the membership that admits long before it inserts one
\* (commands.go:45-52).
PrivateByInvitation ==
    \A r \in Private, u \in Users : IsMember(r, u) => u \in invited[r]

\* RemoveUserFromRoom leaves no session of a removed user subscribed, in
\* however many sessions and handlers, but for those whose own handler was
\* between reading or writing the membership and Hub.JoinRoom when its lock
\* section ran (commands.go:158-163, hub.go:110-123).
KickReachesSubscribed ==
    \A r \in Rooms : \A s \in sub[r] :
        UserOf[s] \in kicked[r] =>
            \/ s \in late[r]
            \/ \E k \in Sessions :
                  pc[k] = "kick_hub" /\ arg[k].room = r /\ arg[k].user = UserOf[s]

\* Ownership is made by CreateRoom only: whatever is joined, invited, left
\* and rejoined, concurrently or not, no step makes an owner or turns one
\* into a plain member (INSERT OR IGNORE, store.go:294-296).
OwnershipNeverPassed ==
    [][\A r \in Rooms, u \in Users :
           /\ role'[r][u] = "owner" => role[r][u] = "owner"
           /\ role[r][u] = "owner" => role'[r][u] # "member"]_vars

\* A session that has been told it was removed from the room it shows leaves
\* that view, unless its user is a member again by then or the session ends:
\* the handler asks the store again, and does not reopen a room because the
\* list it has still names it (handleHubEvent, app.go:687-701).  Told is the
\* event in the channel, or in the hands of the handler.
ToldRemoved(s, r) ==
    \/ [kind |-> "room_removed", room |-> r] \in {inbox[s][i] : i \in DOMAIN inbox[s]}
    \/ pc[s] = "removed_nav" /\ arg[s].room = r

RemovalReachesView ==
    \A s \in Sessions, r \in Rooms :
        ToldRemoved(s, r) /\ view[s] = r
            ~> view[s] # r \/ IsMember(r, UserOf[s]) \/ pc[s] \in {"gone", "panicked"}

\* "Messages sent to a room are persisted and broadcast to all currently
\* connected members of that room" (SPEC.md:90): a session that joined keeps its
\* subscription until it leaves, ends, or is removed itself, whoever else
\* is removed meanwhile.  Exception: it joined again while word of an earlier
\* removal was under way, and the handler of that event, which does not look
\* at the membership, takes the new subscription away (app.go:687-688,
\* hub.go:110-129).
JoinedStaysSubscribed == \A r \in Rooms : joined[r] \subseteq sub[r]

-----------------------------------------------------------------------------
(* What the code says and an interleaving refutes                          *)

\* "you are banned from this room" (store.go:292): a banned user is not let
\* in.
BannedNotMember == \A r \in Rooms : \A u \in banned[r] : ~IsMember(r, u)
=============================================================================
