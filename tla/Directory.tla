----------------------------- MODULE Directory ------------------------------
(***************************************************************************)
(* The rooms as they are created, found, listed, described and deleted:    *)
(* /create with its daily limit, /join, /topic, the default room of a      *)
(* registration, and delete-room of tsocial-admin                          *)
(* (src/internal/tui/commands.go, app.go, register.go,                     *)
(* src/internal/store/store.go, src/cmd/tsocial-admin/main.go).            *)
(*                                                                         *)
(* A step is one SQL statement or transaction, one lock section of the     *)
(* hub, one non-blocking send, or one handled event.  A room is its name:  *)
(* the column is UNIQUE, and no row of the table rooms is ever removed.    *)
(* Who may be in a room, and how members leave it, is in Rooms.tla; here   *)
(* members only come, and everybody may.                                   *)
(*                                                                         *)
(* Definitions named X_Variant stand before X and are used by nothing here:*)
(* they are the mistakes a property is shown to detect when one replaces X.*)
(***************************************************************************)
EXTENDS Integers, FiniteSets

CONSTANTS Sessions,
          Users,
          UserOf,       \* [session -> the user its key belongs to]
          Names,        \* room names
          DefaultRoom,  \* TSOCIAL_DEFAULT_ROOM
          NoName,
          Topics,
          Blank,        \* the topic of a new room
          Unlisted,     \* a room that is not on a session's list
          Limit,        \* rooms a user may create in a day (5)
          Day,          \* 24 hours, in ticks
          InboxCap,     \* events a session's channel holds (64)
          MaxSessions,  \* sessions served at a time (Lifecycle.tla)
          MaxNow,       \* BOUND: ticks
          MaxCommands   \* BOUND: commands, of users and of tsocial-admin, restarts,
                        \* disconnections and events of other kinds

ASSUME DirectoryAssumption ==
    /\ IsFiniteSet(Sessions) /\ IsFiniteSet(Names)
    /\ UserOf \in [Sessions -> Users]
    /\ DefaultRoom \in Names /\ NoName \notin Names
    /\ Blank \in Topics /\ Unlisted \notin Topics
    /\ Limit \in Nat \ {0} /\ Day \in Nat \ {0} /\ InboxCap \in Nat \ {0}
    /\ MaxSessions \in Nat /\ MaxNow \in Nat /\ MaxCommands \in Nat

VARIABLES
    now,       \* the clock
    row,       \* rooms: [name -> row, or NoRoom]
    members,   \* room_members: [name -> users]
    owners,    \* those of them with the role owner
    accounts,  \* users
    admins,    \* users.is_admin
    subs,      \* Hub.rooms: [name -> subscribed sessions]
    inbox,     \* [session -> room_meta events in its channel]
    others,    \* [session -> events of other kinds in it]
    at,        \* [session -> where its Update loop is]
    name,      \* [session -> the room its command is about]
    since,     \* [session -> when its /create or registration found no room]
    to,        \* [session -> sessions its publication has still to reach]
    flag,      \* AppModel.user.IsAdmin: sessions that act as an admin's
    list,      \* AppModel.rooms: [session -> [name -> topic or Unlisted]]
    view,      \* [session -> currentRoomID, or NoName]
    commands   \* what is left of MaxCommands

\* History, read by properties only.
VARIABLES
    dead,      \* [session -> rooms that had been deleted when it listed rooms first]
    missed     \* [session -> listed rooms it missed an event of since it listed them]

tables == <<row, members, owners, accounts, admins>>
hubVars == <<subs, inbox, others>>
loop == <<at, name, since, to>>
screen == <<flag, list, view>>
history == <<dead, missed>>
vars == <<now, row, members, owners, accounts, admins, subs, inbox, others, at, name, since, to,
          flag, list, view, commands, dead, missed>>

NoRoom == [at |-> -1]

\* by is created_by, at is created_at; a deleted room is not live.
RoomRows == [by : Users, at : 0 .. MaxNow, topic : Topics, live : BOOLEAN]

Registering == {"find_default", "make_default", "join_default"}

Stages == Registering \union
    {"off", "init", "subscribing", "idle",
     "count_passed", "create", "create_refresh", "create_subscribe",
     "join", "join_refresh", "join_subscribe", "join_publish", "join_sending", "open",
     "topic", "topic_publish", "topic_sending"}

TypeOK ==
    /\ now \in 0 .. MaxNow
    /\ row \in [Names -> RoomRows \union {NoRoom}]
    /\ members \in [Names -> SUBSET Users]
    /\ owners \in [Names -> SUBSET Users]
    /\ accounts \subseteq Users
    /\ admins \subseteq accounts
    /\ subs \in [Names -> SUBSET Sessions]
    /\ inbox \in [Sessions -> Nat]
    /\ others \in [Sessions -> Nat]
    /\ \A s \in Sessions : inbox[s] + others[s] =< InboxCap
    /\ at \in [Sessions -> Stages]
    /\ name \in [Sessions -> Names \union {NoName}]
    /\ \A s \in Sessions : at[s] \notin {"off", "init", "subscribing", "idle"} => name[s] \in Names
    /\ since \in [Sessions -> 0 .. MaxNow]
    /\ \A s \in Sessions : since[s] =< now
    /\ to \in [Sessions -> SUBSET Sessions]
    /\ flag \subseteq Sessions
    /\ list \in [Sessions -> [Names -> Topics \union {Unlisted}]]
    /\ view \in [Sessions -> Names \union {NoName}]
    /\ commands \in 0 .. MaxCommands
    /\ dead \in [Sessions -> SUBSET Names]
    /\ missed \in [Sessions -> SUBSET Names]

\* Nobody is connected; some users have accounts, and the default room exists
\* exactly if they are there to have created it.
Init ==
    /\ now = 0
    /\ accounts \in SUBSET Users
    /\ row \in {r \in [Names -> RoomRows \union {NoRoom}] :
                  \A n \in Names :
                     IF n = DefaultRoom /\ accounts # {}
                     THEN \E u \in accounts :
                             r[n] = [by |-> u, at |-> 0, topic |-> Blank, live |-> TRUE]
                     ELSE r[n] = NoRoom}
    /\ members = [n \in Names |-> IF row[n] = NoRoom THEN {} ELSE accounts]
    /\ owners = [n \in Names |-> IF row[n] = NoRoom THEN {} ELSE {row[n].by}]
    /\ admins = {}
    /\ subs = [n \in Names |-> {}]
    /\ inbox = [s \in Sessions |-> 0]
    /\ others = [s \in Sessions |-> 0]
    /\ at = [s \in Sessions |-> "off"]
    /\ name = [s \in Sessions |-> NoName]
    /\ since = [s \in Sessions |-> 0]
    /\ to = [s \in Sessions |-> {}]
    /\ flag = {}
    /\ list = [s \in Sessions |-> [n \in Names |-> Unlisted]]
    /\ view = [s \in Sessions |-> NoName]
    /\ commands = MaxCommands
    /\ dead = [s \in Sessions |-> {}]
    /\ missed = [s \in Sessions |-> {}]

Step(s, from, next) == at[s] = from /\ at' = [at EXCEPT ![s] = next]

\* The handler is done with the room, or with the time it looked for it.
Drop(s) == name' = [name EXCEPT ![s] = NoName] /\ since' = [since EXCEPT ![s] = 0]

Command == commands > 0 /\ commands' = commands - 1

-----------------------------------------------------------------------------
(* What the store answers                                                  *)

\* Store.RoomByName
Found_Deleted(n) == row[n] # NoRoom
Found(n) == row[n] # NoRoom /\ row[n].live

\* Store.ListUserRooms, with the topic of each.
ListUserRooms(u) ==
    [n \in Names |-> IF Found(n) /\ u \in members[n] THEN row[n].topic ELSE Unlisted]

Listed(s) == {n \in Names : list[s][n] # Unlisted}

\* Store.CountRoomCreates: rooms created by u within the last day, deleted
\* ones included.
CountRoomCreates(u) ==
    Cardinality({n \in Names : row[n] # NoRoom /\ row[n].by = u /\ row[n].at > now - Day})

\* AppModel.refreshRooms
Refresh(s) ==
    /\ list' = [list EXCEPT ![s] = ListUserRooms(UserOf[s])]
    /\ missed' = [missed EXCEPT ![s] = {}]

\* Store.CreateRoom: one transaction, that fails on a name that is taken.  It
\* reads the clock before it begins, and may then have to wait.
Insertable_IfNotLive(n) == ~Found(n)
Insertable(n) == row[n] = NoRoom

CreateRoom(s, n, t) ==
    /\ row' = [row EXCEPT ![n] = [by |-> UserOf[s], at |-> t, topic |-> Blank, live |-> TRUE]]
    /\ members' = [members EXCEPT ![n] = {UserOf[s]}]
    /\ owners' = [owners EXCEPT ![n] = {UserOf[s]}]

\* Store.JoinRoom, of a user who is not banned.
AddMember(s, n) == members' = [members EXCEPT ![n] = @ \union {UserOf[s]}]

-----------------------------------------------------------------------------
(* Connecting                                                              *)

HasPlace == Cardinality({s \in Sessions : at[s] # "off"}) < MaxSessions

\* The account is read once, and with it the flag of an admin.
Connect(s) ==
    /\ HasPlace
    /\ UserOf[s] \in accounts
    /\ Step(s, "off", "init")
    /\ flag' = IF UserOf[s] \in admins THEN flag \union {s} ELSE flag \ {s}
    /\ UNCHANGED <<now, tables, hubVars, name, since, to, list, view, commands, history>>

\* CreateUser succeeds; then the default room is looked for, created if it is
\* not found, and joined.  A creation that fails leaves the user without it.
Register(s) ==
    /\ HasPlace
    /\ UserOf[s] \notin accounts
    /\ Step(s, "off", "find_default")
    /\ accounts' = accounts \union {UserOf[s]}
    /\ name' = [name EXCEPT ![s] = DefaultRoom]
    /\ flag' = flag \ {s}
    /\ UNCHANGED <<now, row, members, owners, admins, hubVars, since, to, list, view,
                   commands, history>>

FindDefault(s) ==
    /\ Step(s, "find_default", IF Found(name[s]) THEN "join_default" ELSE "make_default")
    /\ since' = [since EXCEPT ![s] = now]
    /\ UNCHANGED <<now, tables, hubVars, name, to, screen, commands, history>>

MakeDefault(s) ==
    /\ at[s] = "make_default"
    /\ IF Insertable(name[s])
       THEN /\ Step(s, "make_default", "join_default")
            /\ \E t \in since[s] .. now : CreateRoom(s, name[s], t)
            /\ UNCHANGED <<name, since>>
       ELSE Step(s, "make_default", "init") /\ Drop(s) /\ UNCHANGED <<row, members, owners>>
    /\ UNCHANGED <<now, accounts, admins, hubVars, to, screen, commands, history>>

JoinDefault(s) ==
    /\ Step(s, "join_default", "init")
    /\ AddMember(s, name[s])
    /\ Drop(s)
    /\ UNCHANGED <<now, row, owners, accounts, admins, hubVars, to, screen, commands, history>>

\* AppModel.Init lists the rooms, subscribes to each, and opens the first.
ListRooms(s) ==
    /\ Step(s, "init", "subscribing")
    /\ Refresh(s)
    /\ dead' = [dead EXCEPT ![s] = {n \in Names : row[n] # NoRoom /\ ~row[n].live}]
    /\ UNCHANGED <<now, tables, hubVars, name, since, to, flag, view, commands>>

SubscribeListed(s, n) ==
    /\ at[s] = "subscribing"
    /\ n \in Listed(s) /\ s \notin subs[n]
    /\ subs' = [subs EXCEPT ![n] = @ \union {s}]
    /\ UNCHANGED <<now, tables, inbox, others, loop, screen, commands, history>>

\* The first by name; here, any.
OpenFirst(s) ==
    /\ \A n \in Listed(s) : s \in subs[n]
    /\ Step(s, "subscribing", "idle")
    /\ IF Listed(s) = {} THEN UNCHANGED view
       ELSE \E n \in Listed(s) : view' = [view EXCEPT ![s] = n]
    /\ UNCHANGED <<now, tables, hubVars, name, since, to, flag, list, commands, history>>

\* What is lost with the memory of the sessions in S.  That a send to a
\* session that has just ended panics is in Hub.tla; here nothing comes of it.
Forget(S) ==
    /\ at' = [s \in Sessions |-> IF s \in S THEN "off" ELSE at[s]]
    /\ subs' = [n \in Names |-> subs[n] \ S]
    /\ inbox' = [s \in Sessions |-> IF s \in S THEN 0 ELSE inbox[s]]
    /\ others' = [s \in Sessions |-> IF s \in S THEN 0 ELSE others[s]]
    /\ name' = [s \in Sessions |-> IF s \in S THEN NoName ELSE name[s]]
    /\ since' = [s \in Sessions |-> IF s \in S THEN 0 ELSE since[s]]
    /\ to' = [s \in Sessions |-> IF s \in S THEN {} ELSE to[s] \ S]
    /\ flag' = flag \ S
    /\ list' = [s \in Sessions |-> IF s \in S THEN [n \in Names |-> Unlisted] ELSE list[s]]
    /\ view' = [s \in Sessions |-> IF s \in S THEN NoName ELSE view[s]]
    /\ dead' = [s \in Sessions |-> IF s \in S THEN {} ELSE dead[s]]
    /\ missed' = [s \in Sessions |-> IF s \in S THEN {} ELSE missed[s]]

\* quit, or the end of the connection: cleanup runs between two messages.
Disconnect(s) ==
    /\ at[s] = "idle"
    /\ Command
    /\ Forget({s})
    /\ UNCHANGED <<now, tables>>

\* The process ends in the middle of whatever it does, and is started again.
Restart ==
    /\ Command
    /\ Forget(Sessions)
    /\ UNCHANGED <<now, tables>>

-----------------------------------------------------------------------------
(* /create                                                                 *)

WithinLimit_OffByOne(count) == count =< Limit
WithinLimit(count) == count < Limit

Create(s, n) ==
    /\ WithinLimit(CountRoomCreates(UserOf[s]))
    /\ Step(s, "idle", "count_passed")
    /\ Command
    /\ name' = [name EXCEPT ![s] = n]
    /\ UNCHANGED <<now, tables, hubVars, since, to, screen, history>>

\* RoomByName; the error of a room that exists ends the command.
LookForName(s) ==
    /\ at[s] = "count_passed"
    /\ IF Found(name[s])
       THEN Step(s, "count_passed", "idle") /\ Drop(s)
       ELSE /\ Step(s, "count_passed", "create")
            /\ since' = [since EXCEPT ![s] = now]
            /\ UNCHANGED name
    /\ UNCHANGED <<now, tables, hubVars, to, screen, commands, history>>

InsertRoom(s) ==
    /\ at[s] = "create"
    /\ IF Insertable(name[s])
       THEN /\ Step(s, "create", "create_refresh")
            /\ \E t \in since[s] .. now : CreateRoom(s, name[s], t)
            /\ since' = [since EXCEPT ![s] = 0]
            /\ UNCHANGED name
       ELSE Step(s, "create", "idle") /\ Drop(s) /\ UNCHANGED <<row, members, owners>>
    /\ UNCHANGED <<now, accounts, admins, hubVars, to, screen, commands, history>>

-----------------------------------------------------------------------------
(* /join, and the common end of /create and /join                          *)

Join(s, n) ==
    /\ Found(n)
    /\ Step(s, "idle", "join")
    /\ Command
    /\ name' = [name EXCEPT ![s] = n]
    /\ UNCHANGED <<now, tables, hubVars, since, to, screen, history>>

InsertMember(s) ==
    /\ Step(s, "join", "join_refresh")
    /\ AddMember(s, name[s])
    /\ UNCHANGED <<now, row, owners, accounts, admins, hubVars, name, since, to, screen,
                   commands, history>>

RefreshRooms(s) ==
    /\ Step(s, "join_refresh", "join_subscribe") \/ Step(s, "create_refresh", "create_subscribe")
    /\ Refresh(s)
    /\ UNCHANGED <<now, tables, hubVars, name, since, to, flag, view, commands, dead>>

\* Hub.JoinRoom; only /join publishes.
Subscribe(s) ==
    /\ Step(s, "join_subscribe", "join_publish") \/ Step(s, "create_subscribe", "open")
    /\ subs' = [subs EXCEPT ![name[s]] = @ \union {s}]
    /\ UNCHANGED <<now, tables, inbox, others, name, since, to, screen, commands, history>>

OpenRoom(s) ==
    /\ Step(s, "open", "idle")
    /\ view' = [view EXCEPT ![s] = name[s]]
    /\ Drop(s)
    /\ UNCHANGED <<now, tables, hubVars, to, flag, list, commands, history>>

\* Navigation to a listed room.
Look(s, n) ==
    /\ at[s] = "idle"
    /\ n \in Listed(s)
    /\ view' = [view EXCEPT ![s] = n]
    /\ UNCHANGED <<now, tables, hubVars, loop, flag, list, commands, history>>

-----------------------------------------------------------------------------
(* /topic                                                                  *)

Topic(s) ==
    /\ view[s] # NoName
    /\ UserOf[s] \in owners[view[s]] \/ s \in flag
    /\ Step(s, "idle", "topic")
    /\ Command
    /\ name' = [name EXCEPT ![s] = view[s]]
    /\ UNCHANGED <<now, tables, hubVars, since, to, screen, history>>

\* Store.SetTopic does not ask whether the room is deleted.
SetTopic(s, topic) ==
    /\ Step(s, "topic", "topic_publish")
    /\ row' = [row EXCEPT ![name[s]].topic = topic]
    /\ UNCHANGED <<now, members, owners, accounts, admins, hubVars, name, since, to, screen,
                   commands, history>>

-----------------------------------------------------------------------------
(* room_meta events                                                        *)

\* PublishRoom's snapshot, under the lock.
Recipients_NotSender(s) == subs[name[s]] \ {s}
Recipients(s) == subs[name[s]]

Publish(s) ==
    /\ \/ Step(s, "join_publish", "join_sending")
       \/ Step(s, "topic_publish", "topic_sending")
    /\ to' = [to EXCEPT ![s] = Recipients(s)]
    /\ missed' = [r \in Sessions |-> IF name[s] \in Listed(r) /\ r \notin subs[name[s]]
                                     THEN missed[r] \union {name[s]} ELSE missed[r]]
    /\ UNCHANGED <<now, tables, hubVars, name, since, screen, commands, dead>>

Offer(s, n) == IF inbox[s] + others[s] < InboxCap THEN n + 1 ELSE n

\* One send.
Deliver(s, r) ==
    /\ at[s] \in {"join_sending", "topic_sending"}
    /\ r \in to[s]
    /\ to' = [to EXCEPT ![s] = @ \ {r}]
    /\ inbox' = [inbox EXCEPT ![r] = Offer(r, @)]
    /\ missed' = [missed EXCEPT ![r] = IF inbox[r] + others[r] < InboxCap THEN @
                                       ELSE @ \union ({name[s]} \intersect Listed(r))]
    /\ UNCHANGED <<now, tables, subs, others, at, name, since, screen, commands, dead>>

Return(s) ==
    /\ to[s] = {}
    /\ \/ Step(s, "join_sending", "open") /\ UNCHANGED <<name, since>>
       \/ Step(s, "topic_sending", "idle") /\ Drop(s)
    /\ UNCHANGED <<now, tables, hubVars, to, screen, commands, history>>

\* The handler lists the rooms again, whichever room the event is about.
HandleMeta(s) ==
    /\ at[s] = "idle"
    /\ inbox[s] > 0
    /\ inbox' = [inbox EXCEPT ![s] = @ - 1]
    /\ Refresh(s)
    /\ UNCHANGED <<now, tables, subs, others, loop, flag, view, commands, dead>>

\* Messages, notifications and presence take room in the channel, and leave
\* what is modelled here alone (Feed.tla, Messages.tla, Presence.tla).
OtherEvent(s) ==
    /\ at[s] \notin {"off", "init"} \union Registering
    /\ Command
    /\ others' = [others EXCEPT ![s] = Offer(s, @)]
    /\ UNCHANGED <<now, tables, subs, inbox, loop, screen, history>>

HandleOther(s) ==
    /\ at[s] = "idle"
    /\ others[s] > 0
    /\ others' = [others EXCEPT ![s] = @ - 1]
    /\ UNCHANGED <<now, tables, subs, inbox, loop, screen, commands, history>>

-----------------------------------------------------------------------------
(* tsocial-admin, and the clock                                            *)

\* RoomByName, then DeleteRoom by id: the row that was found is still there.
\* No session is told.
DeleteRoom(n) ==
    /\ Found(n)
    /\ Command
    /\ row' = [row EXCEPT ![n].live = FALSE]
    /\ UNCHANGED <<now, members, owners, accounts, admins, hubVars, loop, screen, history>>

SetAdmin(u, on) ==
    /\ u \in accounts
    /\ Command
    /\ admins' = IF on THEN admins \union {u} ELSE admins \ {u}
    /\ UNCHANGED <<now, row, members, owners, accounts, hubVars, loop, screen, history>>

Tick ==
    /\ now < MaxNow
    /\ now' = now + 1
    /\ UNCHANGED <<tables, hubVars, loop, screen, commands, history>>

-----------------------------------------------------------------------------
Next ==
    \/ \E s \in Sessions :
          \/ Connect(s) \/ Register(s) \/ FindDefault(s) \/ MakeDefault(s) \/ JoinDefault(s)
          \/ ListRooms(s) \/ (\E n \in Names : SubscribeListed(s, n)) \/ OpenFirst(s)
          \/ Disconnect(s)
          \/ (\E n \in Names : Create(s, n)) \/ LookForName(s) \/ InsertRoom(s)
          \/ (\E n \in Names : Join(s, n)) \/ InsertMember(s)
          \/ RefreshRooms(s) \/ Subscribe(s) \/ OpenRoom(s)
          \/ \E n \in Names : Look(s, n)
          \/ Topic(s) \/ \E topic \in Topics : SetTopic(s, topic)
          \/ Publish(s) \/ (\E r \in Sessions : Deliver(s, r)) \/ Return(s)
          \/ HandleMeta(s) \/ OtherEvent(s) \/ HandleOther(s)
    \/ \E n \in Names : DeleteRoom(n)
    \/ \E u \in Users, on \in BOOLEAN : SetAdmin(u, on)
    \/ Restart
    \/ Tick

Spec == Init /\ [][Next]_vars

-----------------------------------------------------------------------------
(* Properties                                                              *)

SessionsOf(u) == {s \in Sessions : UserOf[s] = u}

\* Rooms u created in the day that ended at t.
CreatedIn(u, t) ==
    {n \in Names : row[n] # NoRoom /\ row[n].by = u
                   /\ row[n].at > t - Day /\ row[n].at =< t}

\* The limit on the rooms a user creates in any day may be passed, because
\* rooms are counted and inserted in separate statements, but only by one room
\* for each further session the user has at once: a restart, a deletion or a
\* new connection wins nothing (commands.go:88-94, register.go:60-63,
\* store.go:202-227, 859-864).
CreationBound ==
    \A s \in Sessions : \A t \in 0 .. now :
        Cardinality(CreatedIn(UserOf[s], t)) < Limit + Cardinality(SessionsOf(UserOf[s]))

\* A room has one creator for good.  Of two users who find the name free, or
\* a name that only a deleted room has, the one whose insert fails neither
\* gets the room nor goes on to subscribe to it (commands.go:91-100,
\* register.go:60-67, store.go:202-227).
CreatorOpens ==
    \A s \in Sessions : at[s] \in {"create_refresh", "create_subscribe"} =>
        row[name[s]] # NoRoom /\ row[name[s]].by = UserOf[s] /\ UserOf[s] \in owners[name[s]]

\* A session that connects after a room was deleted never comes to list,
\* follow or show it, although members, subscriptions and views of others
\* remain; those that had it before keep it (main.go:65-70, store.go:229-270).
DeletedRoomsFade ==
    \A s \in Sessions : \A n \in dead[s] : n \notin Listed(s) /\ s \notin subs[n] /\ view[s] # n

\* An event that has not been sent to s yet, or not been handled.
Coming(s, n) ==
    \/ inbox[s] > 0
    \/ \E a \in Sessions :
          /\ name[a] = n
          /\ \/ at[a] = "topic_publish"
             \/ at[a] \in {"topic_sending", "join_sending"} /\ s \in to[a]

\* The topic a session shows is the stored one, or an event that makes it
\* read the list again is coming.  Events of two owners may cross, because they
\* do not carry the topic.  Exceptions: the event met a full channel, or came
\* when the session had listed the room and not subscribed to it
\* (commands.go:115-116, app.go:682-686).
TopicKnown ==
    \A s \in Sessions : \A n \in Listed(s) :
        Found(n) /\ list[s][n] # row[n].topic => Coming(s, n) \/ n \in missed[s]
=============================================================================
