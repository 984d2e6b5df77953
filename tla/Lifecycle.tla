----------------------------- MODULE Lifecycle ------------------------------
(***************************************************************************)
(* A connection from its admission to its release: the session counter and *)
(* the checks of teaHandler (src/internal/ssh/server.go), registration     *)
(* (src/internal/tui/register.go), the accounts and the default room it    *)
(* writes, and the cleanup of the screens (register.go, app.go).           *)
(*                                                                         *)
(* A step is one operation on the counter, one SQL statement or            *)
(* transaction, or one message handled by the connection's Update loop.    *)
(* Administrators act on the same tables from a process of their own.      *)
(* What rooms and the hub do with a session that has its subscription is   *)
(* in Rooms.tla and Hub.tla.                                               *)
(*                                                                         *)
(* Definitions named X_Variant stand before X and are used by nothing here:*)
(* they are the mistakes a property is shown to detect when one replaces X.*)
(***************************************************************************)
EXTENDS Integers, FiniteSets

CONSTANTS Conns,        \* connections; each one is made at most once
          Keys,         \* SSH public keys
          KeyOf,        \* the key of each connection
          Users,        \* accounts, named by their handles
          NoUser,       \* no account
          MaxSessions,  \* TSOCIAL_MAX_SESSIONS
          MiddlewareQuits \* whether the SSH middleware ends the program of
                          \* a lost connection by itself (external code)

ASSUME LifecycleAssumption ==
    /\ IsFiniteSet(Conns)
    /\ KeyOf \in [Conns -> Keys]
    /\ NoUser \notin Users
    /\ MaxSessions \in Nat
    /\ MiddlewareQuits \in BOOLEAN

VARIABLES
    sessions,   \* Server.sessions
    stage,      \* [connection -> where its handler or Update loop is]
    user,       \* [connection -> its account, or the handle it asks for]
    closed,     \* connections whose Done channel is closed
    quitting,   \* programs with tea.Quit on its way
    watchers,   \* [connection -> goroutines that will send it disconnectMsg]
    released,   \* connections whose cleanupOnce has run
    adding,     \* [connection -> the key its /addkey is about]
    subscribed, \* connections that hold a hub subscription (hubSub # nil)
    owner,      \* user_keys: [key -> account]
    suspended,  \* users.is_suspended
    room,       \* the row of the default room in the table rooms
    members     \* room_members of the default room

\* History, read by a property only.
VARIABLE late   \* connections that subscribed after their cleanup had run

conn == <<sessions, stage, user, closed, quitting, watchers, released, adding, subscribed, late>>
tables == <<owner, suspended, room, members>>
vars == <<conn, tables>>

Screens == {"register", "notice", "app"}

Stages ==
    {"new",        \* not connected yet
     "away",       \* turned away, and its count taken back
     "over",       \* counted, and over the limit
     "checks",     \* counted; PTY, command and key not looked at yet
     "create_user", "find_room", "make_room", "join_room", "init_app",
     "add_key",    \* /addkey is past its look for the key
     "ended"}      \* the program has ended
    \union Screens

TypeOK ==
    /\ sessions \in Nat
    /\ stage \in [Conns -> Stages]
    /\ user \in [Conns -> Users \union {NoUser}]
    /\ closed \subseteq Conns
    /\ quitting \subseteq Conns
    /\ watchers \in [Conns -> 0 .. 2]
    /\ released \subseteq Conns
    /\ adding \in [Conns -> Keys]
    /\ subscribed \subseteq Conns
    /\ owner \in [Keys -> Users \union {NoUser}]
    /\ suspended \subseteq Users
    /\ room \in {"none", "live", "deleted"}
    /\ members \subseteq Users
    /\ late \subseteq Conns

\* A server that starts over any accounts, with the default room made by the
\* first of them if there are any, and some of them still in it.
Init ==
    /\ sessions = 0
    /\ stage = [c \in Conns |-> "new"]
    /\ user = [c \in Conns |-> NoUser]
    /\ closed = {}
    /\ quitting = {}
    /\ watchers = [c \in Conns |-> 0]
    /\ released = {}
    /\ adding = KeyOf
    /\ subscribed = {}
    /\ owner \in [Keys -> Users \union {NoUser}]
    /\ suspended = {}
    /\ room = IF \A k \in Keys : owner[k] = NoUser THEN "none" ELSE "live"
    /\ late = {}
    /\ members \in SUBSET ({owner[k] : k \in Keys} \ {NoUser})

Accounts == {owner[k] : k \in Keys} \ {NoUser}

Goto(c, label) == stage' = [stage EXCEPT ![c] = label]

-----------------------------------------------------------------------------
(* Admission: teaHandler                                                   *)

\* sessions.Add(1) and the comparison of what it returned.
OverLimit_OffByOne(n) == n > MaxSessions + 1
OverLimit(n) == n > MaxSessions

Admit(c) ==
    /\ stage[c] = "new"
    /\ sessions' = sessions + 1
    /\ Goto(c, IF OverLimit(sessions + 1) THEN "over" ELSE "checks")
    /\ UNCHANGED <<user, closed, quitting, watchers, released, adding, subscribed, late, tables>>

\* A connection over the limit, without a PTY, with a command or without a
\* key takes its count back and is closed.
TurnAway(c) ==
    /\ stage[c] \in {"over", "checks"}
    /\ sessions' = sessions - 1
    /\ Goto(c, "away")
    /\ UNCHANGED <<user, closed, quitting, watchers, released, adding, subscribed, late, tables>>

\* UserByFingerprint decides the screen; Init of the first two starts one
\* goroutine that waits for Done, the app's comes later.
Welcome(c) ==
    LET u == owner[KeyOf[c]] IN
    /\ stage[c] = "checks"
    /\ user' = [user EXCEPT ![c] = u]
    /\ Goto(c, IF u = NoUser THEN "register"
               ELSE IF u \in suspended THEN "notice" ELSE "init_app")
    /\ watchers' = [watchers EXCEPT ![c] = IF u \in Users \ suspended THEN 0 ELSE 1]
    /\ UNCHANGED <<sessions, closed, quitting, released, adding, subscribed, late, tables>>

-----------------------------------------------------------------------------
(* Registration: one handler from the enter key to the app's Init          *)

\* UserByHandle finds nobody of that name, so far.
ChooseHandle(c, u) ==
    /\ stage[c] = "register"
    /\ u \notin Accounts
    /\ user' = [user EXCEPT ![c] = u]
    /\ Goto(c, "create_user")
    /\ UNCHANGED <<sessions, closed, quitting, watchers, released, adding, subscribed, late, tables>>

\* The transaction of CreateUser fails on a handle or a key that is taken
\* by now (UNIQUE constraints); the screen then asks again.
Free_HandleOnly(u, k) == u \notin Accounts
Free(u, k) == u \notin Accounts /\ owner[k] = NoUser

CreateUser(c) ==
    LET u == user[c]  k == KeyOf[c] IN
    /\ stage[c] = "create_user"
    /\ IF Free(u, k)
       THEN /\ owner' = [owner EXCEPT ![k] = u]
            /\ Goto(c, "find_room")
            /\ UNCHANGED user
       ELSE /\ user' = [user EXCEPT ![c] = NoUser]
            /\ Goto(c, "register")
            /\ UNCHANGED owner
    /\ UNCHANGED <<sessions, closed, quitting, watchers, released, adding, subscribed, late, suspended, room, members>>

\* RoomByName sees rooms that are not deleted.
FindRoom(c) ==
    /\ stage[c] = "find_room"
    /\ Goto(c, IF room = "live" THEN "join_room" ELSE "make_room")
    /\ UNCHANGED <<sessions, user, closed, quitting, watchers, released, adding, subscribed, late, tables>>

\* CreateRoom fails when the name is taken, also by a deleted room; the
\* error is dropped and the account goes on without the room.
MakeRoom(c) ==
    /\ stage[c] = "make_room"
    /\ IF room = "none"
       THEN /\ room' = "live"
            /\ members' = members \union {user[c]}
            /\ Goto(c, "join_room")
       ELSE /\ Goto(c, "init_app")
            /\ UNCHANGED <<room, members>>
    /\ UNCHANGED <<sessions, user, closed, quitting, watchers, released, adding, subscribed, late, owner, suspended>>

\* Store.JoinRoom; a new account cannot be banned yet.
JoinRoom(c) ==
    /\ stage[c] = "join_room"
    /\ members' = members \union {user[c]}
    /\ Goto(c, "init_app")
    /\ UNCHANGED <<sessions, user, closed, quitting, watchers, released, adding, subscribed, late, owner, suspended, room>>

\* AppModel.Init subscribes, and starts a goroutine that waits for Done: a
\* second one when the session has registered.
InitApp_NoWatcher(c) ==
    /\ stage[c] = "init_app"
    /\ subscribed' = subscribed \union {c}
    /\ late' = IF c \in released THEN late \union {c} ELSE late
    /\ Goto(c, "app")
    /\ UNCHANGED <<sessions, user, closed, quitting, watchers, released, adding, tables>>
InitApp(c) ==
    /\ stage[c] = "init_app"
    /\ subscribed' = subscribed \union {c}
    /\ late' = IF c \in released THEN late \union {c} ELSE late
    /\ watchers' = [watchers EXCEPT ![c] = @ + 1]
    /\ Goto(c, "app")
    /\ UNCHANGED <<sessions, user, closed, quitting, released, adding, tables>>

-----------------------------------------------------------------------------
(* /addkey: UserByFingerprint, then an insert that a UNIQUE constraint     *)
(* guards; both failures only show a message.                              *)

AddKey(c, k) ==
    /\ stage[c] = "app"
    /\ owner[k] = NoUser
    /\ adding' = [adding EXCEPT ![c] = k]
    /\ Goto(c, "add_key")
    /\ UNCHANGED <<sessions, user, closed, quitting, watchers, released, subscribed, late, tables>>

InsertKey(u, k) == owner' = [owner EXCEPT ![k] = IF @ = NoUser THEN u ELSE @]

AddKeyInsert(c) ==
    /\ stage[c] = "add_key"
    /\ InsertKey(user[c], adding[c])
    /\ adding' = [adding EXCEPT ![c] = KeyOf[c]]
    /\ Goto(c, "app")
    /\ UNCHANGED <<sessions, user, closed, quitting, watchers, released, subscribed, late, suspended, room, members>>

-----------------------------------------------------------------------------
(* The end of a session                                                    *)

\* The connection is lost, whatever the session is doing.
Close(c) ==
    /\ stage[c] \notin {"new", "away", "over", "checks", "ended"}
    /\ c \notin closed
    /\ closed' = closed \union {c}
    /\ UNCHANGED <<sessions, stage, user, quitting, watchers, released, adding, subscribed, late, tables>>

\* cleanup: drops the subscription if there is one, and the count unless it
\* has been dropped before.  tea.Quit is a message of its own: until it
\* arrives the Update loop handles keys as before, so that a quit from the
\* register screen may still be followed by a registration.
TakeBack_Always(c) == 1
TakeBack(c) == IF c \in released THEN 0 ELSE 1

Cleanup_PlaceOnly(c) ==
    /\ subscribed' = subscribed
    /\ sessions' = sessions - TakeBack(c)
    /\ released' = released \union {c}
    /\ quitting' = quitting \union {c}
Cleanup(c) ==
    /\ subscribed' = subscribed \ {c}
    /\ sessions' = sessions - TakeBack(c)
    /\ released' = released \union {c}
    /\ quitting' = quitting \union {c}

\* ctrl+c, esc, /quit, or any key on the notice.
Quit(c) ==
    /\ stage[c] \in Screens
    /\ Cleanup(c)
    /\ UNCHANGED <<stage, user, closed, watchers, adding, late, tables>>

\* One of the goroutines that wait for Done delivers disconnectMsg.
Disconnected(c) ==
    /\ stage[c] \in Screens
    /\ c \in closed
    /\ watchers[c] > 0
    /\ watchers' = [watchers EXCEPT ![c] = @ - 1]
    /\ Cleanup(c)
    /\ UNCHANGED <<stage, user, closed, adding, late, tables>>

\* The program ends, by tea.Quit, or by a middleware that does not wait for
\* disconnectMsg to be handled.
End(c) ==
    /\ stage[c] \in Screens
    /\ c \in quitting \/ (MiddlewareQuits /\ c \in closed)
    /\ Goto(c, "ended")
    /\ UNCHANGED <<sessions, user, closed, quitting, watchers, released, adding, subscribed, late, tables>>

-----------------------------------------------------------------------------
(* tsocial-admin                                                           *)

Suspend(u) ==
    /\ u \in Accounts \ suspended
    /\ suspended' = suspended \union {u}
    /\ UNCHANGED <<conn, owner, room, members>>

Unsuspend(u) ==
    /\ u \in suspended
    /\ suspended' = suspended \ {u}
    /\ UNCHANGED <<conn, owner, room, members>>

\* DeleteRoom keeps the row, and with it the name.
DeleteRoom ==
    /\ room = "live"
    /\ room' = "deleted"
    /\ UNCHANGED <<conn, owner, suspended, members>>

-----------------------------------------------------------------------------
Admin ==
    \/ \E u \in Users : Suspend(u)
    \/ \E u \in Users : Unsuspend(u)
    \/ DeleteRoom

Next ==
    \/ \E c \in Conns :
          \/ Admit(c) \/ TurnAway(c) \/ Welcome(c)
          \/ \E u \in Users : ChooseHandle(c, u)
          \/ CreateUser(c) \/ FindRoom(c) \/ MakeRoom(c) \/ JoinRoom(c) \/ InitApp(c)
          \/ \E k \in Keys : AddKey(c, k)
          \/ AddKeyInsert(c)
          \/ Close(c) \/ Quit(c) \/ Disconnected(c) \/ End(c)
    \/ Admin

Spec == Init /\ [][Next]_vars

-----------------------------------------------------------------------------
(* Properties                                                              *)

\* Connections whose count has not been taken back.
Counted == {c \in Conns : stage[c] \notin {"new", "away"} /\ c \notin released}

\* Those of them that are past the comparison with the limit.
Served == {c \in Counted : stage[c] # "over"}

\* The counter is the number of connections that hold a place: whichever
\* way each one leaves, by a failed check, a key, a lost connection seen by
\* the two goroutines of a session that registered, or several of these at
\* once, it gives its place back at most once (server.go:91-134,
\* register.go:80-84, app.go:909-917).
CounterExact == sessions = Cardinality(Counted)

\* At most MaxSessions connections are served at a time, although each is
\* counted before it is compared with the limit and many do so at once
\* (server.go:91-96).
WithinCapacity == Cardinality(Served) =< MaxSessions

\* The account a session acts for is the one its key belongs to, from the
\* moment it is registered or looked up, although another account's /addkey
\* may claim the key while it registers (server.go:123, commands.go:343-353,
\* store.go:111-137).
SessionOwnsKey ==
    \A c \in Conns :
        stage[c] \in {"find_room", "make_room", "join_room", "init_app", "app", "add_key", "notice"}
            => user[c] = owner[KeyOf[c]]

\* A key never passes from one account to another, and no account is ever
\* left without a key: two sessions of one new key, or two users of one new
\* handle, cannot both register (register.go:51-59, store.go:111-131).
KeysStay == [][\A k \in Keys : owner[k] # NoUser => owner'[k] = owner[k]]_vars

\* The place and the subscription of a session are given back together,
\* whichever of its two screens and two goroutines does it: a session that has
\* lost its place receives nothing more.  Exception: a key that was on its way
\* when the registration screen quit may still register, and the app's Init
\* then subscribes after the cleanup (app.go:154-160, 904-917;
\* register.go:40-84).
GivenBackTogether == released \intersect subscribed \subseteq late

\* "SSH disconnects run session cleanup to release presence/session counts"
\* (README.md:132): as long as a session holds its place somebody waits for its
\* connection to be lost, on whatever screen it is and whatever its handler is
\* in the middle of.  Exceptions: the app's Init is about to begin the wait; the
\* middleware has ended the program first (app.go:154-176, 402-404;
\* register.go:30-32, 80-99).
LossIsNoticed ==
    \A c \in Counted \ {d \in Conns : stage[d] \in {"over", "checks"}} :
        \/ stage[c] # "ended" /\ watchers[c] > 0
        \/ stage[c] = "init_app"
        \/ stage[c] = "ended" /\ MiddlewareQuits /\ c \in closed
=============================================================================
