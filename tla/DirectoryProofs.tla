-------------------------- MODULE DirectoryProofs ---------------------------
(***************************************************************************)
(* Theorems about Directory for every set of sessions, users and names and *)
(* every limit.  The types need an invariant of their own: what a session  *)
(* lists, shows or works on is the name of a room that exists (Grounded).  *)
(* The bound on creations follows from CreationInv, which counts, with the *)
(* rooms a user has created, the sessions that may be about to create one  *)
(* more.                                                                   *)
(***************************************************************************)
EXTENDS Directory, FiniteSetTheorems, TLAPS

-----------------------------------------------------------------------------
(* Types                                                                   *)

\* Where a handler works on a room that exists.
Holding == {"create_refresh", "create_subscribe", "join", "join_refresh", "join_subscribe",
            "join_publish", "join_sending", "open", "topic", "topic_publish", "topic_sending",
            "join_default"}

Exists(n) == n \in Names /\ row[n] # NoRoom

Grounded ==
    \A s \in Sessions :
        /\ \A n \in Names : list[s][n] # Unlisted => Exists(n)
        /\ view[s] # NoName => Exists(view[s])
        /\ at[s] \in Holding => Exists(name[s])

IInv == TypeOK /\ Grounded

USE DEF IInv, TypeOK, Grounded, Exists, Holding, Stages, Registering, Step, Drop, Command,
        tables, hubVars, loop, screen, history

LEMMA RowShape ==
    ASSUME NEW r \in RoomRows
    PROVE  /\ r # NoRoom
           /\ r.by \in Users /\ r.at \in 0 .. MaxNow /\ r.topic \in Topics /\ r.live \in BOOLEAN
BY DEF RoomRows, NoRoom

LEMMA RowOf ==
    ASSUME TypeOK, NEW n \in Names, row[n] # NoRoom
    PROVE  /\ row[n] \in RoomRows
           /\ row[n].by \in Users /\ row[n].at \in 0 .. MaxNow
           /\ row[n].topic \in Topics /\ row[n].live \in BOOLEAN
BY RowShape

LEMMA UserOfSession == \A s \in Sessions : UserOf[s] \in Users
BY DirectoryAssumption

LEMMA MemberTypes ==
    ASSUME TypeOK, NEW s \in Sessions, NEW n \in Names, AddMember(s, n)
    PROVE  members' \in [Names -> SUBSET Users]
BY UserOfSession DEF AddMember

LEMMA ListsRooms ==
    ASSUME TypeOK, NEW u
    PROVE  /\ ListUserRooms(u) \in [Names -> Topics \union {Unlisted}]
           /\ \A n \in Names : ListUserRooms(u)[n] # Unlisted => Exists(n)
BY RowOf DEF ListUserRooms, Found

LEMMA InitInv == Init => IInv
<1> SUFFICES ASSUME Init PROVE IInv
  OBVIOUS
<1>1. members \in [Names -> SUBSET Users]
  BY DEF Init
<1>2. owners \in [Names -> SUBSET Users]
  BY RowShape DEF Init
<1>3. TypeOK
  BY <1>1, <1>2, DirectoryAssumption DEF Init
<1> QED BY <1>3, DirectoryAssumption DEF Init

\* Creating a room keeps the tables typed and every room that exists.
LEMMA CreateRoomTypes ==
    ASSUME IInv, NEW s \in Sessions, NEW n \in Names, NEW t \in since[s] .. now,
           CreateRoom(s, n, t)
    PROVE  /\ row' \in [Names -> RoomRows \union {NoRoom}]
           /\ members' \in [Names -> SUBSET Users]
           /\ owners' \in [Names -> SUBSET Users]
           /\ \A m \in Names : row[m] # NoRoom \/ m = n => row'[m] # NoRoom
<1> DEFINE new == [by |-> UserOf[s], at |-> t, topic |-> Blank, live |-> TRUE]
<1>1. t \in 0 .. MaxNow
  BY DirectoryAssumption
<1>2. new \in RoomRows
  BY <1>1, DirectoryAssumption DEF RoomRows
<1>3. new # NoRoom
  BY <1>2, RowShape
<1>4. row' = [row EXCEPT ![n] = new]
  BY DEF CreateRoom
<1> HIDE DEF new
<1>5. row' \in [Names -> RoomRows \union {NoRoom}]
  BY <1>2, <1>4
<1>6. \A m \in Names : row[m] # NoRoom \/ m = n => row'[m] # NoRoom
  BY <1>3, <1>4
<1> QED BY <1>5, <1>6, DirectoryAssumption DEF CreateRoom

LEMMA ForgetTypes ==
    ASSUME IInv, NEW S \in SUBSET Sessions, Forget(S), UNCHANGED <<now, tables>>,
           commands' \in 0 .. MaxCommands
    PROVE  IInv'
<1>1. /\ at' \in [Sessions -> Stages]
      /\ subs' \in [Names -> SUBSET Sessions]
      /\ inbox' \in [Sessions -> Nat] /\ others' \in [Sessions -> Nat]
      /\ \A s \in Sessions : inbox'[s] + others'[s] =< InboxCap
  BY DirectoryAssumption DEF Forget
<1>2. /\ name' \in [Sessions -> Names \union {NoName}]
      /\ since' \in [Sessions -> 0 .. MaxNow]
      /\ \A s \in Sessions : since'[s] =< now
      /\ to' \in [Sessions -> SUBSET Sessions]
      /\ flag' \subseteq Sessions
  BY DirectoryAssumption DEF Forget
<1>3. list' \in [Sessions -> [Names -> Topics \union {Unlisted}]]
  BY DEF Forget
<1>4. /\ view' \in [Sessions -> Names \union {NoName}]
      /\ dead' \in [Sessions -> SUBSET Names]
      /\ missed' \in [Sessions -> SUBSET Names]
  BY DEF Forget
<1>5. \A s \in Sessions : at'[s] \notin {"off", "init", "subscribing", "idle"} => name'[s] \in Names
  BY DEF Forget
<1>6. Grounded'
  BY DEF Forget
<1> QED BY <1>1, <1>2, <1>3, <1>4, <1>5, <1>6

LEMMA RefreshTypes ==
    ASSUME IInv, NEW s \in Sessions, Refresh(s)
    PROVE  /\ list' \in [Sessions -> [Names -> Topics \union {Unlisted}]]
           /\ missed' \in [Sessions -> SUBSET Names]
           /\ \A r \in Sessions : \A n \in Names : list'[r][n] # Unlisted => Exists(n)
BY ListsRooms DEF Refresh

\* A handler that ends.
LEMMA DropTypes ==
    ASSUME IInv, NEW s \in Sessions, Drop(s),
           at' = [at EXCEPT ![s] = "init"] \/ at' = [at EXCEPT ![s] = "idle"]
    PROVE  /\ at' \in [Sessions -> Stages]
           /\ name' \in [Sessions -> Names \union {NoName}]
           /\ \A r \in Sessions :
                 at'[r] \notin {"off", "init", "subscribing", "idle"} => name'[r] \in Names
           /\ since' \in [Sessions -> 0 .. MaxNow]
           /\ \A r \in Sessions : since'[r] =< now
           /\ \A r \in Sessions : at'[r] \in Holding => at[r] \in Holding /\ name'[r] = name[r]
<1>1. now >= 0 /\ 0 \in 0 .. MaxNow
  BY DirectoryAssumption
<1>2. /\ at' \in [Sessions -> Stages]
      /\ name' \in [Sessions -> Names \union {NoName}]
      /\ \A r \in Sessions :
            at'[r] \notin {"off", "init", "subscribing", "idle"} => name'[r] \in Names
  OBVIOUS
<1>3. since' \in [Sessions -> 0 .. MaxNow] /\ \A r \in Sessions : since'[r] =< now
  BY <1>1
<1>4. \A r \in Sessions : at'[r] \in Holding => at[r] \in Holding /\ name'[r] = name[r]
  OBVIOUS
<1> QED BY <1>2, <1>3, <1>4

LEMMA DropInv ==
    ASSUME IInv, NEW s \in Sessions, Drop(s),
           at' = [at EXCEPT ![s] = "init"] \/ at' = [at EXCEPT ![s] = "idle"],
           members' \in [Names -> SUBSET Users],
           UNCHANGED <<now, row, owners, accounts, admins, hubVars, to, screen, commands,
                       history>>
    PROVE  IInv'
<1>1. TypeOK'
  <2> HIDE DEF Drop
  <2> QED BY DropTypes
<1>2. Grounded'
  <2>1. \A r \in Sessions : at'[r] \in Holding => at[r] \in Holding /\ name'[r] = name[r]
    BY DropTypes
  <2> HIDE DEF Drop, Holding, TypeOK
  <2> QED BY <2>1
<1> QED BY <1>1, <1>2

\* A handler that goes on with the room it works on.
LEMMA GoOnTypes ==
    ASSUME IInv, NEW s \in Sessions, name[s] \in Names, NEW label \in Stages,
           at' = [at EXCEPT ![s] = label]
    PROVE  /\ at' \in [Sessions -> Stages]
           /\ \A r \in Sessions :
                 at'[r] \notin {"off", "init", "subscribing", "idle"} => name[r] \in Names
OBVIOUS

LEMMA ConnectTypes ==
    ASSUME IInv, NEW s \in Sessions,
           \/ Connect(s) \/ Register(s) \/ FindDefault(s) \/ MakeDefault(s) \/ JoinDefault(s)
           \/ ListRooms(s) \/ (\E n \in Names : SubscribeListed(s, n)) \/ OpenFirst(s)
           \/ Disconnect(s)
    PROVE  IInv'
<1>1. CASE Connect(s)
  BY <1>1 DEF Connect
<1>2. CASE Register(s)
  <2>1. /\ at' = [at EXCEPT ![s] = "find_default"]
        /\ name' = [name EXCEPT ![s] = DefaultRoom]
        /\ accounts' = accounts \union {UserOf[s]}
        /\ flag' = flag \ {s}
        /\ UNCHANGED <<now, row, members, owners, admins, hubVars, since, to, list, view,
                       commands, history>>
    BY <1>2 DEF Register
  <2>2. accounts' \subseteq Users /\ admins' \subseteq accounts' /\ flag' \subseteq Sessions
    BY <2>1, UserOfSession
  <2>3. /\ at' \in [Sessions -> Stages]
        /\ name' \in [Sessions -> Names \union {NoName}]
        /\ \A r \in Sessions :
              at'[r] \notin {"off", "init", "subscribing", "idle"} => name'[r] \in Names
    BY <2>1, DirectoryAssumption
  <2>4. Grounded'
    BY <2>1
  <2> QED BY <2>1, <2>2, <2>3, <2>4
<1>3. CASE FindDefault(s)
  BY <1>3 DEF FindDefault, Found
<1>4. CASE MakeDefault(s)
  <2>1. CASE Insertable(name[s])
    <3>1. PICK t \in since[s] .. now : CreateRoom(s, name[s], t)
      BY <1>4, <2>1 DEF MakeDefault
    <3>2. name[s] \in Names
      BY <1>4 DEF MakeDefault
    <3> QED BY <1>4, <2>1, <3>1, <3>2, CreateRoomTypes DEF MakeDefault
  <2>2. CASE ~Insertable(name[s])
    <3>1. /\ at' = [at EXCEPT ![s] = "init"] /\ Drop(s)
          /\ UNCHANGED <<now, tables, hubVars, to, screen, commands, history>>
      BY <1>4, <2>2 DEF MakeDefault
    <3> QED BY <3>1, DropInv
  <2> QED BY <2>1, <2>2
<1>5. CASE JoinDefault(s)
  <2>1. /\ at' = [at EXCEPT ![s] = "init"] /\ Drop(s)
        /\ UNCHANGED <<now, row, owners, accounts, admins, hubVars, to, screen, commands,
                       history>>
    BY <1>5 DEF JoinDefault
  <2>2. members' \in [Names -> SUBSET Users]
    BY <1>5, MemberTypes DEF JoinDefault
  <2> QED BY <2>1, <2>2, DropInv
<1>6. CASE ListRooms(s)
  BY <1>6, RefreshTypes DEF ListRooms
<1>7. ASSUME NEW n \in Names, SubscribeListed(s, n) PROVE IInv'
  BY <1>7 DEF SubscribeListed
<1>8. CASE OpenFirst(s)
  BY <1>8 DEF OpenFirst, Listed
<1>9. CASE Disconnect(s)
  <2>1. commands' \in 0 .. MaxCommands
    BY <1>9, DirectoryAssumption DEF Disconnect
  <2> QED BY <1>9, <2>1, ForgetTypes DEF Disconnect
<1> QED BY <1>1, <1>2, <1>3, <1>4, <1>5, <1>6, <1>7, <1>8, <1>9

LEMMA CreateTypes ==
    ASSUME IInv, NEW s \in Sessions,
           \/ (\E n \in Names : Create(s, n)) \/ LookForName(s) \/ InsertRoom(s)
           \/ (\E n \in Names : Join(s, n)) \/ InsertMember(s)
           \/ RefreshRooms(s) \/ Subscribe(s) \/ OpenRoom(s)
           \/ \E n \in Names : Look(s, n)
    PROVE  IInv'
<1>1. ASSUME NEW n \in Names, Create(s, n) PROVE IInv'
  BY <1>1, DirectoryAssumption DEF Create
<1>2. CASE LookForName(s)
  <2>1. CASE Found(name[s])
    <3>1. /\ at' = [at EXCEPT ![s] = "idle"] /\ Drop(s)
          /\ UNCHANGED <<now, tables, hubVars, to, screen, commands, history>>
      BY <1>2, <2>1 DEF LookForName
    <3> QED BY <3>1, DropInv
  <2>2. CASE ~Found(name[s])
    <3>1. /\ at' = [at EXCEPT ![s] = "create"] /\ since' = [since EXCEPT ![s] = now]
          /\ at[s] = "count_passed"
          /\ UNCHANGED <<now, tables, hubVars, name, to, screen, commands, history>>
      BY <1>2, <2>2 DEF LookForName
    <3>2. since' \in [Sessions -> 0 .. MaxNow] /\ \A r \in Sessions : since'[r] =< now
      BY <3>1, DirectoryAssumption
    <3> QED BY <3>1, <3>2, GoOnTypes
  <2> QED BY <2>1, <2>2
<1>3. CASE InsertRoom(s)
  <2>1. CASE Insertable(name[s])
    <3>1. PICK t \in since[s] .. now : CreateRoom(s, name[s], t)
      BY <1>3, <2>1 DEF InsertRoom
    <3>2. name[s] \in Names
      BY <1>3 DEF InsertRoom
    <3>3. /\ at' = [at EXCEPT ![s] = "create_refresh"]
          /\ since' = [since EXCEPT ![s] = 0]
          /\ UNCHANGED <<now, accounts, admins, hubVars, name, to, screen, commands, history>>
      BY <1>3, <2>1 DEF InsertRoom
    <3>4. since' \in [Sessions -> 0 .. MaxNow] /\ \A r \in Sessions : since'[r] =< now
      BY <3>3, DirectoryAssumption
    <3>5. /\ row' \in [Names -> RoomRows \union {NoRoom}]
          /\ members' \in [Names -> SUBSET Users]
          /\ owners' \in [Names -> SUBSET Users]
          /\ \A m \in Names : row[m] # NoRoom \/ m = name[s] => row'[m] # NoRoom
      BY <3>1, <3>2, CreateRoomTypes
    <3>6. TypeOK'
      BY <3>2, <3>3, <3>4, <3>5, GoOnTypes
    <3>7. Grounded'
      BY <3>2, <3>3, <3>5
    <3> QED BY <3>6, <3>7
  <2>2. CASE ~Insertable(name[s])
    <3>1. /\ at' = [at EXCEPT ![s] = "idle"] /\ Drop(s)
          /\ UNCHANGED <<now, tables, hubVars, to, screen, commands, history>>
      BY <1>3, <2>2 DEF InsertRoom
    <3> QED BY <3>1, DropInv
  <2> QED BY <2>1, <2>2
<1>4. ASSUME NEW n \in Names, Join(s, n) PROVE IInv'
  BY <1>4, DirectoryAssumption DEF Join, Found
<1>5. CASE InsertMember(s)
  <2>1. /\ at' = [at EXCEPT ![s] = "join_refresh"] /\ at[s] = "join"
        /\ UNCHANGED <<now, row, owners, accounts, admins, hubVars, name, since, to, screen,
                       commands, history>>
    BY <1>5 DEF InsertMember
  <2>2. members' \in [Names -> SUBSET Users]
    BY <1>5, MemberTypes DEF InsertMember
  <2>3. TypeOK'
    BY <2>1, <2>2, GoOnTypes
  <2>4. Grounded'
    BY <2>1
  <2> QED BY <2>3, <2>4
<1>6. CASE RefreshRooms(s)
  <2>1. /\ at[s] \in Holding /\ at' \in [Sessions -> Stages]
        /\ \A r \in Sessions : at'[r] \in Holding => at[r] \in Holding
        /\ \A r \in Sessions :
              at'[r] \notin {"off", "init", "subscribing", "idle"} => name[r] \in Names
        /\ UNCHANGED <<now, tables, hubVars, name, since, to, flag, view, commands, dead>>
    BY <1>6 DEF RefreshRooms
  <2>2. /\ list' \in [Sessions -> [Names -> Topics \union {Unlisted}]]
        /\ missed' \in [Sessions -> SUBSET Names]
        /\ \A r \in Sessions : \A n \in Names : list'[r][n] # Unlisted => Exists(n)
    BY <1>6, RefreshTypes DEF RefreshRooms
  <2> QED BY <2>1, <2>2
<1>7. CASE Subscribe(s)
  <2>1. TypeOK'
    BY <1>7 DEF Subscribe
  <2>2. Grounded'
    BY <1>7 DEF Subscribe
  <2> QED BY <2>1, <2>2
<1>8. CASE OpenRoom(s)
  BY <1>8, DirectoryAssumption DEF OpenRoom
<1>9. ASSUME NEW n \in Names, Look(s, n) PROVE IInv'
  BY <1>9 DEF Look, Listed
<1> QED BY <1>1, <1>2, <1>3, <1>4, <1>5, <1>6, <1>7, <1>8, <1>9

LEMMA EventTypes ==
    ASSUME IInv, NEW s \in Sessions,
           \/ Topic(s) \/ \E topic \in Topics : SetTopic(s, topic)
           \/ Publish(s) \/ (\E r \in Sessions : Deliver(s, r)) \/ Return(s)
           \/ HandleMeta(s) \/ OtherEvent(s) \/ HandleOther(s)
    PROVE  IInv'
<1>1. CASE Topic(s)
  BY <1>1, DirectoryAssumption DEF Topic
<1>2. ASSUME NEW topic \in Topics, SetTopic(s, topic) PROVE IInv'
  <2>1. Exists(name[s])
    BY <1>2 DEF SetTopic
  <2>2. [row[name[s]] EXCEPT !.topic = topic] \in RoomRows
    BY <2>1, RowOf DEF RoomRows
  <2>3. row' = [row EXCEPT ![name[s]] = [row[name[s]] EXCEPT !.topic = topic]]
    BY <1>2 DEF SetTopic
  <2>4. row' \in [Names -> RoomRows \union {NoRoom}]
    BY <2>1, <2>2, <2>3
  <2>5. \A n \in Names : row[n] # NoRoom => row'[n] # NoRoom
    BY <2>1, <2>2, <2>3, RowShape
  <2> QED BY <1>2, <2>4, <2>5 DEF SetTopic
<1>3. CASE Publish(s)
  <2>1. /\ name[s] \in Names /\ at[s] \in Holding
        /\ at' \in [Sessions -> Stages]
        /\ \A r \in Sessions :
              at'[r] \notin {"off", "init", "subscribing", "idle"} => name[r] \in Names
        /\ \A r \in Sessions : at'[r] \in Holding => at[r] \in Holding
    BY <1>3 DEF Publish
  <2>2. to' \in [Sessions -> SUBSET Sessions]
    BY <1>3, <2>1 DEF Publish, Recipients
  <2>3. missed' \in [Sessions -> SUBSET Names]
    BY <1>3, <2>1 DEF Publish
  <2>4. UNCHANGED <<now, tables, hubVars, name, since, screen, commands, dead>>
    BY <1>3 DEF Publish
  <2> QED BY <2>1, <2>2, <2>3, <2>4
<1>4. ASSUME NEW r \in Sessions, Deliver(s, r) PROVE IInv'
  <2>1. /\ inbox' \in [Sessions -> Nat]
        /\ \A q \in Sessions : inbox'[q] + others[q] =< InboxCap
    BY <1>4, DirectoryAssumption DEF Deliver, Offer
  <2> QED BY <1>4, <2>1 DEF Deliver
<1>5. CASE Return(s)
  <2>1. CASE at[s] = "join_sending"
    <3>1. /\ at' = [at EXCEPT ![s] = "open"]
          /\ UNCHANGED <<now, tables, hubVars, name, since, to, screen, commands, history>>
      BY <1>5, <2>1 DEF Return
    <3> QED BY <2>1, <3>1, GoOnTypes
  <2>2. CASE at[s] # "join_sending"
    <3>1. /\ at' = [at EXCEPT ![s] = "idle"] /\ Drop(s)
          /\ UNCHANGED <<now, tables, hubVars, to, screen, commands, history>>
      BY <1>5, <2>2 DEF Return
    <3> QED BY <3>1, DropInv
  <2> QED BY <2>1, <2>2
<1>6. CASE HandleMeta(s)
  <2>1. /\ inbox' \in [Sessions -> Nat]
        /\ \A q \in Sessions : inbox'[q] + others[q] =< InboxCap
    BY <1>6, DirectoryAssumption DEF HandleMeta
  <2>2. Refresh(s) /\ UNCHANGED <<now, tables, subs, others, loop, flag, view, commands, dead>>
    BY <1>6 DEF HandleMeta
  <2> QED BY <2>1, <2>2, RefreshTypes
<1>7. CASE OtherEvent(s)
  <2>1. /\ others' \in [Sessions -> Nat]
        /\ \A q \in Sessions : inbox[q] + others'[q] =< InboxCap
    BY <1>7, DirectoryAssumption DEF OtherEvent, Offer
  <2>2. commands' \in 0 .. MaxCommands
    BY <1>7, DirectoryAssumption DEF OtherEvent
  <2> QED BY <1>7, <2>1, <2>2 DEF OtherEvent
<1>8. CASE HandleOther(s)
  <2>1. /\ others' \in [Sessions -> Nat]
        /\ \A q \in Sessions : inbox[q] + others'[q] =< InboxCap
    BY <1>8, DirectoryAssumption DEF HandleOther
  <2> QED BY <1>8, <2>1 DEF HandleOther
<1> QED BY <1>1, <1>2, <1>3, <1>4, <1>5, <1>6, <1>7, <1>8

LEMMA AdminTypes ==
    ASSUME IInv,
           \/ \E n \in Names : DeleteRoom(n)
           \/ \E u \in Users, on \in BOOLEAN : SetAdmin(u, on)
           \/ Restart \/ Tick
    PROVE  IInv'
<1>1. ASSUME NEW n \in Names, DeleteRoom(n) PROVE IInv'
  <2>1. [row[n] EXCEPT !.live = FALSE] \in RoomRows
    BY <1>1, RowOf DEF DeleteRoom, Found, RoomRows
  <2>2. row' = [row EXCEPT ![n] = [row[n] EXCEPT !.live = FALSE]]
    BY <1>1 DEF DeleteRoom
  <2>3. /\ row' \in [Names -> RoomRows \union {NoRoom}]
        /\ \A m \in Names : row[m] # NoRoom => row'[m] # NoRoom
    BY <2>1, <2>2, RowShape
  <2>4. commands' \in 0 .. MaxCommands
    BY <1>1, DirectoryAssumption DEF DeleteRoom
  <2> QED BY <1>1, <2>3, <2>4 DEF DeleteRoom
<1>2. ASSUME NEW u \in Users, NEW on \in BOOLEAN, SetAdmin(u, on) PROVE IInv'
  BY <1>2, DirectoryAssumption DEF SetAdmin
<1>3. CASE Restart
  <2>1. commands' \in 0 .. MaxCommands
    BY <1>3, DirectoryAssumption DEF Restart
  <2> QED BY <1>3, <2>1, ForgetTypes DEF Restart
<1>4. CASE Tick
  BY <1>4, DirectoryAssumption DEF Tick
<1> QED BY <1>1, <1>2, <1>3, <1>4

LEMMA NextTypes == IInv /\ [Next]_vars => IInv'
<1> SUFFICES ASSUME IInv, [Next]_vars PROVE IInv'
  OBVIOUS
<1>1. CASE Next
  BY <1>1, ConnectTypes, CreateTypes, EventTypes, AdminTypes DEF Next
<1>2. CASE UNCHANGED vars
  BY <1>2 DEF vars
<1> QED BY <1>1, <1>2

LEMMA AlwaysIInv == Spec => []IInv
BY InitInv, NextTypes, PTL DEF Spec

\* Every reachable state is well typed: a handler that works on a room has
\* one, and no channel holds more than its capacity (app.go:275-286,
\* commands.go:33-117, hub.go:189-195).
THEOREM TypeCorrect == Spec => []TypeOK
BY AlwaysIInv, PTL
-----------------------------------------------------------------------------
(* Rows stay                                                               *)

\* What happens to a row once it is there.
RowsStay ==
    \A n \in Names : row[n] # NoRoom =>
        /\ row'[n] # NoRoom
        /\ row'[n].by = row[n].by /\ row'[n].at = row[n].at
        /\ row'[n].live => row[n].live
        /\ owners'[n] = owners[n]

LEMMA CreateRoomKeeps ==
    ASSUME IInv, NEW s \in Sessions, NEW n \in Names, Insertable(n), NEW t \in since[s] .. now,
           CreateRoom(s, n, t)
    PROVE  RowsStay
BY DEF CreateRoom, Insertable, RowsStay

\* The steps that change a row or an owner; no step but these does.
LEMMA RowSteps ==
    ASSUME IInv, Next
    PROVE  \/ UNCHANGED <<row, owners>>
           \/ \E s \in Sessions : MakeDefault(s) \/ InsertRoom(s)
           \/ \E s \in Sessions, topic \in Topics : SetTopic(s, topic)
           \/ \E n \in Names : DeleteRoom(n)
<1>1. ASSUME NEW s \in Sessions,
             \/ Connect(s) \/ Register(s) \/ FindDefault(s) \/ JoinDefault(s) \/ ListRooms(s)
             \/ (\E n \in Names : SubscribeListed(s, n)) \/ OpenFirst(s) \/ Disconnect(s)
      PROVE  UNCHANGED <<row, owners>>
  BY <1>1 DEF Connect, Register, FindDefault, JoinDefault, ListRooms, SubscribeListed, OpenFirst,
              Disconnect
<1>2. ASSUME NEW s \in Sessions,
             \/ (\E n \in Names : Create(s, n)) \/ LookForName(s) \/ (\E n \in Names : Join(s, n))
             \/ InsertMember(s) \/ RefreshRooms(s) \/ Subscribe(s) \/ OpenRoom(s)
             \/ \E n \in Names : Look(s, n)
      PROVE  UNCHANGED <<row, owners>>
  BY <1>2 DEF Create, LookForName, Join, InsertMember, RefreshRooms, Subscribe, OpenRoom, Look
<1>3. ASSUME NEW s \in Sessions,
             \/ Topic(s) \/ Publish(s) \/ (\E r \in Sessions : Deliver(s, r)) \/ Return(s)
             \/ HandleMeta(s) \/ OtherEvent(s) \/ HandleOther(s)
      PROVE  UNCHANGED <<row, owners>>
  BY <1>3 DEF Topic, Publish, Deliver, Return, HandleMeta, OtherEvent, HandleOther
<1>4. ASSUME (\E u \in Users, on \in BOOLEAN : SetAdmin(u, on)) \/ Restart \/ Tick
      PROVE  UNCHANGED <<row, owners>>
  BY <1>4 DEF SetAdmin, Restart, Tick
<1> QED BY <1>1, <1>2, <1>3, <1>4 DEF Next

LEMMA NextKeepsRows == IInv /\ [Next]_vars => RowsStay
<1> SUFFICES ASSUME IInv, Next PROVE RowsStay
  BY DEF RowsStay, vars
<1>1. CASE UNCHANGED <<row, owners>>
  BY <1>1 DEF RowsStay
<1>2. ASSUME NEW s \in Sessions, MakeDefault(s) \/ InsertRoom(s) PROVE RowsStay
  <2>1. CASE Insertable(name[s])
    <3>1. PICK t \in since[s] .. now : CreateRoom(s, name[s], t)
      BY <1>2, <2>1 DEF MakeDefault, InsertRoom
    <3>2. name[s] \in Names
      BY <1>2 DEF MakeDefault, InsertRoom
    <3> QED BY <2>1, <3>1, <3>2, CreateRoomKeeps
  <2>2. CASE ~Insertable(name[s])
    BY <1>2, <2>2 DEF MakeDefault, InsertRoom, RowsStay
  <2> QED BY <2>1, <2>2
<1>3. ASSUME NEW s \in Sessions, NEW topic \in Topics, SetTopic(s, topic) PROVE RowsStay
  <2>1. Exists(name[s])
    BY <1>3 DEF SetTopic
  <2>2. row[name[s]] \in RoomRows
    BY <2>1
  <2>3. LET new == [row[name[s]] EXCEPT !.topic = topic]
        IN /\ new \in RoomRows
           /\ new.by = row[name[s]].by /\ new.at = row[name[s]].at /\ new.live = row[name[s]].live
           /\ row' = [row EXCEPT ![name[s]] = new]
    BY <1>3, <2>2 DEF SetTopic, RoomRows
  <2> QED BY <1>3, <2>1, <2>3, RowShape DEF SetTopic, RowsStay
<1>4. ASSUME NEW n \in Names, DeleteRoom(n) PROVE RowsStay
  <2>1. row[n] \in RoomRows
    BY <1>4 DEF DeleteRoom, Found
  <2>2. LET new == [row[n] EXCEPT !.live = FALSE]
        IN /\ new \in RoomRows
           /\ new.by = row[n].by /\ new.at = row[n].at /\ new.live = FALSE
           /\ row' = [row EXCEPT ![n] = new]
    BY <1>4, <2>1 DEF DeleteRoom, RoomRows
  <2> QED BY <1>4, <2>2, RowShape DEF DeleteRoom, RowsStay
<1> QED BY <1>1, <1>2, <1>3, <1>4, RowSteps

-----------------------------------------------------------------------------
(* The creator's room                                                      *)

CreatorInv == IInv /\ CreatorOpens

LEMMA NextCreator == CreatorInv /\ [Next]_vars => CreatorInv'
<1> SUFFICES ASSUME CreatorInv, [Next]_vars,
                    NEW s \in Sessions, at'[s] \in {"create_refresh", "create_subscribe"}
             PROVE  /\ row'[name'[s]] # NoRoom /\ row'[name'[s]].by = UserOf[s]
                    /\ UserOf[s] \in owners'[name'[s]]
  BY NextTypes DEF CreatorInv, CreatorOpens
<1> DEFINE Inserts(r) == /\ at[r] = "create" /\ Insertable(name[r])
                         /\ name' = name /\ InsertRoom(r)
<1>1. \/ at[s] \in {"create_refresh", "create_subscribe"} /\ name'[s] = name[s]
      \/ Inserts(s)
  <2>1. CASE UNCHANGED vars
    BY <2>1 DEF vars
  <2>2. ASSUME NEW r \in Sessions,
               \/ Connect(r) \/ Register(r) \/ FindDefault(r) \/ MakeDefault(r) \/ JoinDefault(r)
               \/ ListRooms(r) \/ (\E n \in Names : SubscribeListed(r, n)) \/ OpenFirst(r)
        PROVE  at[s] \in {"create_refresh", "create_subscribe"} /\ name'[s] = name[s]
    BY <2>2 DEF CreatorInv, Connect, Register, FindDefault, MakeDefault, JoinDefault, ListRooms,
                SubscribeListed, OpenFirst
  <2>3. ASSUME NEW r \in Sessions,
               \/ (\E n \in Names : Create(r, n)) \/ LookForName(r)
               \/ (\E n \in Names : Join(r, n)) \/ InsertMember(r)
               \/ RefreshRooms(r) \/ Subscribe(r) \/ OpenRoom(r)
               \/ \E n \in Names : Look(r, n)
        PROVE  at[s] \in {"create_refresh", "create_subscribe"} /\ name'[s] = name[s]
    BY <2>3 DEF CreatorInv, Create, LookForName, Join, InsertMember, RefreshRooms, Subscribe, OpenRoom, Look
  <2>4. ASSUME NEW r \in Sessions, InsertRoom(r)
        PROVE  \/ at[s] \in {"create_refresh", "create_subscribe"} /\ name'[s] = name[s]
               \/ Inserts(s)
    <3>1. CASE Insertable(name[r])
      BY <2>4, <3>1 DEF CreatorInv, InsertRoom
    <3>2. CASE ~Insertable(name[r])
      BY <2>4, <3>2 DEF CreatorInv, InsertRoom
    <3> QED BY <3>1, <3>2
  <2>5. ASSUME NEW r \in Sessions,
               \/ Topic(r) \/ (\E topic \in Topics : SetTopic(r, topic))
               \/ Publish(r) \/ (\E q \in Sessions : Deliver(r, q)) \/ Return(r)
               \/ HandleMeta(r) \/ OtherEvent(r) \/ HandleOther(r)
        PROVE  at[s] \in {"create_refresh", "create_subscribe"} /\ name'[s] = name[s]
    BY <2>5 DEF CreatorInv, Topic, SetTopic, Publish, Deliver, Return, HandleMeta, OtherEvent, HandleOther
  <2>6. ASSUME NEW S \in SUBSET Sessions, Forget(S)
        PROVE  at[s] \in {"create_refresh", "create_subscribe"} /\ name'[s] = name[s]
    BY <2>6 DEF Forget
  <2>7. ASSUME \/ \E n \in Names : DeleteRoom(n)
               \/ \E u \in Users, on \in BOOLEAN : SetAdmin(u, on)
               \/ Tick
        PROVE  at[s] \in {"create_refresh", "create_subscribe"} /\ name'[s] = name[s]
    BY <2>7 DEF DeleteRoom, SetAdmin, Tick
  <2> QED BY <2>1, <2>2, <2>3, <2>4, <2>5, <2>6, <2>7 DEF Next, Restart, Disconnect
<1>2. CASE at[s] \in {"create_refresh", "create_subscribe"} /\ name'[s] = name[s]
  BY <1>2, NextKeepsRows DEF CreatorInv, CreatorOpens, RowsStay
<1>3. CASE Inserts(s)
  <2>1. PICK t \in since[s] .. now : CreateRoom(s, name[s], t)
    BY <1>3 DEF InsertRoom
  <2>2. name[s] \in Names
    BY <1>3 DEF CreatorInv
  <2>3. row'[name[s]] # NoRoom
    BY <2>1, <2>2, CreateRoomTypes DEF CreatorInv
  <2> QED BY <1>3, <2>1, <2>2, <2>3 DEF CreateRoom, CreatorInv
<1> QED BY <1>1, <1>2, <1>3

\* Of several sessions that find a name free, only the one whose row it is goes
\* on to list it, subscribe to it and open it (commands.go:91-100).
THEOREM CreatorsOpen == Spec => []CreatorOpens
<1>1. Init => CreatorInv
  BY InitInv DEF CreatorInv, CreatorOpens, Init
<1>2. CreatorInv => CreatorOpens
  BY DEF CreatorInv
<1> QED BY <1>1, <1>2, NextCreator, PTL DEF Spec

-----------------------------------------------------------------------------
(* Deleted rooms                                                           *)

\* Before its first list a session has nothing.
Fresh ==
    \A s \in Sessions : at[s] \in {"off", "init"} \union Registering =>
        /\ dead[s] = {} /\ view[s] = NoName
        /\ \A n \in Names : list[s][n] = Unlisted /\ s \notin subs[n]

\* A room that was deleted when a session listed rooms first is still deleted,
\* and the session has nothing to do with it.
Faded ==
    \A s \in Sessions : \A n \in dead[s] :
        /\ row[n] # NoRoom /\ ~row[n].live
        /\ list[s][n] = Unlisted /\ s \notin subs[n] /\ view[s] # n
        /\ at[s] \in Holding => name[s] # n

FadeInv == IInv /\ Fresh /\ Faded

LEMMA FadeInit == Init => FadeInv
<1> SUFFICES ASSUME Init PROVE FadeInv
  OBVIOUS
<1> QED BY InitInv DEF Init, FadeInv, Fresh, Faded

LEMMA ListsLiveRooms ==
    ASSUME NEW s \in Sessions, NEW n \in Names, ListUserRooms(UserOf[s])[n] # Unlisted
    PROVE  row[n] # NoRoom /\ row[n].live
BY DEF ListUserRooms, Found

LEMMA GoneStays ==
    ASSUME FadeInv, RowsStay, NEW r \in Sessions, NEW n \in dead[r]
    PROVE  n \in Names /\ row'[n] # NoRoom /\ ~row'[n].live
<1>1. dead \in [Sessions -> SUBSET Names]
  BY DEF FadeInv
<1>2. row[n] # NoRoom /\ ~row[n].live
  <2> HIDE DEF IInv
  <2> QED BY DEF FadeInv, Faded
<1>3. n \in Names
  BY <1>1
<1> HIDE DEF IInv
<1> QED BY <1>2, <1>3 DEF RowsStay

\* What a step has to show that changes rows and what handlers hold only.
LEMMA StaysFaded ==
    ASSUME FadeInv, RowsStay, UNCHANGED <<subs, list, view, dead>>,
           \A r \in Sessions : \A n \in dead[r] : at'[r] \in Holding => name'[r] # n
    PROVE  Faded'
<1> HIDE DEF IInv
<1> SUFFICES ASSUME NEW r \in Sessions, NEW n \in dead[r]
             PROVE  /\ row'[n] # NoRoom /\ ~row'[n].live
                    /\ list[r][n] = Unlisted /\ r \notin subs[n] /\ view[r] # n
                    /\ at'[r] \in Holding => name'[r] # n
  BY DEF Faded
<1>1. row'[n] # NoRoom /\ ~row'[n].live
  BY GoneStays
<1>2. list[r][n] = Unlisted /\ r \notin subs[n] /\ view[r] # n
  BY DEF FadeInv, Faded
<1> QED BY <1>1, <1>2

LEMMA ConnectFades ==
    ASSUME FadeInv, RowsStay, NEW s \in Sessions,
           \/ Connect(s) \/ Register(s) \/ FindDefault(s) \/ MakeDefault(s) \/ JoinDefault(s)
           \/ ListRooms(s) \/ (\E n \in Names : SubscribeListed(s, n)) \/ OpenFirst(s)
    PROVE  Fresh' /\ Faded'
<1> USE DEF FadeInv, Fresh, Faded, RowsStay
<1>1. CASE Connect(s) \/ Register(s)
  <2>1. /\ at[s] = "off" /\ at' \in {[at EXCEPT ![s] = "init"], [at EXCEPT ![s] = "find_default"]}
        /\ \A r \in Sessions \ {s} : name'[r] = name[r]
        /\ UNCHANGED <<row, subs, list, view, dead>>
    BY <1>1 DEF Connect, Register
  <2>2. \A r \in Sessions \ {s} : at'[r] = at[r]
    BY <2>1
  <2>3. at'[s] \in {"off", "init"} \union Registering
    BY <2>1
  <2> HIDE DEF IInv, TypeOK
  <2>4. dead'[s] = {} /\ view'[s] = NoName /\ \A n \in Names : list'[s][n] = Unlisted /\ s \notin subs'[n]
    BY <2>1
  <2>5. Fresh'
    BY <2>1, <2>2, <2>4
  <2> HIDE DEF Holding, Registering
  <2>6. Faded'
    BY <2>1, <2>2, <2>3
  <2> QED BY <2>5, <2>6
<1>2. CASE FindDefault(s)
  BY <1>2 DEF FindDefault
<1>3. CASE MakeDefault(s)
  <2>1. /\ at[s] = "make_default" /\ at' \in {[at EXCEPT ![s] = "join_default"], [at EXCEPT ![s] = "init"]}
        /\ \A r \in Sessions \ {s} : name'[r] = name[r]
        /\ UNCHANGED <<subs, list, view, dead>>
    BY <1>3 DEF MakeDefault
  <2>2. dead[s] = {}
    BY <2>1
  <2>3. Fresh'
    BY <2>1
  <2>4. \A r \in Sessions : \A n \in dead[r] : at'[r] \in Holding => name'[r] # n
    BY <2>1, <2>2
  <2> QED BY <2>1, <2>3, <2>4, StaysFaded
<1>4. CASE JoinDefault(s)
  BY <1>4 DEF JoinDefault
<1>5. CASE ListRooms(s)
  <2>1. /\ at[s] = "init" /\ at' = [at EXCEPT ![s] = "subscribing"]
        /\ dead' = [dead EXCEPT ![s] = {n \in Names : row[n] # NoRoom /\ ~row[n].live}]
        /\ list' = [list EXCEPT ![s] = ListUserRooms(UserOf[s])]
        /\ UNCHANGED <<row, subs, view, name>>
    BY <1>5 DEF ListRooms, Refresh
  <2>2. ASSUME NEW n \in dead'[s]
        PROVE  /\ n \in Names /\ row[n] # NoRoom /\ ~row[n].live /\ list'[s][n] = Unlisted
    BY <2>1, ListsLiveRooms
  <2>3. ASSUME NEW n \in dead'[s]
        PROVE  s \notin subs[n] /\ view[s] # n
    BY <2>1, <2>2, DirectoryAssumption
  <2>4. Faded'
    BY <2>1, <2>2, <2>3
  <2> QED BY <2>1, <2>4
<1>6. ASSUME NEW n \in Names, SubscribeListed(s, n) PROVE Fresh' /\ Faded'
  BY <1>6 DEF SubscribeListed, Listed
<1>7. CASE OpenFirst(s)
  BY <1>7 DEF OpenFirst, Listed
<1> QED BY <1>1, <1>2, <1>3, <1>4, <1>5, <1>6, <1>7

LEMMA CreateFades ==
    ASSUME FadeInv, RowsStay, NEW s \in Sessions,
           \/ (\E n \in Names : Create(s, n)) \/ LookForName(s) \/ InsertRoom(s)
           \/ (\E n \in Names : Join(s, n)) \/ InsertMember(s)
           \/ RefreshRooms(s) \/ Subscribe(s) \/ OpenRoom(s)
           \/ \E n \in Names : Look(s, n)
    PROVE  Fresh' /\ Faded'
<1> USE DEF FadeInv, Fresh, Faded, RowsStay
<1>1. ASSUME NEW n \in Names, Create(s, n) PROVE Fresh' /\ Faded'
  BY <1>1 DEF Create
<1>2. CASE LookForName(s)
  BY <1>2 DEF LookForName
<1>3. CASE InsertRoom(s)
  <2>1. CASE Insertable(name[s])
    <3>1. row[name[s]] = NoRoom
      BY <2>1 DEF Insertable
    <3>2. /\ at[s] = "create" /\ at' = [at EXCEPT ![s] = "create_refresh"]
          /\ UNCHANGED <<subs, list, view, dead, name>>
      BY <1>3, <2>1 DEF InsertRoom
    <3>3. Fresh'
      BY <3>2
    <3>4. \A r \in Sessions : \A n \in dead[r] : at'[r] \in Holding => name'[r] # n
      BY <3>1, <3>2
    <3> QED BY <3>2, <3>3, <3>4, StaysFaded
  <2>2. CASE ~Insertable(name[s])
    <3>1. /\ at[s] = "create" /\ at' = [at EXCEPT ![s] = "idle"]
          /\ name' = [name EXCEPT ![s] = NoName]
          /\ UNCHANGED <<subs, list, view, dead>>
      BY <1>3, <2>2 DEF InsertRoom
    <3>2. Fresh'
      BY <3>1
    <3>3. \A r \in Sessions : \A n \in dead[r] : at'[r] \in Holding => name'[r] # n
      BY <3>1
    <3> QED BY <3>1, <3>2, <3>3, StaysFaded
  <2> QED BY <2>1, <2>2
<1>4. ASSUME NEW n \in Names, Join(s, n) PROVE Fresh' /\ Faded'
  BY <1>4 DEF Join, Found
<1>5. CASE InsertMember(s)
  BY <1>5 DEF InsertMember
<1>6. CASE RefreshRooms(s)
  <2>1. /\ at[s] \in Holding /\ at' \in {[at EXCEPT ![s] = "join_subscribe"],
                                          [at EXCEPT ![s] = "create_subscribe"]}
        /\ list' = [list EXCEPT ![s] = ListUserRooms(UserOf[s])]
        /\ UNCHANGED <<row, subs, view, name, dead>>
    BY <1>6 DEF RefreshRooms, Refresh
  <2>2. ASSUME NEW n \in dead[s] PROVE list'[s][n] = Unlisted
    <3>1. n \in Names /\ ~(row[n] # NoRoom /\ row[n].live) /\ list'[s] = ListUserRooms(UserOf[s])
      BY <2>1
    <3> QED BY <3>1, ListsLiveRooms
  <2> QED BY <2>1, <2>2
<1>7. CASE Subscribe(s)
  BY <1>7 DEF Subscribe
<1>8. CASE OpenRoom(s)
  BY <1>8 DEF OpenRoom
<1>9. ASSUME NEW n \in Names, Look(s, n) PROVE Fresh' /\ Faded'
  BY <1>9 DEF Look, Listed
<1> QED BY <1>1, <1>2, <1>3, <1>4, <1>5, <1>6, <1>7, <1>8, <1>9

LEMMA EventFades ==
    ASSUME FadeInv, RowsStay, NEW s \in Sessions,
           \/ Topic(s) \/ \E topic \in Topics : SetTopic(s, topic)
           \/ Publish(s) \/ (\E r \in Sessions : Deliver(s, r)) \/ Return(s)
           \/ HandleMeta(s) \/ OtherEvent(s) \/ HandleOther(s)
    PROVE  Fresh' /\ Faded'
<1> USE DEF FadeInv, Fresh, Faded, RowsStay
<1>1. CASE Topic(s)
  BY <1>1 DEF Topic
<1>2. ASSUME NEW topic \in Topics, SetTopic(s, topic) PROVE Fresh' /\ Faded'
  BY <1>2 DEF SetTopic
<1>3. CASE Publish(s)
  BY <1>3 DEF Publish
<1>3a. CASE Return(s)
  <2>1. /\ at[s] \in Holding /\ at' \in {[at EXCEPT ![s] = "open"], [at EXCEPT ![s] = "idle"]}
        /\ name' \in {name, [name EXCEPT ![s] = NoName]}
        /\ UNCHANGED <<row, subs, list, view, dead>>
    BY <1>3a DEF Return
  <2>2. Fresh'
    BY <2>1
  <2>3. \A r \in Sessions : \A n \in dead[r] : at'[r] \in Holding => name'[r] # n
    BY <2>1, GoneStays, DirectoryAssumption
  <2> QED BY <2>1, <2>2, <2>3, StaysFaded
<1>4. ASSUME NEW r \in Sessions, Deliver(s, r) PROVE Fresh' /\ Faded'
  BY <1>4 DEF Deliver
<1>5. CASE HandleMeta(s)
  <2>1. /\ at[s] = "idle"
        /\ list' = [list EXCEPT ![s] = ListUserRooms(UserOf[s])]
        /\ UNCHANGED <<row, subs, view, name, at, dead>>
    BY <1>5 DEF HandleMeta, Refresh
  <2>2. ASSUME NEW n \in dead[s] PROVE list'[s][n] = Unlisted
    <3>1. n \in Names /\ ~(row[n] # NoRoom /\ row[n].live) /\ list'[s] = ListUserRooms(UserOf[s])
      BY <2>1
    <3> QED BY <3>1, ListsLiveRooms
  <2> QED BY <2>1, <2>2
<1>6. CASE OtherEvent(s) \/ HandleOther(s)
  BY <1>6 DEF OtherEvent, HandleOther
<1> QED BY <1>1, <1>2, <1>3, <1>3a, <1>4, <1>5, <1>6

LEMMA NextFades == FadeInv /\ [Next]_vars => FadeInv'
<1> SUFFICES ASSUME FadeInv, [Next]_vars PROVE Fresh' /\ Faded'
  BY NextTypes DEF FadeInv
<1>1. RowsStay
  BY NextKeepsRows DEF FadeInv
<1>2. CASE UNCHANGED vars
  BY <1>2 DEF vars, FadeInv, Fresh, Faded
<1>3. ASSUME NEW S \in SUBSET Sessions, Forget(S), row' = row PROVE Fresh' /\ Faded'
  BY <1>3 DEF Forget, FadeInv, Fresh, Faded
<1>4. CASE Restart \/ \E s \in Sessions : Disconnect(s)
  BY <1>3, <1>4 DEF Restart, Disconnect
<1>5. CASE \/ \E n \in Names : DeleteRoom(n)
           \/ \E u \in Users, on \in BOOLEAN : SetAdmin(u, on)
           \/ Tick
  <2>1. UNCHANGED <<at, name, subs, list, view, dead>>
    BY <1>5 DEF DeleteRoom, SetAdmin, Tick
  <2>2. Fresh'
    BY <2>1 DEF FadeInv, Fresh
  <2>3. Faded'
    BY <1>1, <2>1 DEF FadeInv, Faded, RowsStay
  <2> QED BY <2>2, <2>3
<1> QED BY <1>1, <1>2, <1>4, <1>5, ConnectFades, CreateFades, EventFades DEF Next

\* A session that connects after a room was deleted never lists it, follows it
\* or shows it: no command leads back to a deleted name (commands.go:41-57,
\* 91-100; store.go:229-237, 260-270).
THEOREM DeletedFade == Spec => []DeletedRoomsFade
<1>1. FadeInv => DeletedRoomsFade
  BY DEF FadeInv, Faded, DeletedRoomsFade, Listed
<1> QED BY <1>1, FadeInit, NextFades, PTL DEF Spec

-----------------------------------------------------------------------------
(* Topics                                                                  *)

TopicInv == IInv /\ TopicKnown

\* A publication that has begun goes on, or is complete.
Publishing == {"topic_publish", "topic_sending", "join_sending"}

PublicationsGoOn ==
    \A a \in Sessions : at[a] \in Publishing =>
        \/ at'[a] = at[a] /\ name'[a] = name[a] /\ to'[a] = to[a]
        \/ at[a] # "topic_publish" /\ to[a] = {}

\* A row that is there keeps its topic, and a room that is not deleted was not.
TopicsStay ==
    \A n \in Names : row[n] # NoRoom /\ Found(n)' => Found(n) /\ row'[n].topic = row[n].topic

LEMMA StillComing ==
    ASSUME PublicationsGoOn, NEW r \in Sessions, NEW n \in Names,
           inbox'[r] = inbox[r], Coming(r, n)
    PROVE  Coming(r, n)'
BY DEF PublicationsGoOn, Publishing, Coming

LEMMA KeptKnown ==
    ASSUME TopicInv, PublicationsGoOn, TopicsStay, UNCHANGED <<list, inbox, missed>>
    PROVE  TopicKnown'
<1> SUFFICES ASSUME NEW r \in Sessions, NEW n \in Names, list'[r][n] # Unlisted, Found(n)',
                    list'[r][n] # row'[n].topic
             PROVE  Coming(r, n)' \/ n \in missed'[r]
  BY DEF TopicKnown, Listed
<1>1. row[n] # NoRoom
  BY DEF TopicInv
<1>2. Found(n) /\ list[r][n] # row[n].topic
  BY <1>1 DEF TopicsStay
<1>3. Coming(r, n) \/ n \in missed[r]
  BY <1>2 DEF TopicInv, TopicKnown, Listed
<1> QED BY <1>3, StillComing

LEMMA RelistedKnown ==
    ASSUME TopicInv, PublicationsGoOn, row' = row, NEW s \in Sessions, Refresh(s),
           members' = members, \A r \in Sessions \ {s} : inbox'[r] = inbox[r]
    PROVE  TopicKnown'
<1> SUFFICES ASSUME NEW r \in Sessions, NEW n \in Names, list'[r][n] # Unlisted, Found(n)',
                    list'[r][n] # row'[n].topic
             PROVE  Coming(r, n)' \/ n \in missed'[r]
  BY DEF TopicKnown, Listed
<1>1. CASE r = s
  <2>1. list'[s][n] = ListUserRooms(UserOf[s])[n]
    BY DEF Refresh, TopicInv
  <2> QED BY <1>1, <2>1 DEF ListUserRooms
<1>2. CASE r # s
  <2>1. list'[r] = list[r] /\ missed'[r] = missed[r] /\ inbox'[r] = inbox[r]
    BY <1>2 DEF Refresh, TopicInv
  <2>2. Found(n)
    BY DEF Found
  <2>3. Coming(r, n) \/ n \in missed[r]
    BY <2>1, <2>2 DEF TopicInv, TopicKnown, Listed
  <2> QED BY <2>1, <2>3, StillComing
<1> QED BY <1>1, <1>2

LEMMA CreateRoomTopics ==
    ASSUME TopicInv, NEW s \in Sessions, NEW n \in Names, Insertable(n), NEW t \in since[s] .. now,
           CreateRoom(s, n, t)
    PROVE  TopicsStay
BY DEF TopicInv, CreateRoom, Insertable, TopicsStay, Found

LEMMA ConnectKnown ==
    ASSUME TopicInv, NEW s \in Sessions,
           \/ Connect(s) \/ Register(s) \/ FindDefault(s) \/ MakeDefault(s) \/ JoinDefault(s)
           \/ ListRooms(s) \/ (\E n \in Names : SubscribeListed(s, n)) \/ OpenFirst(s)
    PROVE  TopicKnown'
<1> USE DEF TopicInv, PublicationsGoOn, Publishing, TopicsStay, Found
<1>1. CASE Connect(s) \/ Register(s) \/ FindDefault(s) \/ JoinDefault(s)
  <2>1. PublicationsGoOn /\ TopicsStay /\ UNCHANGED <<list, inbox, missed>>
    BY <1>1 DEF Connect, Register, FindDefault, JoinDefault
  <2> QED BY <2>1, KeptKnown
<1>2. CASE MakeDefault(s)
  <2>1. PublicationsGoOn /\ UNCHANGED <<list, inbox, missed>>
    BY <1>2 DEF MakeDefault
  <2>2. TopicsStay
    <3>1. CASE row' = row
      BY <3>1
    <3>2. CASE row' # row
      BY <1>2, <3>2, CreateRoomTopics DEF MakeDefault
    <3> QED BY <3>1, <3>2
  <2> QED BY <2>1, <2>2, KeptKnown
<1>3. CASE ListRooms(s)
  <2>1. PublicationsGoOn /\ UNCHANGED <<row, members, inbox>>
    BY <1>3 DEF ListRooms
  <2> QED BY <1>3, <2>1, RelistedKnown DEF ListRooms
<1>4. CASE (\E n \in Names : SubscribeListed(s, n)) \/ OpenFirst(s)
  <2>1. PublicationsGoOn /\ TopicsStay /\ UNCHANGED <<list, inbox, missed>>
    BY <1>4 DEF SubscribeListed, OpenFirst
  <2> QED BY <2>1, KeptKnown
<1> QED BY <1>1, <1>2, <1>3, <1>4

LEMMA CreateKnown ==
    ASSUME TopicInv, NEW s \in Sessions,
           \/ (\E n \in Names : Create(s, n)) \/ LookForName(s) \/ InsertRoom(s)
           \/ (\E n \in Names : Join(s, n)) \/ InsertMember(s)
           \/ RefreshRooms(s) \/ Subscribe(s) \/ OpenRoom(s)
           \/ \E n \in Names : Look(s, n)
    PROVE  TopicKnown'
<1> USE DEF TopicInv, PublicationsGoOn, Publishing, TopicsStay, Found
<1>1. CASE \/ (\E n \in Names : Create(s, n)) \/ LookForName(s)
           \/ (\E n \in Names : Join(s, n)) \/ InsertMember(s)
  <2>1. PublicationsGoOn /\ TopicsStay /\ UNCHANGED <<list, inbox, missed>>
    BY <1>1 DEF Create, LookForName, Join, InsertMember
  <2> QED BY <2>1, KeptKnown
<1>2. CASE InsertRoom(s)
  <2>1. PublicationsGoOn /\ UNCHANGED <<list, inbox, missed>>
    BY <1>2 DEF InsertRoom
  <2>2. TopicsStay
    <3>1. CASE row' = row
      BY <3>1
    <3>2. CASE row' # row
      BY <1>2, <3>2, CreateRoomTopics DEF InsertRoom
    <3> QED BY <3>1, <3>2
  <2> QED BY <2>1, <2>2, KeptKnown
<1>3. CASE RefreshRooms(s)
  <2>1. PublicationsGoOn /\ UNCHANGED <<row, members, inbox>>
    BY <1>3 DEF RefreshRooms
  <2> QED BY <1>3, <2>1, RelistedKnown DEF RefreshRooms
<1>4. CASE Subscribe(s) \/ OpenRoom(s) \/ \E n \in Names : Look(s, n)
  <2>1. PublicationsGoOn /\ TopicsStay /\ UNCHANGED <<list, inbox, missed>>
    BY <1>4 DEF Subscribe, OpenRoom, Look
  <2> QED BY <2>1, KeptKnown
<1> QED BY <1>1, <1>2, <1>3, <1>4

LEMMA EventKnown ==
    ASSUME TopicInv, NEW s \in Sessions,
           \/ Topic(s) \/ \E topic \in Topics : SetTopic(s, topic)
           \/ Publish(s) \/ (\E r \in Sessions : Deliver(s, r)) \/ Return(s)
           \/ HandleMeta(s) \/ OtherEvent(s) \/ HandleOther(s)
    PROVE  TopicKnown'
<1> USE DEF TopicInv, PublicationsGoOn, Publishing, TopicsStay, Found
<1>1. CASE Topic(s) \/ Return(s) \/ OtherEvent(s) \/ HandleOther(s)
  <2>1. PublicationsGoOn /\ TopicsStay /\ UNCHANGED <<list, inbox, missed>>
    BY <1>1 DEF Topic, Return, OtherEvent, HandleOther
  <2> QED BY <2>1, KeptKnown
<1>2. ASSUME NEW topic \in Topics, SetTopic(s, topic) PROVE TopicKnown'
  <2>1. /\ at[s] = "topic" /\ at' = [at EXCEPT ![s] = "topic_publish"]
        /\ row' = [row EXCEPT ![name[s]].topic = topic]
        /\ UNCHANGED <<name, to, list, inbox, missed>>
    BY <1>2 DEF SetTopic
  <2> SUFFICES ASSUME NEW r \in Sessions, NEW n \in Names, list'[r][n] # Unlisted, Found(n)',
                      list'[r][n] # row'[n].topic
               PROVE  Coming(r, n)' \/ n \in missed'[r]
    BY DEF TopicKnown, Listed
  <2>2. CASE n = name[s]
    BY <2>1, <2>2 DEF Coming
  <2>3. CASE n # name[s]
    <3>1. row'[n] = row[n]
      BY <2>1, <2>3
    <3>2. Coming(r, n) \/ n \in missed[r]
      BY <2>1, <3>1 DEF TopicKnown, Listed
    <3>3. PublicationsGoOn
      BY <2>1
    <3> QED BY <2>1, <3>2, <3>3, StillComing
  <2> QED BY <2>2, <2>3
<1>3. CASE Publish(s)
  <2>1. /\ at[s] \in {"join_publish", "topic_publish"}
        /\ at' \in {[at EXCEPT ![s] = "join_sending"], [at EXCEPT ![s] = "topic_sending"]}
        /\ to' = [to EXCEPT ![s] = subs[name[s]]]
        /\ missed' = [r \in Sessions |-> IF name[s] \in Listed(r) /\ r \notin subs[name[s]]
                                         THEN missed[r] \union {name[s]} ELSE missed[r]]
        /\ UNCHANGED <<row, name, list, inbox>>
    BY <1>3 DEF Publish, Recipients
  <2> SUFFICES ASSUME NEW r \in Sessions, NEW n \in Names, list'[r][n] # Unlisted, Found(n)',
                      list'[r][n] # row'[n].topic
               PROVE  Coming(r, n)' \/ n \in missed'[r]
    BY DEF TopicKnown, Listed
  <2>2. Coming(r, n) \/ n \in missed[r]
    BY <2>1 DEF TopicKnown, Listed
  <2>3. CASE n \in missed[r]
    BY <2>1, <2>3
  <2>4. CASE inbox[r] > 0
    BY <2>1, <2>4 DEF Coming
  <2>5. CASE name[s] = n
    <3>1. CASE r \in subs[n]
      BY <2>1, <2>5, <3>1 DEF Coming
    <3>2. CASE r \notin subs[n]
      BY <2>1, <2>5, <3>2 DEF Listed
    <3> QED BY <3>1, <3>2
  <2>6. ASSUME NEW a \in Sessions, name[a] = n, a # s,
               \/ at[a] = "topic_publish"
               \/ at[a] \in {"topic_sending", "join_sending"} /\ r \in to[a]
        PROVE  Coming(r, n)'
    <3>1. at'[a] = at[a] /\ name'[a] = n /\ to'[a] = to[a]
      BY <2>1, <2>6
    <3> QED BY <2>6, <3>1 DEF Coming
  <2> QED BY <2>2, <2>3, <2>4, <2>5, <2>6 DEF Coming
<1>4. ASSUME NEW q \in Sessions, Deliver(s, q) PROVE TopicKnown'
  <2>1. /\ at[s] \in {"join_sending", "topic_sending"}
        /\ to' = [to EXCEPT ![s] = @ \ {q}]
        /\ inbox' = [inbox EXCEPT ![q] = IF inbox[q] + others[q] < InboxCap THEN @ + 1 ELSE @]
        /\ missed' = [missed EXCEPT ![q] = IF inbox[q] + others[q] < InboxCap THEN @
                                           ELSE @ \union ({name[s]} \intersect Listed(q))]
        /\ UNCHANGED <<row, at, name, list>>
    BY <1>4 DEF Deliver, Offer
  <2> SUFFICES ASSUME NEW r \in Sessions, NEW n \in Names, list'[r][n] # Unlisted, Found(n)',
                      list'[r][n] # row'[n].topic
               PROVE  Coming(r, n)' \/ n \in missed'[r]
    BY DEF TopicKnown, Listed
  <2>2. Coming(r, n) \/ n \in missed[r]
    BY <2>1 DEF TopicKnown, Listed
  <2>3. CASE n \in missed[r]
    BY <2>1, <2>3
  <2>4. CASE inbox[r] > 0
    BY <2>1, <2>4 DEF Coming
  <2>5. CASE r = q /\ name[s] = n
    <3>1. CASE inbox[q] + others[q] < InboxCap
      BY <2>1, <2>5, <3>1 DEF Coming
    <3>2. CASE ~(inbox[q] + others[q] < InboxCap)
      BY <2>1, <2>5, <3>2 DEF Listed
    <3> QED BY <3>1, <3>2
  <2>6. ASSUME NEW a \in Sessions, name[a] = n, ~(r = q /\ name[s] = n),
               \/ at[a] = "topic_publish"
               \/ at[a] \in {"topic_sending", "join_sending"} /\ r \in to[a]
        PROVE  Coming(r, n)'
    <3>1. at'[a] = at[a] /\ name'[a] = n /\ (r \in to[a] => r \in to'[a])
      BY <2>1, <2>6
    <3> QED BY <2>6, <3>1 DEF Coming
  <2> QED BY <2>2, <2>3, <2>4, <2>5, <2>6 DEF Coming
<1>5. CASE HandleMeta(s)
  <2>1. /\ PublicationsGoOn /\ UNCHANGED <<row, members>>
        /\ \A r \in Sessions \ {s} : inbox'[r] = inbox[r]
    BY <1>5 DEF HandleMeta
  <2> QED BY <1>5, <2>1, RelistedKnown DEF HandleMeta
<1> QED BY <1>1, <1>2, <1>3, <1>4, <1>5

\* Sessions that end are not in the middle of a publication, or all end.
LEMMA ForgetKnown ==
    ASSUME TopicInv, row' = row, NEW S \in SUBSET Sessions, Forget(S),
           S = Sessions \/ \A a \in S : at[a] = "idle"
    PROVE  TopicKnown'
<1> SUFFICES ASSUME NEW r \in Sessions, NEW n \in Names, list'[r][n] # Unlisted, Found(n)',
                    list'[r][n] # row'[n].topic
             PROVE  Coming(r, n)' \/ n \in missed'[r]
  BY DEF TopicKnown, Listed
<1>1. r \notin S /\ list'[r] = list[r] /\ missed'[r] = missed[r] /\ inbox'[r] = inbox[r]
  BY DEF Forget
<1>2. Coming(r, n) \/ n \in missed[r]
  BY <1>1 DEF TopicInv, TopicKnown, Listed, Found
<1>3. ASSUME NEW a \in Sessions, name[a] = n,
             \/ at[a] = "topic_publish"
             \/ at[a] \in {"topic_sending", "join_sending"} /\ r \in to[a]
      PROVE  Coming(r, n)'
  <2>1. a \notin S
    BY <1>1, <1>3
  <2>2. at'[a] = at[a] /\ name'[a] = n /\ (r \in to[a] => r \in to'[a])
    BY <1>1, <1>3, <2>1 DEF Forget
  <2> QED BY <1>3, <2>2 DEF Coming
<1> QED BY <1>1, <1>2, <1>3 DEF Coming

LEMMA NextKnown == TopicInv /\ [Next]_vars => TopicInv'
<1> SUFFICES ASSUME TopicInv, [Next]_vars PROVE TopicKnown'
  BY NextTypes DEF TopicInv
<1>1. CASE UNCHANGED vars
  <2>1. PublicationsGoOn /\ TopicsStay /\ UNCHANGED <<list, inbox, missed>>
    BY <1>1 DEF vars, PublicationsGoOn, TopicsStay, Found
  <2> QED BY <2>1, KeptKnown
<1>2. CASE Restart \/ \E s \in Sessions : Disconnect(s)
  BY <1>2, ForgetKnown DEF Restart, Disconnect
<1>3. CASE \/ \E n \in Names : DeleteRoom(n)
           \/ \E u \in Users, on \in BOOLEAN : SetAdmin(u, on)
           \/ Tick
  <2>1. PublicationsGoOn /\ UNCHANGED <<list, inbox, missed>>
    BY <1>3 DEF DeleteRoom, SetAdmin, Tick, PublicationsGoOn
  <2>2. ASSUME NEW n \in Names, DeleteRoom(n) PROVE TopicsStay
    <3>1. row[n] \in RoomRows /\ row' = [row EXCEPT ![n].live = FALSE]
      BY <2>2, RowOf DEF DeleteRoom, Found, TopicInv
    <3>2. row'[n].live = FALSE
      BY <3>1 DEF RoomRows, TopicInv
    <3> QED BY <3>1, <3>2 DEF TopicsStay, Found, TopicInv
  <2>3. ASSUME UNCHANGED row PROVE TopicsStay
    BY <2>3 DEF TopicsStay, Found
  <2>4. ASSUME NEW u \in Users, NEW on \in BOOLEAN, SetAdmin(u, on) PROVE TopicsStay
    BY <2>3, <2>4 DEF SetAdmin
  <2>5. ASSUME Tick PROVE TopicsStay
    BY <2>3, <2>5 DEF Tick
  <2> QED BY <1>3, <2>1, <2>2, <2>4, <2>5, KeptKnown
<1> QED BY <1>1, <1>2, <1>3, ConnectKnown, CreateKnown, EventKnown DEF Next

\* A session that shows another topic than the stored one has an event coming,
\* or has missed one (commands.go:103-117, app.go:682-686, hub.go:165-195).
THEOREM TopicsKnown == Spec => []TopicKnown
<1>1. Init => TopicInv
  BY InitInv DEF TopicInv, TopicKnown, Init, Listed
<1>2. TopicInv => TopicKnown
  BY DEF TopicInv
<1> QED BY <1>1, <1>2, NextKnown, PTL DEF Spec

-----------------------------------------------------------------------------
(* The daily limit                                                         *)

\* Where a session has counted its user's rooms, or registers, and may still
\* create one more.
Counted == {"find_default", "make_default", "count_passed", "create"}

\* The earliest time the new room can bear.
Earliest(s) == IF at[s] \in {"make_default", "create"} THEN since[s] ELSE now

Pending(u, t) == {s \in SessionsOf(u) : at[s] \in Counted /\ Earliest(s) =< t}

Bounded ==
    \A u \in Users : \A t \in 0 .. now : SessionsOf(u) # {} =>
        Cardinality(CreatedIn(u, t)) + Cardinality(Pending(u, t))
            < Limit + Cardinality(SessionsOf(u))

\* Rooms were created before now, by users; sessions belong to users.
Dated ==
    /\ \A n \in Names : row[n] # NoRoom => row[n].at =< now /\ row[n].by \in accounts
    /\ \A s \in Sessions : at[s] # "off" => UserOf[s] \in accounts

CreationInv == IInv /\ Dated /\ Bounded

LEMMA Finite ==
    ASSUME NEW u, NEW t
    PROVE  /\ IsFiniteSet(CreatedIn(u, t)) /\ Cardinality(CreatedIn(u, t)) \in Nat
           /\ IsFiniteSet(Pending(u, t)) /\ Cardinality(Pending(u, t)) \in Nat
           /\ IsFiniteSet(SessionsOf(u)) /\ Cardinality(SessionsOf(u)) \in Nat
           /\ Cardinality(Pending(u, t)) =< Cardinality(SessionsOf(u))
<1>1. CreatedIn(u, t) \in SUBSET Names /\ SessionsOf(u) \in SUBSET Sessions
  BY DEF CreatedIn, SessionsOf
<1>2. IsFiniteSet(CreatedIn(u, t)) /\ IsFiniteSet(SessionsOf(u))
  BY <1>1, FS_Subset, DirectoryAssumption
<1>3. Pending(u, t) \in SUBSET SessionsOf(u)
  BY DEF Pending
<1>4. IsFiniteSet(Pending(u, t)) /\ Cardinality(Pending(u, t)) =< Cardinality(SessionsOf(u))
  BY <1>2, <1>3, FS_Subset
<1> QED BY <1>2, <1>4, FS_CardinalityType

LEMMA FiniteNext ==
    ASSUME NEW u, NEW t
    PROVE  /\ IsFiniteSet(CreatedIn(u, t)') /\ Cardinality(CreatedIn(u, t)') \in Nat
           /\ IsFiniteSet(Pending(u, t)') /\ Cardinality(Pending(u, t)') \in Nat
           /\ Cardinality(Pending(u, t)') =< Cardinality(SessionsOf(u))
<1>1. CreatedIn(u, t)' \in SUBSET Names
  BY DEF CreatedIn
<1>2. IsFiniteSet(CreatedIn(u, t)')
  BY <1>1, FS_Subset, DirectoryAssumption
<1>3. Pending(u, t)' \in SUBSET SessionsOf(u)
  BY DEF Pending, SessionsOf
<1>4. IsFiniteSet(Pending(u, t)') /\ Cardinality(Pending(u, t)') =< Cardinality(SessionsOf(u))
  BY <1>3, Finite, FS_Subset
<1> QED BY <1>2, <1>4, FS_CardinalityType

\* No step but a creation, a registration, an insert and a tick.
QuietStep ==
    /\ now' = now
    /\ \A n \in Names : /\ row'[n] # NoRoom <=> row[n] # NoRoom
                        /\ row[n] # NoRoom => row'[n].by = row[n].by /\ row'[n].at = row[n].at
    /\ \A s \in Sessions : at'[s] \in Counted =>
          /\ at[s] \in Counted
          /\ at'[s] \in {"make_default", "create"} =>
                \/ at[s] = at'[s] /\ since'[s] = since[s]
                \/ at[s] \notin {"make_default", "create"} /\ since'[s] = now

LEMMA QuietBounded ==
    ASSUME CreationInv, QuietStep
    PROVE  Bounded'
<1> SUFFICES ASSUME NEW u \in Users, NEW t \in 0 .. now, SessionsOf(u) # {}
             PROVE  Cardinality(CreatedIn(u, t)') + Cardinality(Pending(u, t)')
                        < Limit + Cardinality(SessionsOf(u))
  BY DEF Bounded, QuietStep, SessionsOf
<1>1. CreatedIn(u, t)' = CreatedIn(u, t)
  BY DEF CreatedIn, QuietStep
<1>2. Pending(u, t)' \in SUBSET Pending(u, t)
  <2> SUFFICES ASSUME NEW s \in Sessions, UserOf[s] = u, at'[s] \in Counted, Earliest(s)' =< t
               PROVE  at[s] \in Counted /\ Earliest(s) =< t
    BY DEF Pending, SessionsOf
  <2>1. at[s] \in Counted /\ now' = now
    BY DEF QuietStep
  <2>2. Earliest(s) =< t
    BY <2>1 DEF Earliest, QuietStep, Counted, CreationInv
  <2> QED BY <2>1, <2>2
<1>3. Cardinality(Pending(u, t)') =< Cardinality(Pending(u, t))
  BY <1>2, Finite, FS_Subset
<1>4. Cardinality(CreatedIn(u, t)) + Cardinality(Pending(u, t)) < Limit + Cardinality(SessionsOf(u))
  BY DEF CreationInv, Bounded
<1> QED BY <1>1, <1>3, <1>4, Finite, FiniteNext, DirectoryAssumption

\* A session that has just counted fewer rooms than the limit.
LEMMA CreateBounded ==
    ASSUME CreationInv, NEW s \in Sessions, NEW n \in Names, Create(s, n)
    PROVE  Bounded'
<1>1. /\ at[s] = "idle" /\ at' = [at EXCEPT ![s] = "count_passed"]
      /\ CountRoomCreates(UserOf[s]) < Limit
      /\ UNCHANGED <<now, row, since>>
  BY DEF Create, WithinLimit
<1> SUFFICES ASSUME NEW u \in Users, NEW t \in 0 .. now, SessionsOf(u) # {}
             PROVE  Cardinality(CreatedIn(u, t)') + Cardinality(Pending(u, t)')
                        < Limit + Cardinality(SessionsOf(u))
  BY <1>1 DEF Bounded, SessionsOf
<1>2. CreatedIn(u, t)' = CreatedIn(u, t)
  BY <1>1 DEF CreatedIn
<1>3. CASE u = UserOf[s] /\ t = now
  <2>1. CreatedIn(u, t) = {m \in Names : row[m] # NoRoom /\ row[m].by = u /\ row[m].at > now - Day}
    BY <1>3 DEF CreatedIn, CreationInv, Dated
  <2>2. Cardinality(CreatedIn(u, t)) < Limit
    BY <1>1, <1>3, <2>1 DEF CountRoomCreates
  <2> QED BY <1>2, <2>2, Finite, FiniteNext, DirectoryAssumption
<1>4. CASE ~(u = UserOf[s] /\ t = now)
  <2>1. Pending(u, t)' \in SUBSET Pending(u, t)
    BY <1>1, <1>4 DEF Pending, SessionsOf, Earliest, Counted, CreationInv
  <2>2. Cardinality(Pending(u, t)') =< Cardinality(Pending(u, t))
    BY <2>1, Finite, FS_Subset
  <2>3. Cardinality(CreatedIn(u, t)) + Cardinality(Pending(u, t))
            < Limit + Cardinality(SessionsOf(u))
    BY DEF CreationInv, Bounded
  <2> QED BY <1>2, <2>2, <2>3, Finite, FiniteNext, DirectoryAssumption
<1> QED BY <1>3, <1>4

\* A user without an account has created nothing.
LEMMA RegisterBounded ==
    ASSUME CreationInv, NEW s \in Sessions, Register(s)
    PROVE  Bounded'
<1>1. /\ at[s] = "off" /\ at' = [at EXCEPT ![s] = "find_default"]
      /\ UserOf[s] \notin accounts
      /\ UNCHANGED <<now, row, since>>
  BY DEF Register
<1> SUFFICES ASSUME NEW u \in Users, NEW t \in 0 .. now, SessionsOf(u) # {}
             PROVE  Cardinality(CreatedIn(u, t)') + Cardinality(Pending(u, t)')
                        < Limit + Cardinality(SessionsOf(u))
  BY <1>1 DEF Bounded, SessionsOf
<1>2. CreatedIn(u, t)' = CreatedIn(u, t)
  BY <1>1 DEF CreatedIn
<1>3. CASE u = UserOf[s]
  <2>1. CreatedIn(u, t) = {}
    BY <1>1, <1>3 DEF CreatedIn, CreationInv, Dated
  <2> QED BY <1>2, <2>1, Finite, FiniteNext, FS_EmptySet, DirectoryAssumption
<1>4. CASE u # UserOf[s]
  <2>1. Pending(u, t)' \in SUBSET Pending(u, t)
    BY <1>1, <1>4 DEF Pending, SessionsOf, Earliest, Counted, CreationInv
  <2>2. Cardinality(Pending(u, t)') =< Cardinality(Pending(u, t))
    BY <2>1, Finite, FS_Subset
  <2>3. Cardinality(CreatedIn(u, t)) + Cardinality(Pending(u, t))
            < Limit + Cardinality(SessionsOf(u))
    BY DEF CreationInv, Bounded
  <2> QED BY <1>2, <2>2, <2>3, Finite, FiniteNext, DirectoryAssumption
<1> QED BY <1>3, <1>4

LEMMA OneMore ==
    ASSUME NEW S, NEW x, IsFiniteSet(S)
    PROVE  IsFiniteSet(S \union {x}) /\ Cardinality(S \union {x}) =< Cardinality(S) + 1
<1>1. Cardinality(S) \in Nat
  BY FS_CardinalityType
<1> QED BY <1>1, FS_AddElement

\* A room that is inserted takes the place of a session that was about to.
LEMMA InsertBounded ==
    ASSUME CreationInv, NEW s \in Sessions, MakeDefault(s) \/ InsertRoom(s), Insertable(name[s])
    PROVE  Bounded'
<1>1. PICK w \in since[s] .. now :
        row' = [row EXCEPT ![name[s]] =
                  [by |-> UserOf[s], at |-> w, topic |-> Blank, live |-> TRUE]]
  BY DEF MakeDefault, InsertRoom, CreateRoom
<1>2. /\ name[s] \in Names /\ row[name[s]] = NoRoom
      /\ at[s] \in {"make_default", "create"}
      /\ at' \in {[at EXCEPT ![s] = "join_default"], [at EXCEPT ![s] = "create_refresh"]}
      /\ now' = now
      /\ \A r \in Sessions \ {s} : since'[r] = since[r]
  BY DEF MakeDefault, InsertRoom, Insertable, CreationInv
<1>3. w \in Nat /\ since[s] =< w /\ w =< now
  <2>1. now \in Nat /\ since[s] \in Nat
    BY DirectoryAssumption DEF CreationInv
  <2> HIDE DEF IInv, TypeOK
  <2> QED BY <1>1, <2>1
<1> SUFFICES ASSUME NEW u \in Users, NEW t \in 0 .. now, SessionsOf(u) # {}
             PROVE  Cardinality(CreatedIn(u, t)') + Cardinality(Pending(u, t)')
                        < Limit + Cardinality(SessionsOf(u))
  BY <1>2 DEF Bounded, SessionsOf
<1>4. Cardinality(CreatedIn(u, t)) + Cardinality(Pending(u, t)) < Limit + Cardinality(SessionsOf(u))
  BY DEF CreationInv, Bounded
<1>5. Pending(u, t)' = Pending(u, t) \ {s}
  BY <1>2 DEF Pending, SessionsOf, Earliest, Counted, CreationInv
<1>6. CASE s \in Pending(u, t)
  <2>1. CreatedIn(u, t)' \in SUBSET (CreatedIn(u, t) \union {name[s]})
    BY <1>1, <1>2 DEF CreatedIn, CreationInv
  <2>2. Cardinality(CreatedIn(u, t)') =< Cardinality(CreatedIn(u, t)) + 1
    <3>1. /\ IsFiniteSet(CreatedIn(u, t) \union {name[s]})
          /\ Cardinality(CreatedIn(u, t) \union {name[s]}) =< Cardinality(CreatedIn(u, t)) + 1
      BY Finite, OneMore
    <3>2. Cardinality(CreatedIn(u, t)') =< Cardinality(CreatedIn(u, t) \union {name[s]})
      BY <2>1, <3>1, FS_Subset
    <3>3. Cardinality(CreatedIn(u, t) \union {name[s]}) \in Nat
      BY <3>1, FS_CardinalityType
    <3> QED BY <3>1, <3>2, <3>3, Finite, FiniteNext
  <2>3. Cardinality(Pending(u, t)') = Cardinality(Pending(u, t)) - 1
    BY <1>5, <1>6, Finite, FS_RemoveElement
  <2> QED BY <1>4, <2>2, <2>3, Finite, FiniteNext, DirectoryAssumption
<1>7. CASE s \notin Pending(u, t)
  <2>1. ~(UserOf[s] = u /\ since[s] =< t)
    BY <1>2, <1>7 DEF Pending, SessionsOf, Earliest, Counted
  <2>2. CreatedIn(u, t)' = CreatedIn(u, t)
    BY <1>1, <1>2, <1>3, <2>1 DEF CreatedIn, CreationInv
  <2>3. Pending(u, t)' = Pending(u, t)
    BY <1>5, <1>7
  <2> QED BY <1>4, <2>2, <2>3
<1> QED BY <1>6, <1>7

LEMMA TickBounded ==
    ASSUME CreationInv, Tick
    PROVE  Bounded'
<1>1. now' = now + 1 /\ now \in Nat /\ UNCHANGED <<row, at, since>>
  BY DEF Tick, CreationInv
<1> SUFFICES ASSUME NEW u \in Users, NEW t \in 0 .. now + 1, SessionsOf(u) # {}
             PROVE  Cardinality(CreatedIn(u, t)') + Cardinality(Pending(u, t)')
                        < Limit + Cardinality(SessionsOf(u))
  BY <1>1 DEF Bounded, SessionsOf
<1> DEFINE w == IF t = now + 1 THEN now ELSE t
<1>2. w \in 0 .. now
  BY <1>1
<1>3. Cardinality(CreatedIn(u, w)) + Cardinality(Pending(u, w)) < Limit + Cardinality(SessionsOf(u))
  BY <1>2 DEF CreationInv, Bounded
<1>4. CreatedIn(u, t)' \in SUBSET CreatedIn(u, w)
  BY <1>1, RowOf, DirectoryAssumption DEF CreatedIn, CreationInv, Dated
<1>5. Pending(u, t)' \in SUBSET Pending(u, w)
  BY <1>1 DEF Pending, SessionsOf, Earliest, CreationInv
<1>6. Cardinality(CreatedIn(u, t)') =< Cardinality(CreatedIn(u, w))
  BY <1>4, Finite, FS_Subset
<1>7. Cardinality(Pending(u, t)') =< Cardinality(Pending(u, w))
  BY <1>5, Finite, FS_Subset
<1> HIDE DEF w
<1> QED BY <1>3, <1>6, <1>7, Finite, FiniteNext, DirectoryAssumption

LEMMA QuietSteps ==
    ASSUME CreationInv, NEW s \in Sessions,
           \/ Connect(s) \/ FindDefault(s) \/ JoinDefault(s)
           \/ ListRooms(s) \/ (\E n \in Names : SubscribeListed(s, n)) \/ OpenFirst(s)
           \/ LookForName(s) \/ (\E n \in Names : Join(s, n)) \/ InsertMember(s)
           \/ RefreshRooms(s) \/ Subscribe(s) \/ OpenRoom(s) \/ (\E n \in Names : Look(s, n))
           \/ Topic(s) \/ Publish(s) \/ (\E r \in Sessions : Deliver(s, r)) \/ Return(s)
           \/ HandleMeta(s) \/ OtherEvent(s) \/ HandleOther(s)
           \/ ~Insertable(name[s]) /\ (MakeDefault(s) \/ InsertRoom(s))
    PROVE  QuietStep
<1> USE DEF QuietStep, Counted, CreationInv
<1>1. CASE Connect(s) \/ FindDefault(s) \/ JoinDefault(s)
  BY <1>1 DEF Connect, FindDefault, JoinDefault
<1>2. CASE ListRooms(s) \/ (\E n \in Names : SubscribeListed(s, n)) \/ OpenFirst(s)
  BY <1>2 DEF ListRooms, SubscribeListed, OpenFirst
<1>3. CASE LookForName(s)
  BY <1>3 DEF LookForName
<1>4. CASE (\E n \in Names : Join(s, n)) \/ InsertMember(s)
  BY <1>4 DEF Join, InsertMember
<1>5. CASE RefreshRooms(s)
  BY <1>5 DEF RefreshRooms
<1>6. CASE Subscribe(s)
  BY <1>6 DEF Subscribe
<1>7. CASE OpenRoom(s) \/ \E n \in Names : Look(s, n)
  BY <1>7 DEF OpenRoom, Look
<1>8. CASE Topic(s)
  BY <1>8 DEF Topic
<1>9. CASE Publish(s)
  BY <1>9 DEF Publish
<1>10. CASE \E r \in Sessions : Deliver(s, r)
  BY <1>10 DEF Deliver
<1>11. CASE Return(s)
  BY <1>11 DEF Return
<1>12. CASE HandleMeta(s) \/ OtherEvent(s) \/ HandleOther(s)
  BY <1>12 DEF HandleMeta, OtherEvent, HandleOther
<1>13. CASE ~Insertable(name[s]) /\ MakeDefault(s)
  BY <1>13 DEF MakeDefault
<1>14. CASE ~Insertable(name[s]) /\ InsertRoom(s)
  BY <1>14 DEF InsertRoom
<1> QED BY <1>1, <1>2, <1>3, <1>4, <1>5, <1>6, <1>7, <1>8, <1>9, <1>10, <1>11, <1>12, <1>13, <1>14

LEMMA QuietRest ==
    ASSUME CreationInv,
           \/ (\E s \in Sessions, topic \in Topics : SetTopic(s, topic))
           \/ (\E n \in Names : DeleteRoom(n))
           \/ (\E u \in Users, on \in BOOLEAN : SetAdmin(u, on))
           \/ Restart \/ (\E s \in Sessions : Disconnect(s)) \/ UNCHANGED vars
    PROVE  QuietStep
<1> USE DEF QuietStep, Counted, CreationInv
<1>1. ASSUME NEW s \in Sessions, NEW topic \in Topics, SetTopic(s, topic) PROVE QuietStep
  <2>1. /\ at[s] = "topic" /\ at' = [at EXCEPT ![s] = "topic_publish"]
        /\ row' = [row EXCEPT ![name[s]].topic = topic] /\ UNCHANGED <<now, since>>
    BY <1>1 DEF SetTopic
  <2>2. name[s] \in Names /\ row[name[s]] \in RoomRows
    BY <2>1, RowOf
  <2>3. [row[name[s]] EXCEPT !.topic = topic] \in RoomRows
    BY <2>2 DEF RoomRows
  <2>4. /\ row'[name[s]] # NoRoom
        /\ row'[name[s]].by = row[name[s]].by /\ row'[name[s]].at = row[name[s]].at
    BY <2>1, <2>2, <2>3, RowShape DEF RoomRows
  <2> QED BY <2>1, <2>2, <2>4, RowShape
<1>2. ASSUME NEW n \in Names, DeleteRoom(n) PROVE QuietStep
  <2>1. row' = [row EXCEPT ![n].live = FALSE] /\ UNCHANGED <<now, since, at>>
    BY <1>2 DEF DeleteRoom
  <2>2. row[n] \in RoomRows /\ row[n] # NoRoom
    BY <1>2, RowOf DEF DeleteRoom, Found
  <2>3. [row[n] EXCEPT !.live = FALSE] \in RoomRows
    BY <2>2 DEF RoomRows
  <2>4. row'[n] # NoRoom /\ row'[n].by = row[n].by /\ row'[n].at = row[n].at
    BY <2>1, <2>2, <2>3, RowShape DEF RoomRows
  <2> QED BY <2>1, <2>2, <2>4
<1>3. CASE \E u \in Users, on \in BOOLEAN : SetAdmin(u, on)
  BY <1>3 DEF SetAdmin
<1>4. ASSUME NEW S \in SUBSET Sessions, Forget(S), UNCHANGED <<now, tables>> PROVE QuietStep
  BY <1>4 DEF Forget
<1>5. CASE Restart \/ \E s \in Sessions : Disconnect(s)
  BY <1>4, <1>5 DEF Restart, Disconnect
<1>6. CASE UNCHANGED vars
  BY <1>6 DEF vars
<1> QED BY <1>1, <1>2, <1>3, <1>5, <1>6

\* Accounts and time only grow, and who comes has an account.
Grow == /\ accounts \subseteq accounts' /\ now =< now'
        /\ \A s \in Sessions : at'[s] # "off" => UserOf[s] \in accounts'

LEMMA QuietGrow ==
    ASSUME CreationInv, accounts' = accounts, now' = now,
           \A s \in Sessions : at'[s] # "off" => at[s] # "off"
    PROVE  Grow
BY DEF CreationInv, Dated, Grow

LEMMA ConnectGrow ==
    ASSUME CreationInv, NEW s \in Sessions,
           \/ Connect(s) \/ Register(s) \/ FindDefault(s) \/ MakeDefault(s) \/ JoinDefault(s)
           \/ ListRooms(s) \/ (\E n \in Names : SubscribeListed(s, n)) \/ OpenFirst(s)
    PROVE  Grow
<1>1. CASE Connect(s)
  BY <1>1 DEF Connect, Grow, CreationInv, Dated
<1>2. CASE Register(s)
  BY <1>2 DEF Register, Grow, CreationInv, Dated
<1>3. CASE FindDefault(s) \/ MakeDefault(s) \/ JoinDefault(s) \/ ListRooms(s)
  <2>1. /\ at[s] # "off" /\ \A r \in Sessions \ {s} : at'[r] = at[r]
        /\ accounts' = accounts /\ now' = now
    BY <1>3 DEF FindDefault, MakeDefault, JoinDefault, ListRooms, CreationInv
  <2> QED BY <2>1, QuietGrow
<1>4. CASE (\E n \in Names : SubscribeListed(s, n)) \/ OpenFirst(s)
  <2>1. /\ at[s] # "off" /\ \A r \in Sessions \ {s} : at'[r] = at[r]
        /\ accounts' = accounts /\ now' = now
    BY <1>4 DEF SubscribeListed, OpenFirst, CreationInv
  <2> QED BY <2>1, QuietGrow
<1> QED BY <1>1, <1>2, <1>3, <1>4

LEMMA CreateGrow ==
    ASSUME CreationInv, NEW s \in Sessions,
           \/ (\E n \in Names : Create(s, n)) \/ LookForName(s) \/ InsertRoom(s)
           \/ (\E n \in Names : Join(s, n)) \/ InsertMember(s)
           \/ RefreshRooms(s) \/ Subscribe(s) \/ OpenRoom(s)
           \/ \E n \in Names : Look(s, n)
    PROVE  Grow
<1>1. /\ at[s] # "off" /\ \A r \in Sessions \ {s} : at'[r] = at[r]
      /\ accounts' = accounts /\ now' = now
  BY DEF Create, LookForName, InsertRoom, Join, InsertMember, RefreshRooms, Subscribe, OpenRoom,
         Look, CreationInv
<1> QED BY <1>1, QuietGrow

LEMMA EventGrow ==
    ASSUME CreationInv, NEW s \in Sessions,
           \/ Topic(s) \/ \E topic \in Topics : SetTopic(s, topic)
           \/ Publish(s) \/ (\E r \in Sessions : Deliver(s, r)) \/ Return(s)
           \/ HandleMeta(s) \/ OtherEvent(s) \/ HandleOther(s)
    PROVE  Grow
<1>1. /\ at[s] # "off" /\ \A r \in Sessions \ {s} : at'[r] = at[r]
      /\ accounts' = accounts /\ now' = now
  BY DEF Topic, SetTopic, Publish, Deliver, Return, HandleMeta, OtherEvent, HandleOther, CreationInv
<1> QED BY <1>1, QuietGrow

LEMMA NextGrows ==
    ASSUME CreationInv, Next
    PROVE  Grow
<1>1. ASSUME NEW S \in SUBSET Sessions, Forget(S), UNCHANGED <<now, tables>> PROVE Grow
  BY <1>1, QuietGrow DEF Forget
<1>2. CASE Restart \/ \E s \in Sessions : Disconnect(s)
  BY <1>1, <1>2 DEF Restart, Disconnect
<1>3. CASE (\E n \in Names : DeleteRoom(n)) \/ (\E u \in Users, on \in BOOLEAN : SetAdmin(u, on))
  <2>1. accounts' = accounts /\ now' = now /\ at' = at
    BY <1>3 DEF DeleteRoom, SetAdmin
  <2> QED BY <2>1, QuietGrow
<1>4. CASE Tick
  BY <1>4 DEF Tick, Grow, CreationInv, Dated
<1> QED BY <1>2, <1>3, <1>4, ConnectGrow, CreateGrow, EventGrow DEF Next

LEMMA NextBounded ==
    ASSUME CreationInv, Next
    PROVE  Dated' /\ Bounded'
<1>1. Grow /\ now \in Nat /\ now' \in Nat
  BY NextGrows, NextTypes DEF CreationInv
<1>2. ASSUME QuietStep PROVE Dated' /\ Bounded'
  <2>1. Dated'
    BY <1>1, <1>2, RowOf DEF QuietStep, Grow, CreationInv, Dated
  <2> QED BY <1>2, <2>1, QuietBounded
<1>3. ASSUME row' = row PROVE Dated'
  BY <1>1, <1>3, RowOf DEF Grow, CreationInv, Dated
<1>4. ASSUME NEW s \in Sessions, MakeDefault(s) \/ InsertRoom(s), Insertable(name[s])
      PROVE  Dated' /\ Bounded'
  <2>1. PICK w \in since[s] .. now : CreateRoom(s, name[s], w)
    BY <1>4 DEF MakeDefault, InsertRoom
  <2>2. w =< now /\ w \in Nat
    BY <2>1 DEF CreationInv
  <2>3. UserOf[s] \in accounts /\ name[s] \in Names
    BY <1>4 DEF MakeDefault, InsertRoom, CreationInv, Dated
  <2>4. Dated'
    BY <1>1, <2>1, <2>2, <2>3, RowOf DEF CreateRoom, Grow, CreationInv, Dated
  <2> QED BY <1>4, <2>4, InsertBounded
<1>5. ASSUME NEW s \in Sessions, NEW n \in Names, Create(s, n) PROVE Dated' /\ Bounded'
  BY <1>3, <1>5, CreateBounded DEF Create
<1>6. ASSUME NEW s \in Sessions, Register(s) PROVE Dated' /\ Bounded'
  BY <1>3, <1>6, RegisterBounded DEF Register
<1>7. ASSUME Tick PROVE Dated' /\ Bounded'
  BY <1>3, <1>7, TickBounded DEF Tick
<1>8. ASSUME NEW s \in Sessions, MakeDefault(s) \/ InsertRoom(s) PROVE Dated' /\ Bounded'
  <2>1. CASE Insertable(name[s])
    BY <1>4, <1>8, <2>1
  <2>2. CASE ~Insertable(name[s])
    BY <1>2, <1>8, <2>2, QuietSteps
  <2> QED BY <2>1, <2>2
<1> QED BY <1>2, <1>5, <1>6, <1>7, <1>8, QuietSteps, QuietRest DEF Next

LEMMA NextCreation == CreationInv /\ [Next]_vars => CreationInv'
<1> SUFFICES ASSUME CreationInv, [Next]_vars PROVE CreationInv'
  OBVIOUS
<1>1. IInv'
  BY NextTypes DEF CreationInv
<1>2. CASE Next
  BY <1>1, <1>2, NextBounded DEF CreationInv
<1>3. CASE UNCHANGED vars
  <2>1. Bounded'
    BY <1>3, QuietRest, QuietBounded
  <2>2. Dated'
    BY <1>3 DEF vars, Dated, CreationInv
  <2> QED BY <1>1, <2>1, <2>2 DEF CreationInv
<1> QED BY <1>2, <1>3

LEMMA InitCreation == Init => CreationInv
<1> SUFFICES ASSUME Init PROVE Dated /\ Bounded
  BY InitInv DEF CreationInv
<1>1. Dated
  BY RowShape DEF Init, Dated
<1>2. ASSUME NEW u \in Users, NEW t \in 0 .. now, SessionsOf(u) # {}
      PROVE  Cardinality(CreatedIn(u, t)) + Cardinality(Pending(u, t))
                 < Limit + Cardinality(SessionsOf(u))
  <2>1. Pending(u, t) = {}
    BY DEF Init, Pending, Counted, SessionsOf
  <2>2. CreatedIn(u, t) \in SUBSET {DefaultRoom}
    BY DEF Init, CreatedIn
  <2>3. IsFiniteSet({DefaultRoom}) /\ Cardinality({DefaultRoom}) = 1
    BY FS_Singleton
  <2>4. Cardinality(CreatedIn(u, t)) =< 1
    BY <2>2, <2>3, FS_Subset
  <2>5. Cardinality(SessionsOf(u)) # 0
    BY <1>2, Finite, FS_EmptySet
  <2> QED BY <2>1, <2>4, <2>5, Finite, FS_EmptySet, DirectoryAssumption
<1> QED BY <1>1, <1>2 DEF Bounded

\* Limit + sessions - 1 rooms at most, in any day, for any number of users,
\* sessions and names, whatever is deleted or restarted in between
\* (commands.go:88-97, register.go:60-67, store.go:202-227, 859-864).
THEOREM CreationsBounded == Spec => []CreationBound
<1>1. ASSUME CreationInv, NEW s \in Sessions, NEW t \in 0 .. now
      PROVE  Cardinality(CreatedIn(UserOf[s], t)) < Limit + Cardinality(SessionsOf(UserOf[s]))
  <2>1. UserOf[s] \in Users /\ SessionsOf(UserOf[s]) # {}
    BY UserOfSession DEF SessionsOf
  <2>2. Cardinality(CreatedIn(UserOf[s], t)) + Cardinality(Pending(UserOf[s], t))
            < Limit + Cardinality(SessionsOf(UserOf[s]))
    BY <1>1, <2>1 DEF CreationInv, Bounded
  <2> QED BY <2>2, Finite, DirectoryAssumption
<1>2. CreationInv => CreationBound
  BY <1>1 DEF CreationBound
<1> QED BY <1>2, InitCreation, NextCreation, PTL DEF Spec
=============================================================================
