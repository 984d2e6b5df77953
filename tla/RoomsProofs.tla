---------------------------- MODULE RoomsProofs -----------------------------
(***************************************************************************)
(* Proofs about room membership, for any number of sessions, users, rooms  *)
(* and commands and any channel capacity.                                  *)
(***************************************************************************)
EXTENDS Rooms, SequenceTheorems, TLAPS

-----------------------------------------------------------------------------
(* Type correctness, in two halves: where each Update loop is and what it  *)
(* holds (Control), and the tables, maps and histories (Data).  A handler  *)
(* that indexes the tables by its argument must hold a room, and one that  *)
(* sends must hold an event.                                               *)
HandlerLabels == Labels \ {"off", "init_join", "idle", "gone", "panicked"}

EventKinds == {"room_meta", "room_msg", "room_removed"}

ArgType == [room : Rooms \union {NoRoom}, user : Users,
            kind : EventKinds \union {"none"}, then : {"idle", "join_open", "kick_publish"}]

Control ==
    /\ pc \in [Sessions -> Labels]
    /\ arg \in [Sessions -> ArgType]
    /\ to \in [Sessions -> SUBSET Sessions]
    /\ \A s \in Sessions :
          /\ pc[s] \in HandlerLabels => arg[s].room \in Rooms
          /\ pc[s] = "sending" => arg[s].kind \in EventKinds

StoreData == role \in [Rooms -> [Users -> {"none", "member", "owner"}]]
             /\ banned \in [Rooms -> SUBSET Users]

HubData == /\ sub \in [Rooms -> SUBSET Sessions]
           /\ inbox \in [Sessions -> Seq(Events)]
           /\ \A s \in Sessions : Len(inbox[s]) =< InboxCap

ClientData == /\ todo \in [Sessions -> SUBSET Rooms]
              /\ nav \in [Sessions -> SUBSET Rooms]
              /\ view \in [Sessions -> Rooms \union {NoRoom}]
              /\ commands \in 0 .. MaxCommands

HistoryData == /\ kicked \in [Rooms -> SUBSET Users]
               /\ late \in [Rooms -> SUBSET Sessions]
               /\ invited \in [Rooms -> SUBSET Users]
               /\ joined \in [Rooms -> SUBSET Sessions]
               /\ fit \in [Sessions -> BOOLEAN]
               /\ posted \subseteq [room : Rooms, author : Users, checked : BOOLEAN]

Data == StoreData /\ HubData /\ ClientData /\ HistoryData

TypeInv == Control /\ Data

LEMMA TypeInvIsTypeOK == TypeInv => TypeOK
BY DEF TypeInv, Control, ArgType, EventKinds, Data, StoreData, HubData, ClientData,
       HistoryData, TypeOK

LEMMA OfferType ==
    ASSUME NEW q \in Seq(Events), Len(q) =< InboxCap, NEW e \in Events
    PROVE  Offer(q, e) \in Seq(Events) /\ Len(Offer(q, e)) =< InboxCap
BY RoomsAssumption, AppendProperties DEF Offer, RoomsAssumption

LEMMA TailType ==
    ASSUME NEW q \in Seq(Events), Len(q) > 0
    PROVE  Tail(q) \in Seq(Events) /\ Len(Tail(q)) = Len(q) - 1 /\ Head(q) \in Events
BY HeadTailProperties

LEMMA TypeInit == Init => TypeInv
BY RoomsAssumption
DEF RoomsAssumption, Init, TypeInv, Control, ArgType, EventKinds, Data, StoreData, HubData,
    ClientData, HistoryData, HandlerLabels, Labels, Arg

-----------------------------------------------------------------------------
(* The four ways an Update loop moves.                                     *)

LEMMA BeginControl ==
    ASSUME TypeInv, NEW s \in Sessions, NEW label \in Labels \ {"sending"},
           NEW r \in Rooms, NEW u \in Users, Begin(s, label, r, u)
    PROVE  Control' /\ commands' \in 0 .. MaxCommands
<1>1. Control'
    BY DEF Begin, TypeInv, Control, ArgType, EventKinds, HandlerLabels, Labels, Arg
<1>2. commands' \in 0 .. MaxCommands
    BY RoomsAssumption DEF Begin, TypeInv, Data, ClientData, RoomsAssumption
<1> QED BY <1>1, <1>2

LEMMA GotoControl ==
    ASSUME TypeInv, NEW s \in Sessions, NEW label \in Labels \ {"sending"}, Goto(s, label),
           label \in HandlerLabels => arg[s].room \in Rooms
    PROVE  Control'
BY DEF Goto, TypeInv, Control

LEMMA FinishControl ==
    ASSUME TypeInv, NEW s \in Sessions, Finish(s)
    PROVE  Control'
BY RoomsAssumption
DEF Finish, TypeInv, Control, ArgType, EventKinds, HandlerLabels, Labels, Arg, RoomsAssumption

LEMMA SnapshotControl ==
    ASSUME TypeInv, NEW s \in Sessions, arg[s].room \in Rooms, NEW kind \in EventKinds,
           NEW targets \in SUBSET Sessions, NEW then \in {"idle", "join_open", "kick_publish"},
           Snapshot(s, kind, targets, then)
    PROVE  Control'
<1>1. CASE targets = {} /\ then = "idle"
    BY <1>1, FinishControl DEF Snapshot
<1>2. CASE targets = {} /\ then # "idle"
    BY <1>2, GotoControl DEF Snapshot, Labels
<1>3. CASE targets # {}
    <2>1. /\ pc' = [pc EXCEPT ![s] = "sending"]
          /\ arg' = [arg EXCEPT ![s] = [arg[s] EXCEPT !.kind = kind, !.then = then]]
          /\ to' = [to EXCEPT ![s] = targets]
        BY <1>3 DEF Snapshot, TypeInv, Control
    <2>2. [arg[s] EXCEPT !.kind = kind, !.then = then] \in ArgType
        BY DEF TypeInv, Control, ArgType, EventKinds
    <2>3. /\ [arg[s] EXCEPT !.kind = kind, !.then = then].room = arg[s].room
          /\ [arg[s] EXCEPT !.kind = kind, !.then = then].kind = kind
        BY DEF TypeInv, Control, ArgType
    <2> QED BY <2>1, <2>2, <2>3 DEF TypeInv, Control, Labels
<1> QED BY <1>1, <1>2, <1>3

\* One publication of room_meta or room_msg, wherever a handler makes it.
LEMMA PublishControl ==
    ASSUME TypeInv, NEW s \in Sessions, pc[s] \in HandlerLabels, NEW kind \in EventKinds,
           NEW then \in {"idle", "join_open", "kick_publish"}, PublishRoom(s, kind, then)
    PROVE  Control'
<1>1. arg[s].room \in Rooms /\ sub[arg[s].room] \in SUBSET Sessions
    BY DEF TypeInv, Control, Data, HubData
<1> QED BY <1>1, SnapshotControl DEF PublishRoom

-----------------------------------------------------------------------------
LEMMA TypeStep == TypeInv /\ [Next]_vars => TypeInv'
<1> SUFFICES ASSUME TypeInv, [Next]_vars PROVE Control' /\ Data'
    BY DEF TypeInv
<1> USE DEF At, store, hub, locals, history
<1>0. /\ \A s \in Sessions : pc[s] \in HandlerLabels => arg[s].room \in Rooms
      /\ arg \in [Sessions -> ArgType] /\ \A s \in Sessions : arg[s].user \in Users
      /\ UserOf \in [Sessions -> Users]
      /\ MaxCommands \in Nat
    BY RoomsAssumption DEF TypeInv, Control, ArgType, RoomsAssumption
<1>d. /\ StoreData /\ HubData /\ ClientData /\ HistoryData
    BY DEF TypeInv, Data
<1>1. ASSUME NEW s \in Sessions, Connect(s)
      PROVE  Control' /\ Data'
    <2>1. Control'
        BY <1>0, <1>1, GotoControl DEF Connect, Labels, HandlerLabels
    <2>2. Data'
        BY <1>0, <1>d, <1>1 DEF Connect, RefreshRooms, ListUserRooms, Goto, Data,
               StoreData, HubData, ClientData, HistoryData
    <2> QED BY <2>1, <2>2
<1>2. ASSUME NEW s \in Sessions, Disconnect(s)
      PROVE  Control' /\ Data'
    <2>1. Control'
        BY <1>0, <1>2, GotoControl DEF Disconnect, Labels, HandlerLabels
    <2>3. <<>> \in Seq(Events) /\ Len(<<>>) =< InboxCap
        BY RoomsAssumption DEF RoomsAssumption
    <2>4. HubData'
        BY <1>d, <1>2, <2>3 DEF Disconnect, HubData
    <2>2. Data'
        BY <1>d, <1>2, <2>4 DEF Disconnect, Goto, Data, StoreData, ClientData, HistoryData
    <2> QED BY <2>1, <2>2
<1>3. ASSUME NEW s \in Sessions, NEW r \in Rooms, Join(s, r)
      PROVE  Control' /\ Data'
    <2>1. Control'
        BY <1>0, <1>3, BeginControl DEF Join, Labels
    <2>2. Data'
        BY <1>0, <1>d, <1>3 DEF Join, Begin, Data,
               StoreData, HubData, ClientData, HistoryData
    <2> QED BY <2>1, <2>2
<1>4. ASSUME NEW s \in Sessions, Leave(s)
      PROVE  Control' /\ Data'
    <2>0. view[s] \in Rooms
        BY <1>d, <1>4 DEF Leave, ClientData
    <2>1. Control'
        BY <1>0, <2>0, <1>4, BeginControl DEF Leave, Labels
    <2>2. Data'
        <3>1. StoreData'
            <4>1. \/ role' = [role EXCEPT ![view[s]][UserOf[s]] = "none"]
                  \/ role' = role
                BY <1>4 DEF Leave
            <4> QED BY <1>0, <1>d, <1>4, <2>0, <4>1 DEF Leave, StoreData
        <3>2. HubData' /\ ClientData' /\ HistoryData'
            BY <1>0, <1>d, <1>4 DEF Leave, Begin, HubData, ClientData, HistoryData
        <3> QED BY <3>1, <3>2 DEF Data
    <2> QED BY <2>1, <2>2
<1>5. ASSUME NEW s \in Sessions, NEW u \in Users, Invite(s, u)
      PROVE  Control' /\ Data'
    <2>0. view[s] \in Rooms
        BY <1>d, <1>5 DEF Invite, ClientData
    <2>1. Control'
        BY <1>0, <2>0, <1>5, BeginControl DEF Invite, Labels
    <2>2. Data'
        BY <1>0, <1>d, <1>5 DEF Invite, Begin, Data,
               StoreData, HubData, ClientData, HistoryData
    <2> QED BY <2>1, <2>2
<1>6. ASSUME NEW s \in Sessions, NEW u \in Users, NEW l \in {"kick_db", "ban_db"}, Kick(s, u, l)
      PROVE  Control' /\ Data'
    <2>0. view[s] \in Rooms
        BY <1>d, <1>6 DEF Kick, ClientData
    <2>1. Control'
        BY <1>0, <2>0, <1>6, BeginControl DEF Kick, Labels
    <2>2. Data'
        BY <1>0, <1>d, <1>6 DEF Kick, Begin, Data,
               StoreData, HubData, ClientData, HistoryData
    <2> QED BY <2>1, <2>2
<1>7. ASSUME NEW s \in Sessions, SendMessage(s)
      PROVE  Control' /\ Data'
    <2>0. view[s] \in Rooms
        BY <1>d, <1>7 DEF SendMessage, ClientData
    <2>1. Control'
        BY <1>0, <2>0, <1>7, BeginControl DEF SendMessage, Labels
    <2>2. Data'
        BY <1>0, <1>d, <1>7 DEF SendMessage, Begin, Data,
               StoreData, HubData, ClientData, HistoryData
    <2> QED BY <2>1, <2>2
<1>8. ASSUME NEW s \in Sessions, NEW r \in Rooms \union {NoRoom}, Open(s, r)
      PROVE  Control' /\ Data'
    <2>1. Control'
        BY <1>0, <1>8, GotoControl DEF Open, Labels, HandlerLabels
    <2>2. Data'
        BY <1>0, <1>d, <1>8 DEF Open, Goto, Data,
               StoreData, HubData, ClientData, HistoryData
    <2> QED BY <2>1, <2>2
<1>9. ASSUME NEW s \in Sessions, NEW r \in Rooms, InitJoin(s, r)
      PROVE  Control' /\ Data'
    <2>1. Control'
        BY <1>0, <1>9, GotoControl DEF InitJoin, Labels, HandlerLabels
    <2>2. Data'
        BY <1>0, <1>d, <1>9 DEF InitJoin, Goto, Data,
               StoreData, HubData, ClientData, HistoryData
    <2> QED BY <2>1, <2>2
<1>10. ASSUME NEW s \in Sessions, InitOpen(s)
      PROVE  Control' /\ Data'
    <2>1. Control'
        BY <1>0, <1>10, GotoControl DEF InitOpen, Labels, HandlerLabels
    <2>2. Data'
        BY <1>0, <1>d, <1>10 DEF InitOpen, OpenFirst, Goto, Data,
               StoreData, HubData, ClientData, HistoryData
    <2> QED BY <2>1, <2>2
<1>11. ASSUME NEW s \in Sessions, JoinBanCheck(s)
      PROVE  Control' /\ Data'
    <2>1. Control'
        BY <1>0, <1>11, GotoControl, FinishControl DEF JoinBanCheck, BanCheck, Labels, HandlerLabels
    <2>2. Data'
        BY <1>0, <1>d, <1>11 DEF JoinBanCheck, BanCheck, Data,
               StoreData, HubData, ClientData, HistoryData
    <2> QED BY <2>1, <2>2
<1>12. ASSUME NEW s \in Sessions, JoinInsert(s)
      PROVE  Control' /\ Data'
    <2>1. Control'
        BY <1>0, <1>12, GotoControl DEF JoinInsert, Labels, HandlerLabels
    <2>2. Data'
        BY <1>0, <1>d, <1>12 DEF JoinInsert, InsertMember, RowAfterInsert, Goto, HandlerLabels, Labels, Data,
               StoreData, HubData, ClientData, HistoryData
    <2> QED BY <2>1, <2>2
<1>13. ASSUME NEW s \in Sessions, JoinRefresh(s)
      PROVE  Control' /\ Data'
    <2>1. Control'
        BY <1>0, <1>13, GotoControl DEF JoinRefresh, Labels, HandlerLabels
    <2>2. Data'
        BY <1>0, <1>d, <1>13 DEF JoinRefresh, RefreshRooms, ListUserRooms, Data,
               StoreData, HubData, ClientData, HistoryData
    <2> QED BY <2>1, <2>2
<1>14. ASSUME NEW s \in Sessions, JoinSubscribe(s)
      PROVE  Control' /\ Data'
    <2>1. Control'
        BY <1>0, <1>14, GotoControl DEF JoinSubscribe, Labels, HandlerLabels
    <2>2. Data'
        BY <1>0, <1>d, <1>14 DEF JoinSubscribe, HandlerLabels, Labels, Data,
               StoreData, HubData, ClientData, HistoryData
    <2> QED BY <2>1, <2>2
<1>15. ASSUME NEW s \in Sessions, JoinPublish(s)
      PROVE  Control' /\ Data'
    <2>1. Control'
        BY <1>0, <1>15, PublishControl DEF JoinPublish, Labels, HandlerLabels, EventKinds
    <2>2. Data'
        BY <1>0, <1>d, <1>15 DEF JoinPublish, PublishRoom, Data,
               StoreData, HubData, ClientData, HistoryData
    <2> QED BY <2>1, <2>2
<1>16. ASSUME NEW s \in Sessions, JoinOpen(s)
      PROVE  Control' /\ Data'
    <2>1. Control'
        BY <1>0, <1>16, FinishControl DEF JoinOpen
    <2>2. Data'
        BY <1>0, <1>d, <1>16 DEF JoinOpen, HandlerLabels, Labels, Data,
               StoreData, HubData, ClientData, HistoryData
    <2> QED BY <2>1, <2>2
<1>17. ASSUME NEW s \in Sessions, LeaveHub(s)
      PROVE  Control' /\ Data'
    <2>1. Control'
        BY <1>0, <1>17, GotoControl DEF LeaveHub, Labels, HandlerLabels
    <2>2. Data'
        BY <1>0, <1>d, <1>17 DEF LeaveHub, HandlerLabels, Labels, Data,
               StoreData, HubData, ClientData, HistoryData
    <2> QED BY <2>1, <2>2
<1>18. ASSUME NEW s \in Sessions, LeaveRefresh(s)
      PROVE  Control' /\ Data'
    <2>1. Control'
        BY <1>0, <1>18, GotoControl DEF LeaveRefresh, Labels, HandlerLabels
    <2>2. Data'
        BY <1>0, <1>d, <1>18 DEF LeaveRefresh, RefreshRooms, ListUserRooms, OpenFirst, Data,
               StoreData, HubData, ClientData, HistoryData
    <2> QED BY <2>1, <2>2
<1>19. ASSUME NEW s \in Sessions, LeavePublish(s)
      PROVE  Control' /\ Data'
    <2>1. Control'
        BY <1>0, <1>19, PublishControl DEF LeavePublish, Labels, HandlerLabels, EventKinds
    <2>2. Data'
        BY <1>0, <1>d, <1>19 DEF LeavePublish, PublishRoom, Data,
               StoreData, HubData, ClientData, HistoryData
    <2> QED BY <2>1, <2>2
<1>20. ASSUME NEW s \in Sessions, InviteBanCheck(s)
      PROVE  Control' /\ Data'
    <2>1. Control'
        BY <1>0, <1>20, GotoControl, FinishControl DEF InviteBanCheck, BanCheck, Labels, HandlerLabels
    <2>2. Data'
        BY <1>0, <1>d, <1>20 DEF InviteBanCheck, BanCheck, Data,
               StoreData, HubData, ClientData, HistoryData
    <2> QED BY <2>1, <2>2
<1>21. ASSUME NEW s \in Sessions, InviteInsert(s)
      PROVE  Control' /\ Data'
    <2>1. Control'
        BY <1>0, <1>21, GotoControl DEF InviteInsert, Labels, HandlerLabels
    <2>2. Data'
        BY <1>0, <1>d, <1>21 DEF InviteInsert, InsertMember, RowAfterInsert, HandlerLabels, Labels, Data,
               StoreData, HubData, ClientData, HistoryData
    <2> QED BY <2>1, <2>2
<1>22. ASSUME NEW s \in Sessions, InvitePublish(s)
      PROVE  Control' /\ Data'
    <2>1. Control'
        BY <1>0, <1>22, PublishControl DEF InvitePublish, Labels, HandlerLabels, EventKinds
    <2>2. Data'
        BY <1>0, <1>d, <1>22 DEF InvitePublish, PublishRoom, Data,
               StoreData, HubData, ClientData, HistoryData
    <2> QED BY <2>1, <2>2
<1>23. ASSUME NEW s \in Sessions, KickStore(s)
      PROVE  Control' /\ Data'
    <2>1. Control'
        BY <1>0, <1>23, GotoControl DEF KickStore, Labels, HandlerLabels
    <2>2. Data'
        <3>0. arg[s].room \in Rooms /\ arg[s].user \in Users
            BY <1>0, <1>23 DEF KickStore, HandlerLabels, Labels
        <3>1. CASE UNCHANGED <<role, banned, kicked>>
            BY <1>0, <1>d, <1>23, <3>1 DEF KickStore, Data, StoreData, HubData, ClientData, HistoryData
        <3>2. CASE /\ role' = [role EXCEPT ![arg[s].room][arg[s].user] = "none"]
                   /\ banned' = [banned EXCEPT ![arg[s].room] =
                                    IF pc[s] = "ban_db" THEN @ \union {arg[s].user} ELSE @]
                   /\ kicked' = [kicked EXCEPT ![arg[s].room] = @ \union {arg[s].user}]
            BY <1>0, <1>d, <1>23, <3>0, <3>2
            DEF KickStore, Data, StoreData, HubData, ClientData, HistoryData
        <3> QED BY <1>23, <3>1, <3>2 DEF KickStore
    <2> QED BY <2>1, <2>2
<1>24. ASSUME NEW s \in Sessions, KickHub(s)
      PROVE  Control' /\ Data'
    <2>0. arg[s].room \in Rooms /\ SubsOf(arg[s].user, arg[s].room) \in SUBSET Sessions
        BY <1>0, <1>d, <1>24 DEF KickHub, SubsOf, HandlerLabels, Labels, HubData
    <2>1. Control'
        BY <2>0, <1>24, SnapshotControl DEF KickHub, EventKinds
    <2>2. Data'
        BY <1>0, <1>d, <1>24 DEF KickHub, SubsOf, HandlerLabels, Labels, Data,
               StoreData, HubData, ClientData, HistoryData
    <2> QED BY <2>1, <2>2
<1>25. ASSUME NEW s \in Sessions, KickPublish(s)
      PROVE  Control' /\ Data'
    <2>1. Control'
        BY <1>0, <1>25, PublishControl DEF KickPublish, Labels, HandlerLabels, EventKinds
    <2>2. Data'
        BY <1>0, <1>d, <1>25 DEF KickPublish, PublishRoom, Data,
               StoreData, HubData, ClientData, HistoryData
    <2> QED BY <2>1, <2>2
<1>26. ASSUME NEW s \in Sessions, SendMemberCheck(s)
      PROVE  Control' /\ Data'
    <2>1. Control'
        BY <1>0, <1>26, GotoControl, FinishControl DEF SendMemberCheck, AfterMemberCheck, Labels, HandlerLabels
    <2>2. Data'
        BY <1>0, <1>d, <1>26 DEF SendMemberCheck, AfterMemberCheck, Welcome, IsMember, Data,
               StoreData, HubData, ClientData, HistoryData
    <2> QED BY <2>1, <2>2
<1>27. ASSUME NEW s \in Sessions, SendBanCheck(s)
      PROVE  Control' /\ Data'
    <2>1. Control'
        BY <1>0, <1>27, GotoControl, FinishControl DEF SendBanCheck, Labels, HandlerLabels
    <2>2. Data'
        BY <1>0, <1>d, <1>27 DEF SendBanCheck, Welcome, IsMember, Data,
               StoreData, HubData, ClientData, HistoryData
    <2> QED BY <2>1, <2>2
<1>28. ASSUME NEW s \in Sessions, SendInsert(s)
      PROVE  Control' /\ Data'
    <2>1. Control'
        BY <1>0, <1>28, GotoControl DEF SendInsert, Labels, HandlerLabels
    <2>3. [room |-> arg[s].room, author |-> UserOf[s], checked |-> fit[s]]
             \in [room : Rooms, author : Users, checked : BOOLEAN]
        BY <1>0, <1>d, <1>28 DEF SendInsert, HandlerLabels, Labels, HistoryData
    <2>4. HistoryData'
        BY <1>d, <1>28, <2>3 DEF SendInsert, HistoryData
    <2>2. Data'
        BY <1>d, <1>28, <2>4 DEF SendInsert, Goto, Data, StoreData, HubData, ClientData
    <2> QED BY <2>1, <2>2
<1>29. ASSUME NEW s \in Sessions, SendPublish(s)
      PROVE  Control' /\ Data'
    <2>1. Control'
        BY <1>0, <1>29, PublishControl DEF SendPublish, Labels, HandlerLabels, EventKinds
    <2>2. Data'
        BY <1>0, <1>d, <1>29 DEF SendPublish, PublishRoom, Data,
               StoreData, HubData, ClientData, HistoryData
    <2> QED BY <2>1, <2>2
<1>30. ASSUME NEW s \in Sessions, RemovedRefresh(s)
      PROVE  Control' /\ Data'
    <2>1. Control'
        BY <1>0, <1>30, FinishControl DEF RemovedRefresh
    <2>2. Data'
        BY <1>0, <1>d, <1>30 DEF RemovedRefresh, RefreshRooms, ListUserRooms, LeaveView, OpenFirst, Data,
               StoreData, HubData, ClientData, HistoryData
    <2> QED BY <2>1, <2>2
<1>31. ASSUME NEW s \in Sessions, NEW t \in Sessions, Send(s, t)
      PROVE  Control' /\ Data'
    <2> DEFINE e == [kind |-> arg[s].kind, room |-> arg[s].room]
    <2>a. arg[s].room \in Rooms
        BY <1>0, <1>31 DEF Send, HandlerLabels, Labels
    <2>b. ASSUME to[s] # {t} PROVE Control'
        BY <1>31, <2>b DEF Send, TypeInv, Control
    <2>c. ASSUME to[s] = {t} PROVE Control'
        <3> DEFINE next == IF arg[s].then = "idle" THEN Arg(NoRoom, UserOf[s])
                           ELSE Arg(arg[s].room, arg[s].user)
        <3>1. /\ next \in ArgType
              /\ arg[s].then # "idle" => next.room \in Rooms
              /\ arg[s].then \in {"idle", "join_open", "kick_publish"}
            BY <1>0, <2>a DEF Arg, ArgType
        <3>2. /\ pc' = [pc EXCEPT ![s] = arg[s].then]
              /\ arg' = [arg EXCEPT ![s] = next]
              /\ to' = [to EXCEPT ![s] = {}]
            BY <1>31, <2>c DEF Send
        <3> HIDE DEF next
        <3> QED BY <3>1, <3>2 DEF TypeInv, Control, HandlerLabels, Labels
    <2>1. Control'
        BY <2>b, <2>c
    <2>3. e \in Events
        BY <1>31 DEF Send, Events, TypeInv, Control, EventKinds, HandlerLabels, Labels
    <2>4. Offer(inbox[t], e) \in Seq(Events) /\ Len(Offer(inbox[t], e)) =< InboxCap
        BY <1>d, <2>3, OfferType DEF HubData
    <2>2. Data'
        BY <1>0, <1>d, <2>4, <1>31 DEF Send, Data,
               StoreData, HubData, ClientData, HistoryData
    <2> QED BY <2>1, <2>2
<1>32. ASSUME NEW s \in Sessions, NEW t \in Sessions, SendPanics(s, t)
      PROVE  Control' /\ Data'
    <2>1. Control'
        BY <1>0, <1>32, RoomsAssumption DEF SendPanics, TypeInv, Control, HandlerLabels, Labels
    <2>2. Data'
        BY <1>0, <1>d, <1>32 DEF SendPanics, Data,
               StoreData, HubData, ClientData, HistoryData
    <2> QED BY <2>1, <2>2
<1>33. ASSUME NEW s \in Sessions, HandleMessage(s)
      PROVE  Control' /\ Data'
    <2>0. /\ Tail(inbox[s]) \in Seq(Events) /\ Len(Tail(inbox[s])) =< InboxCap
          /\ Head(inbox[s]) \in Events
        BY <1>d, <1>33, TailType, RoomsAssumption DEF HandleMessage, Take, HubData, RoomsAssumption
    <2>1. Control'
        BY <1>0, <1>33, GotoControl DEF HandleMessage, Take, Labels, HandlerLabels
    <2>2. Data'
        BY <1>0, <1>d, <2>0, <1>33 DEF HandleMessage, Take, Data,
               StoreData, HubData, ClientData, HistoryData
    <2> QED BY <2>1, <2>2
<1>34. ASSUME NEW s \in Sessions, HandleMeta(s)
      PROVE  Control' /\ Data'
    <2>0. /\ Tail(inbox[s]) \in Seq(Events) /\ Len(Tail(inbox[s])) =< InboxCap
          /\ Head(inbox[s]) \in Events
        BY <1>d, <1>34, TailType, RoomsAssumption DEF HandleMeta, Take, HubData, RoomsAssumption
    <2>1. Control'
        BY <1>0, <1>34, GotoControl DEF HandleMeta, Take, Labels, HandlerLabels
    <2>2. Data'
        BY <1>0, <1>d, <2>0, <1>34 DEF HandleMeta, RefreshRooms, ListUserRooms, Take, Data,
               StoreData, HubData, ClientData, HistoryData
    <2> QED BY <2>1, <2>2
<1>35. ASSUME NEW s \in Sessions, HandleRemoved(s)
      PROVE  Control' /\ Data'
    <2>0. /\ Tail(inbox[s]) \in Seq(Events) /\ Len(Tail(inbox[s])) =< InboxCap
          /\ Head(inbox[s]) \in Events
        BY <1>d, <1>35, TailType, RoomsAssumption DEF HandleRemoved, Take, HubData, RoomsAssumption
    <2>1. Control'
        BY <1>0, <1>35, <2>0 DEF HandleRemoved, Take, TypeInv, Control, ArgType, HandlerLabels, Labels, Arg, Events
    <2>2. Data'
        BY <1>0, <1>d, <2>0, <1>35 DEF HandleRemoved, Take, Data,
               StoreData, HubData, ClientData, HistoryData
    <2> QED BY <2>1, <2>2
<1>36. CASE UNCHANGED vars
    BY <1>36 DEF vars, TypeInv, Control, Data, StoreData, HubData, ClientData, HistoryData
<1> QED
    BY <1>1, <1>2, <1>3, <1>4, <1>5, <1>6, <1>7, <1>8, <1>9, <1>10, <1>11, <1>12,
       <1>13, <1>14, <1>15, <1>16, <1>17, <1>18, <1>19, <1>20, <1>21, <1>22, <1>23, <1>24,
       <1>25, <1>26, <1>27, <1>28, <1>29, <1>30, <1>31, <1>32, <1>33, <1>34, <1>35, <1>36
    DEF Next, Command, Step, Handle

\* Every reachable state is well typed; in particular no handler indexes the
\* tables by a room it does not hold, and no session's channel exceeds its
\* capacity (commands.go:33-165, hub.go:47 and 189-195).
THEOREM TypeCorrect == Spec => []TypeOK
BY TypeInit, TypeStep, TypeInvIsTypeOK, PTL DEF Spec

-----------------------------------------------------------------------------
(* A step either is quiet, or is one of eighteen that matter to what       *)
(* follows.  A quiet step leaves the tables, subscriptions and histories   *)
(* alone, and no Update loop reaches or leaves a watched label by it.      *)
Watched == {"init_join", "join_ban", "join_add", "join_nav", "join_hub", "kick_hub",
            "send_ban", "send_add"}

KeepsWatched ==
    \A t \in Sessions :
        pc[t] \in Watched \/ pc'[t] \in Watched =>
            pc'[t] = pc[t] /\ arg'[t] = arg[t] /\ fit'[t] = fit[t] /\ todo'[t] = todo[t]

Quiet == UNCHANGED <<role, banned, sub, kicked, late, invited, posted>> /\ KeepsWatched

\* The move of one Update loop from an unwatched label to another.
LEMMA GotoKeeps ==
    ASSUME TypeInv, NEW s \in Sessions, pc[s] \notin Watched, NEW label \in Labels \ Watched,
           Goto(s, label) \/ (\E r \in Rooms, u \in Users : Begin(s, label, r, u)),
           todo' = todo, \A t \in Sessions \ {s} : fit'[t] = fit[t]
    PROVE  KeepsWatched
BY DEF Goto, Begin, KeepsWatched, TypeInv, Control

LEMMA FinishKeeps ==
    ASSUME TypeInv, NEW s \in Sessions, pc[s] \notin Watched, Finish(s), UNCHANGED <<todo, fit>>
    PROVE  KeepsWatched
BY DEF Finish, KeepsWatched, Watched, TypeInv, Control

LEMMA SnapshotKeeps ==
    ASSUME TypeInv, NEW s \in Sessions, pc[s] \notin Watched, NEW kind, NEW targets,
           NEW then \in {"idle", "join_open", "kick_publish"},
           Snapshot(s, kind, targets, then), UNCHANGED <<todo, fit>>
    PROVE  KeepsWatched
<1>1. CASE targets = {}
    BY <1>1, FinishKeeps, GotoKeeps DEF Snapshot, Labels, Watched
<1>2. CASE targets # {}
    BY <1>2 DEF Snapshot, KeepsWatched, Watched, TypeInv, Control
<1> QED BY <1>1, <1>2

LEMMA PublishQuiet ==
    ASSUME TypeInv, NEW s \in Sessions, pc[s] \notin Watched, NEW kind,
           NEW then \in {"idle", "join_open", "kick_publish"}, PublishRoom(s, kind, then)
    PROVE  Quiet
BY SnapshotKeeps DEF PublishRoom, Quiet, store, hub, locals, history

Loud(s) ==
    \/ Connect(s) \/ InitOpen(s) \/ Disconnect(s) \/ Leave(s) \/ LeaveHub(s)
    \/ (\E r \in Rooms : InitJoin(s, r)) \/ (\E r \in Rooms : Join(s, r))
    \/ JoinBanCheck(s) \/ JoinInsert(s) \/ JoinRefresh(s) \/ JoinSubscribe(s)
    \/ InviteInsert(s) \/ KickStore(s) \/ KickHub(s)
    \/ SendMemberCheck(s) \/ SendBanCheck(s) \/ SendInsert(s) \/ HandleRemoved(s)

LEMMA QuietOrLoud == TypeInv /\ [Next]_vars => Quiet \/ \E s \in Sessions : Loud(s)
<1> SUFFICES ASSUME TypeInv, [Next]_vars, \A s \in Sessions : ~Loud(s) PROVE Quiet
    OBVIOUS
<1> USE DEF At, store, hub, locals, history
<1>1. ASSUME NEW s \in Sessions, LeavePublish(s) \/ InvitePublish(s) \/ KickPublish(s)
                                 \/ SendPublish(s) \/ JoinPublish(s)
      PROVE  Quiet
    BY <1>1, PublishQuiet
    DEF LeavePublish, InvitePublish, KickPublish, SendPublish, JoinPublish, Watched
<1>2. ASSUME NEW s \in Sessions, LeaveRefresh(s) PROVE Quiet
    BY <1>2, GotoKeeps DEF LeaveRefresh, Quiet, Labels, Watched
<1>3. ASSUME NEW s \in Sessions, RemovedRefresh(s) \/ JoinOpen(s) PROVE Quiet
    BY <1>3, FinishKeeps DEF RemovedRefresh, JoinOpen, Quiet, Labels, Watched
<1>4. ASSUME NEW s \in Sessions, InviteBanCheck(s) PROVE Quiet
    BY <1>4, FinishKeeps, GotoKeeps DEF InviteBanCheck, BanCheck, Quiet, Labels, Watched
<1>5. ASSUME NEW s \in Sessions, HandleMessage(s) \/ HandleMeta(s) PROVE Quiet
    BY <1>5, GotoKeeps DEF HandleMessage, HandleMeta, Take, Quiet, Labels, Watched
<1>6. ASSUME NEW s \in Sessions, NEW r \in Rooms \union {NoRoom}, Open(s, r) PROVE Quiet
    BY <1>6, GotoKeeps DEF Open, Quiet, Labels, Watched
<1>7. ASSUME NEW s \in Sessions, NEW u \in Users, Invite(s, u) PROVE Quiet
    <2>1. view[s] \in Rooms
        BY <1>7 DEF Invite, TypeInv, Data, ClientData
    <2> QED BY <1>7, <2>1, GotoKeeps DEF Invite, Begin, Quiet, Labels, Watched
<1>8. ASSUME NEW s \in Sessions, NEW u \in Users, NEW l \in {"kick_db", "ban_db"}, Kick(s, u, l)
      PROVE  Quiet
    <2>1. view[s] \in Rooms
        BY <1>8 DEF Kick, TypeInv, Data, ClientData
    <2> QED BY <1>8, <2>1, GotoKeeps DEF Kick, Begin, Quiet, Labels, Watched
<1>9. ASSUME NEW s \in Sessions, SendMessage(s) PROVE Quiet
    <2>1. view[s] \in Rooms /\ UserOf[s] \in Users /\ fit \in [Sessions -> BOOLEAN]
        BY <1>9, RoomsAssumption DEF SendMessage, TypeInv, Data, ClientData, HistoryData, RoomsAssumption
    <2> QED BY <1>9, <2>1, GotoKeeps DEF SendMessage, Begin, Quiet, Labels, Watched
<1>10. ASSUME NEW s \in Sessions, NEW t \in Sessions, Send(s, t) PROVE Quiet
    <2>1. arg[s].then \notin Watched /\ "sending" \notin Watched
        BY DEF TypeInv, Control, ArgType, Watched
    <2> QED BY <1>10, <2>1 DEF Send, Quiet, KeepsWatched, TypeInv, Control
<1>11. ASSUME NEW s \in Sessions, NEW t \in Sessions, SendPanics(s, t) PROVE Quiet
    BY <1>11 DEF SendPanics, Quiet, KeepsWatched, Watched, TypeInv, Control
<1>12. CASE UNCHANGED vars
    BY <1>12 DEF vars, Quiet, KeepsWatched
<1> QED
    BY <1>1, <1>2, <1>3, <1>4, <1>5, <1>6, <1>7, <1>8, <1>9, <1>10, <1>11, <1>12
    DEF Next, Command, Step, Handle, Loud

-----------------------------------------------------------------------------
(* Ownership.                                                              *)

OwnershipStep ==
    \A r \in Rooms, u \in Users :
        /\ role'[r][u] = "owner" => role[r][u] = "owner"
        /\ role[r][u] = "owner" => role'[r][u] # "member"

LEMMA InsertKeepsOwner ==
    ASSUME TypeInv, NEW s \in Sessions, arg[s].room \in Rooms, InsertMember(s)
    PROVE  OwnershipStep
BY DEF InsertMember, RowAfterInsert, OwnershipStep, TypeInv, Control, ArgType, Data, StoreData

LEMMA RemovalKeepsOwner ==
    ASSUME TypeInv, NEW r0 \in Rooms, NEW u0 \in Users,
           role' = [role EXCEPT ![r0][u0] = "none"]
    PROVE  OwnershipStep
BY DEF OwnershipStep, TypeInv, Data, StoreData

\* No step makes anyone the owner of a room, or an owner a plain member: the
\* row that JoinRoom leaves alone, under any interleaving of /join, /invite,
\* /leave, /kick and /ban (store.go:294-296, 299-312).
THEOREM OwnershipKept == Spec => OwnershipNeverPassed
<1>1. TypeInv /\ [Next]_vars => OwnershipStep
    <2> SUFFICES ASSUME TypeInv, [Next]_vars PROVE OwnershipStep
        OBVIOUS
    <2>0. /\ \A s \in Sessions : arg[s].user \in Users /\ UserOf[s] \in Users
          /\ \A s \in Sessions : pc[s] \in HandlerLabels => arg[s].room \in Rooms
        BY RoomsAssumption DEF RoomsAssumption, TypeInv, Control, ArgType
    <2>1. ASSUME NEW s \in Sessions, JoinInsert(s) \/ InviteInsert(s)
          PROVE  OwnershipStep
        BY <2>0, <2>1, InsertKeepsOwner DEF JoinInsert, InviteInsert, At, HandlerLabels, Labels
    <2>2. ASSUME NEW s \in Sessions, Leave(s)
          PROVE  OwnershipStep
        <3>1. view[s] \in Rooms
            BY <2>2 DEF Leave, TypeInv, Data, ClientData
        <3>2. role' = [role EXCEPT ![view[s]][UserOf[s]] = "none"] \/ role' = role
            BY <2>2 DEF Leave
        <3> QED BY <2>0, <3>1, <3>2, RemovalKeepsOwner DEF OwnershipStep
    <2>3. ASSUME NEW s \in Sessions, KickStore(s)
          PROVE  OwnershipStep
        <3>1. arg[s].room \in Rooms /\ arg[s].user \in Users
            BY <2>0, <2>3 DEF KickStore, HandlerLabels, Labels
        <3>2. role' = [role EXCEPT ![arg[s].room][arg[s].user] = "none"] \/ role' = role
            BY <2>3 DEF KickStore
        <3> QED BY <3>1, <3>2, RemovalKeepsOwner DEF OwnershipStep
    <2>4. role' = role => OwnershipStep
        BY DEF OwnershipStep
    <2>5. ASSUME NEW s \in Sessions, Loud(s)
          PROVE  JoinInsert(s) \/ InviteInsert(s) \/ Leave(s) \/ KickStore(s) \/ role' = role
        BY <2>5 DEF Loud, Connect, InitOpen, Disconnect, LeaveHub, InitJoin, Join, JoinBanCheck,
                    BanCheck, JoinRefresh, JoinSubscribe, KickHub, SendMemberCheck, SendBanCheck,
                    SendInsert, HandleRemoved, store
    <2> QED BY <2>1, <2>2, <2>3, <2>4, <2>5, QuietOrLoud DEF Quiet
<1> QED BY <1>1, TypeInit, TypeStep, PTL DEF Spec, OwnershipNeverPassed, OwnershipStep

-----------------------------------------------------------------------------
(* Sending.  The member check and the ban check are separate reads, so what *)
(* carries the property is what the first leaves for the second to find.   *)

\* A send past its member check met a member without a ban, or a ban that
\* the ban check will find, since none is lifted; past the ban check, the
\* former.
SendVetted ==
    \A s \in Sessions :
        /\ pc[s] = "send_ban" => fit[s] \/ UserOf[s] \in banned[arg[s].room]
        /\ pc[s] = "send_add" => fit[s]

SendInv == SendVetted /\ SendByUnbannedMember

LEMMA SendStep == TypeInv /\ SendInv /\ [Next]_vars => SendInv'
<1> SUFFICES ASSUME TypeInv, SendInv, [Next]_vars PROVE SendInv'
    OBVIOUS
<1> USE DEF At, store, hub, locals, history
<1>0. /\ Control /\ StoreData /\ fit \in [Sessions -> BOOLEAN]
      /\ \A s \in Sessions : pc[s] \in HandlerLabels => arg[s].room \in Rooms
    BY DEF TypeInv, Control, Data, HistoryData
<1>1. CASE Quiet
    BY <1>1 DEF Quiet, KeepsWatched, Watched, SendInv, SendVetted, SendByUnbannedMember
<1>2. ASSUME NEW s \in Sessions, SendMemberCheck(s)
      PROVE  SendInv'
    BY <1>0, <1>2
    DEF SendMemberCheck, AfterMemberCheck, Goto, Finish, Arg, Welcome, SendInv, SendVetted,
        SendByUnbannedMember, Control
<1>3. ASSUME NEW s \in Sessions, SendBanCheck(s)
      PROVE  SendInv'
    BY <1>0, <1>3
    DEF SendBanCheck, Goto, Finish, Arg, SendInv, SendVetted, SendByUnbannedMember, Control
<1>4. ASSUME NEW s \in Sessions, SendInsert(s)
      PROVE  SendInv'
    BY <1>0, <1>4 DEF SendInsert, Goto, SendInv, SendVetted, SendByUnbannedMember, Control
\* /ban only adds to the bans of one room.
<1>5. ASSUME NEW s \in Sessions, KickStore(s)
      PROVE  SendInv'
    <2>1. \A r \in Rooms : banned[r] \subseteq banned'[r]
        BY <1>0, <1>5 DEF KickStore, StoreData
    <2>2. \A t \in Sessions : pc'[t] \in {"send_ban", "send_add"} =>
                                 pc'[t] = pc[t] /\ arg'[t] = arg[t] /\ arg[t].room \in Rooms
        BY <1>0, <1>5 DEF KickStore, Goto, Control, HandlerLabels, Labels
    <2> QED BY <1>5, <2>1, <2>2 DEF KickStore, SendInv, SendVetted, SendByUnbannedMember
\* Every other step leaves the bans and what a send has read alone.
<1>6. ASSUME NEW s \in Sessions, Loud(s),
             ~(SendMemberCheck(s) \/ SendBanCheck(s) \/ SendInsert(s) \/ KickStore(s))
      PROVE  SendInv'
    <2>1. UNCHANGED <<banned, fit, posted>>
        BY <1>6
        DEF Loud, Connect, InitOpen, Disconnect, Leave, LeaveHub, InitJoin, Join, JoinBanCheck,
            BanCheck, JoinInsert, InsertMember, JoinRefresh, JoinSubscribe, InviteInsert, KickHub,
            HandleRemoved
    <2>2. \A t \in Sessions : pc'[t] \in {"send_ban", "send_add"} =>
                                 pc'[t] = pc[t] /\ arg'[t] = arg[t]
        BY <1>0, <1>6
        DEF Loud, Connect, InitOpen, Disconnect, Leave, LeaveHub, InitJoin, Join, JoinBanCheck,
            BanCheck, JoinInsert, InsertMember, JoinRefresh, JoinSubscribe, InviteInsert, KickHub,
            HandleRemoved, Snapshot, Begin, Goto, Finish, Control
    <2> QED BY <2>1, <2>2 DEF SendInv, SendVetted, SendByUnbannedMember
<1> QED BY <1>1, <1>2, <1>3, <1>4, <1>5, <1>6, QuietOrLoud

\* Every stored room message comes from a user who, at one instant of
\* InsertRoomMessage, was a member without a ban, although the member and
\* ban counts are separate statements (store.go:392-403).
THEOREM MessagesFromWelcomeMembers == Spec => []SendByUnbannedMember
<1>1. Init => SendInv
    BY DEF Init, SendInv, SendVetted, SendByUnbannedMember
<1>2. SendInv => SendByUnbannedMember
    BY DEF SendInv
<1> QED BY <1>1, <1>2, TypeInit, TypeStep, SendStep, PTL DEF Spec

-----------------------------------------------------------------------------
(* Private rooms.  /join decides by a membership it read earlier, which may *)
(* be gone by the time it inserts; an invitation is never taken back.      *)
JoinVetted ==
    \A s \in Sessions :
        pc[s] \in {"join_ban", "join_add"} /\ arg[s].room \in Private
            => arg[s].user \in invited[arg[s].room]

PrivateInv == JoinVetted /\ PrivateByInvitation

LEMMA PrivateStep == TypeInv /\ PrivateInv /\ [Next]_vars => PrivateInv'
<1> SUFFICES ASSUME TypeInv, PrivateInv, [Next]_vars PROVE PrivateInv'
    OBVIOUS
<1> USE DEF At, store, hub, locals, history
<1>0. /\ Control /\ StoreData /\ invited \in [Rooms -> SUBSET Users]
      /\ arg \in [Sessions -> ArgType]
      /\ \A s \in Sessions : arg[s].user \in Users /\ UserOf[s] \in Users
      /\ \A s \in Sessions : pc[s] \in HandlerLabels => arg[s].room \in Rooms
      /\ Private \subseteq Rooms
    BY RoomsAssumption DEF TypeInv, Control, ArgType, Data, HistoryData, RoomsAssumption
<1>1. CASE Quiet
    BY <1>1
    DEF Quiet, KeepsWatched, Watched, PrivateInv, JoinVetted, PrivateByInvitation, IsMember
<1>2. ASSUME NEW s \in Sessions, NEW r \in Rooms, Join(s, r)
      PROVE  PrivateInv'
    BY <1>0, <1>2
    DEF Join, Admits, Begin, Arg, PrivateInv, JoinVetted, PrivateByInvitation, IsMember, Control
<1>3. ASSUME NEW s \in Sessions, JoinBanCheck(s)
      PROVE  PrivateInv'
    BY <1>0, <1>3
    DEF JoinBanCheck, BanCheck, Goto, Finish, Arg, PrivateInv, JoinVetted, PrivateByInvitation,
        IsMember, Control
<1>4. ASSUME NEW s \in Sessions, JoinInsert(s)
      PROVE  PrivateInv'
    <2>1. arg[s].room \in Rooms
        BY <1>0, <1>4 DEF JoinInsert, HandlerLabels, Labels
    <2>2. PrivateByInvitation'
        BY <1>0, <1>4, <2>1
        DEF JoinInsert, InsertMember, PrivateInv, JoinVetted, PrivateByInvitation, IsMember,
            StoreData
    <2>3. JoinVetted'
        BY <1>0, <1>4 DEF JoinInsert, InsertMember, Goto, PrivateInv, JoinVetted, Control
    <2> QED BY <2>2, <2>3 DEF PrivateInv
<1>5. ASSUME NEW s \in Sessions, InviteInsert(s)
      PROVE  PrivateInv'
    <2>1. arg[s].room \in Rooms
        BY <1>0, <1>5 DEF InviteInsert, HandlerLabels, Labels
    <2>2. PrivateByInvitation'
        BY <1>0, <1>5, <2>1
        DEF InviteInsert, InsertMember, PrivateInv, PrivateByInvitation, IsMember, StoreData
    <2>3. JoinVetted'
        BY <1>0, <1>5, <2>1
        DEF InviteInsert, InsertMember, Goto, PrivateInv, JoinVetted, Control
    <2> QED BY <2>2, <2>3 DEF PrivateInv
\* /leave, /kick and /ban only take memberships away.
<1>6. ASSUME NEW s \in Sessions, Leave(s) \/ KickStore(s)
      PROVE  PrivateInv'
    <2>1. \A r \in Rooms, u \in Users : IsMember(r, u)' => IsMember(r, u)
        BY <1>0, <1>6 DEF Leave, KickStore, IsMember, StoreData
    <2>2. \A t \in Sessions : pc'[t] \in {"join_ban", "join_add"} =>
                                 pc'[t] = pc[t] /\ arg'[t] = arg[t]
        BY <1>0, <1>6 DEF Leave, KickStore, Begin, Goto, Control
    <2>3. invited' = invited
        BY <1>6 DEF Leave, KickStore
    <2> QED BY <1>0, <2>1, <2>2, <2>3 DEF PrivateInv, JoinVetted, PrivateByInvitation
<1>7. ASSUME NEW s \in Sessions, Loud(s),
             ~(\E r \in Rooms : Join(s, r)),
             ~(JoinBanCheck(s) \/ JoinInsert(s) \/ InviteInsert(s) \/ Leave(s) \/ KickStore(s))
      PROVE  PrivateInv'
    <2>1. UNCHANGED <<role, invited>>
        BY <1>7
        DEF Loud, Connect, InitOpen, Disconnect, LeaveHub, InitJoin, JoinRefresh, JoinSubscribe,
            KickHub, SendMemberCheck, SendBanCheck, SendInsert, HandleRemoved
    <2>2. \A t \in Sessions : pc'[t] \in {"join_ban", "join_add"} =>
                                 pc'[t] = pc[t] /\ arg'[t] = arg[t]
        BY <1>0, <1>7
        DEF Loud, Connect, InitOpen, Disconnect, LeaveHub, InitJoin, JoinRefresh, JoinSubscribe,
            KickHub, SendMemberCheck, AfterMemberCheck, SendBanCheck, SendInsert, HandleRemoved,
            Snapshot, Goto, Finish, Control
    <2> QED BY <2>1, <2>2 DEF PrivateInv, JoinVetted, PrivateByInvitation, IsMember
<1> QED BY <1>1, <1>2, <1>3, <1>4, <1>5, <1>6, <1>7, QuietOrLoud

\* Whoever is in a private room created it or was invited at some time,
\* whatever happens between the membership /join reads and the row it
\* inserts (commands.go:45-52).
THEOREM PrivateRoomsByInvitation == Spec => []PrivateByInvitation
<1>1. Init => PrivateInv
    BY RoomsAssumption
    DEF Init, PrivateInv, JoinVetted, PrivateByInvitation, IsMember, RoomsAssumption
<1>2. PrivateInv => PrivateByInvitation
    BY DEF PrivateInv
<1> QED BY <1>1, <1>2, TypeInit, TypeStep, PrivateStep, PTL DEF Spec

-----------------------------------------------------------------------------
(* /kick and /ban against the subscriptions.  The lock section that removes *)
(* a user's sessions runs after the membership is gone, and a session may   *)
(* be on its way into the subscriptions all that time.                      *)
KickPending(r, u) ==
    \E k \in Sessions : pc[k] = "kick_hub" /\ arg[k].room = r /\ arg[k].user = u

\* In a room's subscriptions, or about to be.
Reaches(s, r) == s \in sub[r] \/ AboutToSubscribe(s, r)

RemovedNotMember == \A r \in Rooms : \A u \in kicked[r] : role[r][u] = "none"

JoinsItself ==
    \A s \in Sessions :
        pc[s] \in {"join_ban", "join_add", "join_nav", "join_hub"} => arg[s].user = UserOf[s]

RemovedReached ==
    \A r \in Rooms, s \in Sessions :
        UserOf[s] \in kicked[r] /\ Reaches(s, r) => s \in late[r] \/ KickPending(r, UserOf[s])

RemovalInv == RemovedNotMember /\ JoinsItself /\ RemovedReached

\* A step that brings no session nearer to a room keeps all that is known.
LEMMA NoNearer ==
    ASSUME RemovalInv,
           UNCHANGED <<kicked, late>>,
           \A r \in Rooms, u \in Users : role[r][u] = "none" => role'[r][u] = "none",
           kicked \in [Rooms -> SUBSET Users],
           \A r \in Rooms, t \in Sessions : Reaches(t, r)' => Reaches(t, r),
           \A k \in Sessions : pc[k] = "kick_hub" => pc'[k] = "kick_hub" /\ arg'[k] = arg[k],
           JoinsItself'
    PROVE  RemovalInv'
<1>1. RemovedNotMember'
    BY DEF RemovalInv, RemovedNotMember
<1>2. \A r \in Rooms, u \in Users : KickPending(r, u) => KickPending(r, u)'
    BY DEF KickPending
<1>3. RemovedReached'
    BY <1>2 DEF RemovalInv, RemovedReached
<1> QED BY <1>1, <1>3 DEF RemovalInv

LEMMA RemovalStep == TypeInv /\ RemovalInv /\ [Next]_vars => RemovalInv'
<1> SUFFICES ASSUME TypeInv, RemovalInv, [Next]_vars PROVE RemovalInv'
    OBVIOUS
<1> USE DEF At, store, hub, locals, history
<1>0. /\ Control /\ StoreData /\ HubData /\ ClientData
      /\ kicked \in [Rooms -> SUBSET Users] /\ late \in [Rooms -> SUBSET Sessions]
      /\ arg \in [Sessions -> ArgType]
      /\ UserOf \in [Sessions -> Users]
      /\ \A s \in Sessions : arg[s].user \in Users /\ UserOf[s] \in Users
      /\ \A s \in Sessions : pc[s] \in HandlerLabels => arg[s].room \in Rooms
    BY RoomsAssumption DEF TypeInv, Control, ArgType, Data, HistoryData, RoomsAssumption
<1>1. CASE Quiet
    <2>1. \A r \in Rooms, t \in Sessions : Reaches(t, r)' => Reaches(t, r)
        BY <1>1 DEF Quiet, KeepsWatched, Watched, Reaches, AboutToSubscribe
    <2>2. JoinsItself'
        BY <1>1 DEF Quiet, KeepsWatched, Watched, JoinsItself, RemovalInv
    <2>3. \A k \in Sessions : pc[k] = "kick_hub" => pc'[k] = "kick_hub" /\ arg'[k] = arg[k]
        BY <1>1 DEF Quiet, KeepsWatched, Watched
    <2> QED BY <1>0, <1>1, <2>1, <2>2, <2>3, NoNearer DEF Quiet
\* The rooms a new session will subscribe to are those it is a member of.
<1>2. ASSUME NEW s \in Sessions, Connect(s)
      PROVE  RemovalInv'
    <2>1. /\ pc' = [pc EXCEPT ![s] = "init_join"] /\ arg' = arg
          /\ todo' = [todo EXCEPT ![s] = ListUserRooms(UserOf[s])]
          /\ UNCHANGED <<role, sub, kicked, late>> /\ pc[s] = "off"
        BY <1>0, <1>2 DEF Connect, RefreshRooms, Goto, ClientData
    <2>2. JoinsItself'
        BY <1>0, <2>1 DEF JoinsItself, RemovalInv, Control
    <2>3. ASSUME NEW r \in Rooms, NEW t \in Sessions, UserOf[t] \in kicked[r], Reaches(t, r)'
          PROVE  Reaches(t, r)
        BY <1>0, <2>1, <2>3
        DEF Reaches, AboutToSubscribe, ListUserRooms, IsMember, RemovalInv, RemovedNotMember,
            Control, ClientData
    <2>4. \A r \in Rooms, u \in Users : KickPending(r, u) => KickPending(r, u)'
        BY <1>0, <2>1 DEF KickPending, Control
    <2> QED BY <1>0, <2>1, <2>2, <2>3, <2>4 DEF RemovalInv, RemovedNotMember, RemovedReached
\* Joining, leaving, opening and sending bring no session nearer.
<1>3. ASSUME NEW s \in Sessions,
             \/ InitOpen(s) \/ Disconnect(s) \/ Leave(s) \/ LeaveHub(s)
             \/ (\E r \in Rooms : InitJoin(s, r)) \/ (\E r \in Rooms : Join(s, r))
             \/ JoinBanCheck(s) \/ JoinRefresh(s) \/ JoinSubscribe(s)
             \/ SendMemberCheck(s) \/ SendBanCheck(s) \/ SendInsert(s) \/ HandleRemoved(s)
      PROVE  RemovalInv'
    <2>1. /\ UNCHANGED <<kicked, late>>
          /\ \A r \in Rooms, u \in Users : role[r][u] = "none" => role'[r][u] = "none"
        BY <1>0, <1>3
        DEF InitOpen, Disconnect, Leave, LeaveHub, InitJoin, Join, JoinBanCheck, BanCheck,
            JoinRefresh, JoinSubscribe, SendMemberCheck, SendBanCheck, SendInsert, HandleRemoved,
            StoreData
    <2>2. \A k \in Sessions : pc[k] = "kick_hub" => pc'[k] = "kick_hub" /\ arg'[k] = arg[k]
        BY <1>0, <1>3
        DEF InitOpen, Disconnect, Leave, LeaveHub, InitJoin, Join, JoinBanCheck, BanCheck,
            JoinRefresh, JoinSubscribe, SendMemberCheck, AfterMemberCheck, SendBanCheck, SendInsert,
            HandleRemoved, Take, Begin, Goto, Finish, Control
    <2>3. JoinsItself'
        BY <1>0, <1>3
        DEF InitOpen, Disconnect, Leave, LeaveHub, InitJoin, Join, JoinBanCheck, BanCheck,
            JoinRefresh, JoinSubscribe, SendMemberCheck, AfterMemberCheck, SendBanCheck, SendInsert,
            HandleRemoved, Take, Begin, Goto, Finish, Arg, Control, RemovalInv, JoinsItself
    <2>4. \A r \in Rooms, t \in Sessions : Reaches(t, r)' => Reaches(t, r)
        <3>1. CASE InitOpen(s) \/ Disconnect(s) \/ LeaveHub(s) \/ HandleRemoved(s)
            <4>1. \A r \in Rooms : sub'[r] \subseteq sub[r]
                BY <1>0, <3>1 DEF InitOpen, Disconnect, LeaveHub, HandleRemoved, HubData
            <4>2. \A r \in Rooms, t \in Sessions : AboutToSubscribe(t, r)' => AboutToSubscribe(t, r)
                <5>1. todo' = todo /\ \A t \in Sessions \ {s} : pc'[t] = pc[t] /\ arg'[t] = arg[t]
                    BY <1>0, <3>1
                    DEF InitOpen, Disconnect, LeaveHub, HandleRemoved, Take, Goto, Control
                <5>2. pc'[s] \in {"idle", "gone", "leave_nav", "removed_nav"}
                    BY <1>0, <3>1
                    DEF InitOpen, Disconnect, LeaveHub, HandleRemoved, Take, Goto, Control
                <5> QED BY <5>1, <5>2 DEF AboutToSubscribe
            <4> QED BY <4>1, <4>2 DEF Reaches
        <3>2. CASE Leave(s) \/ (\E r \in Rooms : Join(s, r))
            BY <1>0, <3>2 DEF Leave, Join, Begin, Control, Reaches, AboutToSubscribe
        <3>3. ASSUME NEW r0 \in Rooms, InitJoin(s, r0)
              PROVE  \A r \in Rooms, t \in Sessions : Reaches(t, r)' => Reaches(t, r)
            BY <1>0, <3>3
            DEF InitJoin, Goto, Control, HubData, ClientData, Reaches, AboutToSubscribe
        <3>4. CASE JoinBanCheck(s) \/ JoinRefresh(s)
            BY <1>0, <3>4
            DEF JoinBanCheck, BanCheck, JoinRefresh, Goto, Finish, Control, Reaches,
                AboutToSubscribe
        <3>5. CASE JoinSubscribe(s)
            BY <1>0, <3>5
            DEF JoinSubscribe, Goto, Control, HubData, Reaches, AboutToSubscribe, HandlerLabels,
                Labels
        <3>6. CASE SendMemberCheck(s) \/ SendBanCheck(s) \/ SendInsert(s)
            BY <1>0, <3>6
            DEF SendMemberCheck, AfterMemberCheck, SendBanCheck, SendInsert, Goto, Finish, Control,
                Reaches, AboutToSubscribe
        <3> QED BY <1>3, <3>1, <3>2, <3>3, <3>4, <3>5, <3>6
    <2> QED BY <1>0, <2>1, <2>2, <2>3, <2>4, NoNearer
\* A membership inserted ends what was known of the removal.
<1>4. ASSUME NEW s \in Sessions, JoinInsert(s) \/ InviteInsert(s)
      PROVE  RemovalInv'
    <2> DEFINE r0 == arg[s].room  u0 == arg[s].user
    <2>1. /\ r0 \in Rooms /\ u0 \in Users
          /\ role' = [role EXCEPT ![r0][u0] = RowAfterInsert(role[r0][u0])]
          /\ kicked' = [kicked EXCEPT ![r0] = kicked[r0] \ {u0}]
          /\ UNCHANGED <<sub, late, todo, arg>>
        BY <1>0, <1>4
        DEF JoinInsert, InviteInsert, InsertMember, Goto, HandlerLabels, Labels, StoreData
    <2>2. /\ pc[s] \in {"join_add", "invite_add"}
          /\ pc' = [pc EXCEPT ![s] = IF pc[s] = "join_add" THEN "join_nav" ELSE "invite_publish"]
        BY <1>4 DEF JoinInsert, InviteInsert, Goto
    <2>3. RemovedNotMember'
        BY <1>0, <2>1 DEF RemovalInv, RemovedNotMember, StoreData
    <2>4. JoinsItself'
        BY <1>0, <2>1, <2>2 DEF RemovalInv, JoinsItself, Control
    <2>5. \A r \in Rooms, u \in Users : KickPending(r, u) => KickPending(r, u)'
        BY <1>0, <2>1, <2>2 DEF KickPending, Control
    <2>6. ASSUME NEW r \in Rooms, NEW t \in Sessions, UserOf[t] \in kicked'[r], Reaches(t, r)'
          PROVE  UserOf[t] \in kicked[r] /\ Reaches(t, r)
        <3>1. UserOf[t] \in kicked[r] /\ (r = r0 => UserOf[t] # u0)
            BY <1>0, <2>1, <2>6
        <3>2. CASE t = s
            BY <1>0, <2>1, <2>2, <2>6, <3>1, <3>2
            DEF Reaches, AboutToSubscribe, RemovalInv, JoinsItself, Control
        <3>3. CASE t # s
            BY <1>0, <2>1, <2>2, <2>6, <3>3 DEF Reaches, AboutToSubscribe, Control
        <3> QED BY <3>1, <3>2, <3>3
    <2>7. RemovedReached'
        BY <1>0, <2>1, <2>5, <2>6 DEF RemovalInv, RemovedReached
    <2> QED BY <2>3, <2>4, <2>7 DEF RemovalInv
\* From the removal of the row on, the lock section is still to come, ...
<1>5. ASSUME NEW s \in Sessions, KickStore(s)
      PROVE  RemovalInv'
    <2> DEFINE r0 == arg[s].room  u0 == arg[s].user
    <2>1. /\ r0 \in Rooms /\ u0 \in Users
          /\ \/ /\ role' = [role EXCEPT ![r0][u0] = "none"]
                /\ kicked' = [kicked EXCEPT ![r0] = kicked[r0] \union {u0}]
             \/ UNCHANGED <<role, kicked>>
          /\ pc[s] \in {"kick_db", "ban_db"} /\ pc' = [pc EXCEPT ![s] = "kick_hub"]
          /\ UNCHANGED <<sub, late, todo, arg>>
        BY <1>0, <1>5 DEF KickStore, Goto, HandlerLabels, Labels
    <2>2. RemovedNotMember'
        <3>1. CASE UNCHANGED <<role, kicked>>
            BY <3>1 DEF RemovalInv, RemovedNotMember
        <3>2. CASE /\ role' = [role EXCEPT ![r0][u0] = "none"]
                   /\ kicked' = [kicked EXCEPT ![r0] = kicked[r0] \union {u0}]
            BY <1>0, <2>1, <3>2 DEF RemovalInv, RemovedNotMember, StoreData
        <3> QED BY <2>1, <3>1, <3>2
    <2>3. JoinsItself'
        BY <1>0, <2>1 DEF RemovalInv, JoinsItself, Control
    <2>4. \A r \in Rooms, u \in Users : KickPending(r, u) => KickPending(r, u)'
        BY <1>0, <2>1 DEF KickPending, Control
    <2>5. KickPending(r0, u0)'
        BY <1>0, <2>1 DEF KickPending, Control
    <2>6. \A r \in Rooms, t \in Sessions : Reaches(t, r)' => Reaches(t, r)
        BY <1>0, <2>1 DEF Reaches, AboutToSubscribe, Control
    <2>7. RemovedReached'
        BY <1>0, <2>1, <2>4, <2>5, <2>6 DEF RemovalInv, RemovedReached
    <2> QED BY <2>2, <2>3, <2>7 DEF RemovalInv
\* ... and after it only those about to subscribe can still do so.
<1>6. ASSUME NEW s \in Sessions, KickHub(s)
      PROVE  RemovalInv'
    <2> DEFINE r0 == arg[s].room  u0 == arg[s].user
               pending == {t \in Sessions : UserOf[t] = u0 /\ AboutToSubscribe(t, r0)}
    <2>1. /\ r0 \in Rooms /\ u0 \in Users /\ pc[s] = "kick_hub"
          /\ sub' = [sub EXCEPT ![r0] = sub[r0] \ SubsOf(u0, r0)]
          /\ late' = [late EXCEPT ![r0] = {t \in late[r0] : UserOf[t] # u0} \union pending]
          /\ UNCHANGED <<role, kicked, todo>>
        BY <1>0, <1>6 DEF KickHub, HandlerLabels, Labels
    <2>2. \A t \in Sessions \ {s} : pc'[t] = pc[t] /\ arg'[t] = arg[t]
        BY <1>0, <1>6 DEF KickHub, Snapshot, Goto, Finish, Control
    <2>3. pc'[s] \in {"sending", "kick_publish"}
        BY <1>0, <1>6 DEF KickHub, Snapshot, Goto, Control
    <2>4. RemovedNotMember' /\ JoinsItself'
        BY <1>0, <2>1, <2>2, <2>3 DEF RemovalInv, RemovedNotMember, JoinsItself
    <2>5. ASSUME NEW r \in Rooms, NEW t \in Sessions, UserOf[t] \in kicked'[r], Reaches(t, r)'
          PROVE  t \in late'[r] \/ KickPending(r, UserOf[t])'
        <3>1. Reaches(t, r) /\ (r = r0 /\ UserOf[t] = u0 => AboutToSubscribe(t, r0))
            BY <1>0, <2>1, <2>2, <2>3, <2>5 DEF Reaches, AboutToSubscribe, SubsOf, HubData
        <3>2. CASE r = r0 /\ UserOf[t] = u0
            BY <1>0, <2>1, <3>1, <3>2
        <3>3. CASE ~(r = r0 /\ UserOf[t] = u0)
            <4>1. t \in late[r] \/ KickPending(r, UserOf[t])
                BY <1>0, <2>1, <2>5, <3>1 DEF RemovalInv, RemovedReached
            <4>2. CASE t \in late[r]
                BY <1>0, <2>1, <3>3, <4>2
            <4>3. CASE KickPending(r, UserOf[t])
                BY <2>2, <3>3, <4>3 DEF KickPending
            <4> QED BY <4>1, <4>2, <4>3
        <3> QED BY <3>2, <3>3
    <2> QED BY <2>4, <2>5 DEF RemovalInv, RemovedReached
<1> QED BY <1>1, <1>2, <1>3, <1>4, <1>5, <1>6, QuietOrLoud DEF Loud

\* A kick or ban leaves no session of the user subscribed beyond its lock
\* section, but for those whose own /join or Init was already between the
\* membership and Hub.JoinRoom: however many sessions the user has and
\* however many moderators act at once (commands.go:148-163, hub.go:110-123).
THEOREM KickReachesEverySubscription == Spec => []KickReachesSubscribed
<1>1. Init => RemovalInv
    BY DEF Init, RemovalInv, RemovedNotMember, JoinsItself, RemovedReached
<1>2. TypeInv /\ RemovalInv => KickReachesSubscribed
    BY DEF RemovalInv, RemovedReached, Reaches, KickPending, KickReachesSubscribed, TypeInv, Data,
           HubData
<1> QED BY <1>1, <1>2, TypeInit, TypeStep, RemovalStep, PTL DEF Spec

-----------------------------------------------------------------------------
(* Subscriptions that /join made.  Besides the session itself, only an     *)
(* event about its removal takes one away, so none may be under way.       *)
JoinedInv ==
    \A r \in Rooms : \A t \in joined[r] : t \in sub[r] /\ ~RemovalComing(t, r)

\* No session loses a subscription or gains a removal that it has not lost
\* from joined.
Undisturbed ==
    \A r \in Rooms : \A t \in Sessions : t \in joined'[r] =>
        /\ t \in joined[r]
        /\ t \in sub[r] => t \in sub'[r]
        /\ RemovalComing(t, r)' => RemovalComing(t, r)

LEMMA UndisturbedKeeps ==
    ASSUME TypeInv, TypeInv', JoinedInv, Undisturbed
    PROVE  JoinedInv'
<1>1. joined' \in [Rooms -> SUBSET Sessions]
    BY DEF TypeInv, Data, HistoryData
<1> QED BY <1>1 DEF JoinedInv, Undisturbed

\* A step that moves one Update loop elsewhere than into a removal, and leaves
\* the channels alone, brings no removal nearer.
LEMMA NoNews ==
    ASSUME TypeInv, NEW s \in Sessions, inbox' = inbox,
           \A k \in Sessions \ {s} : pc'[k] = pc[k] /\ arg'[k] = arg[k] /\ to'[k] = to[k],
           pc'[s] = "sending" => arg'[s].kind # "room_removed",
           NEW t \in Sessions, NEW r \in Rooms, RemovalComing(t, r)'
    PROVE  RemovalComing(t, r)
BY DEF RemovalComing

LEMMA MoveNoNews ==
    ASSUME TypeInv, NEW s \in Sessions,
           \/ \E label \in Labels \ {"sending"} : Goto(s, label)
           \/ \E label \in Labels \ {"sending"}, r \in Rooms \union {NoRoom}, u \in Users : Begin(s, label, r, u)
           \/ Finish(s)
           \/ \E kind \in {"room_meta", "room_msg"}, then \in {"idle", "join_open", "kick_publish"},
                 targets \in SUBSET Sessions : Snapshot(s, kind, targets, then)
    PROVE  /\ \A k \in Sessions \ {s} : pc'[k] = pc[k] /\ arg'[k] = arg[k] /\ to'[k] = to[k]
           /\ pc'[s] = "sending" => arg'[s].kind # "room_removed"
<1>0. pc \in [Sessions -> Labels] /\ arg \in [Sessions -> ArgType] /\ to \in [Sessions -> SUBSET Sessions]
    BY DEF TypeInv, Control
<1>1. CASE \E label \in Labels \ {"sending"} : Goto(s, label)
    BY <1>0, <1>1 DEF Goto
<1>2. CASE \E label \in Labels \ {"sending"}, r \in Rooms \union {NoRoom}, u \in Users : Begin(s, label, r, u)
    BY <1>0, <1>2 DEF Begin
<1>3. CASE Finish(s)
    BY <1>0, <1>3 DEF Finish
<1>4. ASSUME NEW kind \in {"room_meta", "room_msg"}, NEW then \in {"idle", "join_open", "kick_publish"},
             NEW targets \in SUBSET Sessions, Snapshot(s, kind, targets, then)
      PROVE  /\ \A k \in Sessions \ {s} : pc'[k] = pc[k] /\ arg'[k] = arg[k] /\ to'[k] = to[k]
             /\ pc'[s] = "sending" => arg'[s].kind # "room_removed"
    <2>1. CASE targets = {}
        BY <1>0, <1>4, <2>1 DEF Snapshot, Goto, Finish
    <2>2. CASE targets # {}
        BY <1>0, <1>4, <2>2 DEF Snapshot, ArgType
    <2> QED BY <2>1, <2>2
<1> QED BY <1>1, <1>2, <1>3, <1>4

LEMMA JoinedStep == TypeInv /\ TypeInv' /\ JoinedInv /\ [Next]_vars => JoinedInv'
<1> SUFFICES ASSUME TypeInv, TypeInv', JoinedInv, [Next]_vars PROVE JoinedInv'
    OBVIOUS
<1> USE DEF At, store, hub, locals, history
<1>0. /\ pc \in [Sessions -> Labels] /\ arg \in [Sessions -> ArgType]
      /\ to \in [Sessions -> SUBSET Sessions]
      /\ sub \in [Rooms -> SUBSET Sessions] /\ joined \in [Rooms -> SUBSET Sessions]
      /\ inbox \in [Sessions -> Seq(Events)]
      /\ \A s \in Sessions : pc[s] \in HandlerLabels => arg[s].room \in Rooms
      /\ \A s \in Sessions : UserOf[s] \in Users /\ view[s] \in Rooms \union {NoRoom}
    BY RoomsAssumption DEF TypeInv, Control, Data, HubData, HistoryData, ClientData, RoomsAssumption
\* Steps that leave channels, subscriptions and joined alone.
<1>1. ASSUME NEW s \in Sessions,
             UNCHANGED <<sub, inbox, joined>>,
             \/ \E label \in Labels \ {"sending"} : Goto(s, label)
             \/ \E label \in Labels \ {"sending"}, r \in Rooms \union {NoRoom}, u \in Users : Begin(s, label, r, u)
             \/ Finish(s)
             \/ \E kind \in {"room_meta", "room_msg"}, then \in {"idle", "join_open", "kick_publish"},
                   targets \in SUBSET Sessions : Snapshot(s, kind, targets, then)
      PROVE  JoinedInv'
    <2>1. \A t \in Sessions, r \in Rooms : RemovalComing(t, r)' => RemovalComing(t, r)
        BY <1>1, MoveNoNews, NoNews
    <2>2. Undisturbed
        BY <1>1, <2>1 DEF Undisturbed
    <2> QED BY <2>2, UndisturbedKeeps
<1>2. ASSUME NEW s \in Sessions,
             LeavePublish(s) \/ InvitePublish(s) \/ KickPublish(s) \/ SendPublish(s) \/ JoinPublish(s)
      PROVE  JoinedInv'
    <2>1. sub[arg[s].room] \in SUBSET Sessions
        BY <1>0, <1>2
        DEF LeavePublish, InvitePublish, KickPublish, SendPublish, JoinPublish, HandlerLabels, Labels
    <2>2. /\ UNCHANGED <<sub, inbox, joined>>
          /\ \E kind \in {"room_meta", "room_msg"}, then \in {"idle", "join_open", "kick_publish"} :
                Snapshot(s, kind, sub[arg[s].room], then)
        BY <1>2 DEF LeavePublish, InvitePublish, KickPublish, SendPublish, JoinPublish, PublishRoom
    <2> QED BY <1>1, <2>1, <2>2
<1>3. ASSUME NEW s \in Sessions, \E r \in Rooms : Join(s, r)
      PROVE  JoinedInv'
    BY <1>0, <1>1, <1>3 DEF Join, Labels
<1>4. ASSUME NEW s \in Sessions,
             \/ Leave(s) \/ SendMessage(s) \/ (\E u \in Users : Invite(s, u))
             \/ \E u \in Users, label \in {"kick_db", "ban_db"} : Kick(s, u, label)
      PROVE  JoinedInv'
    <2>1. UNCHANGED <<sub, inbox, joined>>
        BY <1>4 DEF Leave, SendMessage, Invite, Kick
    <2>2. \E label \in Labels \ {"sending"}, u \in Users : Begin(s, label, view[s], u)
        BY <1>0, <1>4 DEF Leave, SendMessage, Invite, Kick, Labels
    <2> QED BY <1>0, <1>1, <2>1, <2>2
<1>5. ASSUME NEW s \in Sessions,
             \/ Connect(s) \/ InitOpen(s) \/ JoinInsert(s) \/ JoinRefresh(s) \/ LeaveRefresh(s)
             \/ InviteInsert(s) \/ KickStore(s) \/ SendInsert(s)
             \/ \E r \in Rooms \union {NoRoom} : Open(s, r)
      PROVE  JoinedInv'
    <2>1. UNCHANGED <<sub, inbox, joined>>
        BY <1>5 DEF Connect, InitOpen, JoinInsert, InsertMember, JoinRefresh, LeaveRefresh, InviteInsert,
                    KickStore, SendInsert, Open
    <2>2. \E label \in Labels \ {"sending"} : Goto(s, label)
        BY <1>5 DEF Connect, InitOpen, JoinInsert, JoinRefresh, LeaveRefresh, InviteInsert,
                    KickStore, SendInsert, Open, Labels
    <2> QED BY <1>1, <2>1, <2>2
<1>6. ASSUME NEW s \in Sessions,
             JoinBanCheck(s) \/ InviteBanCheck(s) \/ SendMemberCheck(s) \/ SendBanCheck(s)
             \/ JoinOpen(s) \/ RemovedRefresh(s)
      PROVE  JoinedInv'
    <2>1. UNCHANGED <<sub, inbox, joined>>
        BY <1>6 DEF JoinBanCheck, InviteBanCheck, BanCheck, SendMemberCheck, SendBanCheck, JoinOpen,
                    RemovedRefresh
    <2>2. Finish(s) \/ \E label \in Labels \ {"sending"} : Goto(s, label)
        BY <1>6 DEF JoinBanCheck, InviteBanCheck, BanCheck, SendMemberCheck, AfterMemberCheck,
                    SendBanCheck, JoinOpen, RemovedRefresh, Labels
    <2> QED BY <1>1, <2>1, <2>2
<1>7. ASSUME NEW s \in Sessions, NEW r0 \in Rooms, InitJoin(s, r0)
      PROVE  JoinedInv'
    <2>1. \A t \in Sessions, r \in Rooms : RemovalComing(t, r)' => RemovalComing(t, r)
        BY <1>7, MoveNoNews, NoNews DEF InitJoin, Labels
    <2>2. Undisturbed
        BY <1>0, <1>7, <2>1 DEF InitJoin, Undisturbed
    <2> QED BY <2>2, UndisturbedKeeps
<1>8. ASSUME NEW s \in Sessions, LeaveHub(s)
      PROVE  JoinedInv'
    <2>1. \A t \in Sessions, r \in Rooms : RemovalComing(t, r)' => RemovalComing(t, r)
        BY <1>8, MoveNoNews, NoNews DEF LeaveHub, Labels
    <2>2. Undisturbed
        BY <1>0, <1>8, <2>1 DEF LeaveHub, Undisturbed
    <2> QED BY <2>2, UndisturbedKeeps
<1>9. ASSUME NEW s \in Sessions, Disconnect(s)
      PROVE  JoinedInv'
    <2>1. \A t \in Sessions \ {s}, r \in Rooms : RemovalComing(t, r)' => RemovalComing(t, r)
        <3>1. /\ \A k \in Sessions \ {s} : pc'[k] = pc[k] /\ arg'[k] = arg[k] /\ to'[k] = to[k]
              /\ pc'[s] # "sending" /\ \A t \in Sessions \ {s} : inbox'[t] = inbox[t]
            BY <1>0, <1>9 DEF Disconnect, Goto
        <3> QED BY <3>1 DEF RemovalComing
    <2>2. Undisturbed
        BY <1>0, <1>9, <2>1 DEF Disconnect, Undisturbed
    <2> QED BY <2>2, UndisturbedKeeps
<1>10. ASSUME NEW s \in Sessions, JoinSubscribe(s)
      PROVE  JoinedInv'
    <2>1. \A t \in Sessions, r \in Rooms : RemovalComing(t, r)' => RemovalComing(t, r)
        BY <1>10, MoveNoNews, NoNews DEF JoinSubscribe, Labels
    <2>2. arg[s].room \in Rooms
        BY <1>0, <1>10 DEF JoinSubscribe, HandlerLabels, Labels
    <2>3. /\ sub' = [sub EXCEPT ![arg[s].room] = @ \union {s}]
          /\ joined' = [joined EXCEPT ![arg[s].room] =
                           IF RemovalComing(s, arg[s].room) THEN @ ELSE @ \union {s}]
        BY <1>10 DEF JoinSubscribe
    <2> QED BY <1>0, <2>1, <2>2, <2>3 DEF JoinedInv
<1>11. ASSUME NEW s \in Sessions, KickHub(s)
      PROVE  JoinedInv'
    <2> DEFINE r0 == arg[s].room
               u0 == arg[s].user
               subs == SubsOf(u0, r0)
    <2>1. r0 \in Rooms /\ subs \in SUBSET Sessions /\ subs \subseteq sub[r0]
        BY <1>0, <1>11 DEF KickHub, HandlerLabels, Labels, SubsOf
    <2>2. /\ sub' = [sub EXCEPT ![r0] = @ \ subs] /\ inbox' = inbox
          /\ joined' = [joined EXCEPT ![r0] = {t \in @ : UserOf[t] # u0}]
          /\ Snapshot(s, "room_removed", subs, "kick_publish")
        BY <1>11 DEF KickHub
    <2>3. \A t \in subs : UserOf[t] = u0
        BY DEF SubsOf
    <2> HIDE DEF subs, u0
    <2>4. /\ \A k \in Sessions \ {s} : pc'[k] = pc[k] /\ arg'[k] = arg[k] /\ to'[k] = to[k]
          /\ pc'[s] = "sending" => to'[s] = subs /\ arg'[s].room = r0
        <3>1. CASE subs = {}
            BY <1>0, <2>2, <3>1 DEF Snapshot, Goto
        <3>2. CASE subs # {}
            BY <1>0, <2>2, <3>2 DEF Snapshot, ArgType
        <3> QED BY <3>1, <3>2
    <2>5. \A t \in Sessions, r \in Rooms :
             RemovalComing(t, r)' => RemovalComing(t, r) \/ (t \in subs /\ r = r0)
        BY <2>2, <2>4 DEF RemovalComing
    <2> HIDE DEF r0
    <2>6. Undisturbed
        BY <1>0, <2>1, <2>2, <2>3, <2>5 DEF Undisturbed
    <2> QED BY <2>6, UndisturbedKeeps
<1>12. ASSUME NEW s \in Sessions, NEW t0 \in Sessions, Send(s, t0)
      PROVE  JoinedInv'
    <2> DEFINE e == [kind |-> arg[s].kind, room |-> arg[s].room]
    <2>1. /\ pc[s] = "sending" /\ t0 \in to[s] /\ UNCHANGED <<sub, joined>>
          /\ inbox' = [inbox EXCEPT ![t0] = Offer(@, e)]
        BY <1>12 DEF Send
    <2>2. /\ \A k \in Sessions \ {s} : pc'[k] = pc[k] /\ arg'[k] = arg[k] /\ to'[k] = to[k]
          /\ pc'[s] = "sending" => arg'[s] = arg[s] /\ to'[s] \subseteq to[s]
        <3>1. CASE to[s] # {t0}
            BY <1>0, <1>12, <3>1 DEF Send
        <3>2. CASE to[s] = {t0}
            <4>1. arg[s].then # "sending"
                BY <1>0 DEF ArgType
            <4> QED BY <1>0, <1>12, <3>2, <4>1 DEF Send
        <3> QED BY <3>1, <3>2
    <2>3. ASSUME NEW t \in Sessions, NEW i \in DOMAIN inbox'[t]
          PROVE  (i \in DOMAIN inbox[t] /\ inbox'[t][i] = inbox[t][i]) \/ (t = t0 /\ inbox'[t][i] = e)
        <3>1. CASE t = t0
            <4>1. inbox'[t] = Offer(inbox[t], e) /\ inbox[t] \in Seq(Events)
                BY <1>0, <2>1, <3>1
            <4> HIDE DEF e
            <4> QED BY <2>3, <3>1, <4>1, AppendProperties DEF Offer
        <3>2. CASE t # t0
            BY <1>0, <2>1, <2>3, <3>2
        <3> QED BY <3>1, <3>2
    <2>4. e.kind = arg[s].kind /\ e.room = arg[s].room
        OBVIOUS
    <2> HIDE DEF e
    <2>5. \A t \in Sessions, r \in Rooms : RemovalComing(t, r)' => RemovalComing(t, r)
        BY <2>1, <2>2, <2>3, <2>4 DEF RemovalComing
    <2>6. Undisturbed
        BY <2>1, <2>5 DEF Undisturbed
    <2> QED BY <2>6, UndisturbedKeeps
<1>13. ASSUME NEW s \in Sessions, NEW t0 \in Sessions, SendPanics(s, t0)
      PROVE  JoinedInv'
    <2>1. \A t \in Sessions, r \in Rooms : RemovalComing(t, r)' => RemovalComing(t, r)
        BY <1>0, <1>13 DEF SendPanics, RemovalComing
    <2>2. Undisturbed
        BY <1>13, <2>1 DEF SendPanics, Undisturbed
    <2> QED BY <2>2, UndisturbedKeeps
<1>14. ASSUME NEW s \in Sessions, HandleMessage(s) \/ HandleMeta(s) \/ HandleRemoved(s)
      PROVE  JoinedInv'
    <2>1. /\ inbox' = [inbox EXCEPT ![s] = Tail(@)] /\ Len(inbox[s]) > 0 /\ joined' = joined
          /\ pc[s] = "idle" /\ pc'[s] # "sending"
          /\ \A k \in Sessions \ {s} : pc'[k] = pc[k] /\ arg'[k] = arg[k] /\ to'[k] = to[k]
        BY <1>0, <1>14 DEF HandleMessage, HandleMeta, HandleRemoved, Take, Goto
    <2>2. ASSUME NEW t \in Sessions, NEW i \in DOMAIN inbox'[t]
          PROVE  \E j \in DOMAIN inbox[t] : inbox'[t][i] = inbox[t][j]
        <3>1. CASE t = s
            <4>1. inbox'[t] = Tail(inbox[t]) /\ inbox[t] \in Seq(Events) /\ Len(inbox[t]) > 0
                BY <1>0, <2>1, <3>1
            <4>2. i \in DOMAIN Tail(inbox[t])
                BY <2>2, <4>1
            <4>3. i + 1 \in DOMAIN inbox[t] /\ Tail(inbox[t])[i] = inbox[t][i + 1]
                BY <4>1, <4>2, HeadTailProperties
            <4> QED BY <4>1, <4>3
        <3>2. CASE t # s
            BY <1>0, <2>1, <2>2, <3>2
        <3> QED BY <3>1, <3>2
    <2>3. \A t \in Sessions, r \in Rooms : RemovalComing(t, r)' => RemovalComing(t, r)
        BY <2>1, <2>2 DEF RemovalComing
    <2>4. \A r \in Rooms : \A t \in joined[r] : t \in sub'[r]
        <3>1. CASE HandleMessage(s) \/ HandleMeta(s)
            BY <3>1 DEF HandleMessage, HandleMeta, JoinedInv
        <3>2. CASE HandleRemoved(s)
            <4> DEFINE r0 == Head(inbox[s]).room
            <4>1. sub' = [sub EXCEPT ![r0] = @ \ {s}] /\ Head(inbox[s]).kind = "room_removed"
                BY <3>2 DEF HandleRemoved, Take
            <4>2. 1 \in DOMAIN inbox[s] /\ Head(inbox[s]) = inbox[s][1]
                BY <1>0, <2>1, HeadTailProperties
            <4>3. RemovalComing(s, r0)
                BY <4>1, <4>2 DEF RemovalComing
            <4> HIDE DEF r0
            <4> QED BY <1>0, <4>1, <4>3 DEF JoinedInv
        <3> QED BY <1>14, <3>1, <3>2
    <2>5. Undisturbed
        BY <1>0, <2>1, <2>3, <2>4 DEF Undisturbed
    <2> QED BY <2>5, UndisturbedKeeps
<1>15. CASE UNCHANGED vars
    BY <1>15 DEF vars, JoinedInv, RemovalComing
<1> QED
    BY <1>2, <1>3, <1>4, <1>5, <1>6, <1>7, <1>8, <1>9, <1>10, <1>11, <1>12, <1>13, <1>14, <1>15
    DEF Next, Command, Step, Handle

\* A session that joined a room keeps its subscription until it leaves, ends or
\* is removed itself, unless it joined while word of a removal was under way
\* (app.go:687-688; hub.go:90-129).
THEOREM JoinedKeepSubscription == Spec => []JoinedStaysSubscribed
<1>1. Init => JoinedInv
    BY DEF Init, JoinedInv
<1>2. TypeInv /\ JoinedInv => JoinedStaysSubscribed
    BY DEF JoinedInv, JoinedStaysSubscribed
<1> QED BY <1>1, <1>2, TypeInit, TypeStep, JoinedStep, PTL DEF Spec

-----------------------------------------------------------------------------
(* What a ban promises in spite of the gap in Store.JoinRoom.              *)

Inserts == {"join_add", "invite_add"}

\* A /join or an /invite has found no ban and is about to insert the row.
AdmissionUnderWay(r, u) ==
    \E s \in Sessions : pc[s] \in Inserts /\ arg[s].room = r /\ arg[s].user = u

KeptOut(r, u) == u \in banned[r] /\ ~IsMember(r, u) /\ ~AdmissionUnderWay(r, u)

BanStep ==
    \* Bans are not lifted, ...
    /\ \A r \in Rooms : banned[r] \subseteq banned'[r]
    \* ... who gets to an insert has just been found without one, ...
    /\ \A t \in Sessions : pc'[t] \in Inserts =>
          /\ arg'[t] = arg[t]
          /\ pc[t] \in Inserts \/ arg[t].user \notin banned[arg[t].room]
    \* ... and rows are made by inserts.
    /\ \A r \in Rooms, u \in Users : role[r][u] = "none" /\ role'[r][u] # "none" =>
          AdmissionUnderWay(r, u)

\* An Update loop that moves elsewhere than to an insert.
LEMMA MoveNoInsert ==
    ASSUME TypeInv, NEW s \in Sessions,
           \/ \E label \in Labels \ Inserts : Goto(s, label)
           \/ \E label \in Labels \ Inserts, r \in Rooms \union {NoRoom}, u \in Users :
                 Begin(s, label, r, u)
           \/ Finish(s)
           \/ \E kind \in EventKinds, then \in {"idle", "join_open", "kick_publish"},
                 targets \in SUBSET Sessions : Snapshot(s, kind, targets, then)
    PROVE  \A t \in Sessions : pc'[t] \in Inserts => pc'[t] = pc[t] /\ arg'[t] = arg[t]
<1>0. pc \in [Sessions -> Labels] /\ arg \in [Sessions -> ArgType]
    BY DEF TypeInv, Control
<1>1. CASE \E label \in Labels \ Inserts : Goto(s, label)
    BY <1>0, <1>1 DEF Goto
<1>2. CASE \E label \in Labels \ Inserts, r \in Rooms \union {NoRoom}, u \in Users :
              Begin(s, label, r, u)
    BY <1>0, <1>2 DEF Begin
<1>3. CASE Finish(s)
    BY <1>0, <1>3 DEF Finish, Inserts
<1>4. ASSUME NEW kind \in EventKinds, NEW then \in {"idle", "join_open", "kick_publish"},
             NEW targets \in SUBSET Sessions, Snapshot(s, kind, targets, then)
      PROVE  \A t \in Sessions : pc'[t] \in Inserts => pc'[t] = pc[t] /\ arg'[t] = arg[t]
    <2>1. CASE targets = {}
        BY <1>0, <1>4, <2>1 DEF Snapshot, Goto, Finish, Inserts
    <2>2. CASE targets # {}
        BY <1>0, <1>4, <2>2 DEF Snapshot, Inserts
    <2> QED BY <2>1, <2>2
<1> QED BY <1>1, <1>2, <1>3, <1>4

\* Only JoinInsert and InviteInsert add rows, and only /ban touches the bans.
LEMMA TablesUnderBan ==
    ASSUME TypeInv, [Next]_vars
    PROVE  /\ \A r \in Rooms : banned[r] \subseteq banned'[r]
           /\ \A r \in Rooms, u \in Users :
                 role[r][u] = "none" /\ role'[r][u] # "none" => AdmissionUnderWay(r, u)
<1> USE DEF At, store
<1>0. /\ StoreData /\ Control
      /\ \A s \in Sessions : pc[s] \in HandlerLabels => arg[s].room \in Rooms
    BY DEF TypeInv, Data, Control
<1>1. ASSUME NEW s \in Sessions, JoinInsert(s) \/ InviteInsert(s)
      PROVE  /\ banned' = banned
             /\ \A r \in Rooms, u \in Users :
                   role[r][u] = "none" /\ role'[r][u] # "none" => AdmissionUnderWay(r, u)
    <2>1. /\ pc[s] \in Inserts /\ banned' = banned
          /\ role' = [role EXCEPT ![arg[s].room][arg[s].user] = RowAfterInsert(@)]
        BY <1>1 DEF JoinInsert, InviteInsert, InsertMember, Inserts
    <2> QED BY <1>0, <2>1 DEF StoreData, AdmissionUnderWay
<1>2. ASSUME NEW s \in Sessions, Leave(s)
      PROVE  /\ banned' = banned
             /\ \A r \in Rooms, u \in Users : role[r][u] = "none" => role'[r][u] = "none"
    BY <1>0, <1>2 DEF Leave, StoreData
<1>3. ASSUME NEW s \in Sessions, KickStore(s)
      PROVE  /\ \A r \in Rooms : banned[r] \subseteq banned'[r]
             /\ \A r \in Rooms, u \in Users : role[r][u] = "none" => role'[r][u] = "none"
    BY <1>0, <1>3 DEF KickStore, StoreData
<1>4. ASSUME NEW s \in Sessions, Loud(s)
      PROVE  JoinInsert(s) \/ InviteInsert(s) \/ Leave(s) \/ KickStore(s)
                \/ (role' = role /\ banned' = banned)
    BY <1>4 DEF Loud, Connect, InitOpen, Disconnect, LeaveHub, InitJoin, Join, JoinBanCheck,
                BanCheck, JoinRefresh, JoinSubscribe, KickHub, SendMemberCheck, SendBanCheck,
                SendInsert, HandleRemoved
<1> QED BY <1>1, <1>2, <1>3, <1>4, QuietOrLoud DEF Quiet

\* The two ban checks are what leads to an insert.
LEMMA BanCheckFindsNone ==
    ASSUME TypeInv, NEW s \in Sessions, NEW label \in Inserts, BanCheck(s, label)
    PROVE  \A t \in Sessions : pc'[t] \in Inserts =>
              /\ arg'[t] = arg[t]
              /\ pc[t] \in Inserts \/ arg[t].user \notin banned[arg[t].room]
<1>1. pc \in [Sessions -> Labels] /\ arg \in [Sessions -> ArgType]
    BY DEF TypeInv, Control
<1>2. CASE arg[s].user \in banned[arg[s].room]
    BY <1>1, <1>2 DEF BanCheck, Finish, Inserts
<1>3. CASE arg[s].user \notin banned[arg[s].room]
    BY <1>1, <1>3 DEF BanCheck, Goto
<1> QED BY <1>2, <1>3

LEMMA BansStep == TypeInv /\ [Next]_vars => BanStep
<1> SUFFICES ASSUME TypeInv, [Next]_vars
             PROVE  \A t \in Sessions : pc'[t] \in Inserts =>
                       /\ arg'[t] = arg[t]
                       /\ pc[t] \in Inserts \/ arg[t].user \notin banned[arg[t].room]
    BY TablesUnderBan DEF BanStep
<1> DEFINE Moves(s) ==
        \/ \E label \in Labels \ Inserts : Goto(s, label)
        \/ \E label \in Labels \ Inserts, r \in Rooms \union {NoRoom}, u \in Users :
              Begin(s, label, r, u)
        \/ Finish(s)
        \/ \E kind \in EventKinds, then \in {"idle", "join_open", "kick_publish"},
              targets \in SUBSET Sessions : Snapshot(s, kind, targets, then)
<1>0. /\ pc \in [Sessions -> Labels] /\ arg \in [Sessions -> ArgType]
      /\ sub \in [Rooms -> SUBSET Sessions] /\ view \in [Sessions -> Rooms \union {NoRoom}]
      /\ UserOf \in [Sessions -> Users]
      /\ \A s \in Sessions : pc[s] \in HandlerLabels => arg[s].room \in Rooms
    BY RoomsAssumption DEF RoomsAssumption, TypeInv, Control, Data, HubData, ClientData
\* Commands.
<1>1. ASSUME NEW s \in Sessions,
             Connect(s) \/ Disconnect(s) \/ Leave(s) \/ SendMessage(s)
                \/ (\E r \in Rooms : Join(s, r)) \/ (\E r \in Rooms \union {NoRoom} : Open(s, r))
      PROVE  Moves(s)
    BY <1>0, <1>1 DEF Connect, Disconnect, Leave, SendMessage, Join, Open, Labels, Inserts
<1>2. ASSUME NEW s \in Sessions,
             (\E u \in Users : Invite(s, u))
                \/ (\E u \in Users, label \in {"kick_db", "ban_db"} : Kick(s, u, label))
      PROVE  Moves(s)
    BY <1>0, <1>2 DEF Invite, Kick, Labels, Inserts
\* Handlers that go on.
<1>3. ASSUME NEW s \in Sessions,
             (\E r \in Rooms : InitJoin(s, r)) \/ InitOpen(s) \/ JoinInsert(s) \/ JoinRefresh(s)
                \/ JoinSubscribe(s) \/ JoinOpen(s) \/ LeaveHub(s) \/ LeaveRefresh(s)
                \/ InviteInsert(s) \/ KickStore(s) \/ RemovedRefresh(s)
      PROVE  Moves(s)
    BY <1>3 DEF InitJoin, InitOpen, JoinInsert, JoinRefresh, JoinSubscribe, JoinOpen, LeaveHub,
                LeaveRefresh, InviteInsert, KickStore, RemovedRefresh, Labels, Inserts
<1>4. ASSUME NEW s \in Sessions,
             SendMemberCheck(s) \/ SendBanCheck(s) \/ SendInsert(s)
                \/ HandleMessage(s) \/ HandleMeta(s)
      PROVE  Moves(s)
    BY <1>4 DEF SendMemberCheck, AfterMemberCheck, SendBanCheck, SendInsert, HandleMessage,
                HandleMeta, Labels, Inserts
\* Publications.
<1>5. ASSUME NEW s \in Sessions,
             JoinPublish(s) \/ LeavePublish(s) \/ InvitePublish(s) \/ KickPublish(s)
                \/ SendPublish(s)
      PROVE  Moves(s)
    <2>1. pc[s] \in HandlerLabels
        BY <1>5 DEF JoinPublish, LeavePublish, InvitePublish, KickPublish, SendPublish, At,
                    HandlerLabels, Labels
    <2>2. PICK kind \in EventKinds, then \in {"idle", "join_open", "kick_publish"} :
              PublishRoom(s, kind, then)
        BY <1>5 DEF JoinPublish, LeavePublish, InvitePublish, KickPublish, SendPublish, EventKinds
    <2> QED BY <1>0, <2>1, <2>2 DEF PublishRoom
<1>6. ASSUME NEW s \in Sessions, KickHub(s)
      PROVE  Moves(s)
    <2>1. SubsOf(arg[s].user, arg[s].room) \in SUBSET Sessions
        BY <1>0, <1>6 DEF KickHub, At, SubsOf, HandlerLabels, Labels
    <2> QED BY <1>6, <2>1 DEF KickHub, EventKinds
<1>7. ASSUME NEW s \in Sessions, Moves(s)
      PROVE  \A t \in Sessions : pc'[t] \in Inserts => pc'[t] = pc[t] /\ arg'[t] = arg[t]
    BY <1>7, MoveNoInsert
\* The two ban checks, and what does not move by one of those.
<1>8. ASSUME NEW s \in Sessions, JoinBanCheck(s) \/ InviteBanCheck(s)
      PROVE  \A t \in Sessions : pc'[t] \in Inserts =>
                /\ arg'[t] = arg[t]
                /\ pc[t] \in Inserts \/ arg[t].user \notin banned[arg[t].room]
    BY <1>8, BanCheckFindsNone DEF JoinBanCheck, InviteBanCheck, Inserts
<1>9. ASSUME NEW s \in Sessions,
             (\E t \in Sessions : Send(s, t)) \/ (\E t \in Sessions : SendPanics(s, t))
                \/ HandleRemoved(s)
      PROVE  \A t \in Sessions : pc'[t] \in Inserts => pc'[t] = pc[t] /\ arg'[t] = arg[t]
    <2>1. arg[s].then \notin Inserts
        BY <1>0 DEF ArgType, Inserts
    <2> QED BY <1>0, <1>9, <2>1 DEF Send, SendPanics, HandleRemoved, Take, Inserts
<1>10. CASE UNCHANGED vars
    BY <1>10 DEF vars
<1> HIDE DEF Moves
<1> QED
    BY <1>1, <1>2, <1>3, <1>4, <1>5, <1>6, <1>7, <1>8, <1>9, <1>10 DEF Next, Command, Step, Handle

\* No step lets in a banned user who is out, with nothing half-way in
\* (Store.JoinRoom and its two callers).
BansKeepOut == [][\A r \in Rooms, u \in Users : KeptOut(r, u) => KeptOut(r, u)']_vars

\* Once a banned user is out of a room, and no /join of theirs or /invite of
\* them is between its ban check and its insert, they stay out for good: the
\* gap in Store.JoinRoom lets in only who was half-way in when the ban was
\* recorded (store.go:288-297, 365-379; commands.go:50, 135).
THEOREM BansHold == Spec => BansKeepOut
<1>1. TypeInv /\ BanStep => \A r \in Rooms, u \in Users : KeptOut(r, u) => KeptOut(r, u)'
    <2> SUFFICES ASSUME TypeInv, BanStep, NEW r \in Rooms, NEW u \in Users, KeptOut(r, u)
                 PROVE  KeptOut(r, u)'
        OBVIOUS
    <2>1. u \in banned'[r] /\ ~IsMember(r, u)'
        BY DEF BanStep, KeptOut, IsMember
    <2>2. ~AdmissionUnderWay(r, u)'
        BY DEF BanStep, KeptOut, AdmissionUnderWay
    <2> QED BY <2>1, <2>2 DEF KeptOut
<1> QED BY <1>1, BansStep, TypeInit, TypeStep, PTL DEF Spec, BansKeepOut
=============================================================================
