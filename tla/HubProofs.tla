----------------------------- MODULE HubProofs ------------------------------
(***************************************************************************)
(* Proofs about the hub and the clients on top of it, for any number of    *)
(* sessions, users and rooms, any channel capacity and any number of       *)
(* publications.                                                           *)
(***************************************************************************)
EXTENDS Presence, FiniteSetTheorems, SequenceTheorems, TLAPS

-----------------------------------------------------------------------------
(* Type correctness.  TypeOK is not inductive: a send appends ev[s], so a  *)
(* session that is announcing or sending must have made an event.          *)
EventInHand ==
    \A s \in Sessions : phase[s] \in {"announcing", "sending"} => ev[s] \in Events

TypeInv == TypeOK /\ EventInHand

LEMMA EventKinds == NoEvent \notin Events
BY DEF NoEvent, Events, Kinds

LEMMA NewEventType ==
    ASSUME TypeOK, NEW s \in Sessions, NEW kind \in Kinds, NEW of \in Rooms \union Users
    PROVE  NewEvent(s, kind, of) \in Events
BY DEF TypeOK, NewEvent, Events

\* A non-blocking send keeps a channel a sequence of events within capacity.
LEMMA OfferType ==
    ASSUME NEW q \in Seq(Events), Len(q) =< ChCap, NEW e \in Events
    PROVE  /\ Offer(q, e) \in Seq(Events)
           /\ Len(Offer(q, e)) =< ChCap
BY HubAssumption, AppendProperties DEF Offer, HubAssumption

LEMMA TailType ==
    ASSUME NEW q \in Seq(Events), Len(q) > 0
    PROVE  /\ Tail(q) \in Seq(Events)
           /\ Len(Tail(q)) = Len(q) - 1
BY HeadTailProperties

LEMMA TypeInit == Init => TypeInv
BY HubAssumption DEF Init, TypeInv, TypeOK, EventInHand, Phases, HubAssumption

LEMMA TypeStep == TypeInv /\ [Next]_vars => TypeInv'
<1> SUFFICES ASSUME TypeInv, [Next]_vars PROVE TypeInv'
    OBVIOUS
<1> USE HubAssumption DEF HubAssumption
<1> USE DEF TypeInv, TypeOK, EventInHand, Phases
<1>1. ASSUME NEW s \in Sessions, Subscribe(s) PROVE TypeInv'
    <2>1. NewEvent(s, "online", UserOf[s]) \in Events
        BY NewEventType DEF Kinds
    <2> QED BY <1>1, <2>1 DEF Subscribe
<1>2. ASSUME NEW s \in Sessions, Unsubscribe(s) PROVE TypeInv'
    <2>1. NewEvent(s, "offline", UserOf[s]) \in Events
        BY NewEventType DEF Kinds
    <2> QED BY <1>2, <2>1 DEF Unsubscribe, RoomsWithout, IsLast
<1>3. ASSUME NEW s \in Sessions, CloseChannel(s) PROVE TypeInv'
    BY <1>3 DEF CloseChannel
<1>4. ASSUME NEW s \in Sessions, SnapshotPresence(s) PROVE TypeInv'
    BY <1>4 DEF SnapshotPresence
<1>5. ASSUME NEW s \in Sessions, NEW r \in Rooms, JoinRoom(s, r) PROVE TypeInv'
    BY <1>5 DEF JoinRoom
<1>6. ASSUME NEW s \in Sessions, NEW r \in Rooms, LeaveRoom(s, r) PROVE TypeInv'
    BY <1>6 DEF LeaveRoom
<1>7. ASSUME NEW s \in Sessions, NEW u \in Users, NEW r \in Rooms, RemoveUserFromRoom(s, u, r)
      PROVE TypeInv'
    <2>1. NewEvent(s, "room_removed", u) \in Events
        BY NewEventType DEF Kinds
    <2> QED BY <1>7, <2>1 DEF RemoveUserFromRoom, StartSending, SubsOf
<1>8. ASSUME NEW s \in Sessions, NEW r \in Rooms, PublishRoom(s, r) PROVE TypeInv'
    <2>1. NewEvent(s, "room", r) \in Events
        BY NewEventType DEF Kinds
    <2> QED BY <1>8, <2>1 DEF PublishRoom, StartSending
<1>9. ASSUME NEW s \in Sessions, NEW u \in Users, PublishUser(s, u) PROVE TypeInv'
    <2>1. NewEvent(s, "user", u) \in Events
        BY NewEventType DEF Kinds
    <2> QED BY <1>9, <2>1 DEF PublishUser, StartSending
<1>10. ASSUME NEW s \in Sessions, NEW t \in Sessions, Send(s, t) PROVE TypeInv'
    <2>1. ev[s] \in Events
        BY <1>10 DEF Send
    <2>2. /\ Offer(ch[t], ev[s]) \in Seq(Events)
          /\ Len(Offer(ch[t], ev[s])) =< ChCap
        BY <2>1, OfferType
    <2> QED BY <1>10, <2>2 DEF Send
<1>11. ASSUME NEW s \in Sessions, NEW t \in Sessions, SendPanics(s, t) PROVE TypeInv'
    BY <1>11 DEF SendPanics
<1>12. ASSUME NEW s \in Sessions, Return(s) PROVE TypeInv'
    BY <1>12 DEF Return
<1>13. ASSUME NEW s \in Sessions, Receive(s) PROVE TypeInv'
    <2>1. Tail(ch[s]) \in Seq(Events) /\ Len(Tail(ch[s])) =< ChCap
        BY <1>13, TailType DEF Receive
    <2> QED BY <1>13, <2>1 DEF Receive
<1>14. CASE UNCHANGED vars
    BY <1>14 DEF vars
<1> QED
    BY <1>1, <1>2, <1>3, <1>4, <1>5, <1>6, <1>7, <1>8, <1>9, <1>10, <1>11, <1>12, <1>13, <1>14
    DEF Next, Call, Step

\* Every reachable state is well typed, and in particular no channel ever
\* holds more than its capacity (make(chan Event, 64), hub.go:47, and the
\* default branch of send).
THEOREM TypeCorrect == Spec => []TypeOK
<1>1. TypeInv => TypeOK
    BY DEF TypeInv
<1> QED BY <1>1, TypeInit, TypeStep, PTL DEF Spec

-----------------------------------------------------------------------------
(* The three maps agree.  HubIndexConsistent alone is not inductive: that  *)
(* Subscribe adds a session not counted yet, and that Unsubscribe removes  *)
(* one that is, depends on how far each session's call has come.           *)
SessionPhases ==
    \A s \in Sessions :
        /\ phase[s] = "new" <=> chan[s] = "none"
        /\ phase[s] = "idle" => Registered(s)
        /\ phase[s] = "closing" => ~Registered(s) /\ chan[s] = "open"
        /\ phase[s] \in {"announcing", "sending"} =>
              (chan[s] = "open" <=> Registered(s))

IndexInv == TypeInv /\ HubIndexConsistent /\ SessionPhases

\* The count of a user follows the set of sessions as one comes or goes.
LEMMA CountAdd ==
    ASSUME NEW S \in SUBSET Sessions, NEW s \in Sessions \ S
    PROVE  Cardinality(S \union {s}) = Cardinality(S) + 1 /\ Cardinality(S) \in Nat
<1>1. IsFiniteSet(S)
    BY HubAssumption, FS_Subset DEF HubAssumption
<1> QED BY <1>1, FS_AddElement, FS_CardinalityType

LEMMA CountRemove ==
    ASSUME NEW S \in SUBSET Sessions, NEW s \in S
    PROVE  Cardinality(S \ {s}) = Cardinality(S) - 1 /\ Cardinality(S \ {s}) \in Nat
<1>1. IsFiniteSet(S) /\ IsFiniteSet(S \ {s})
    BY HubAssumption, FS_Subset DEF HubAssumption
<1>2. Cardinality(S) \in Nat /\ Cardinality(S \ {s}) \in Nat
    BY <1>1, FS_CardinalityType
<1> QED BY <1>1, <1>2, FS_RemoveElement

LEMMA IndexInit == Init => IndexInv
<1> SUFFICES ASSUME Init PROVE IndexInv
    OBVIOUS
<1>1. TypeInv
    BY TypeInit
<1>2. Cardinality({}) = 0
    BY FS_EmptySet
<1>3. HubIndexConsistent /\ SessionPhases
    BY <1>2, HubAssumption DEF Init, HubIndexConsistent, SessionPhases, Registered, HubAssumption
<1> QED BY <1>1, <1>3 DEF IndexInv

\* Subscribe counts a session that was not counted.
LEMMA SubscribeIndex ==
    ASSUME IndexInv, NEW s \in Sessions, Subscribe(s)
    PROVE  /\ HubIndexConsistent'
           /\ SessionPhases'
<1> USE HubAssumption DEF HubAssumption
<1> DEFINE u == UserOf[s]
<1>1. /\ phase[s] = "new" /\ ~Registered(s) /\ u \in Users
      /\ users' = [users EXCEPT ![u] = users[u] \union {s}]
      /\ presenceCnt' = [presenceCnt EXCEPT ![u] = presenceCnt[u] + 1]
      /\ chan' = [chan EXCEPT ![s] = "open"]
      /\ phase' = [phase EXCEPT ![s] = IF presenceCnt[u] + 1 = 1 THEN "announcing" ELSE "idle"]
      /\ rooms' = rooms
    BY DEF Subscribe, IndexInv, SessionPhases, HubIndexConsistent, TypeInv, TypeOK, Registered
<1>2. \A v \in Users : presenceCnt'[v] = Cardinality(users'[v])
    <2>1. Cardinality(users[u] \union {s}) = Cardinality(users[u]) + 1
        BY <1>1, CountAdd DEF IndexInv, TypeInv, TypeOK, Registered
    <2> QED BY <1>1, <2>1 DEF IndexInv, HubIndexConsistent, TypeInv, TypeOK
<1>3. \A v \in Users : \A t \in users'[v] : UserOf[t] = v /\ chan'[t] = "open"
    BY <1>1 DEF IndexInv, HubIndexConsistent, TypeInv, TypeOK
<1>4. \A t \in Sessions : Registered(t)' <=> Registered(t) \/ t = s
    BY <1>1 DEF IndexInv, TypeInv, TypeOK, Registered
<1>5. HubIndexConsistent'
    BY <1>1, <1>2, <1>3, <1>4 DEF IndexInv, HubIndexConsistent, TypeInv, TypeOK
<1>6. SessionPhases'
    BY <1>1, <1>4 DEF IndexInv, SessionPhases, TypeInv, TypeOK
<1> QED BY <1>5, <1>6

\* Unsubscribe removes a counted session from every map at once.
LEMMA UnsubscribeIndex ==
    ASSUME IndexInv, NEW s \in Sessions, Unsubscribe(s)
    PROVE  /\ HubIndexConsistent'
           /\ SessionPhases'
<1> USE HubAssumption DEF HubAssumption
<1> DEFINE u == UserOf[s]
<1>1. /\ phase[s] = "idle" /\ Registered(s) /\ u \in Users
      /\ users' = [users EXCEPT ![u] = users[u] \ {s}]
      /\ presenceCnt' = [presenceCnt EXCEPT
                            ![u] = IF presenceCnt[u] - 1 =< 0 THEN 0 ELSE presenceCnt[u] - 1]
      /\ chan' = chan
      /\ phase' = [phase EXCEPT ![s] = "closing"]
      /\ rooms' = [r \in Rooms |-> rooms[r] \ {s}]
    BY DEF Unsubscribe, RoomsWithout, IsLast, IndexInv, SessionPhases, TypeInv, TypeOK
<1>2. \A v \in Users : presenceCnt'[v] = Cardinality(users'[v])
    <2>1. /\ Cardinality(users[u] \ {s}) = Cardinality(users[u]) - 1
          /\ Cardinality(users[u] \ {s}) \in Nat
        BY <1>1, CountRemove DEF IndexInv, TypeInv, TypeOK, Registered
    <2> QED BY <1>1, <2>1 DEF IndexInv, HubIndexConsistent, TypeInv, TypeOK
<1>3. \A t \in Sessions : Registered(t)' <=> Registered(t) /\ t # s
    BY <1>1 DEF IndexInv, HubIndexConsistent, TypeInv, TypeOK, Registered
<1>4. HubIndexConsistent'
    BY <1>1, <1>2, <1>3 DEF IndexInv, HubIndexConsistent, TypeInv, TypeOK
<1>5. SessionPhases'
    <2>1. chan[s] = "open"
        BY <1>1 DEF IndexInv, HubIndexConsistent, Registered
    <2>2. /\ phase'[s] = "closing" /\ chan'[s] = "open"
          /\ \A t \in Sessions \ {s} : phase'[t] = phase[t] /\ chan'[t] = chan[t]
        BY <1>1, <2>1 DEF IndexInv, TypeInv, TypeOK
    <2> QED BY <1>3, <2>2 DEF IndexInv, SessionPhases
<1> QED BY <1>4, <1>5

LEMMA IndexStep == IndexInv /\ [Next]_vars => IndexInv'
<1> SUFFICES ASSUME IndexInv, [Next]_vars PROVE HubIndexConsistent' /\ SessionPhases'
    BY TypeStep DEF IndexInv
<1> USE HubAssumption DEF HubAssumption
<1> USE DEF IndexInv, HubIndexConsistent, SessionPhases, TypeInv, TypeOK, Registered
<1>1. ASSUME NEW s \in Sessions, Subscribe(s) PROVE HubIndexConsistent' /\ SessionPhases'
    BY <1>1, SubscribeIndex
<1>2. ASSUME NEW s \in Sessions, Unsubscribe(s) PROVE HubIndexConsistent' /\ SessionPhases'
    BY <1>2, UnsubscribeIndex
<1>3. ASSUME NEW s \in Sessions, CloseChannel(s) PROVE HubIndexConsistent' /\ SessionPhases'
    BY <1>3 DEF CloseChannel
<1>4. ASSUME NEW s \in Sessions, SnapshotPresence(s) PROVE HubIndexConsistent' /\ SessionPhases'
    BY <1>4 DEF SnapshotPresence
<1>5. ASSUME NEW s \in Sessions, NEW r \in Rooms, JoinRoom(s, r)
      PROVE  HubIndexConsistent' /\ SessionPhases'
    BY <1>5 DEF JoinRoom
<1>6. ASSUME NEW s \in Sessions, NEW r \in Rooms, LeaveRoom(s, r)
      PROVE  HubIndexConsistent' /\ SessionPhases'
    BY <1>6 DEF LeaveRoom
<1>7. ASSUME NEW s \in Sessions, NEW u \in Users, NEW r \in Rooms, RemoveUserFromRoom(s, u, r)
      PROVE  HubIndexConsistent' /\ SessionPhases'
    BY <1>7 DEF RemoveUserFromRoom, StartSending, SubsOf
<1>8. ASSUME NEW s \in Sessions, NEW r \in Rooms, PublishRoom(s, r)
      PROVE  HubIndexConsistent' /\ SessionPhases'
    BY <1>8 DEF PublishRoom, StartSending
<1>9. ASSUME NEW s \in Sessions, NEW u \in Users, PublishUser(s, u)
      PROVE  HubIndexConsistent' /\ SessionPhases'
    BY <1>9 DEF PublishUser, StartSending
<1>10. ASSUME NEW s \in Sessions, NEW t \in Sessions, Send(s, t)
       PROVE  HubIndexConsistent' /\ SessionPhases'
    BY <1>10 DEF Send
<1>11. ASSUME NEW s \in Sessions, NEW t \in Sessions, SendPanics(s, t)
       PROVE  HubIndexConsistent' /\ SessionPhases'
    BY <1>11 DEF SendPanics
<1>12. ASSUME NEW s \in Sessions, Return(s) PROVE HubIndexConsistent' /\ SessionPhases'
    BY <1>12 DEF Return
<1>13. ASSUME NEW s \in Sessions, Receive(s) PROVE HubIndexConsistent' /\ SessionPhases'
    BY <1>13 DEF Receive
<1>14. CASE UNCHANGED vars
    BY <1>14 DEF vars
<1> QED
    BY <1>1, <1>2, <1>3, <1>4, <1>5, <1>6, <1>7, <1>8, <1>9, <1>10, <1>11, <1>12, <1>13, <1>14
    DEF Next, Call, Step

\* However the lock sections of any number of sessions interleave, the
\* session count of every user is the number of its registered sessions,
\* registered sessions have open channels, and rooms hold registered
\* sessions only (Subscribe, Unsubscribe and the room methods of hub.go).
THEOREM IndexConsistent == Spec => []HubIndexConsistent
<1>1. IndexInv => HubIndexConsistent
    BY DEF IndexInv
<1> QED BY <1>1, IndexInit, IndexStep, PTL DEF Spec

-----------------------------------------------------------------------------
(* Refinement.  Subscribe is the registry's Connect and Unsubscribe its    *)
(* Disconnect, each at its lock section; every other step stutters.        *)
Live == {s \in Sessions : Registered(s)}
Ended == {s \in Sessions : phase[s] # "new" /\ ~Registered(s)}

\* Who is online, read from the counts, is who has a live session.
OnlineFollowsLive == OnlineUserIDs = {UserOf[s] : s \in Live}

LEMMA OnlineIsLive == IndexInv => OnlineFollowsLive
<1> SUFFICES ASSUME IndexInv PROVE OnlineUserIDs = {UserOf[s] : s \in Live}
    BY DEF OnlineFollowsLive
<1> USE HubAssumption DEF HubAssumption, IndexInv, TypeInv, TypeOK, HubIndexConsistent, Live, Registered
<1>1. ASSUME NEW u \in Users PROVE u \in OnlineUserIDs <=> users[u] # {}
    <2>1. IsFiniteSet(users[u])
        BY FS_Subset
    <2>2. Cardinality(users[u]) \in Nat /\ (Cardinality(users[u]) = 0 <=> users[u] = {})
        BY <2>1, FS_CardinalityType, FS_EmptySet
    <2> QED BY <2>2 DEF OnlineUserIDs
<1>2. OnlineUserIDs \subseteq Users
    BY DEF OnlineUserIDs
<1> QED BY <1>1, <1>2

LEMMA OnlineIsLiveNext == IndexInv' => OnlineFollowsLive'
BY OnlineIsLive, PTL

LEMMA RegistryInit == Init => R!Init
<1> SUFFICES ASSUME Init PROVE R!Init
    OBVIOUS
<1> QED BY HubAssumption DEF Init, R!Init, Registered, OnlineUserIDs, HubAssumption

\* The steps that leave every registration alone.
LEMMA RegistryStutter ==
    ASSUME IndexInv, users' = users, presenceCnt' = presenceCnt,
           \A s \in Sessions : phase'[s] = "new" <=> phase[s] = "new"
    PROVE  UNCHANGED R!vars
BY DEF R!vars, Registered, OnlineUserIDs

LEMMA RegistryStep == IndexInv /\ IndexInv' /\ [Next]_vars => [R!Next]_(R!vars)
<1> SUFFICES ASSUME IndexInv, IndexInv', [Next]_vars PROVE [R!Next]_(R!vars)
    OBVIOUS
<1> USE HubAssumption DEF HubAssumption
<1>1. ASSUME NEW s \in Sessions, Subscribe(s) PROVE R!Connect(s)
    <2>1. phase[s] = "new" /\ ~Registered(s) /\ phase'[s] # "new"
        BY <1>1 DEF Subscribe, IndexInv, SessionPhases, HubIndexConsistent, TypeInv, TypeOK, Registered
    <2>2. \A t \in Sessions : Registered(t)' <=> Registered(t) \/ t = s
        BY <1>1 DEF Subscribe, IndexInv, TypeInv, TypeOK, Registered
    <2>3. \A t \in Sessions \ {s} : phase'[t] = phase[t]
        BY <1>1 DEF Subscribe, IndexInv, TypeInv, TypeOK
    <2>4. Live' = Live \union {s} /\ s \notin Live
        BY <2>1, <2>2 DEF Live
    <2>5. Ended' = Ended /\ s \notin Ended
        BY <2>1, <2>2, <2>3 DEF Ended
    <2>6. OnlineUserIDs' = OnlineUserIDs \union {UserOf[s]}
        BY <2>4, OnlineIsLive, OnlineIsLiveNext DEF OnlineFollowsLive
    <2> QED BY <2>4, <2>5, <2>6 DEF R!Connect, Live, Ended
<1>2. ASSUME NEW s \in Sessions, Unsubscribe(s) PROVE R!Disconnect(s)
    <2>1. phase[s] = "idle" /\ Registered(s) /\ phase'[s] = "closing"
        BY <1>2 DEF Unsubscribe, IndexInv, SessionPhases, TypeInv, TypeOK
    <2>2. \A t \in Sessions : Registered(t)' <=> Registered(t) /\ t # s
        BY <1>2 DEF Unsubscribe, IndexInv, HubIndexConsistent, TypeInv, TypeOK, Registered
    <2>3. \A t \in Sessions \ {s} : phase'[t] = phase[t]
        BY <1>2 DEF Unsubscribe, IndexInv, TypeInv, TypeOK
    <2>4. Live' = Live \ {s} /\ s \in Live
        BY <2>1, <2>2 DEF Live
    <2>5. Ended' = Ended \union {s}
        BY <2>1, <2>2, <2>3 DEF Ended
    <2>6. OnlineUserIDs' = {UserOf[t] : t \in Live \ {s}}
        BY <2>4, OnlineIsLiveNext DEF OnlineFollowsLive
    <2> QED BY <2>4, <2>5, <2>6 DEF R!Disconnect, Live, Ended
<1> USE DEF IndexInv, TypeInv, TypeOK
<1>3. ASSUME NEW s \in Sessions, Step(s) PROVE UNCHANGED R!vars
    <2>1. CASE CloseChannel(s) \/ SnapshotPresence(s) \/ Return(s)
        BY <2>1, RegistryStutter DEF CloseChannel, SnapshotPresence, Return
    <2>2. CASE \E t \in Sessions : Send(s, t)
        BY <2>2, RegistryStutter DEF Send
    <2>3. CASE \E t \in Sessions : SendPanics(s, t)
        BY <2>3, RegistryStutter DEF SendPanics
    <2> QED BY <1>3, <2>1, <2>2, <2>3 DEF Step
<1>4. ASSUME NEW s \in Sessions, NEW r \in Rooms, JoinRoom(s, r) \/ LeaveRoom(s, r)
      PROVE  UNCHANGED R!vars
    BY <1>4, RegistryStutter DEF JoinRoom, LeaveRoom
<1>5. ASSUME NEW s \in Sessions, NEW r \in Rooms,
             PublishRoom(s, r) \/ \E u \in Users : RemoveUserFromRoom(s, u, r)
      PROVE  UNCHANGED R!vars
    BY <1>5, RegistryStutter DEF RemoveUserFromRoom, PublishRoom, StartSending, SubsOf
<1>6. ASSUME NEW s \in Sessions, NEW u \in Users, PublishUser(s, u) PROVE UNCHANGED R!vars
    BY <1>6, RegistryStutter DEF PublishUser, StartSending
<1>7. ASSUME NEW s \in Sessions, Receive(s) PROVE UNCHANGED R!vars
    BY <1>7, RegistryStutter DEF Receive
<1>8. CASE UNCHANGED vars
    BY <1>8, RegistryStutter DEF vars
<1> QED
    BY <1>1, <1>2, <1>3, <1>4, <1>5, <1>6, <1>7, <1>8 DEF Next, Call, R!Next

\* Read through its session counts, the hub is the presence registry: a
\* user is online from the lock section of their first Subscribe to that of
\* their last Unsubscribe (hub.go:46-88 and 131-145; SPEC.md:105).
THEOREM HubImplementsRegistry == Spec => RegistrySpec
<1>1. Init => R!Init
    BY RegistryInit
<1>2. IndexInv /\ IndexInv' /\ [Next]_vars => [R!Next]_(R!vars)
    BY RegistryStep
<1> QED BY <1>1, <1>2, IndexInit, IndexStep, PTL DEF Spec, RegistrySpec, R!Spec

-----------------------------------------------------------------------------
(* Delivery.  A channel changes by an event offered at its end or taken    *)
(* from its front.                                                         *)
LEMMA OfferElements ==
    ASSUME NEW q \in Seq(Events), NEW e \in Events, NEW i \in DOMAIN Offer(q, e)
    PROVE  \/ i \in DOMAIN q /\ Offer(q, e)[i] = q[i]
           \/ i = Len(q) + 1 /\ Offer(q, e)[i] = e
<1>1. CASE Len(q) < ChCap
    BY <1>1, AppendProperties DEF Offer
<1>2. CASE ~(Len(q) < ChCap)
    BY <1>2 DEF Offer
<1> QED BY <1>1, <1>2

LEMMA TailElements ==
    ASSUME NEW q \in Seq(Events), Len(q) > 0, NEW i \in DOMAIN Tail(q)
    PROVE  i \in Int /\ i + 1 \in DOMAIN q /\ Tail(q)[i] = q[i + 1]
BY HeadTailProperties

\* What holds of every queued event and of every event on its way holds of
\* every queued event after a send or a receive.
LEMMA QueuedAfter ==
    ASSUME TypeInv, NEW s \in Sessions, NEW t \in Sessions, Send(s, t) \/ Receive(s),
           NEW x \in Sessions, NEW i \in DOMAIN ch'[x]
    PROVE  \/ \E j \in DOMAIN ch[x] : ch'[x][i] = ch[x][j]
           \/ x = t /\ ch'[x][i] = ev[s] /\ phase[s] = "sending" /\ t \in to[s]
<1>1. CASE Send(s, t)
    <2>1. ev[s] \in Events /\ ch[t] \in Seq(Events) /\ ch' = [ch EXCEPT ![t] = Offer(ch[t], ev[s])]
        BY <1>1 DEF Send, TypeInv, TypeOK, EventInHand
    <2>2. CASE x = t
        BY <1>1, <2>1, <2>2, OfferElements DEF Send, TypeInv, TypeOK
    <2>3. CASE x # t
        BY <2>1, <2>3 DEF TypeInv, TypeOK
    <2> QED BY <2>2, <2>3
<1>2. CASE Receive(s)
    <2>1. ch[s] \in Seq(Events) /\ Len(ch[s]) > 0 /\ ch' = [ch EXCEPT ![s] = Tail(ch[s])]
        BY <1>2 DEF Receive, TypeInv, TypeOK
    <2>2. CASE x = s
        BY <2>1, <2>2, TailElements DEF TypeInv, TypeOK
    <2>3. CASE x # s
        BY <2>1, <2>3 DEF TypeInv, TypeOK
    <2> QED BY <2>2, <2>3
<1> QED BY <1>1, <1>2

-----------------------------------------------------------------------------
(* Events for one user.                                                    *)
Meant(t, e) == e.kind \in {"user", "room_removed"} => e.of = UserOf[t]

\* A presence event may go to anyone, and is all a session announces.
AddressInv ==
    /\ \A t \in Sessions : \A i \in DOMAIN ch[t] : Meant(t, ch[t][i])
    /\ \A s \in Sessions : phase[s] = "sending" => \A t \in to[s] : Meant(t, ev[s])
    /\ \A s \in Sessions : phase[s] = "announcing" => ev[s].kind \in {"online", "offline"}
    /\ \A s \in Sessions : phase[s] = "closing" /\ ev[s] # NoEvent => ev[s].kind = "offline"

LEMMA AddressStep == IndexInv /\ AddressInv /\ [Next]_vars => AddressInv'
<1> SUFFICES ASSUME IndexInv, AddressInv, [Next]_vars PROVE AddressInv'
    OBVIOUS
<1>0. TypeInv /\ TypeOK /\ HubIndexConsistent /\ UserOf \in [Sessions -> Users]
    BY HubAssumption DEF IndexInv, TypeInv, HubAssumption
<1> USE DEF TypeOK, AddressInv, Meant
<1>1. ASSUME NEW s \in Sessions, Subscribe(s) \/ Unsubscribe(s) PROVE AddressInv'
    <2>1. /\ ch' = ch /\ to' = to
          /\ \A x \in Sessions \ {s} : phase'[x] = phase[x] /\ ev'[x] = ev[x]
        BY <1>0, <1>1 DEF Subscribe, Unsubscribe
    <2>2. /\ phase'[s] \in {"announcing", "idle", "closing"}
          /\ phase'[s] = "announcing" => ev'[s].kind = "online"
          /\ phase'[s] = "closing" => ev'[s] = NoEvent \/ ev'[s].kind = "offline"
        BY <1>0, <1>1 DEF Subscribe, Unsubscribe, NewEvent
    <2> QED BY <2>1, <2>2
<1>2. ASSUME NEW s \in Sessions, CloseChannel(s) PROVE AddressInv'
    BY <1>0, <1>2 DEF CloseChannel
<1>3. ASSUME NEW s \in Sessions, SnapshotPresence(s) PROVE AddressInv'
    BY <1>0, <1>3 DEF SnapshotPresence
<1>4. ASSUME NEW s \in Sessions, NEW r \in Rooms, JoinRoom(s, r) \/ LeaveRoom(s, r)
      PROVE  AddressInv'
    BY <1>4 DEF JoinRoom, LeaveRoom
<1>5. ASSUME NEW s \in Sessions, NEW u \in Users, NEW r \in Rooms, RemoveUserFromRoom(s, u, r)
      PROVE  AddressInv'
    BY <1>0, <1>5 DEF RemoveUserFromRoom, StartSending, NewEvent, SubsOf
<1>6. ASSUME NEW s \in Sessions, NEW r \in Rooms, PublishRoom(s, r) PROVE AddressInv'
    BY <1>0, <1>6 DEF PublishRoom, StartSending, NewEvent
<1>7. ASSUME NEW s \in Sessions, NEW u \in Users, PublishUser(s, u) PROVE AddressInv'
    <2>1. \A t \in users[u] : UserOf[t] = u
        BY <1>0 DEF HubIndexConsistent
    <2> QED BY <1>0, <1>7, <2>1 DEF PublishUser, StartSending, NewEvent
<1>8. ASSUME NEW s \in Sessions, NEW t \in Sessions, Send(s, t) PROVE AddressInv'
    <2>1. ASSUME NEW x \in Sessions, NEW i \in DOMAIN ch'[x] PROVE Meant(x, ch'[x][i])
        <3>1. \/ \E j \in DOMAIN ch[x] : ch'[x][i] = ch[x][j]
              \/ x = t /\ ch'[x][i] = ev[s] /\ phase[s] = "sending" /\ t \in to[s]
            BY <1>0, <1>8, QueuedAfter
        <3> QED BY <3>1
    <2> QED BY <1>0, <1>8, <2>1 DEF Send
<1>9. ASSUME NEW s \in Sessions, Receive(s) PROVE AddressInv'
    <2>1. ASSUME NEW x \in Sessions, NEW i \in DOMAIN ch'[x] PROVE Meant(x, ch'[x][i])
        <3>1. \/ \E j \in DOMAIN ch[x] : ch'[x][i] = ch[x][j]
              \/ x = s /\ ch'[x][i] = ev[s] /\ phase[s] = "sending" /\ s \in to[s]
            BY <1>0, <1>9, QueuedAfter
        <3> QED BY <3>1
    <2> QED BY <1>0, <1>9, <2>1 DEF Receive
<1>10. ASSUME NEW s \in Sessions, NEW t \in Sessions, SendPanics(s, t) PROVE AddressInv'
    BY <1>0, <1>10 DEF SendPanics
<1>11. ASSUME NEW s \in Sessions, Return(s) PROVE AddressInv'
    BY <1>0, <1>11 DEF Return
<1>12. CASE UNCHANGED vars
    BY <1>12 DEF vars
<1> QED
    BY <1>1, <1>2, <1>3, <1>4, <1>5, <1>6, <1>7, <1>8, <1>9, <1>10, <1>11, <1>12
    DEF Next, Call, Step

\* An event for one user is queued at, or on its way to, sessions of that
\* user only, though the room it is about is shared and sessions come and go
\* between the snapshot and the sends (hub.go:110-129, 160-170).
THEOREM AddressedOnly == Spec => []AddressedToUser
<1>1. Init => AddressInv
    BY DEF Init, AddressInv
<1>2. TypeInv /\ AddressInv => AddressedToUser
    BY DEF AddressInv, AddressedToUser, Queued, InFlight, Meant
<1>3. IndexInv => TypeInv
    BY DEF IndexInv
<1> QED BY <1>1, <1>2, <1>3, IndexInit, IndexStep, AddressStep, PTL DEF Spec

-----------------------------------------------------------------------------
(* Order.  What a session queues anywhere is older than the event it is    *)
(* sending wherever that is still to be sent, and older than any it will   *)
(* make.                                                                   *)
HasEvent(s) == phase[s] \in {"closing", "announcing", "sending"} /\ ev[s] # NoEvent

\* The sends of ev[s] to t are still to come.
Owes(s, t) == HasEvent(s) /\ (phase[s] = "sending" => t \in to[s])

OwnEvent == \A s \in Sessions : HasEvent(s) => ev[s].from = s /\ ev[s].n < made[s]

QueuedMade == \A t \in Sessions : \A i \in DOMAIN ch[t] : ch[t][i].n < made[ch[t][i].from]

QueuedOlder ==
    \A s, t \in Sessions : Owes(s, t) =>
        \A i \in DOMAIN ch[t] : ch[t][i].from = s => ch[t][i].n < ev[s].n

QueuedInOrder ==
    \A t \in Sessions : \A i, j \in DOMAIN ch[t] :
        i < j /\ ch[t][i].from = ch[t][j].from => ch[t][i].n < ch[t][j].n

OrderInv == OwnEvent /\ QueuedMade /\ QueuedOlder /\ QueuedInOrder

\* The steps that make an event, number made[s], and queue nothing.
LEMMA MakeOrder ==
    ASSUME TypeInv, OrderInv, NEW s \in Sessions, ch' = ch,
           \A x \in Sessions \ {s} :
               phase'[x] = phase[x] /\ ev'[x] = ev[x] /\ to'[x] = to[x] /\ made'[x] = made[x],
           made'[s] \in Nat, made[s] =< made'[s],
           HasEvent(s)' => ev'[s].from = s /\ ev'[s].n = made[s] /\ made'[s] = made[s] + 1
    PROVE  OrderInv'
<1>0. ch \in [Sessions -> Seq(Events)] /\ made \in [Sessions -> Nat]
    BY DEF TypeInv, TypeOK
<1>1. ASSUME NEW t \in Sessions, NEW i \in DOMAIN ch[t]
      PROVE  ch[t][i].from \in Sessions /\ ch[t][i].n \in Nat
    <2>1. ch[t][i] \in Events
        BY <1>0
    <2> QED BY <2>1 DEF Events
<1>2. OwnEvent'
    <2> SUFFICES ASSUME NEW x \in Sessions, HasEvent(x)'
                 PROVE  ev'[x].from = x /\ ev'[x].n < made'[x]
        BY DEF OwnEvent
    <2>1. CASE x = s
        BY <1>0, <2>1
    <2>2. CASE x # s
        BY <2>2 DEF OrderInv, OwnEvent, HasEvent
    <2> QED BY <2>1, <2>2
<1>3. \A x \in Sessions : made[x] \in Nat /\ made'[x] \in Nat /\ made[x] =< made'[x]
    BY <1>0
<1>6. QueuedMade'
    <2> SUFFICES ASSUME NEW t \in Sessions, NEW i \in DOMAIN ch[t]
                 PROVE  ch[t][i].n < made'[ch[t][i].from]
        BY DEF QueuedMade
    <2>1. ch[t][i].n < made[ch[t][i].from]
        BY DEF OrderInv, QueuedMade
    <2> QED BY <1>1, <1>3, <2>1
<1>4. QueuedOlder'
    <2> SUFFICES ASSUME NEW x \in Sessions, NEW t \in Sessions, Owes(x, t)',
                        NEW i \in DOMAIN ch[t], ch[t][i].from = x
                 PROVE  ch[t][i].n < ev'[x].n
        BY DEF QueuedOlder
    <2>1. CASE x = s
        BY <2>1 DEF OrderInv, QueuedMade, Owes
    <2>2. CASE x # s
        BY <2>2 DEF OrderInv, QueuedOlder, Owes, HasEvent
    <2> QED BY <2>1, <2>2
<1>5. QueuedInOrder'
    BY DEF OrderInv, QueuedInOrder
<1> QED BY <1>2, <1>4, <1>5, <1>6 DEF OrderInv

\* The steps that make and queue nothing, and owe no more than before.
LEMMA QuietOrder ==
    ASSUME OrderInv, NEW s \in Sessions, ch' = ch, made' = made,
           \A x \in Sessions : HasEvent(x)' => HasEvent(x) /\ ev'[x] = ev[x],
           \A x, t \in Sessions : Owes(x, t)' => Owes(x, t)
    PROVE  OrderInv'
<1>1. \A x, t \in Sessions : Owes(x, t)' => ev'[x] = ev[x]
    BY DEF Owes
<1> QED BY <1>1 DEF OrderInv, OwnEvent, QueuedMade, QueuedOlder, QueuedInOrder

LEMMA OrderStep == TypeInv /\ OrderInv /\ [Next]_vars => OrderInv'
<1> SUFFICES ASSUME TypeInv, OrderInv, [Next]_vars PROVE OrderInv'
    OBVIOUS
<1>0. TypeOK /\ EventInHand /\ NoEvent \notin Events
    BY EventKinds DEF TypeInv
<1>1. ASSUME NEW s \in Sessions, Subscribe(s) \/ Unsubscribe(s) PROVE OrderInv'
    <2>1. made \in [Sessions -> Nat] /\ ch' = ch
        BY <1>0, <1>1 DEF Subscribe, Unsubscribe, TypeOK
    <2>2. \A x \in Sessions \ {s} :
              phase'[x] = phase[x] /\ ev'[x] = ev[x] /\ to'[x] = to[x] /\ made'[x] = made[x]
        BY <1>0, <1>1 DEF Subscribe, Unsubscribe, TypeOK
    <2>3. made'[s] \in Nat /\ made[s] =< made'[s]
        BY <1>0, <1>1 DEF Subscribe, Unsubscribe, TypeOK
    <2>4. ev'[s] = NoEvent \/ (ev'[s].from = s /\ ev'[s].n = made[s] /\ made'[s] = made[s] + 1)
        BY <1>0, <1>1 DEF Subscribe, Unsubscribe, NewEvent, TypeOK
    <2> QED BY <2>1, <2>2, <2>3, <2>4, MakeOrder DEF HasEvent
<1>2. ASSUME NEW s \in Sessions, NEW kind, NEW of, NEW targets, ch' = ch,
             StartSending(s, NewEvent(s, kind, of), targets)
      PROVE  OrderInv'
    <2>1. made \in [Sessions -> Nat] /\ made' = [made EXCEPT ![s] = made[s] + 1]
        BY <1>0, <1>2 DEF StartSending, TypeOK
    <2>2. \A x \in Sessions \ {s} :
              phase'[x] = phase[x] /\ ev'[x] = ev[x] /\ to'[x] = to[x] /\ made'[x] = made[x]
        BY <1>0, <1>2 DEF StartSending, TypeOK
    <2>3. ev'[s].from = s /\ ev'[s].n = made[s]
        BY <1>0, <1>2 DEF StartSending, NewEvent, TypeOK
    <2> QED BY <1>2, <2>1, <2>2, <2>3, MakeOrder
<1>3. ASSUME NEW s \in Sessions,
             \/ \E r \in Rooms : PublishRoom(s, r)
             \/ \E u \in Users, r \in Rooms : RemoveUserFromRoom(s, u, r)
             \/ \E u \in Users : PublishUser(s, u)
      PROVE  OrderInv'
    BY <1>2, <1>3 DEF PublishRoom, RemoveUserFromRoom, PublishUser
<1>4. ASSUME NEW s \in Sessions, CloseChannel(s) \/ SnapshotPresence(s) PROVE OrderInv'
    BY <1>0, <1>4, QuietOrder DEF CloseChannel, SnapshotPresence, HasEvent, Owes, TypeOK
<1>5. ASSUME NEW s \in Sessions, NEW r \in Rooms, JoinRoom(s, r) \/ LeaveRoom(s, r)
      PROVE  OrderInv'
    BY <1>5, QuietOrder DEF JoinRoom, LeaveRoom, HasEvent, Owes
<1>6. ASSUME NEW s \in Sessions, NEW t \in Sessions, SendPanics(s, t) PROVE OrderInv'
    BY <1>0, <1>6, QuietOrder DEF SendPanics, HasEvent, Owes, TypeOK
<1>7. ASSUME NEW s \in Sessions, Return(s) PROVE OrderInv'
    BY <1>0, <1>7, QuietOrder DEF Return, HasEvent, Owes, TypeOK
\* The event goes behind all that t holds of s, and is owed to t no more.
<1>8. ASSUME NEW s \in Sessions, NEW t \in Sessions, Send(s, t) PROVE OrderInv'
    <2>1. /\ ev[s] \in Events /\ Owes(s, t) /\ ev[s].from = s /\ ev[s].n < made[s]
          /\ ch' = [ch EXCEPT ![t] = Offer(ch[t], ev[s])]
          /\ to' = [to EXCEPT ![s] = to[s] \ {t}]
          /\ UNCHANGED <<phase, ev, made>>
        BY <1>0, <1>8 DEF Send, EventInHand, Owes, HasEvent, OrderInv, OwnEvent, TypeOK
    <2>2. OwnEvent'
        BY <2>1 DEF OrderInv, OwnEvent, HasEvent
    <2>3. QueuedMade'
        BY <1>8, <2>1, QueuedAfter DEF OrderInv, QueuedMade
    <2>4. \A x, y \in Sessions : Owes(x, y)' => Owes(x, y) /\ ~(x = s /\ y = t)
        BY <1>0, <1>8, <2>1 DEF Owes, HasEvent, Send, TypeOK
    <2>5. QueuedOlder'
        BY <1>8, <2>1, <2>4, QueuedAfter DEF OrderInv, QueuedOlder
    <2>6. ASSUME NEW x \in Sessions, NEW i \in DOMAIN ch'[x], NEW j \in DOMAIN ch'[x],
                 i < j, ch'[x][i].from = ch'[x][j].from
          PROVE  ch'[x][i].n < ch'[x][j].n
        <3>1. CASE x # t
            BY <1>0, <2>1, <2>6, <3>1 DEF OrderInv, QueuedInOrder, TypeOK
        <3>2. CASE x = t
            <4>1. ch[t] \in Seq(Events) /\ ch'[t] = Offer(ch[t], ev[s])
                BY <1>0, <2>1 DEF TypeOK
            <4>2. i \in DOMAIN ch[t] /\ ch'[t][i] = ch[t][i]
                <5>1. i \in Nat /\ j \in Nat /\ j =< Len(ch[t]) + 1
                    BY <2>1, <2>6, <3>2, <4>1, OfferElements, AppendProperties DEF Offer
                <5> QED BY <2>1, <2>6, <3>2, <4>1, <5>1, OfferElements
            <4>3. CASE j \in DOMAIN ch[t] /\ ch'[t][j] = ch[t][j]
                BY <2>6, <3>2, <4>2, <4>3 DEF OrderInv, QueuedInOrder
            <4>4. CASE ch'[t][j] = ev[s]
                BY <2>1, <2>6, <3>2, <4>2, <4>4 DEF OrderInv, QueuedOlder
            <4> QED BY <2>1, <2>6, <3>2, <4>1, <4>3, <4>4, OfferElements
        <3> QED BY <3>1, <3>2
    <2> QED BY <2>2, <2>3, <2>5, <2>6 DEF OrderInv, QueuedInOrder
<1>9. ASSUME NEW s \in Sessions, Receive(s) PROVE OrderInv'
    <2>1. /\ ch[s] \in Seq(Events) /\ Len(ch[s]) > 0
          /\ ch' = [ch EXCEPT ![s] = Tail(ch[s])]
          /\ UNCHANGED <<phase, ev, made, to>>
        BY <1>0, <1>9 DEF Receive, TypeOK
    <2>2. \A x \in Sessions : \A i \in DOMAIN ch'[x] : \E j \in DOMAIN ch[x] : ch'[x][i] = ch[x][j]
        BY <1>0, <2>1, TailElements DEF TypeOK
    <2>3. OwnEvent' /\ \A x, y \in Sessions : Owes(x, y)' = Owes(x, y)
        BY <2>1 DEF OrderInv, OwnEvent, HasEvent, Owes
    <2>4. QueuedMade' /\ QueuedOlder'
        BY <2>1, <2>2, <2>3 DEF OrderInv, QueuedMade, QueuedOlder
    <2>5. ASSUME NEW x \in Sessions, NEW i \in DOMAIN ch'[x], NEW j \in DOMAIN ch'[x],
                 i < j, ch'[x][i].from = ch'[x][j].from
          PROVE  ch'[x][i].n < ch'[x][j].n
        <3>1. CASE x # s
            BY <1>0, <2>1, <2>5, <3>1 DEF OrderInv, QueuedInOrder, TypeOK
        <3>2. CASE x = s
            <4>1. /\ i + 1 \in DOMAIN ch[s] /\ ch'[s][i] = ch[s][i + 1]
                  /\ j + 1 \in DOMAIN ch[s] /\ ch'[s][j] = ch[s][j + 1]
                  /\ i + 1 < j + 1
                BY <1>0, <2>1, <2>5, <3>2, TailElements DEF TypeOK
            <4> QED BY <2>5, <3>2, <4>1 DEF OrderInv, QueuedInOrder
        <3> QED BY <3>1, <3>2
    <2> QED BY <2>3, <2>4, <2>5 DEF OrderInv, QueuedInOrder
<1>10. CASE UNCHANGED vars
    <2>1. UNCHANGED <<phase, ev, to, made, ch>>
        BY <1>10 DEF vars
    <2> QED BY <2>1
            DEF OrderInv, OwnEvent, QueuedMade, QueuedOlder, QueuedInOrder, Owes, HasEvent
<1> QED
    BY <1>1, <1>2, <1>3, <1>4, <1>5, <1>6, <1>7, <1>8, <1>9, <1>10 DEF Next, Call, Step

\* A subscriber gets the events of one publisher in the order it made them
\* and none of them twice, for any number of publishers sending into the
\* same channel at once (hub.go:147-187).
THEOREM FifoDelivery == Spec => []FifoPerPublisher
<1>1. Init => OrderInv
    BY DEF Init, OrderInv, OwnEvent, QueuedMade, QueuedOlder, QueuedInOrder, Owes, HasEvent
<1>2. TypeInv /\ OrderInv => FifoPerPublisher
    BY EventKinds
    DEF TypeInv, EventInHand, OrderInv, QueuedInOrder, QueuedOlder, Owes, HasEvent, FifoPerPublisher
<1> QED BY <1>1, <1>2, TypeInit, TypeStep, OrderStep, PTL DEF Spec

-----------------------------------------------------------------------------
(* What a send on a closed channel takes: a snapshot of somebody else, and *)
(* the recipient's whole Unsubscribe after it.                             *)

\* Only a call that sends, or that panicked, has sessions left to reach, and
\* a session that is among its own is still registered.
SnapshotInHand ==
    \A s \in Sessions :
        /\ phase[s] \notin {"sending", "panicked"} => to[s] = {}
        /\ s \in to[s] => Registered(s)

\* A session does not close its own channel under its own publication.
OwnChannelOpen == \A s \in Sessions : s \in to[s] => chan[s] = "open"

\* A session enters a snapshot with its channel open.
SnapshotsOpen ==
    [][\A s \in Sessions : \A t \in to'[s] \ to[s] : chan[t] = "open" /\ chan'[t] = "open"]_vars

OpenStep ==
    \A s \in Sessions : \A t \in to'[s] \ to[s] : chan[t] = "open" /\ chan'[t] = "open"

LEMMA SnapshotStep ==
    IndexInv /\ SnapshotInHand /\ [Next]_vars => SnapshotInHand' /\ OpenStep
<1> SUFFICES ASSUME IndexInv, SnapshotInHand, [Next]_vars PROVE SnapshotInHand' /\ OpenStep
    OBVIOUS
<1>0. /\ to \in [Sessions -> SUBSET Sessions] /\ phase \in [Sessions -> Phases]
      /\ users \in [Users -> SUBSET Sessions] /\ rooms \in [Rooms -> SUBSET Sessions]
      /\ UserOf \in [Sessions -> Users]
      /\ \A r \in Rooms : \A t \in rooms[r] : Registered(t)
      /\ \A u \in Users : \A t \in users[u] : UserOf[t] = u /\ Registered(t)
      /\ \A t \in Sessions : Registered(t) => chan[t] = "open"
    BY HubAssumption
    DEF HubAssumption, IndexInv, TypeInv, TypeOK, HubIndexConsistent, Registered
\* A publication: every session it collects is registered.
<1>1. ASSUME NEW s \in Sessions, NEW targets \in SUBSET Sessions,
             phase[s] \in {"idle", "announcing"}, users' = users, chan' = chan,
             to' = [to EXCEPT ![s] = targets], phase' = [phase EXCEPT ![s] = "sending"],
             \A t \in targets : Registered(t)
      PROVE  SnapshotInHand' /\ OpenStep
    BY <1>0, <1>1 DEF SnapshotInHand, OpenStep, Registered
<1>2. ASSUME NEW s \in Sessions, Subscribe(s) PROVE SnapshotInHand' /\ OpenStep
    BY <1>0, <1>2 DEF Subscribe, SnapshotInHand, OpenStep, Registered
<1>3. ASSUME NEW s \in Sessions, Unsubscribe(s) PROVE SnapshotInHand' /\ OpenStep
    BY <1>0, <1>3 DEF Unsubscribe, SnapshotInHand, OpenStep, Registered
<1>4. ASSUME NEW s \in Sessions, CloseChannel(s) PROVE SnapshotInHand' /\ OpenStep
    BY <1>0, <1>4 DEF CloseChannel, SnapshotInHand, OpenStep, Registered
<1>5. ASSUME NEW s \in Sessions, SnapshotPresence(s) PROVE SnapshotInHand' /\ OpenStep
    <2> DEFINE targets == UNION {rooms[r] : r \in Rooms}
    <2>1. targets \in SUBSET Sessions /\ \A t \in targets : Registered(t)
        BY <1>0
    <2>2. /\ phase[s] = "announcing" /\ users' = users /\ chan' = chan
          /\ to' = [to EXCEPT ![s] = targets] /\ phase' = [phase EXCEPT ![s] = "sending"]
        BY <1>5 DEF SnapshotPresence
    <2> HIDE DEF targets
    <2> QED BY <1>1, <2>1, <2>2
<1>6. ASSUME NEW s \in Sessions, NEW u \in Users, NEW r \in Rooms, RemoveUserFromRoom(s, u, r)
      PROVE  SnapshotInHand' /\ OpenStep
    <2>1. SubsOf(u, r) \in SUBSET Sessions /\ \A t \in SubsOf(u, r) : Registered(t)
        BY <1>0 DEF SubsOf
    <2>2. /\ phase[s] = "idle" /\ users' = users /\ chan' = chan
          /\ to' = [to EXCEPT ![s] = SubsOf(u, r)] /\ phase' = [phase EXCEPT ![s] = "sending"]
        BY <1>6 DEF RemoveUserFromRoom, StartSending
    <2> QED BY <1>1, <2>1, <2>2
<1>7. ASSUME NEW s \in Sessions, NEW r \in Rooms, PublishRoom(s, r)
      PROVE  SnapshotInHand' /\ OpenStep
    <2>1. rooms[r] \in SUBSET Sessions /\ \A t \in rooms[r] : Registered(t)
        BY <1>0
    <2>2. /\ phase[s] = "idle" /\ users' = users /\ chan' = chan
          /\ to' = [to EXCEPT ![s] = rooms[r]] /\ phase' = [phase EXCEPT ![s] = "sending"]
        BY <1>7 DEF PublishRoom, StartSending
    <2> QED BY <1>1, <2>1, <2>2
<1>8. ASSUME NEW s \in Sessions, NEW u \in Users, PublishUser(s, u)
      PROVE  SnapshotInHand' /\ OpenStep
    <2>1. users[u] \in SUBSET Sessions /\ \A t \in users[u] : Registered(t)
        BY <1>0
    <2>2. /\ phase[s] = "idle" /\ users' = users /\ chan' = chan
          /\ to' = [to EXCEPT ![s] = users[u]] /\ phase' = [phase EXCEPT ![s] = "sending"]
        BY <1>8 DEF PublishUser, StartSending
    <2> QED BY <1>1, <2>1, <2>2
<1>9. ASSUME NEW s \in Sessions, NEW t \in Sessions, Send(s, t) \/ SendPanics(s, t)
      PROVE  SnapshotInHand' /\ OpenStep
    BY <1>0, <1>9 DEF Send, SendPanics, SnapshotInHand, OpenStep, Registered
<1>10. ASSUME NEW s \in Sessions, Return(s) PROVE SnapshotInHand' /\ OpenStep
    BY <1>0, <1>10 DEF Return, SnapshotInHand, OpenStep, Registered
\* The rest leaves users, phases and snapshots alone.
<1>11. ASSUME UNCHANGED <<users, phase, to>> PROVE SnapshotInHand' /\ OpenStep
    BY <1>11 DEF SnapshotInHand, OpenStep, Registered
<1>12. ASSUME NEW s \in Sessions,
              (\E r \in Rooms : JoinRoom(s, r) \/ LeaveRoom(s, r)) \/ Receive(s)
       PROVE  UNCHANGED <<users, phase, to>>
    BY <1>12 DEF JoinRoom, LeaveRoom, Receive
<1>13. CASE UNCHANGED vars
    BY <1>11, <1>13 DEF vars
<1> QED
    BY <1>2, <1>3, <1>4, <1>5, <1>6, <1>7, <1>8, <1>9, <1>10, <1>11, <1>12, <1>13
    DEF Next, Call, Step

LEMMA SnapshotInit == Init => SnapshotInHand
BY DEF Init, SnapshotInHand

\* A publication never meets the closed channel of its own session: Unsubscribe is
\* called by the same Update loop, or after it, so a panic on a closed channel
\* always takes a second session (hub.go:62-88, 147-195).
THEOREM OwnSendsReturn == Spec => []OwnChannelOpen
<1>1. IndexInv /\ SnapshotInHand => OwnChannelOpen
    BY HubAssumption
    DEF HubAssumption, IndexInv, SnapshotInHand, OwnChannelOpen, HubIndexConsistent, Registered
<1> QED BY <1>1, IndexInit, IndexStep, SnapshotInit, SnapshotStep, PTL DEF Spec

\* Whom a publication collects under the lock has an open channel at that
\* moment: a panic takes the lock section and the close of an Unsubscribe
\* between the snapshot and the send (hub.go:62-88, 110-129, 147-187).
THEOREM SnapshotsAreOpen == Spec => SnapshotsOpen
BY IndexInit, IndexStep, SnapshotInit, SnapshotStep, PTL DEF Spec, SnapshotsOpen, OpenStep

-----------------------------------------------------------------------------
(* Presence.  The clients restrict the hub and never break it, so what is  *)
(* shown above carries over.                                               *)
LEMMA PresenceStep == [PNext]_pvars => [Next]_vars
<1> SUFFICES ASSUME [PNext]_pvars PROVE [Next]_vars
  OBVIOUS
<1>1. ASSUME NEW s \in Sessions, HubCall(s) PROVE Next
  BY <1>1 DEF HubCall, Next, Call
<1>2. ASSUME NEW s \in Sessions, Step(s) PROVE Next
  BY <1>2 DEF Next
<1>3. ASSUME NEW s \in Sessions, LoadOnline(s) \/ Tick(s) PROVE UNCHANGED vars
  BY <1>3 DEF LoadOnline, Tick, vars
<1>4. ASSUME NEW s \in Sessions, HandleEvent(s) PROVE Next
  BY <1>4 DEF HandleEvent, Next
<1>5. CASE UNCHANGED pvars
  BY <1>5 DEF pvars
<1> QED BY <1>1, <1>2, <1>3, <1>4, <1>5 DEF PNext

\* A system of clients is a hub: every behaviour of Presence is one of Hub, so
\* the clients call the hub only in ways the hub's theorems allow for
\* (app.go:161-175, 386-396, 904-917).
THEOREM PresenceImplementsHub == PSpec => Spec
<1>1. PInit => Init
  BY DEF PInit
<1> QED BY <1>1, PresenceStep, PTL DEF PSpec, Spec

\* The maps of the hub agree whatever its clients do.
THEOREM PresenceIndexConsistent == PSpec => []HubIndexConsistent
BY PresenceImplementsHub, IndexConsistent, PTL

-----------------------------------------------------------------------------
(* The map of a client.  An online event names a user, wherever it is.     *)
OfUser(e) == e.kind = "online" => e.of \in Users

OnlineInv ==
    /\ \A t \in Sessions : \A i \in DOMAIN ch[t] : OfUser(ch[t][i])
    /\ \A s \in Sessions : OfUser(ev[s])

PInv == TypeInv /\ OnlineInv /\ PTypeOK

LEMMA PInvInit == PInit => PInv
<1> SUFFICES ASSUME PInit PROVE PInv
  OBVIOUS
<1>1. TypeInv
  BY TypeInit DEF PInit
<1>2. OnlineInv
  BY DEF PInit, Init, OnlineInv, OfUser, NoEvent
<1> QED BY <1>1, <1>2 DEF PInv, PTypeOK, PInit, TypeInv

LEMMA OnlineStep == TypeInv /\ OnlineInv /\ [PNext]_pvars => OnlineInv'
<1> SUFFICES ASSUME TypeInv, OnlineInv, [PNext]_pvars PROVE OnlineInv'
  OBVIOUS
<1>0. UserOf \in [Sessions -> Users] /\ TypeOK
  BY HubAssumption DEF HubAssumption, TypeInv
<1> USE DEF TypeOK, OnlineInv, OfUser
<1>1. ASSUME NEW s \in Sessions, Subscribe(s) PROVE OnlineInv'
  BY <1>0, <1>1 DEF Subscribe, NewEvent, NoEvent
<1>2. ASSUME NEW s \in Sessions, Unsubscribe(s) PROVE OnlineInv'
  BY <1>0, <1>2 DEF Unsubscribe, NewEvent, NoEvent
<1>3. ASSUME NEW s \in Sessions, NEW r \in Rooms, JoinRoom(s, r) \/ LeaveRoom(s, r)
      PROVE  OnlineInv'
  BY <1>3 DEF JoinRoom, LeaveRoom
<1>4. ASSUME NEW s \in Sessions, CloseChannel(s) \/ SnapshotPresence(s) PROVE OnlineInv'
  BY <1>4 DEF CloseChannel, SnapshotPresence
<1>5. ASSUME NEW s \in Sessions, NEW t \in Sessions, Send(s, t) PROVE OnlineInv'
  <2>1. ASSUME NEW x \in Sessions, NEW i \in DOMAIN ch'[x] PROVE OfUser(ch'[x][i])
    <3>1. \/ \E j \in DOMAIN ch[x] : ch'[x][i] = ch[x][j]
          \/ x = t /\ ch'[x][i] = ev[s] /\ phase[s] = "sending" /\ t \in to[s]
      BY <1>5, QueuedAfter
    <3> QED BY <3>1
  <2> QED BY <1>5, <2>1 DEF Send
<1>6. ASSUME NEW s \in Sessions, Receive(s) PROVE OnlineInv'
  <2>1. ASSUME NEW x \in Sessions, NEW i \in DOMAIN ch'[x] PROVE OfUser(ch'[x][i])
    <3>1. \/ \E j \in DOMAIN ch[x] : ch'[x][i] = ch[x][j]
          \/ x = s /\ ch'[x][i] = ev[s] /\ phase[s] = "sending" /\ s \in to[s]
      BY <1>6, QueuedAfter
    <3> QED BY <3>1
  <2> QED BY <1>6, <2>1 DEF Receive
<1>7. ASSUME NEW s \in Sessions, NEW t \in Sessions, SendPanics(s, t) PROVE OnlineInv'
  BY <1>7 DEF SendPanics
<1>8. ASSUME NEW s \in Sessions, Return(s) PROVE OnlineInv'
  BY <1>0, <1>8 DEF Return, NoEvent
<1>9. ASSUME NEW s \in Sessions, LoadOnline(s) \/ Tick(s) PROVE OnlineInv'
  BY <1>9 DEF LoadOnline, Tick, vars
<1>10. CASE UNCHANGED pvars
  BY <1>10 DEF pvars, vars
<1> QED
  BY <1>1, <1>2, <1>3, <1>4, <1>5, <1>6, <1>7, <1>8, <1>9, <1>10
  DEF PNext, HubCall, HandleEvent, Step

LEMMA PInvStep == PInv /\ [PNext]_pvars => PInv'
<1> SUFFICES ASSUME PInv, [PNext]_pvars PROVE PInv'
  OBVIOUS
<1>1. TypeInv'
  BY PresenceStep, TypeStep DEF PInv
<1>2. OnlineInv'
  BY OnlineStep DEF PInv
<1>3. online' \in [Sessions -> SUBSET Users] /\ ready' \in [Sessions -> BOOLEAN]
  <2> USE DEF PInv, PTypeOK
  <2>1. ASSUME NEW s \in Sessions, HubCall(s) \/ (Step(s) /\ UNCHANGED client)
        PROVE  UNCHANGED <<online, ready>>
    BY <2>1 DEF HubCall, client
  <2>2. ASSUME NEW s \in Sessions, LoadOnline(s)
        PROVE  online' \in [Sessions -> SUBSET Users] /\ ready' \in [Sessions -> BOOLEAN]
    BY <2>2 DEF LoadOnline, OnlineUserIDs
  <2>3. ASSUME NEW s \in Sessions, HandleEvent(s)
        PROVE  online' \in [Sessions -> SUBSET Users] /\ ready' = ready
    <3>1. ch[s] \in Seq(Events) /\ Len(ch[s]) > 0
      BY <2>3 DEF HandleEvent, Receive, TypeOK
    <3>2. Head(ch[s]) = ch[s][1] /\ 1 \in DOMAIN ch[s]
      BY <3>1
    <3>3. Head(ch[s]).kind = "online" => Head(ch[s]).of \in Users
      BY <3>2 DEF OnlineInv, OfUser
    <3> QED BY <2>3, <3>3 DEF HandleEvent
  <2>4. ASSUME NEW s \in Sessions, Tick(s)
        PROVE  online' \in [Sessions -> SUBSET Users] /\ ready' = ready
    BY <2>4 DEF Tick, Ticked, OnlineUserIDs
  <2>5. CASE UNCHANGED pvars
    BY <2>5 DEF pvars
  <2> QED BY <2>1, <2>2, <2>3, <2>4, <2>5 DEF PNext
<1> QED BY <1>1, <1>2, <1>3 DEF PInv, PTypeOK, TypeInv

\* A client shows users as online and nothing else, and no channel exceeds its
\* capacity (app.go:162-168, 387-392, 670-676; hub.go:190).
THEOREM PresenceTypeCorrect == PSpec => []PTypeOK
<1>1. PInv => PTypeOK
  BY DEF PInv
<1> QED BY <1>1, PInvInit, PInvStep, PTL DEF PSpec

-----------------------------------------------------------------------------
(* Who has left.  An announcement of an arrival is made inside Subscribe,  *)
(* so its session is registered; once that session's Unsubscribe has       *)
(* closed the channel, only a departure is announced.                      *)
ArrivalInv ==
  \A s \in Sessions :
    phase[s] \in {"announcing", "sending"} /\ ev[s].kind = "online"
      => ev[s].of = UserOf[s] /\ chan[s] = "open"

LEMMA ArrivalStep == IndexInv /\ AddressInv /\ ArrivalInv /\ [Next]_vars => ArrivalInv'
<1> SUFFICES ASSUME IndexInv, AddressInv, ArrivalInv, [Next]_vars PROVE ArrivalInv'
  OBVIOUS
<1>0. TypeOK
  BY DEF IndexInv, TypeInv
<1> USE DEF TypeOK, ArrivalInv
<1>1. ASSUME NEW s \in Sessions, Subscribe(s) PROVE ArrivalInv'
  BY <1>0, <1>1 DEF Subscribe, NewEvent
<1>2. ASSUME NEW s \in Sessions, Unsubscribe(s) PROVE ArrivalInv'
  BY <1>0, <1>2 DEF Unsubscribe
<1>3. ASSUME NEW s \in Sessions, CloseChannel(s) PROVE ArrivalInv'
  <2>1. phase'[s] = "announcing" => ev'[s].kind # "online"
    BY <1>0, <1>3 DEF CloseChannel, AddressInv
  <2> QED BY <1>0, <1>3, <2>1 DEF CloseChannel
<1>4. ASSUME NEW s \in Sessions, SnapshotPresence(s) PROVE ArrivalInv'
  BY <1>0, <1>4 DEF SnapshotPresence
<1>5. ASSUME NEW s \in Sessions, NEW r \in Rooms, JoinRoom(s, r) \/ LeaveRoom(s, r)
      PROVE  ArrivalInv'
  BY <1>5 DEF JoinRoom, LeaveRoom
<1>6. ASSUME NEW s \in Sessions,
             \/ \E u \in Users, r \in Rooms : RemoveUserFromRoom(s, u, r)
             \/ \E r \in Rooms : PublishRoom(s, r)
             \/ \E u \in Users : PublishUser(s, u)
      PROVE  ArrivalInv'
  <2>1. PICK e : /\ e.kind # "online"
                 /\ phase' = [phase EXCEPT ![s] = "sending"] /\ ev' = [ev EXCEPT ![s] = e]
                 /\ chan' = chan
    BY <1>6 DEF RemoveUserFromRoom, PublishRoom, PublishUser, StartSending, NewEvent
  <2> QED BY <1>0, <2>1
<1>7. ASSUME NEW s \in Sessions, NEW t \in Sessions, Send(s, t) \/ SendPanics(s, t)
      PROVE  ArrivalInv'
  BY <1>0, <1>7 DEF Send, SendPanics
<1>8. ASSUME NEW s \in Sessions, Return(s) \/ Receive(s) PROVE ArrivalInv'
  BY <1>0, <1>8 DEF Return, Receive
<1>9. CASE UNCHANGED vars
  BY <1>9 DEF vars
<1> HIDE DEF TypeOK, ArrivalInv
<1> QED
  BY <1>1, <1>2, <1>3, <1>4, <1>5, <1>6, <1>7, <1>8, <1>9 DEF Next, Call, Step

LEMMA ArrivalsOnline == IndexInv /\ ArrivalInv => ArrivalsAreTrue
<1> SUFFICES ASSUME IndexInv, ArrivalInv, NEW s \in Sessions, NEW u \in Users,
                    phase[s] \in {"announcing", "sending"}, SaysHere(ev[s], u)
             PROVE  u \in OnlineUserIDs
  BY DEF ArrivalsAreTrue
<1>1. u = UserOf[s] /\ chan[s] = "open"
  BY DEF ArrivalInv, SaysHere
<1>2. s \in Live
  BY <1>1 DEF IndexInv, SessionPhases, Live
<1> QED BY <1>1, <1>2, OnlineIsLive DEF OnlineFollowsLive

LEMMA ArrivalInit == Init => AddressInv /\ ArrivalInv
BY DEF Init, AddressInv, ArrivalInv

\* No announcement says that a user has come who is not online when it is
\* sent: the loop of broadcastPresence ends inside Subscribe, before its
\* session can unsubscribe (hub.go:46-65, 173-195).  Only departures can be
\* old news when they are sent.
THEOREM ArrivalsAnnounced == Spec => []ArrivalsAreTrue
BY IndexInit, IndexStep, AddressStep, ArrivalInit, ArrivalStep, ArrivalsOnline, PTL DEF Spec

-----------------------------------------------------------------------------
(* Ghosts.  What a client will show follows from its map and the order of  *)
(* the announcements queued for it.                                        *)

\* A step that leaves both alone, and every departure still to be told, makes
\* no ghost of a user who was not online before it.
LEMMA GhostKept ==
  ASSUME NEW s \in Sessions, NEW u \in Users, Ghost(s, u)', u \notin OnlineUserIDs,
         WillShow(s, u)' => WillShow(s, u),
         \A t \in Sessions : OnItsWay(t, s, u) => OnItsWay(t, s, u)'
  PROVE  Ghost(s, u)
BY DEF Ghost

LEMMA ShownAlike ==
  ASSUME NEW s \in Sessions, NEW u \in Users, online'[s] = online[s], ch'[s] = ch[s]
  PROVE  WillShow(s, u)' => WillShow(s, u)
BY DEF WillShow

\* Handling the first queued event, or adding or removing other users in the
\* map, does not add to what will be shown.
LEMMA ShownAfterHandling ==
  ASSUME NEW s \in Sessions, NEW u \in Users, ch[s] \in Seq(Events), Len(ch[s]) > 0,
         ch'[s] = Tail(ch[s]), WillShow(s, u)',
         u \in online'[s] =>
            \/ SaysHere(ch[s][1], u)
            \/ u \in online[s] /\ ~SaysGone(ch[s][1], u)
  PROVE  WillShow(s, u)
<1>1. /\ \A i \in DOMAIN ch'[s] :
            i \in Int /\ 1 =< i /\ i + 1 \in DOMAIN ch[s] /\ ch'[s][i] = ch[s][i + 1]
      /\ 1 \in DOMAIN ch[s]
  BY HeadTailProperties
<1>2. \A j \in DOMAIN ch[s] : j = 1 \/ \E i \in DOMAIN ch'[s] : j = i + 1
  <2> SUFFICES ASSUME NEW j \in DOMAIN ch[s], j # 1 PROVE \E i \in DOMAIN ch'[s] : j = i + 1
    OBVIOUS
  <2>1. j \in Int /\ j - 1 \in DOMAIN ch'[s] /\ j = (j - 1) + 1
    BY HeadTailProperties
  <2> QED BY <2>1
<1>3. CASE u \in online'[s] /\ \A i \in DOMAIN ch'[s] : ~SaysGone(ch'[s][i], u)
  <2>1. \A j \in DOMAIN ch[s] : j # 1 => ~SaysGone(ch[s][j], u)
    BY <1>1, <1>2, <1>3
  <2>2. CASE SaysHere(ch[s][1], u)
    <3>1. \A j \in DOMAIN ch[s] : j > 1 => ~SaysGone(ch[s][j], u)
      BY <2>1
    <3> QED BY <1>1, <2>2, <3>1 DEF WillShow
  <2>3. CASE u \in online[s] /\ ~SaysGone(ch[s][1], u)
    BY <2>1, <2>3 DEF WillShow
  <2> QED BY <1>3, <2>2, <2>3
<1>4. ASSUME NEW i \in DOMAIN ch'[s], SaysHere(ch'[s][i], u),
             \A j \in DOMAIN ch'[s] : j > i => ~SaysGone(ch'[s][j], u)
      PROVE  WillShow(s, u)
  <2>1. i + 1 \in DOMAIN ch[s] /\ SaysHere(ch[s][i + 1], u)
    BY <1>1, <1>4
  <2>2. ASSUME NEW j \in DOMAIN ch[s], j > i + 1 PROVE ~SaysGone(ch[s][j], u)
    <3>1. PICK k \in DOMAIN ch'[s] : j = k + 1
      BY <1>1, <1>2, <2>2
    <3>2. k > i
      BY <1>1, <2>2, <3>1
    <3> QED BY <1>1, <1>4, <3>1, <3>2
  <2> QED BY <2>1, <2>2 DEF WillShow
<1> QED BY <1>3, <1>4 DEF WillShow

\* A departure that gets into the channel is the last word on its user, and
\* other events but an arrival change nothing.
LEMMA ShownAfterSend ==
  ASSUME TypeInv, NEW s \in Sessions, NEW u \in Users, NEW t \in Sessions, Send(t, s),
         online' = online, WillShow(s, u)', ~SaysHere(ev[t], u)
  PROVE  /\ WillShow(s, u)
         /\ Len(ch[s]) < ChCap => ~SaysGone(ev[t], u)
<1>1. /\ ch[s] \in Seq(Events) /\ ev[t] \in Events /\ ch'[s] = Offer(ch[s], ev[t])
  BY DEF Send, TypeInv, TypeOK, EventInHand
<1>2. CASE ~(Len(ch[s]) < ChCap)
  BY <1>1, <1>2, ShownAlike DEF Offer
<1>3. CASE Len(ch[s]) < ChCap
  <2> DEFINE n == Len(ch[s]) + 1
  <2>1. /\ \A i \in DOMAIN ch[s] : i \in Int /\ i < n /\ i \in DOMAIN ch'[s] /\ ch'[s][i] = ch[s][i]
        /\ n \in DOMAIN ch'[s] /\ ch'[s][n] = ev[t]
        /\ \A i \in DOMAIN ch'[s] : i \in DOMAIN ch[s] \/ i = n
    BY <1>1, <1>3, AppendProperties DEF Offer
  <2> HIDE DEF n
  <2>2. WillShow(s, u)
    BY <2>1 DEF WillShow
  <2>3. ~SaysGone(ev[t], u)
    <3> SUFFICES ASSUME SaysGone(ev[t], u) PROVE FALSE
      OBVIOUS
    <3>1. PICK i \in DOMAIN ch'[s] :
             /\ SaysHere(ch'[s][i], u)
             /\ \A j \in DOMAIN ch'[s] : j > i => ~SaysGone(ch'[s][j], u)
      BY <2>1 DEF WillShow
    <3> QED BY <2>1, <3>1
  <2> QED BY <2>2, <2>3
<1> QED BY <1>2, <1>3

NoNewGhost(s, u) == Ghost(s, u) \/ \E t \in Sessions : Misses(t, s, u)

GhostInv == IndexInv /\ AddressInv /\ ArrivalInv

\* The lock sections of Subscribe and Unsubscribe: who goes offline has an
\* announcement under way.
LEMMA GhostRegister ==
  ASSUME GhostInv, NEW s \in Sessions, NEW u \in Users, Ghost(s, u)',
         NEW x \in Sessions, Subscribe(x) \/ Unsubscribe(x), UNCHANGED client
  PROVE  NoNewGhost(s, u)
<1>0. /\ TypeOK /\ UserOf \in [Sessions -> Users] /\ online' = online /\ ch' = ch
      /\ u \notin OnlineUserIDs'
  BY HubAssumption
  DEF HubAssumption, GhostInv, IndexInv, TypeInv, client, Subscribe, Unsubscribe, Ghost
<1>1. WillShow(s, u)' => WillShow(s, u)
  BY <1>0, ShownAlike
<1>2. \A t \in Sessions : OnItsWay(t, s, u) => OnItsWay(t, s, u)'
  <2>1. ~OnItsWay(x, s, u)
    BY DEF OnItsWay, Subscribe, Unsubscribe
  <2>2. \A t \in Sessions \ {x} : ev'[t] = ev[t] /\ phase'[t] = phase[t] /\ to'[t] = to[t]
    BY <1>0 DEF Subscribe, Unsubscribe, TypeOK
  <2> QED BY <2>1, <2>2 DEF OnItsWay
<1>3. u \notin OnlineUserIDs
  <2> SUFFICES ASSUME u \in OnlineUserIDs PROVE FALSE
    OBVIOUS
  <2>1. u = UserOf[x] /\ Unsubscribe(x) /\ IsLast(u)
    BY <1>0 DEF OnlineUserIDs, Subscribe, Unsubscribe, IsLast, TypeOK
  <2>2. phase'[x] = "closing" /\ SaysGone(ev'[x], u)
    BY <1>0, <2>1 DEF Unsubscribe, TypeOK, NewEvent, SaysGone
  <2>3. OnItsWay(x, s, u)'
    BY <2>2 DEF OnItsWay
  <2> QED BY <2>3 DEF Ghost
<1> QED BY <1>1, <1>2, <1>3, GhostKept DEF NoNewGhost

\* A send to s: a departure is queued, or meets a full channel.
LEMMA GhostSend ==
  ASSUME GhostInv, NEW s \in Sessions, NEW u \in Users, Ghost(s, u)',
         NEW x \in Sessions, NEW y \in Sessions, Send(x, y), UNCHANGED client
  PROVE  NoNewGhost(s, u)
<1>0. /\ TypeInv /\ TypeOK /\ online' = online /\ presenceCnt' = presenceCnt
      /\ u \notin OnlineUserIDs /\ WillShow(s, u)'
  BY DEF GhostInv, IndexInv, TypeInv, client, Send, Ghost, OnlineUserIDs
<1>1. \A t \in Sessions : /\ ev'[t] = ev[t] /\ phase'[t] = phase[t]
                          /\ t # x \/ y # s => (s \in to[t] => s \in to'[t])
  BY <1>0 DEF Send, TypeOK
<1>2. CASE y # s
  <2>1. ch'[s] = ch[s]
    BY <1>0, <1>2 DEF Send, TypeOK
  <2>2. \A t \in Sessions : OnItsWay(t, s, u) => OnItsWay(t, s, u)'
    BY <1>1, <1>2 DEF OnItsWay
  <2> QED BY <1>0, <2>1, <2>2, ShownAlike, GhostKept DEF NoNewGhost
<1>3. CASE y = s
  <2>1. ~SaysHere(ev[x], u)
    BY <1>0, ArrivalsOnline DEF GhostInv, ArrivalsAreTrue, Send
  <2>2. WillShow(s, u) /\ (Len(ch[s]) < ChCap => ~SaysGone(ev[x], u))
    BY <1>0, <1>3, <2>1, ShownAfterSend
  <2>3. CASE SaysGone(ev[x], u)
    <3>1. Len(ch[s]) = ChCap
      BY <1>0, <2>2, <2>3, HubAssumption DEF TypeOK, HubAssumption
    <3>2. Misses(x, s, u)
      BY <1>3, <2>3, <3>1 DEF Misses
    <3> QED BY <3>2 DEF NoNewGhost
  <2>4. CASE ~SaysGone(ev[x], u)
    <3>1. \A t \in Sessions : OnItsWay(t, s, u) => OnItsWay(t, s, u)'
      BY <1>1, <2>4 DEF OnItsWay
    <3> QED BY <1>0, <2>2, <3>1, GhostKept DEF NoNewGhost
  <2> QED BY <2>3, <2>4
<1> QED BY <1>2, <1>3

\* The other steps of a call: only the snapshot and a panic can lose a departure.
LEMMA GhostCallStep ==
  ASSUME GhostInv, NEW s \in Sessions, NEW u \in Users, Ghost(s, u)', NEW x \in Sessions,
         \/ CloseChannel(x) \/ SnapshotPresence(x) \/ Return(x)
         \/ \E y \in Sessions : SendPanics(x, y),
         UNCHANGED client
  PROVE  NoNewGhost(s, u)
<1>0. /\ TypeOK /\ u \notin OnlineUserIDs
      /\ \A t \in Sessions \ {x} : ev'[t] = ev[t] /\ phase'[t] = phase[t] /\ to'[t] = to[t]
  BY DEF GhostInv, IndexInv, TypeInv, TypeOK, Ghost, OnlineUserIDs,
         CloseChannel, SnapshotPresence, Return, SendPanics
<1>1. WillShow(s, u)' => WillShow(s, u)
  BY ShownAlike DEF client, CloseChannel, SnapshotPresence, Return, SendPanics
<1>2. CASE OnItsWay(x, s, u) => OnItsWay(x, s, u)'
  <2>1. \A t \in Sessions : OnItsWay(t, s, u) => OnItsWay(t, s, u)'
    BY <1>0, <1>2 DEF OnItsWay
  <2> QED BY <1>0, <1>1, <2>1, GhostKept DEF NoNewGhost
<1>3. CASE OnItsWay(x, s, u) /\ ~OnItsWay(x, s, u)'
  <2>1. SaysGone(ev[x], u) /\ ev[x] # NoEvent
    BY <1>3 DEF OnItsWay, SaysGone, NoEvent
  <2>2. ~CloseChannel(x) /\ ~Return(x)
    BY <1>0, <1>3, <2>1 DEF CloseChannel, Return, OnItsWay, TypeOK
  <2>3. SnapshotPresence(x) => s \notin to'[x]
    BY <1>0, <1>3, <2>1 DEF SnapshotPresence, OnItsWay, TypeOK
  <2>4. ASSUME NEW y \in Sessions, SendPanics(x, y) PROVE s \in to[x]
    BY <1>3, <2>4 DEF SendPanics, OnItsWay
  <2>5. Misses(x, s, u)
    BY <2>1, <2>2, <2>3, <2>4 DEF Misses
  <2> QED BY <2>5 DEF NoNewGhost
<1> QED BY <1>2, <1>3

\* What a client does to its own map.
LEMMA GhostClient ==
  ASSUME GhostInv, NEW s \in Sessions, NEW u \in Users, Ghost(s, u)', NEW x \in Sessions,
         PTypeOK, LoadOnline(x) \/ HandleEvent(x) \/ Tick(x)
  PROVE  NoNewGhost(s, u)
<1>0. /\ online \in [Sessions -> SUBSET Users] /\ ch \in [Sessions -> Seq(Events)]
      /\ presenceCnt' = presenceCnt /\ phase' = phase /\ ev' = ev /\ to' = to
  BY DEF PTypeOK, TypeOK, LoadOnline, HandleEvent, Receive, Tick, vars
<1>1. /\ u \notin OnlineUserIDs /\ WillShow(s, u)'
      /\ \A t \in Sessions : OnItsWay(t, s, u) => OnItsWay(t, s, u)'
  BY <1>0 DEF Ghost, OnlineUserIDs, OnItsWay
<1>2. CASE x # s
  <2>1. online'[s] = online[s] /\ ch'[s] = ch[s]
    BY <1>0, <1>2 DEF LoadOnline, HandleEvent, Receive, Tick, vars
  <2> QED BY <1>1, <2>1, ShownAlike, GhostKept DEF NoNewGhost
<1>3. CASE x = s /\ (LoadOnline(s) \/ Tick(s))
  <2>1. ch' = ch /\ (u \in online'[s] => u \in online[s])
    BY <1>0, <1>1, <1>3 DEF LoadOnline, Tick, Ticked, vars
  <2>2. WillShow(s, u)
    BY <1>1, <2>1 DEF WillShow
  <2> QED BY <1>1, <2>2, GhostKept DEF NoNewGhost
<1>4. CASE x = s /\ HandleEvent(s)
  <2>1. /\ ch[s] \in Seq(Events) /\ Len(ch[s]) > 0 /\ ch'[s] = Tail(ch[s])
        /\ online'[s] = IF ch[s][1].kind = "online"
                          THEN online[s] \union {ch[s][1].of} ELSE online[s] \ {ch[s][1].of}
    BY <1>0, <1>4 DEF HandleEvent, Receive
  <2>2. u \in online'[s] =>
           \/ SaysHere(ch[s][1], u)
           \/ u \in online[s] /\ ~SaysGone(ch[s][1], u)
    BY <2>1 DEF SaysHere, SaysGone
  <2>3. WillShow(s, u)
    BY <1>1, <2>1, <2>2, ShownAfterHandling
  <2> QED BY <1>1, <2>3, GhostKept DEF NoNewGhost
<1> QED BY <1>2, <1>3, <1>4

LEMMA GhostStep ==
  GhostInv /\ PInv /\ [PNext]_pvars
    => \A s \in Sessions, u \in Users :
          Ghost(s, u)' => Ghost(s, u) \/ \E t \in Sessions : Misses(t, s, u)
<1> SUFFICES ASSUME GhostInv, PInv, [PNext]_pvars, NEW s \in Sessions, NEW u \in Users,
                    Ghost(s, u)'
             PROVE  NoNewGhost(s, u)
  BY DEF NoNewGhost
<1>1. ASSUME NEW x \in Sessions, Subscribe(x) \/ Unsubscribe(x), UNCHANGED client
      PROVE  NoNewGhost(s, u)
  BY <1>1, GhostRegister
<1>2. ASSUME NEW x \in Sessions, NEW r \in Rooms, JoinRoom(x, r) \/ LeaveRoom(x, r),
             UNCHANGED client
      PROVE  NoNewGhost(s, u)
  BY <1>2 DEF JoinRoom, LeaveRoom, client, NoNewGhost, Ghost, WillShow, OnItsWay, OnlineUserIDs
<1>3. ASSUME NEW x \in Sessions, Step(x), UNCHANGED client PROVE NoNewGhost(s, u)
  BY <1>3, GhostSend, GhostCallStep DEF Step
<1>4. ASSUME NEW x \in Sessions, LoadOnline(x) \/ HandleEvent(x) \/ Tick(x)
      PROVE  NoNewGhost(s, u)
  BY <1>4, GhostClient DEF PInv
<1>5. CASE UNCHANGED pvars
  BY <1>5 DEF pvars, vars, NoNewGhost, Ghost, WillShow, OnItsWay, OnlineUserIDs
<1> QED BY <1>1, <1>2, <1>3, <1>4, <1>5 DEF PNext, HubCall

\* A client comes to show someone who has left only when the announcement
\* of it meets no subscription, a full channel or a panic: an announcement is
\* under way from the moment the count of a user falls to zero until it is
\* queued, and then is the last word on the user, because no arrival sent later
\* is old news (hub.go:46-88, 173-195; app.go:386-396, 670-676).
THEOREM GhostsMissed == PSpec => GhostsWereMissed
<1>1. PInit => Init
  BY DEF PInit
<1>2. [PNext]_pvars => [Next]_vars
  BY PresenceStep
<1> QED
  BY <1>1, <1>2, IndexInit, IndexStep, AddressStep, ArrivalInit, ArrivalStep,
     PInvInit, PInvStep, GhostStep, PTL
  DEF PSpec, GhostInv, GhostsWereMissed
=============================================================================
