--------------------------- MODULE LifecycleProofs --------------------------
(***************************************************************************)
(* Theorems about Lifecycle for every set of connections, keys and handles *)
(* and every limit.  TableInv types what is not a count and ties a session *)
(* to the account of its key.  The counter is then proved exact by an      *)
(* invariant that says which connections cannot have been released yet;    *)
(* the limit follows from it, because a connection is served only if the   *)
(* counter was within the limit when it was counted.                       *)
(***************************************************************************)
EXTENDS Lifecycle, FiniteSetTheorems, TLAPS

-----------------------------------------------------------------------------
(* Types, accounts and keys                                                *)

\* TypeOK without the counter.
DataOK ==
    /\ stage \in [Conns -> Stages]
    /\ user \in [Conns -> Users \union {NoUser}]
    /\ closed \subseteq Conns
    /\ quitting \subseteq Conns
    /\ watchers \in [Conns -> 0 .. 2]
    /\ released \subseteq Conns
    /\ adding \in [Conns -> Keys]
    /\ subscribed \subseteq Conns
    /\ owner \in [Keys -> Users \union {NoUser}]
    /\ suspended \subseteq Users
    /\ room \in {"none", "live", "deleted"}
    /\ members \subseteq Users
    /\ late \subseteq Conns

\* Two goroutines wait for Done only once the app's Init has run.
OneWatcher ==
    \A c \in Conns : stage[c] \notin {"app", "add_key", "ended"} => watchers[c] \in 0 .. 1

\* The stages of SessionOwnsKey.
Acting == {"find_room", "make_room", "join_room", "init_app", "app", "add_key", "notice"}

\* What a session acts for is an account, and so is what it asks for.
HasAccount ==
    \A c \in Conns : stage[c] \in Acting \union {"create_user"} => user[c] \in Users

TableInv == DataOK /\ OneWatcher /\ HasAccount /\ SessionOwnsKey

USE DEF TableInv, DataOK, OneWatcher, HasAccount, SessionOwnsKey, Acting, Stages, Screens, Goto

LEMMA InitTables == Init => TableInv
<1> SUFFICES ASSUME Init PROVE TableInv
  OBVIOUS
<1> QED BY LifecycleAssumption DEF Init

\* Admission and the choice of the screen.
LEMMA AdmissionTables ==
    ASSUME TableInv, NEW c \in Conns, Admit(c) \/ TurnAway(c) \/ Welcome(c)
    PROVE  TableInv'
<1>1. CASE Admit(c)
  BY <1>1 DEF Admit, tables
<1>2. CASE TurnAway(c)
  BY <1>2 DEF TurnAway, tables
<1>3. CASE Welcome(c)
  <2> DEFINE u == owner[KeyOf[c]]
  <2>1. u \in Users \union {NoUser}
    BY LifecycleAssumption
  <2>2. DataOK' /\ OneWatcher'
    BY <1>3, <2>1 DEF Welcome, tables
  <2>3. HasAccount' /\ SessionOwnsKey'
    BY <1>3, <2>1 DEF Welcome, tables
  <2> QED BY <2>2, <2>3
<1> QED BY <1>1, <1>2, <1>3

\* Registration, from the handle to the app's Init.
LEMMA RegistrationTables ==
    ASSUME TableInv, NEW c \in Conns,
           \/ \E u \in Users : ChooseHandle(c, u)
           \/ CreateUser(c) \/ FindRoom(c) \/ MakeRoom(c) \/ JoinRoom(c) \/ InitApp(c)
    PROVE  TableInv'
<1>1. ASSUME NEW u \in Users, ChooseHandle(c, u) PROVE TableInv'
  BY <1>1 DEF ChooseHandle, tables
<1>2. CASE CreateUser(c)
  <2>1. user[c] \in Users /\ KeyOf[c] \in Keys
    BY <1>2, LifecycleAssumption DEF CreateUser
  <2>2. CASE Free(user[c], KeyOf[c])
    <3>1. /\ owner' = [owner EXCEPT ![KeyOf[c]] = user[c]]
          /\ stage' = [stage EXCEPT ![c] = "find_room"]
          /\ owner[KeyOf[c]] = NoUser
          /\ UNCHANGED <<user, closed, quitting, watchers, released, adding,
                         subscribed, late, suspended, room, members>>
      BY <1>2, <2>2 DEF CreateUser, Free
    <3>2. DataOK' /\ OneWatcher' /\ HasAccount'
      BY <2>1, <3>1, <1>2 DEF CreateUser
    <3>3. ASSUME NEW d \in Conns, stage'[d] \in Acting
          PROVE  user'[d] = owner'[KeyOf[d]]
      <4>1. CASE d = c
        BY <4>1, <2>1, <3>1
      <4>2. CASE d # c
        <5>1. user[d] = owner[KeyOf[d]] /\ user[d] \in Users
          BY <3>1, <3>3, <4>2
        <5>2. KeyOf[d] # KeyOf[c]
          BY <3>1, <5>1, LifecycleAssumption
        <5> QED BY <3>1, <5>1, <5>2, LifecycleAssumption
      <4> QED BY <4>1, <4>2
    <3> QED BY <3>2, <3>3
  <2>3. CASE ~Free(user[c], KeyOf[c])
    BY <1>2, <2>3 DEF CreateUser
  <2> QED BY <2>2, <2>3
<1>3. CASE FindRoom(c)
  BY <1>3 DEF FindRoom, tables
<1>4. CASE MakeRoom(c)
  BY <1>4 DEF MakeRoom
<1>5. CASE JoinRoom(c)
  BY <1>5 DEF JoinRoom
<1>6. CASE InitApp(c)
  <2>1. watchers[c] \in 0 .. 1
    BY <1>6 DEF InitApp
  <2>2. DataOK' /\ OneWatcher'
    BY <1>6, <2>1 DEF InitApp, tables
  <2>3. HasAccount' /\ SessionOwnsKey'
    BY <1>6 DEF InitApp, tables
  <2> QED BY <2>2, <2>3
<1> QED BY <1>1, <1>2, <1>3, <1>4, <1>5, <1>6

\* /addkey inserts a key of nobody, or nothing.
LEMMA AddKeyTables ==
    ASSUME TableInv, NEW c \in Conns,
           (\E k \in Keys : AddKey(c, k)) \/ AddKeyInsert(c)
    PROVE  TableInv'
<1>1. ASSUME NEW k \in Keys, AddKey(c, k) PROVE TableInv'
  BY <1>1 DEF AddKey, tables
<1>2. CASE AddKeyInsert(c)
  <2>1. /\ owner' = [owner EXCEPT ![adding[c]] = IF @ = NoUser THEN user[c] ELSE @]
        /\ stage' = [stage EXCEPT ![c] = "app"]
        /\ adding' = [adding EXCEPT ![c] = KeyOf[c]]
        /\ stage[c] = "add_key"
        /\ UNCHANGED <<user, closed, quitting, watchers, released,
                       subscribed, late, suspended, room, members>>
    BY <1>2 DEF AddKeyInsert, InsertKey
  <2>2. user[c] \in Users /\ adding[c] \in Keys /\ KeyOf[c] \in Keys
    BY <2>1, LifecycleAssumption
  <2>3. DataOK' /\ OneWatcher' /\ HasAccount'
    BY <2>1, <2>2
  <2>4. ASSUME NEW d \in Conns, stage'[d] \in Acting
        PROVE  user'[d] = owner'[KeyOf[d]]
    <3>1. user[d] = owner[KeyOf[d]] /\ user[d] \in Users /\ KeyOf[d] \in Keys
      BY <2>1, <2>4, LifecycleAssumption
    <3> QED BY <2>1, <2>2, <3>1, LifecycleAssumption
  <2> QED BY <2>3, <2>4
<1> QED BY <1>1, <1>2

\* The end of a session, and the administrators.
LEMMA EndTables ==
    ASSUME TableInv,
           \/ \E c \in Conns : Close(c) \/ Quit(c) \/ Disconnected(c) \/ End(c)
           \/ Admin
    PROVE  TableInv'
<1>1. ASSUME NEW c \in Conns, Close(c) PROVE TableInv'
  BY <1>1 DEF Close, tables
<1>2. ASSUME NEW c \in Conns, Quit(c) PROVE TableInv'
  BY <1>2 DEF Quit, Cleanup, tables
<1>3. ASSUME NEW c \in Conns, Disconnected(c) PROVE TableInv'
  <2>1. watchers[c] \in 1 .. 2
    BY <1>3 DEF Disconnected
  <2> QED BY <1>3, <2>1 DEF Disconnected, Cleanup, tables
<1>4. ASSUME NEW c \in Conns, End(c) PROVE TableInv'
  BY <1>4 DEF End, tables
<1>5. CASE Admin
  <2>1. ASSUME NEW u \in Users, Suspend(u) PROVE TableInv'
    BY <2>1 DEF Suspend, conn, Accounts
  <2>2. ASSUME NEW u \in Users, Unsuspend(u) PROVE TableInv'
    BY <2>2 DEF Unsuspend, conn
  <2>3. CASE DeleteRoom
    BY <2>3 DEF DeleteRoom, conn
  <2> QED BY <1>5, <2>1, <2>2, <2>3 DEF Admin
<1> QED BY <1>1, <1>2, <1>3, <1>4, <1>5

LEMMA NextTables == TableInv /\ [Next]_vars => TableInv'
<1> SUFFICES ASSUME TableInv, [Next]_vars PROVE TableInv'
  OBVIOUS
<1>1. CASE Next
  BY <1>1, AdmissionTables, RegistrationTables, AddKeyTables, EndTables DEF Next
<1>2. CASE UNCHANGED vars
  BY <1>2 DEF vars, conn, tables
<1> QED BY <1>1, <1>2

LEMMA TablesInvariant == Spec => []TableInv
<1> QED BY InitTables, NextTables, PTL DEF Spec

\* A session acts for the account its key belongs to (server.go:123,
\* commands.go:343-353, store.go:111-137).
THEOREM AccountOfKey == Spec => []SessionOwnsKey
<1>1. TableInv => SessionOwnsKey
  OBVIOUS
<1> QED BY <1>1, TablesInvariant, PTL

\* No key passes from one account to another (store.go:111-137).
THEOREM KeysNeverPass == Spec => KeysStay
<1>1. ASSUME TableInv, Next, NEW k \in Keys, owner[k] # NoUser
      PROVE  owner'[k] = owner[k]
  <2>1. ASSUME NEW c \in Conns, CreateUser(c) PROVE owner'[k] = owner[k]
    <3>1. KeyOf[c] \in Keys
      BY LifecycleAssumption
    <3> QED BY <1>1, <2>1, <3>1 DEF CreateUser, Free
  <2>2. ASSUME NEW c \in Conns, AddKeyInsert(c) PROVE owner'[k] = owner[k]
    BY <1>1, <2>2 DEF AddKeyInsert, InsertKey
  <2>3. CASE UNCHANGED owner
    BY <2>3
  <2>4. (\E c \in Conns : CreateUser(c) \/ AddKeyInsert(c)) \/ UNCHANGED owner
    BY <1>1 DEF Next, Admin, Admit, TurnAway, Welcome, ChooseHandle, FindRoom, MakeRoom,
       JoinRoom, InitApp, AddKey, Close, Quit, Disconnected, End, Suspend, Unsuspend,
       DeleteRoom, tables
  <2> QED BY <2>1, <2>2, <2>3, <2>4
<1>2. TableInv /\ [Next]_vars
        => [\A k \in Keys : owner[k] # NoUser => owner'[k] = owner[k]]_vars
  BY <1>1 DEF vars
<1> QED BY <1>2, TablesInvariant, PTL DEF Spec, KeysStay

-----------------------------------------------------------------------------
(* The counter                                                             *)

\* Stages in which no cleanup function exists yet.
Early == {"new", "away", "over", "checks"}

\* Nothing is released before it has a screen.
NotYetReleased == \A c \in Conns : stage[c] \in Early => c \notin released

\* What is counted, and when it may be released.
CounterInv == NotYetReleased /\ CounterExact /\ WithinCapacity

\* Cardinalities of the sets of connections exist and do not shrink with
\* the set.
LEMMA CountedFinite ==
    /\ IsFiniteSet(Counted)
    /\ Cardinality(Counted) \in Nat
    /\ Cardinality(Served) \in Nat
    /\ Cardinality(Served) =< Cardinality(Counted)
<1>1. Counted \subseteq Conns /\ Served \subseteq Counted
  BY DEF Counted, Served
<1>2. IsFiniteSet(Counted) /\ IsFiniteSet(Served)
  BY <1>1, LifecycleAssumption, FS_Subset
<1> QED BY <1>1, <1>2, FS_CardinalityType, FS_Subset

\* A step that neither counts nor releases anybody keeps the invariant.
LEMMA SameCounts ==
    ASSUME CounterInv, sessions' = sessions, Counted' = Counted, Served' = Served,
           NotYetReleased'
    PROVE  CounterInv'
<1> QED BY DEF CounterInv, CounterExact, WithinCapacity

\* A step that takes back the place of one connection keeps it too.
LEMMA OneLess ==
    ASSUME CounterInv, NEW c \in Counted, sessions' = sessions - 1,
           Counted' = Counted \ {c}, Served' \subseteq Served, NotYetReleased'
    PROVE  CounterInv'
<1>1. /\ IsFiniteSet(Counted)
      /\ Cardinality(Counted) \in Nat
      /\ Cardinality(Served) \in Nat
  BY CountedFinite
<1>2. Cardinality(Counted \ {c}) = Cardinality(Counted) - 1
  BY <1>1, FS_RemoveElement
<1>3. IsFiniteSet(Served)
  BY <1>1, FS_Subset DEF Served
<1>4. Cardinality(Served') =< Cardinality(Served) /\ Cardinality(Served') \in Nat
  BY <1>3, FS_Subset, FS_CardinalityType
<1> QED BY <1>1, <1>2, <1>4, LifecycleAssumption DEF CounterInv, CounterExact, WithinCapacity

LEMMA InitCounter == Init => CounterInv
<1> SUFFICES ASSUME Init PROVE CounterInv
  OBVIOUS
<1>1. Counted = {} /\ Served = {}
  BY DEF Init, Counted, Served
<1> QED BY <1>1, FS_EmptySet, LifecycleAssumption
        DEF Init, CounterInv, NotYetReleased, CounterExact, WithinCapacity

\* Counting: the new connection is served only if the counter allows it.
LEMMA AdmitCounter ==
    ASSUME TableInv, CounterInv, NEW c \in Conns, Admit(c)
    PROVE  CounterInv'
<1>1. /\ IsFiniteSet(Counted)
      /\ Cardinality(Counted) \in Nat
      /\ Cardinality(Served) =< Cardinality(Counted)
  BY CountedFinite
<1>2. c \notin Counted /\ c \notin released
  BY DEF CounterInv, NotYetReleased, Early, Counted, Admit
<1>3. stage'[c] \in {"over", "checks"} /\ released' = released
  BY DEF Admit
<1>4. Counted' = Counted \union {c}
  BY <1>2, <1>3 DEF Counted, Admit
<1>5. Cardinality(Counted') = Cardinality(Counted) + 1
  BY <1>1, <1>2, <1>4, FS_AddElement
<1>6. CounterExact'
  BY <1>1, <1>5 DEF Admit, CounterInv, CounterExact
<1>7. WithinCapacity'
  <2>1. CASE stage'[c] = "over"
    <3>1. Served' = Served
      BY <1>2, <1>4, <2>1 DEF Served, Admit
    <3> QED BY <3>1 DEF CounterInv, WithinCapacity
  <2>2. CASE stage'[c] = "checks"
    <3>1. ~OverLimit(sessions + 1)
      BY <2>2 DEF Admit
    <3>2. sessions + 1 =< MaxSessions
      BY <1>1, <3>1, LifecycleAssumption DEF OverLimit, CounterInv, CounterExact
    <3>3. Served' \subseteq Counted' /\ IsFiniteSet(Counted')
      BY <1>1, <1>4, FS_AddElement DEF Served
    <3>4. /\ Cardinality(Served') =< Cardinality(Counted')
          /\ Cardinality(Served') \in Nat
      BY <3>3, FS_Subset, FS_CardinalityType
    <3> QED BY <1>1, <1>5, <3>2, <3>4, LifecycleAssumption
            DEF CounterInv, CounterExact, WithinCapacity
  <2> QED BY <1>3, <2>1, <2>2
<1>8. NotYetReleased'
  BY <1>2, <1>3 DEF Admit, CounterInv, NotYetReleased, Early
<1> QED BY <1>6, <1>7, <1>8 DEF CounterInv

LEMMA TurnAwayCounter ==
    ASSUME TableInv, CounterInv, NEW c \in Conns, TurnAway(c)
    PROVE  CounterInv'
<1>1. c \in Counted
  BY DEF TurnAway, CounterInv, NotYetReleased, Early, Counted
<1>2. Counted' = Counted \ {c}
  BY <1>1 DEF TurnAway, Counted
<1>3. Served' \subseteq Served
  BY <1>2 DEF TurnAway, Served
<1>4. NotYetReleased'
  BY DEF TurnAway, CounterInv, NotYetReleased, Early
<1>5. sessions' = sessions - 1
  BY DEF TurnAway
<1> QED BY <1>1, <1>2, <1>3, <1>4, <1>5, OneLess

\* cleanupOnce: whatever calls it, and however often.
LEMMA CleanupCounter ==
    ASSUME TableInv, CounterInv, NEW c \in Conns, Quit(c) \/ Disconnected(c)
    PROVE  CounterInv'
<1>1. /\ stage[c] \in {"register", "notice", "app"}
      /\ stage' = stage
      /\ released' = released \union {c}
      /\ sessions' = sessions - (IF c \in released THEN 0 ELSE 1)
  BY DEF Quit, Disconnected, Cleanup, TakeBack
<1>2. NotYetReleased'
  BY <1>1 DEF CounterInv, NotYetReleased, Early
<1>3. CASE c \in released
  <2>1. released' = released /\ sessions' = sessions - 0
    BY <1>1, <1>3
  <2>2. Counted' = Counted
    BY <1>1, <2>1 DEF Counted
  <2>3. Served' = Served
    BY <1>1, <2>2 DEF Served
  <2>4. sessions' = sessions
    BY <2>1, CountedFinite DEF CounterInv, CounterExact
  <2> QED BY <1>2, <2>2, <2>3, <2>4, SameCounts
<1>4. CASE c \notin released
  <2>1. c \in Counted /\ Counted' = Counted \ {c}
    BY <1>1, <1>4 DEF Counted
  <2>2. Served' \subseteq Served
    BY <1>1, <2>1 DEF Served
  <2>3. sessions' = sessions - 1
    BY <1>1, <1>4
  <2> QED BY <1>2, <2>1, <2>2, <2>3, OneLess
<1> QED BY <1>3, <1>4

\* Everything else moves a connection that is served between stages in which
\* it is served.
LEMMA MoveCounter ==
    ASSUME TableInv, CounterInv, NEW c \in Conns, NEW l \in Stages \ Early,
           stage[c] \notin {"new", "away", "over"},
           stage' = [stage EXCEPT ![c] = l],
           released' = released, sessions' = sessions
    PROVE  CounterInv'
<1>1. Counted' = Counted
  BY DEF Counted, Early
<1>2. Served' = Served
  BY <1>1 DEF Served, Early
<1>3. NotYetReleased'
  BY DEF CounterInv, NotYetReleased, Early
<1> QED BY <1>1, <1>2, <1>3, SameCounts

LEMMA StillCounter ==
    ASSUME CounterInv, UNCHANGED <<stage, released, sessions>>
    PROVE  CounterInv'
<1>1. Counted' = Counted /\ Served' = Served /\ NotYetReleased'
  BY DEF Counted, Served, CounterInv, NotYetReleased
<1> QED BY <1>1, SameCounts

LEMMA NextCounter == TableInv /\ CounterInv /\ [Next]_vars => CounterInv'
<1> SUFFICES ASSUME TableInv, CounterInv, [Next]_vars PROVE CounterInv'
  OBVIOUS
<1> USE DEF Early
<1>1. ASSUME NEW c \in Conns, Welcome(c) PROVE CounterInv'
  <2>1. stage' = [stage EXCEPT ![c] = stage'[c]] /\ stage'[c] \in {"register", "notice", "init_app"}
    BY <1>1 DEF Welcome
  <2>2. stage[c] = "checks" /\ released' = released /\ sessions' = sessions
    BY <1>1 DEF Welcome
  <2>3. stage'[c] \in Stages \ Early
    BY <2>1
  <2> QED BY <2>1, <2>2, <2>3, MoveCounter
<1>2. ASSUME NEW c \in Conns, NEW u \in Users, ChooseHandle(c, u) PROVE CounterInv'
  BY <1>2, MoveCounter DEF ChooseHandle
<1>3. ASSUME NEW c \in Conns, CreateUser(c) PROVE CounterInv'
  BY <1>3, MoveCounter DEF CreateUser
<1>4. ASSUME NEW c \in Conns, FindRoom(c) PROVE CounterInv'
  BY <1>4, MoveCounter DEF FindRoom
<1>5. ASSUME NEW c \in Conns, MakeRoom(c) PROVE CounterInv'
  BY <1>5, MoveCounter DEF MakeRoom
<1>6. ASSUME NEW c \in Conns, JoinRoom(c) PROVE CounterInv'
  BY <1>6, MoveCounter DEF JoinRoom
<1>7. ASSUME NEW c \in Conns, InitApp(c) PROVE CounterInv'
  BY <1>7, MoveCounter DEF InitApp
<1>8. ASSUME NEW c \in Conns, NEW k \in Keys, AddKey(c, k) PROVE CounterInv'
  BY <1>8, MoveCounter DEF AddKey
<1>9. ASSUME NEW c \in Conns, AddKeyInsert(c) PROVE CounterInv'
  BY <1>9, MoveCounter DEF AddKeyInsert
<1>10. ASSUME NEW c \in Conns, Close(c) PROVE CounterInv'
  BY <1>10, StillCounter DEF Close
<1>11. ASSUME NEW c \in Conns, End(c) PROVE CounterInv'
  BY <1>11, MoveCounter DEF End
<1>12. CASE Admin
  BY <1>12, StillCounter DEF Admin, Suspend, Unsuspend, DeleteRoom, conn
<1>13. CASE UNCHANGED vars
  BY <1>13, StillCounter DEF vars, conn
<1>14. CASE Next
  BY <1>1, <1>2, <1>3, <1>4, <1>5, <1>6, <1>7, <1>8, <1>9, <1>10, <1>11, <1>12, <1>14,
     AdmitCounter, TurnAwayCounter, CleanupCounter DEF Next
<1> QED BY <1>13, <1>14

LEMMA CounterInvariant == Spec => []CounterInv
<1> QED BY InitCounter, NextCounter, TablesInvariant, PTL DEF Spec

\* Every connection is counted exactly while it holds a place, whichever way
\* it leaves (server.go:91-134, register.go:80-84, app.go:909-917).
THEOREM CountedOnce == Spec => []CounterExact
<1>1. CounterInv => CounterExact
  BY DEF CounterInv
<1> QED BY <1>1, CounterInvariant, PTL

\* No more than MaxSessions connections are served at a time
\* (server.go:91-96).
THEOREM LimitKept == Spec => []WithinCapacity
<1>1. CounterInv => WithinCapacity
  BY DEF CounterInv
<1> QED BY <1>1, CounterInvariant, PTL

\* The variables keep their types, and the counter never goes below zero.
THEOREM TypeCorrect == Spec => []TypeOK
<1>1. TableInv /\ CounterInv => TypeOK
  BY CountedFinite DEF CounterInv, CounterExact, TypeOK
<1> QED BY <1>1, TablesInvariant, CounterInvariant, PTL

-----------------------------------------------------------------------------
(* The end                                                                 *)

\* tea.Quit is on its way only after a cleanup.
QuitsReleased == quitting \subseteq released

EndInv == QuitsReleased /\ GivenBackTogether /\ LossIsNoticed

\* The stages of a session that has its screen, or is about to have it.
Running == Stages \ {"new", "away", "over", "checks", "ended"}

\* A step that leaves alone what is given back, and moves one connection.
LEMMA MoveEnd ==
    ASSUME TableInv, EndInv, NEW c \in Conns, NEW l \in Running \ {"init_app"},
           stage[c] \in Running \ {"init_app"}, stage' = [stage EXCEPT ![c] = l],
           UNCHANGED <<released, subscribed, late, quitting, watchers, closed>>
    PROVE  EndInv'
<1>1. QuitsReleased' /\ GivenBackTogether'
  BY DEF EndInv, QuitsReleased, GivenBackTogether
<1>2. LossIsNoticed'
  BY DEF EndInv, LossIsNoticed, Counted, Running
<1> QED BY <1>1, <1>2 DEF EndInv

LEMMA NextEnd == TableInv /\ EndInv /\ [Next]_vars => EndInv'
<1> SUFFICES ASSUME TableInv, EndInv, [Next]_vars PROVE EndInv'
  OBVIOUS
<1> USE DEF EndInv, QuitsReleased, GivenBackTogether, LossIsNoticed, Counted, Running
<1>1. ASSUME NEW c \in Conns, Admit(c) \/ TurnAway(c) PROVE EndInv'
  <2>1. /\ stage[c] \in {"new", "over", "checks"}
        /\ stage' = [stage EXCEPT ![c] = stage'[c]] /\ stage'[c] \in {"over", "checks", "away"}
        /\ UNCHANGED <<released, subscribed, late, quitting, watchers, closed>>
    BY <1>1 DEF Admit, TurnAway
  <2>2. QuitsReleased' /\ GivenBackTogether'
    BY <2>1
  <2>3. LossIsNoticed'
    BY <2>1
  <2> QED BY <2>2, <2>3
<1>2. ASSUME NEW c \in Conns, Welcome(c) PROVE EndInv'
  <2>1. /\ stage' = [stage EXCEPT ![c] = stage'[c]]
        /\ stage'[c] = "init_app" \/ (stage'[c] \in {"register", "notice"} /\ watchers'[c] = 1)
        /\ \A d \in Conns \ {c} : watchers'[d] = watchers[d]
        /\ UNCHANGED <<released, subscribed, late, quitting, closed>>
    BY <1>2, LifecycleAssumption DEF Welcome
  <2>2. QuitsReleased' /\ GivenBackTogether'
    BY <2>1
  <2>3. LossIsNoticed'
    BY <2>1
  <2> QED BY <2>2, <2>3
<1>3. ASSUME NEW c \in Conns, NEW u \in Users, ChooseHandle(c, u) PROVE EndInv'
  BY <1>3, MoveEnd DEF ChooseHandle
<1>4. ASSUME NEW c \in Conns, CreateUser(c) PROVE EndInv'
  BY <1>4, MoveEnd DEF CreateUser
<1>5. ASSUME NEW c \in Conns, FindRoom(c) PROVE EndInv'
  BY <1>5, MoveEnd DEF FindRoom
<1>6. ASSUME NEW c \in Conns, MakeRoom(c) \/ JoinRoom(c) PROVE EndInv'
  <2>1. /\ stage[c] \in {"make_room", "join_room"}
        /\ stage' = [stage EXCEPT ![c] = stage'[c]] /\ stage'[c] \in {"join_room", "init_app"}
        /\ UNCHANGED <<released, subscribed, late, quitting, watchers, closed>>
    BY <1>6 DEF MakeRoom, JoinRoom
  <2>2. QuitsReleased' /\ GivenBackTogether'
    BY <2>1
  <2>3. LossIsNoticed'
    BY <2>1
  <2> QED BY <2>2, <2>3
<1>7. ASSUME NEW c \in Conns, InitApp(c) PROVE EndInv'
  <2>1. /\ stage' = [stage EXCEPT ![c] = "app"]
        /\ watchers' = [watchers EXCEPT ![c] = @ + 1]
        /\ subscribed' = subscribed \union {c}
        /\ late' = IF c \in released THEN late \union {c} ELSE late
        /\ UNCHANGED <<released, quitting, closed>>
    BY <1>7 DEF InitApp
  <2>2. QuitsReleased' /\ GivenBackTogether'
    BY <2>1
  <2>3. LossIsNoticed'
    BY <2>1
  <2> QED BY <2>2, <2>3
<1>8. ASSUME NEW c \in Conns, NEW k \in Keys, AddKey(c, k) PROVE EndInv'
  BY <1>8, MoveEnd DEF AddKey
<1>9. ASSUME NEW c \in Conns, AddKeyInsert(c) PROVE EndInv'
  BY <1>9, MoveEnd DEF AddKeyInsert
<1>10. ASSUME NEW c \in Conns, Close(c) PROVE EndInv'
  BY <1>10 DEF Close
<1>11. ASSUME NEW c \in Conns, Quit(c) \/ Disconnected(c) PROVE EndInv'
  <2>1. /\ stage' = stage /\ closed' = closed /\ late' = late
        /\ subscribed' = subscribed \ {c} /\ released' = released \union {c}
        /\ quitting' = quitting \union {c}
        /\ \A d \in Conns \ {c} : watchers'[d] = watchers[d]
    BY <1>11 DEF Quit, Disconnected, Cleanup
  <2>2. QuitsReleased' /\ GivenBackTogether'
    BY <2>1
  <2>3. LossIsNoticed'
    BY <2>1
  <2> QED BY <2>2, <2>3
<1>12. ASSUME NEW c \in Conns, End(c) PROVE EndInv'
  <2>1. /\ stage' = [stage EXCEPT ![c] = "ended"]
        /\ c \in released \/ (MiddlewareQuits /\ c \in closed)
        /\ UNCHANGED <<released, subscribed, late, quitting, watchers, closed>>
    BY <1>12 DEF End
  <2>2. QuitsReleased' /\ GivenBackTogether'
    BY <2>1
  <2>3. LossIsNoticed'
    BY <2>1
  <2> QED BY <2>2, <2>3
<1>13. CASE Admin
  BY <1>13 DEF Admin, Suspend, Unsuspend, DeleteRoom, conn
<1>14. CASE UNCHANGED vars
  BY <1>14 DEF vars, conn
<1>15. CASE Next
  BY <1>1, <1>2, <1>3, <1>4, <1>5, <1>6, <1>7, <1>8, <1>9, <1>10, <1>11, <1>12, <1>13, <1>15
     DEF Next
<1> QED BY <1>14, <1>15

LEMMA EndInvariant == Spec => []EndInv
<1>1. Init => EndInv
  BY DEF Init, EndInv, QuitsReleased, GivenBackTogether, LossIsNoticed, Counted
<1> QED BY <1>1, NextEnd, TablesInvariant, PTL DEF Spec

\* A session that has given its place back holds a subscription only if it
\* registered after its cleanup (app.go:904-917, register.go:40-84).
THEOREM PlaceAndSubscription == Spec => []GivenBackTogether
<1>1. EndInv => GivenBackTogether
  BY DEF EndInv
<1> QED BY <1>1, EndInvariant, PTL

\* Somebody waits for the loss of every connection that holds a place
\* (app.go:154-176, register.go:30-32, 80-99).
THEOREM LossesNoticed == Spec => []LossIsNoticed
<1>1. EndInv => LossIsNoticed
  BY DEF EndInv
<1> QED BY <1>1, EndInvariant, PTL
=============================================================================
