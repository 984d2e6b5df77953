--------------------------- MODULE MessagesProofs ---------------------------
(***************************************************************************)
(* Theorems about Messages for every set of sessions and users and every   *)
(* bound.  The invariant adds to the types what a handler between two of   *)
(* its steps relies on (Midway); that a block is respected and that a      *)
(* notification belongs to its message follow by one induction each.  That *)
(* no message of a thread goes missing needs MInv: a message is in one     *)
(* place only, on its way or shown, and has a number of its own.  That the *)
(* unread count misses none needs AllCounted: no message is left out of    *)
(* what is counted, what is coming and what was read.                      *)
(***************************************************************************)
EXTENDS Messages, FiniteSetTheorems, TLAPS

\* A handler that works on a thread has one open, and one that publishes has
\* a message.
Midway ==
    \A s \in Sessions :
        /\ at[s] \in {"mark", "check", "insert"} => view[s] \in Users
        /\ at[s] \in {"publish", "sending", "echoing"} => event[s] \in Rows

IInv == TypeOK /\ Midway

USE DEF IInv, TypeOK, Midway, Stages, Step, store, hubVars, loops, screen, bounds, history

-----------------------------------------------------------------------------
(* Types                                                                   *)

LEMMA RowsAreNumbered == \A r \in Rows : r.nr \in Numbers /\ r # NoRow
BY DEF Rows, NoRow, Numbers

LEMMA StoredIsRow ==
  ASSUME TypeOK, NEW i \in Stored
  PROVE  i \in Ids /\ rows[i] \in Rows
BY DEF Stored

LEMMA CountIsNat ==
  ASSUME NEW u, NEW p
  PROVE  Cardinality(UnreadFrom(u, p)) \in Nat
<1>1. IsFiniteSet(Ids)
  BY FS_Interval, MessagesAssumption DEF Ids
<1>2. UnreadFrom(u, p) \subseteq Ids
  BY DEF UnreadFrom, Thread, Stored
<1> QED  BY <1>1, <1>2, FS_Subset, FS_CardinalityType

LEMMA InitInv == Init => IInv
BY MessagesAssumption DEF Init

LEMMA ForgetInv ==
  ASSUME IInv, NEW S \in SUBSET Sessions, Forget(S), UNCHANGED store, sent' = sent,
         commands' \in 0 .. MaxCommands, at' \in [Sessions -> Stages],
         \A s \in Sessions : IF s \in S THEN at'[s] \in {"off", "gone"} ELSE at'[s] = at[s]
  PROVE  IInv'
<1>1. /\ rows' \in [Ids -> Rows \union {NoRow}]
      /\ notes' \subseteq Users \X Ids
      /\ blocks' \in [Users -> SUBSET Users]
      /\ sent' \in 0 .. MaxSends
      /\ commands' \in 0 .. MaxCommands
  OBVIOUS
<1>2. users' \subseteq Sessions /\ raced' \subseteq Sessions
  BY DEF Forget
<1>3. inbox' \in [Sessions -> Seq(Rows)] /\ \A s \in Sessions : Len(inbox'[s]) =< InboxCap
  BY MessagesAssumption DEF Forget
<1>4. /\ event' \in [Sessions -> Rows \union {NoEvent}]
      /\ to' \in [Sessions -> SUBSET Sessions]
      /\ view' \in [Sessions -> Users \union {Nobody}]
      /\ peers' \in [Sessions -> SUBSET Users]
      /\ shown' \in [Sessions -> SUBSET Numbers]
  BY DEF Forget
<1>5. /\ badge' \in [Sessions -> [Users -> Nat]]
      /\ gap' \in [Sessions -> SUBSET Numbers]
      /\ dropped' \in [Sessions -> SUBSET Numbers]
  BY DEF Forget
<1>6. Midway'
  BY DEF Forget
<1> QED  BY <1>1, <1>2, <1>3, <1>4, <1>5, <1>6

LEMMA LivesInv ==
  ASSUME IInv, NEW s \in Sessions,
         Connect(s) \/ RefreshUnread(s) \/ Subscribe(s) \/ Disconnect(s)
  PROVE  IInv'
<1>1. CASE Connect(s)
  BY <1>1 DEF Connect, DMPeers
<1>2. CASE RefreshUnread(s)
  <2>1. [p \in Users |-> Cardinality(UnreadFrom(UserOf[s], p))] \in [Users -> Nat]
    BY CountIsNat
  <2> QED  BY <1>2, <2>1 DEF RefreshUnread
<1>3. CASE Subscribe(s)
  BY <1>3 DEF Subscribe
<1>4. CASE Disconnect(s)
  BY <1>4, ForgetInv DEF Disconnect
<1> QED  BY <1>1, <1>2, <1>3, <1>4

LEMMA RestartInv == IInv /\ Restart => IInv'
<1> SUFFICES ASSUME IInv, Restart PROVE IInv'
  OBVIOUS
<1>1. commands' \in 0 .. MaxCommands /\ UNCHANGED store /\ sent' = sent
  BY MessagesAssumption DEF Restart
<1>2. /\ at' \in [Sessions -> Stages]
      /\ \A s \in Sessions : at'[s] \in {"off", "gone"}
  BY DEF Restart
<1>3. Forget(Sessions)
  BY DEF Restart
<1> QED  BY <1>1, <1>2, <1>3, ForgetInv

LEMMA ThreadsInv ==
  ASSUME IInv, NEW s \in Sessions,
         (\E p \in Users : OpenDM(s, p)) \/ MarkDMRead(s) \/ LookAway(s)
  PROVE  IInv'
<1>1. ASSUME NEW p \in Users, OpenDM(s, p) PROVE IInv'
  <2>1. {rows[i].nr : i \in Thread(UserOf[s], p)} \in SUBSET Numbers
    BY StoredIsRow, RowsAreNumbered DEF Thread
  <2> QED  BY <1>1, <2>1 DEF OpenDM
<1>2. CASE MarkDMRead(s)
  <2>1. badge' \in [Sessions -> [Users -> Nat]]
    BY <1>2 DEF MarkDMRead
  <2> QED  BY <1>2, <2>1 DEF MarkDMRead, AfterRead
<1>3. CASE LookAway(s)
  BY <1>3 DEF LookAway
<1> QED  BY <1>1, <1>2, <1>3

LEMMA SendingInv ==
  ASSUME IInv, NEW s \in Sessions,
         \/ Send(s) \/ CheckAgain(s) \/ \E i \in Ids : InsertDM(s, i)
         \/ Publish(s) \/ Echo(s) \/ (\E r \in Sessions : Deliver(s, r)) \/ Return(s)
  PROVE  IInv'
<1>1. CASE Send(s)
  BY <1>1 DEF Send
<1>2. CASE CheckAgain(s)
  BY <1>2 DEF CheckAgain, AfterCheck
<1>3. ASSUME NEW i \in Ids, InsertDM(s, i) PROVE IInv'
  <2>1. view[s] \in Users /\ UserOf[s] \in Users
    BY <1>3, MessagesAssumption DEF InsertDM
  <2>2. sent + 1 \in Numbers /\ sent + 1 \in 0 .. MaxSends
    BY <1>3, MessagesAssumption DEF InsertDM, Numbers
  <2>3. NewRow(s, i) \in Rows
    BY <2>1, <2>2 DEF NewRow, Rows
  <2>4. Noted(s, i) \subseteq Users \X Ids
    BY <2>1 DEF Noted
  <2> QED  BY <1>3, <2>2, <2>3, <2>4 DEF InsertDM
<1>4. CASE Publish(s)
  <2>1. event[s] \in Rows
    BY <1>4 DEF Publish
  <2>2. event[s].nr \in Numbers
    BY <2>1, RowsAreNumbered
  <2>3. SubsOf(event[s].dest) \subseteq Sessions
    BY DEF SubsOf
  <2> QED  BY <1>4, <2>1, <2>2, <2>3 DEF Publish
<1>5. CASE Echo(s)
  <2>1. SubsOf(event[s].from) \subseteq Sessions
    BY DEF SubsOf
  <2> QED  BY <1>5, <2>1 DEF Echo
<1>6. ASSUME NEW r \in Sessions, Deliver(s, r) PROVE IInv'
  <2>1. event[s] \in Rows
    BY <1>6 DEF Deliver
  <2>2. event[s].nr \in Numbers
    BY <2>1, RowsAreNumbered
  <2>3. Offer(inbox[r], event[s]) \in Seq(Rows) /\ Len(Offer(inbox[r], event[s])) =< InboxCap
    BY <2>1, MessagesAssumption DEF Offer
  <2>4. inbox' \in [Sessions -> Seq(Rows)] /\ \A q \in Sessions : Len(inbox'[q]) =< InboxCap
    BY <1>6, <2>3 DEF Deliver
  <2>5. dropped' \in [Sessions -> SUBSET Numbers]
    <3>1. PICK D \in SUBSET Numbers : dropped' = [dropped EXCEPT ![r] = D]
      <4>1. CASE r \in users /\ Len(inbox[r]) < InboxCap
        BY <1>6, <4>1 DEF Deliver
      <4>2. CASE r \in users /\ ~(Len(inbox[r]) < InboxCap)
        <5>1. dropped' = [dropped EXCEPT ![r] = dropped[r] \union {event[s].nr}]
          BY <1>6, <4>2 DEF Deliver
        <5> QED  BY <2>2, <5>1
      <4>3. CASE r \notin users
        BY <1>6, <4>3 DEF Deliver
      <4> QED  BY <4>1, <4>2, <4>3
    <3> QED  BY <3>1
  <2>6. to' \in [Sessions -> SUBSET Sessions]
    BY <1>6 DEF Deliver
  <2> QED  BY <1>6, <2>4, <2>5, <2>6 DEF Deliver
<1>7. CASE Return(s)
  BY <1>7 DEF Return
<1> QED  BY <1>1, <1>2, <1>3, <1>4, <1>5, <1>6, <1>7

LEMMA HandleInv ==
  ASSUME IInv, NEW s \in Sessions, HandleDM(s)
  PROVE  IInv'
<1>1. inbox[s] \in Seq(Rows) /\ inbox[s] # <<>> /\ Len(inbox[s]) =< InboxCap
  BY DEF HandleDM
<1>2. Head(inbox[s]) \in Rows /\ Tail(inbox[s]) \in Seq(Rows) /\ Len(Tail(inbox[s])) =< InboxCap
  BY <1>1, MessagesAssumption
<1>3. Other(s, Head(inbox[s])) \in Users /\ Head(inbox[s]).nr \in Numbers
  BY <1>2 DEF Other, Rows
<1>4. inbox' \in [Sessions -> Seq(Rows)] /\ \A q \in Sessions : Len(inbox'[q]) =< InboxCap
  BY <1>2 DEF HandleDM
<1>5. peers' \in [Sessions -> SUBSET Users]
  BY <1>3 DEF HandleDM
<1>6. badge' \in [Sessions -> [Users -> Nat]]
  BY <1>3 DEF HandleDM
<1>7. shown' \in [Sessions -> SUBSET Numbers]
  <2>1. PICK N \in SUBSET Numbers : shown' = [shown EXCEPT ![s] = N]
    <3>1. CASE view[s] = Other(s, Head(inbox[s]))
      <4>1. shown' = [shown EXCEPT ![s] = shown[s] \union {Head(inbox[s]).nr}]
        BY <3>1 DEF HandleDM
      <4> QED  BY <1>3, <4>1
    <3>2. CASE view[s] # Other(s, Head(inbox[s]))
      BY <3>2 DEF HandleDM
    <3> QED  BY <3>1, <3>2
  <2> QED  BY <2>1
<1>8. notes' \subseteq Users \X Ids
  BY DEF HandleDM, AfterRead
<1> QED  BY <1>4, <1>5, <1>6, <1>7, <1>8 DEF HandleDM

LEMMA CommandsInv ==
  ASSUME IInv, NEW s \in Sessions,
         \/ \E u \in Users : Block(s, u) \/ Unblock(s, u)
         \/ \E i \in Ids : Delete(s, i)
  PROVE  IInv'
<1>1. ASSUME Command PROVE commands' \in 0 .. MaxCommands /\ sent' = sent
  BY <1>1, MessagesAssumption DEF Command
<1>2. ASSUME NEW u \in Users, Block(s, u) PROVE IInv'
  BY <1>1, <1>2, MessagesAssumption DEF Block
<1>3. ASSUME NEW u \in Users, Unblock(s, u) PROVE IInv'
  BY <1>1, <1>3, MessagesAssumption DEF Unblock
<1>4. ASSUME NEW i \in Ids, Delete(s, i) PROVE IInv'
  <2>1. rows[i] \in Rows
    BY <1>4, StoredIsRow DEF Delete
  <2>2. [rows[i] EXCEPT !.gone = TRUE] \in Rows
    BY <2>1 DEF Rows
  <2>3. rows' \in [Ids -> Rows \union {NoRow}]
    BY <1>4, <2>2 DEF Delete
  <2> QED  BY <1>1, <1>4, <2>3 DEF Delete
<1> QED  BY <1>2, <1>3, <1>4

LEMMA PurgeInv ==
  ASSUME IInv, NEW I \in SUBSET Ids, Purge(I)
  PROVE  IInv'
<1>1. commands' \in 0 .. MaxCommands /\ sent' = sent
  BY MessagesAssumption DEF Purge, Command
<1> QED  BY <1>1 DEF Purge, Cascade

LEMMA NextInv == IInv /\ [Next]_vars => IInv'
<1> SUFFICES ASSUME IInv, [Next]_vars PROVE IInv'
  OBVIOUS
<1>1. CASE UNCHANGED vars
  BY <1>1 DEF vars
<1>2. CASE Next
  BY <1>2, LivesInv, RestartInv, ThreadsInv, SendingInv, HandleInv, CommandsInv, PurgeInv DEF Next
<1> QED  BY <1>1, <1>2

LEMMA InvariantHolds == Spec => []IInv
BY InitInv, NextInv, PTL DEF Spec

\* Every variable keeps its type; no channel holds more than its capacity.
THEOREM TypeCorrect == Spec => []TypeOK
BY InvariantHolds, PTL

-----------------------------------------------------------------------------
(* Blocks                                                                  *)

LEMMA InitBlock == Init => BlockRespected
BY DEF Init, BlockRespected

LEMMA NextBlock == IInv /\ BlockRespected /\ [Next]_vars => BlockRespected'
<1> SUFFICES ASSUME IInv, BlockRespected, [Next]_vars PROVE BlockRespected'
  OBVIOUS
<1> USE DEF BlockRespected, IsBlocked
<1>1. ASSUME NEW s \in Sessions,
             Connect(s) \/ RefreshUnread(s) \/ Subscribe(s) \/ MarkDMRead(s) \/ LookAway(s)
             \/ Send(s) \/ Publish(s) \/ Echo(s) \/ Return(s) \/ HandleDM(s)
      PROVE  BlockRespected'
  BY <1>1 DEF Connect, RefreshUnread, Subscribe, MarkDMRead, LookAway, Send, Publish, Echo,
              Return, HandleDM
<1>2. ASSUME NEW s \in Sessions, Disconnect(s) PROVE BlockRespected'
  BY <1>2 DEF Disconnect, Forget
<1>3. ASSUME NEW s \in Sessions, NEW p \in Users, OpenDM(s, p) PROVE BlockRespected'
  BY <1>3 DEF OpenDM
<1>4. ASSUME NEW s \in Sessions, CheckAgain(s) PROVE BlockRespected'
  <2>1. at'[s] = "insert" => ~IsBlocked(view[s], UserOf[s])
    BY <1>4 DEF CheckAgain, AfterCheck
  <2> QED  BY <1>4, <2>1 DEF CheckAgain
<1>5. ASSUME NEW s \in Sessions, NEW i \in Ids, InsertDM(s, i) PROVE BlockRespected'
  BY <1>5 DEF InsertDM
<1>6. ASSUME NEW s \in Sessions, NEW r \in Sessions, Deliver(s, r) PROVE BlockRespected'
  BY <1>6 DEF Deliver
<1>7. ASSUME NEW s \in Sessions, NEW u \in Users, Block(s, u) PROVE BlockRespected'
  <2> SUFFICES ASSUME NEW r \in Sessions, at'[r] = "insert", IsBlocked(view[r], UserOf[r])'
               PROVE  r \in raced'
    OBVIOUS
  <2>1. at[r] = "insert" /\ view[r] \in Users /\ view' = view
    BY <1>7 DEF Block
  <2>2. CASE IsBlocked(view[r], UserOf[r])
    BY <1>7, <2>1, <2>2 DEF Block
  <2>3. CASE ~IsBlocked(view[r], UserOf[r])
    <3>1. view[r] = UserOf[s] /\ UserOf[r] = u
      BY <1>7, <2>1, <2>3 DEF Block
    <3> QED  BY <1>7, <2>1, <3>1 DEF Block
  <2> QED  BY <2>2, <2>3
<1>8. ASSUME NEW s \in Sessions, NEW u \in Users, Unblock(s, u) PROVE BlockRespected'
  BY <1>8 DEF Unblock
<1>9. ASSUME NEW s \in Sessions, NEW i \in Ids, Delete(s, i) PROVE BlockRespected'
  BY <1>9 DEF Delete
<1>10. ASSUME NEW I \in SUBSET Ids, Purge(I) PROVE BlockRespected'
  BY <1>10 DEF Purge
<1>11. CASE Restart
  BY <1>11 DEF Restart
<1>12. CASE UNCHANGED vars
  BY <1>12 DEF vars
<1> QED  BY <1>1, <1>2, <1>3, <1>4, <1>5, <1>6, <1>7, <1>8, <1>9, <1>10, <1>11, <1>12 DEF Next

\* A direct message is stored past a block only by a session that was past
\* both of its checks when the block came (Store.InsertDM, Store.Block).
THEOREM BlocksHold == Spec => []BlockRespected
BY InvariantHolds, InitBlock, NextBlock, PTL DEF Spec

-----------------------------------------------------------------------------
(* Notifications                                                           *)

LEMMA NextNotes == IInv /\ NotificationsFit /\ [Next]_vars => NotificationsFit'
<1> SUFFICES ASSUME IInv, NotificationsFit, [Next]_vars PROVE NotificationsFit'
  OBVIOUS
<1> USE DEF NotificationsFit, Stored
<1>1. ASSUME rows' = rows, notes' \subseteq notes PROVE NotificationsFit'
  BY <1>1
<1>2. ASSUME NEW s \in Sessions,
             Connect(s) \/ RefreshUnread(s) \/ Subscribe(s) \/ Disconnect(s) \/ LookAway(s)
             \/ MarkDMRead(s) \/ Send(s) \/ CheckAgain(s) \/ Publish(s) \/ Echo(s)
             \/ Return(s) \/ HandleDM(s)
      PROVE  rows' = rows /\ notes' \subseteq notes
  BY <1>2 DEF Connect, RefreshUnread, Subscribe, Disconnect, LookAway, MarkDMRead, Send,
              CheckAgain, Publish, Echo, Return, HandleDM, AfterRead
<1>3. ASSUME NEW s \in Sessions, NEW u \in Users, OpenDM(s, u) \/ Block(s, u) \/ Unblock(s, u)
      PROVE  rows' = rows /\ notes' \subseteq notes
  BY <1>3 DEF OpenDM, Block, Unblock
<1>4. ASSUME NEW s \in Sessions, NEW r \in Sessions, Deliver(s, r)
      PROVE  rows' = rows /\ notes' \subseteq notes
  BY <1>4 DEF Deliver
<1>5. CASE Restart
  BY <1>5, <1>1 DEF Restart
<1>6. ASSUME NEW s \in Sessions, NEW i \in Ids, InsertDM(s, i) PROVE NotificationsFit'
  <2>1. i \notin Stored
    BY <1>6 DEF InsertDM, IsNext, Ids
  <2>2. rows' = [rows EXCEPT ![i] = NewRow(s, i)] /\ notes' = notes \union Noted(s, i)
    BY <1>6 DEF InsertDM
  <2>3. rows'[i].dest = view[s] /\ rows'[i] # NoRow
    <3>1. rows'[i] = NewRow(s, i)
      BY <2>2
    <3>2. sent + 1 # 0
      OBVIOUS
    <3> QED  BY <3>1, <3>2 DEF NewRow, NoRow
  <2>4. ASSUME NEW n \in notes' PROVE n[2] \in Stored' /\ rows'[n[2]].dest = n[1]
    <3>1. CASE n \in notes
      BY <2>1, <2>2, <3>1
    <3>2. CASE n \in Noted(s, i)
      BY <2>2, <2>3, <3>2 DEF Noted
    <3> QED  BY <2>2, <3>1, <3>2
  <2> QED  BY <2>4
<1>7. ASSUME NEW s \in Sessions, NEW i \in Ids, Delete(s, i) PROVE NotificationsFit'
  <2>1. rows[i] \in Rows
    BY <1>7, StoredIsRow DEF Delete
  <2>2. notes' = notes /\ rows' = [rows EXCEPT ![i].gone = TRUE]
    BY <1>7 DEF Delete
  <2>3. rows'[i] # NoRow /\ rows'[i].dest = rows[i].dest
    BY <2>1, <2>2 DEF Rows, NoRow, Numbers
  <2> QED  BY <2>2, <2>3
<1>8. ASSUME NEW I \in SUBSET Ids, Purge(I) PROVE NotificationsFit'
  <2>1. \A n \in notes' : n \in notes /\ n[2] \notin I
    BY <1>8 DEF Purge, Cascade
  <2> QED  BY <1>8, <2>1 DEF Purge
<1>9. CASE UNCHANGED vars
  BY <1>9 DEF vars
<1> QED  BY <1>1, <1>2, <1>3, <1>4, <1>5, <1>6, <1>7, <1>8, <1>9 DEF Next

\* A notification is of a stored message to its user, whatever rows are purged
\* and ids given out again (Store.InsertDM, Store.PurgeDeletedOlderThan).
THEOREM NotificationsStayFit == Spec => []NotificationsFit
<1>1. Init => NotificationsFit
  BY DEF Init, NotificationsFit
<1> QED  BY <1>1, InvariantHolds, NextNotes, PTL DEF Spec

-----------------------------------------------------------------------------
(* Where a session stands, and what a number stands for                    *)

HIDE DEF IInv, TypeOK, Midway, Stages

\* The hub knows exactly the connected sessions; nobody shows a thread before,
\* or a thread with themselves; a publication goes to sessions the hub knew.
Placed ==
    \A s \in Sessions :
        /\ Connected(s) <=> s \in users
        /\ ~Connected(s) => view[s] = Nobody
        /\ at[s] \notin {"sending", "echoing"} => to[s] = {}
        /\ view[s] # UserOf[s]
        /\ \A r \in to[s] : Connected(r) \/ at[r] = "gone"

Agrees(m, i) == m.nr = rows[i].nr => m.from = rows[i].from /\ m.dest = rows[i].dest

\* A number is given out once: an event with the number of a row is the event
\* of that row, whatever happened to the ids.
OneOfANumber ==
    /\ \A s \in Sessions :
          event[s].nr =< sent /\ \A j \in 1 .. Len(inbox[s]) : inbox[s][j].nr =< sent
    /\ \A i \in Stored :
          /\ rows[i].nr =< sent /\ rows[i].from # rows[i].dest
          /\ \A s \in Sessions :
                Agrees(event[s], i) /\ \A j \in 1 .. Len(inbox[s]) : Agrees(inbox[s][j], i)

LEMMA InitPlaced == Init => Placed
BY MessagesAssumption DEF Init, Placed, Connected

LEMMA NextPlaced == IInv /\ Placed /\ [Next]_vars => Placed'
<1> SUFFICES ASSUME IInv, Placed, [Next]_vars PROVE Placed'
  OBVIOUS
<1>0. /\ at \in [Sessions -> Stages] /\ to \in [Sessions -> SUBSET Sessions]
      /\ view \in [Sessions -> Users \union {Nobody}] /\ users \subseteq Sessions
      /\ UserOf \in [Sessions -> Users] /\ Nobody \notin Users
  BY MessagesAssumption DEF IInv, TypeOK
<1> USE DEF Placed, Connected
<1>1. ASSUME NEW s \in Sessions, Connect(s) \/ RefreshUnread(s) \/ Subscribe(s) PROVE Placed'
  BY <1>0, <1>1 DEF Connect, RefreshUnread, Subscribe
<1>2. ASSUME NEW s \in Sessions, Disconnect(s) PROVE Placed'
  BY <1>0, <1>2 DEF Disconnect, Forget
<1>3. ASSUME NEW s \in Sessions, NEW p \in Users, OpenDM(s, p) PROVE Placed'
  BY <1>0, <1>3 DEF OpenDM
<1>4. ASSUME NEW s \in Sessions, MarkDMRead(s) \/ LookAway(s) PROVE Placed'
  BY <1>0, <1>4 DEF MarkDMRead, LookAway
<1>5. ASSUME NEW s \in Sessions, Send(s) \/ CheckAgain(s) PROVE Placed'
  BY <1>0, <1>5 DEF Send, CheckAgain, AfterCheck
<1>6. ASSUME NEW s \in Sessions, NEW i \in Ids, InsertDM(s, i) PROVE Placed'
  BY <1>0, <1>6 DEF InsertDM
<1>7. ASSUME NEW s \in Sessions, Publish(s) \/ Echo(s) PROVE Placed'
  BY <1>0, <1>7 DEF Publish, Echo, SubsOf
<1>8. ASSUME NEW s \in Sessions, NEW r \in Sessions, Deliver(s, r) PROVE Placed'
  BY <1>0, <1>8 DEF Deliver
<1>9. ASSUME NEW s \in Sessions, Return(s) \/ HandleDM(s) PROVE Placed'
  BY <1>0, <1>9 DEF Return, HandleDM
<1>10. ASSUME NEW s \in Sessions, NEW u \in Users, Block(s, u) \/ Unblock(s, u) PROVE Placed'
  BY <1>10 DEF Block, Unblock
<1>11. ASSUME NEW s \in Sessions, NEW i \in Ids, Delete(s, i) PROVE Placed'
  BY <1>11 DEF Delete
<1>12. ASSUME NEW I \in SUBSET Ids, Purge(I) PROVE Placed'
  BY <1>12 DEF Purge
<1>13. CASE Restart
  BY <1>0, <1>13 DEF Restart, Forget
<1>14. CASE UNCHANGED vars
  BY <1>14 DEF vars
<1> QED  BY <1>1, <1>2, <1>3, <1>4, <1>5, <1>6, <1>7, <1>8, <1>9, <1>10, <1>11, <1>12, <1>13, <1>14
            DEF Next

LEMMA InitNumbered == Init => OneOfANumber
<1> SUFFICES ASSUME Init PROVE OneOfANumber
  OBVIOUS
<1>1. sent \in Nat /\ Stored = {}
  BY MessagesAssumption DEF Init, Stored
<1>2. \A s \in Sessions : event[s].nr = 0 /\ inbox[s] = <<>>
  BY DEF Init, NoEvent
<1> QED  BY <1>1, <1>2 DEF OneOfANumber

\* The numbers stay what they are while events only move.
LEMMA MovesNumbered ==
  ASSUME IInv, OneOfANumber, UNCHANGED <<rows, sent>>,
         \A s \in Sessions : event'[s] = event[s] \/ event'[s] = NoEvent,
         \A s \in Sessions : \A j \in 1 .. Len(inbox'[s]) :
            \/ \E k \in 1 .. Len(inbox[s]) : inbox'[s][j] = inbox[s][k]
            \/ \E a \in Sessions : inbox'[s][j] = event[a]
  PROVE  OneOfANumber'
<1>1. sent \in Nat /\ NoEvent.nr = 0
  BY MessagesAssumption DEF IInv, TypeOK, NoEvent
<1>2. Stored' = Stored /\ \A i \in Stored : rows[i].nr # 0
  BY StoredIsRow, RowsAreNumbered DEF Stored, Numbers, IInv
<1>3. \A s \in Sessions :
         event'[s].nr =< sent /\ \A j \in 1 .. Len(inbox'[s]) : inbox'[s][j].nr =< sent
  BY <1>1 DEF OneOfANumber
<1>4. ASSUME NEW i \in Stored, NEW s \in Sessions
      PROVE  Agrees(event[s], i)' /\ \A j \in 1 .. Len(inbox'[s]) : Agrees(inbox[s][j], i)'
  <2>1. Agrees(event[s], i) /\ \A a \in Sessions : Agrees(event[a], i)
    BY <1>4 DEF OneOfANumber
  <2>2. Agrees(event[s], i)'
    BY <1>1, <1>2, <2>1 DEF Agrees
  <2>3. ASSUME NEW j \in 1 .. Len(inbox'[s]) PROVE Agrees(inbox[s][j], i)'
    <3>1. PICK m : inbox'[s][j] = m /\ Agrees(m, i)
      BY <2>1 DEF OneOfANumber
    <3> QED  BY <3>1 DEF Agrees
  <2> QED  BY <2>2, <2>3
<1> QED  BY <1>2, <1>3, <1>4 DEF OneOfANumber

LEMMA NextNumbered == IInv /\ Placed /\ OneOfANumber /\ [Next]_vars => OneOfANumber'
<1> SUFFICES ASSUME IInv, Placed, OneOfANumber, [Next]_vars PROVE OneOfANumber'
  OBVIOUS
<1>0. /\ inbox \in [Sessions -> Seq(Rows)] /\ event \in [Sessions -> Rows \union {NoEvent}]
      /\ UserOf \in [Sessions -> Users] /\ sent \in Nat
  BY MessagesAssumption DEF IInv, TypeOK
<1>1. CASE UNCHANGED <<rows, sent, event, inbox>>
  BY <1>1, MovesNumbered
<1>2. ASSUME NEW s \in Sessions,
             \/ Connect(s) \/ RefreshUnread(s) \/ Subscribe(s) \/ (\E p \in Users : OpenDM(s, p))
             \/ MarkDMRead(s) \/ LookAway(s) \/ Send(s) \/ CheckAgain(s) \/ Publish(s) \/ Echo(s)
             \/ (\E u \in Users : Block(s, u) \/ Unblock(s, u))
      PROVE  OneOfANumber'
  <2>1. UNCHANGED <<rows, sent, event, inbox>>
    BY <1>2 DEF Connect, RefreshUnread, Subscribe, OpenDM, MarkDMRead, LookAway, Send, CheckAgain,
                Publish, Echo, Block, Unblock, Command
  <2> QED  BY <1>1, <2>1
<1>3. ASSUME NEW S \in SUBSET Sessions, Forget(S), UNCHANGED <<rows, sent>> PROVE OneOfANumber'
  <2>1. \A s \in Sessions : \A j \in 1 .. Len(inbox'[s]) : inbox'[s] = inbox[s]
    BY <1>3 DEF Forget
  <2>2. \A s \in Sessions : event'[s] = event[s] \/ event'[s] = NoEvent
    BY <1>3 DEF Forget
  <2> QED  BY <1>3, <2>1, <2>2, MovesNumbered
<1>4. ASSUME NEW s \in Sessions, Disconnect(s) PROVE OneOfANumber'
  BY <1>3, <1>4 DEF Disconnect
<1>5. ASSUME NEW s \in Sessions, Return(s) PROVE OneOfANumber'
  BY <1>0, <1>5, MovesNumbered DEF Return
<1>6. ASSUME NEW s \in Sessions, NEW r \in Sessions, Deliver(s, r) PROVE OneOfANumber'
  <2>1. UNCHANGED <<rows, sent, event>>
    BY <1>6 DEF Deliver
  <2>2. inbox' = inbox \/ inbox' = [inbox EXCEPT ![r] = Offer(inbox[r], event[s])]
    BY <1>6 DEF Deliver
  <2>3. event[s] \in Rows
    BY <1>6 DEF Deliver, IInv, Midway
  <2>4. \A j \in 1 .. Len(Offer(inbox[r], event[s])) :
           \/ \E k \in 1 .. Len(inbox[r]) : Offer(inbox[r], event[s])[j] = inbox[r][k]
           \/ Offer(inbox[r], event[s])[j] = event[s]
    BY <1>0, <2>3 DEF Offer
  <2>5. \A q \in Sessions : \A j \in 1 .. Len(inbox'[q]) :
           \/ \E k \in 1 .. Len(inbox[q]) : inbox'[q][j] = inbox[q][k]
           \/ \E a \in Sessions : inbox'[q][j] = event[a]
    BY <1>0, <2>2, <2>4
  <2> QED  BY <2>1, <2>5, MovesNumbered
<1>7. ASSUME NEW s \in Sessions, HandleDM(s) PROVE OneOfANumber'
  <2>1. UNCHANGED <<rows, sent, event>> /\ inbox' = [inbox EXCEPT ![s] = Tail(@)]
    BY <1>7 DEF HandleDM
  <2>2. \A j \in 1 .. Len(Tail(inbox[s])) :
           j + 1 \in 1 .. Len(inbox[s]) /\ Tail(inbox[s])[j] = inbox[s][j + 1]
    BY <1>0, <1>7 DEF HandleDM
  <2>3. \A q \in Sessions : \A j \in 1 .. Len(inbox'[q]) :
           \E k \in 1 .. Len(inbox[q]) : inbox'[q][j] = inbox[q][k]
    BY <1>0, <2>1, <2>2
  <2> QED  BY <2>1, <2>3, MovesNumbered
<1>8. ASSUME NEW s \in Sessions, NEW i \in Ids, InsertDM(s, i) PROVE OneOfANumber'
  <2> DEFINE new == NewRow(s, i)
  <2>1. /\ rows' = [rows EXCEPT ![i] = new] /\ event' = [event EXCEPT ![s] = new]
        /\ sent' = sent + 1 /\ inbox' = inbox /\ view[s] # UserOf[s]
    BY <1>8 DEF InsertDM, Placed
  <2>2. new.nr = sent + 1 /\ new.from # new.dest
    BY <2>1 DEF NewRow
  <2>3. rows \in [Ids -> Rows \union {NoRow}]
    BY DEF IInv, TypeOK
  <2> HIDE DEF new
  <2>4. \A j \in Stored' : j = i \/ (j \in Stored /\ rows'[j] = rows[j])
    BY <2>1, <2>3 DEF Stored
  <2>5. rows'[i] = new /\ event'[s] = new /\ \A a \in Sessions \ {s} : event'[a] = event[a]
    BY <1>0, <2>1, <2>3
  <2>6. \A a \in Sessions :
           event'[a].nr =< sent' /\ \A k \in 1 .. Len(inbox[a]) : inbox[a][k].nr =< sent'
    <3>1. \A a \in Sessions : event[a].nr \in Int
      BY <1>0, RowsAreNumbered DEF NoEvent, Numbers
    <3>2. \A a \in Sessions : \A k \in 1 .. Len(inbox[a]) : inbox[a][k].nr \in Int
      BY <1>0, RowsAreNumbered DEF Numbers
    <3>3. \A a \in Sessions : event[a].nr =< sent + 1
      BY <1>0, <3>1 DEF OneOfANumber
    <3>4. \A a \in Sessions : \A k \in 1 .. Len(inbox[a]) : inbox[a][k].nr =< sent + 1
      BY <1>0, <3>2 DEF OneOfANumber
    <3>5. \A a \in Sessions : event'[a].nr =< sent + 1
      BY <1>0, <2>2, <2>5, <3>3
    <3> QED  BY <2>1, <3>4, <3>5
  <2>7. ASSUME NEW j \in Stored'
        PROVE  /\ rows'[j].nr =< sent' /\ rows'[j].from # rows'[j].dest
               /\ \A a \in Sessions :
                     Agrees(event[a], j)' /\ \A k \in 1 .. Len(inbox'[a]) : Agrees(inbox[a][k], j)'
    <3>1. CASE j = i
      <4>1. \A a \in Sessions \ {s} : event'[a].nr # sent + 1
        BY <1>0, <2>5 DEF OneOfANumber
      <4>2. \A a \in Sessions : \A k \in 1 .. Len(inbox'[a]) : inbox'[a][k].nr # sent + 1
        BY <1>0, <2>1 DEF OneOfANumber
      <4> QED  BY <1>0, <2>1, <2>2, <2>5, <3>1, <4>1, <4>2 DEF Agrees
    <3>2. CASE j # i
      <4>1. j \in Stored /\ rows'[j] = rows[j]
        BY <2>4, <3>2
      <4>2. rows[j].nr \in Int /\ rows[j].nr # sent + 1 /\ rows[j].nr =< sent + 1
        BY <1>0, <4>1, StoredIsRow, RowsAreNumbered DEF OneOfANumber, Numbers, IInv
      <4> QED  BY <2>1, <2>2, <2>5, <4>1, <4>2 DEF OneOfANumber, Agrees
    <3> QED  BY <3>1, <3>2
  <2> QED  BY <2>1, <2>6, <2>7 DEF OneOfANumber
<1>9. ASSUME \A i \in Stored' : /\ i \in Stored /\ rows'[i].nr = rows[i].nr
                                /\ rows'[i].from = rows[i].from /\ rows'[i].dest = rows[i].dest,
             UNCHANGED <<sent, event, inbox>>
      PROVE  OneOfANumber'
  BY <1>9 DEF OneOfANumber, Agrees
<1>10. ASSUME NEW s \in Sessions, NEW i \in Ids, Delete(s, i) PROVE OneOfANumber'
  <2>1. /\ i \in Stored /\ rows' = [rows EXCEPT ![i] = [rows[i] EXCEPT !.gone = TRUE]]
        /\ UNCHANGED <<sent, event, inbox>>
    BY <1>10 DEF Delete, Command
  <2>2. rows[i] \in Rows /\ rows \in [Ids -> Rows \union {NoRow}]
    BY <2>1, StoredIsRow DEF IInv, TypeOK
  <2>3. /\ rows'[i].nr = rows[i].nr /\ rows'[i].from = rows[i].from /\ rows'[i].dest = rows[i].dest
        /\ \A j \in Ids \ {i} : rows'[j] = rows[j]
    BY <2>1, <2>2 DEF Rows
  <2> QED  BY <1>9, <2>1, <2>3 DEF Stored
<1>11. ASSUME NEW I \in SUBSET Ids, Purge(I) PROVE OneOfANumber'
  BY <1>9, <1>11 DEF Purge, Command, Stored
<1>12. CASE Restart
  BY <1>3, <1>12 DEF Restart
<1>13. CASE UNCHANGED vars
  BY <1>1, <1>13 DEF vars
<1> QED  BY <1>2, <1>4, <1>5, <1>6, <1>7, <1>8, <1>10, <1>11, <1>12, <1>13 DEF Next

MInv == IInv /\ Placed /\ OneOfANumber

LEMMA AlwaysMInv == Spec => []MInv
<1>1. Init => MInv
  BY InitInv, InitPlaced, InitNumbered DEF MInv
<1>2. MInv /\ [Next]_vars => MInv'
  BY NextInv, NextPlaced, NextNumbered DEF MInv
<1> QED  BY <1>1, <1>2, PTL DEF Spec

-----------------------------------------------------------------------------
(* Messages on their way                                                   *)

\* The session has read its counts.
Counting(s) == at[s] \notin {"off", "gone", "unread"}

\* With the publisher a, or in the channel.
With(a, nr, s) ==
    /\ event[a].nr = nr
    /\ at[a] = "publish" \/ s \in to[a] \/ (at[a] = "sending" /\ event[a].from = UserOf[s])

Waiting(nr, s) == \E j \in 1 .. Len(inbox[s]) : inbox[s][j].nr = nr

LEMMA WayCases ==
  ASSUME NEW nr, NEW s
  PROVE  OnItsWay(nr, s) <=> Waiting(nr, s) \/ \E a \in Sessions : With(a, nr, s)
BY DEF OnItsWay, Waiting, With

CalmStep ==
    \/ \E s \in Sessions :
          \/ Connect(s) \/ RefreshUnread(s) \/ Subscribe(s)
          \/ (\E p \in Users : OpenDM(s, p)) \/ MarkDMRead(s) \/ LookAway(s)
          \/ Send(s) \/ CheckAgain(s)
          \/ \E u \in Users : Block(s, u) \/ Unblock(s, u)
          \/ \E i \in Ids : Delete(s, i)
    \/ \E I \in SUBSET Ids : Purge(I)

LEMMA CalmSteps ==
  ASSUME MInv, CalmStep
  PROVE  /\ UNCHANGED <<inbox, event, to, dropped, gap>>
         /\ \A a \in Sessions : at[a] \in {"publish", "sending"} => at'[a] = at[a]
<1>0. at \in [Sessions -> Stages]
  BY DEF MInv, IInv, TypeOK
<1>1. ASSUME NEW s \in Sessions, Connect(s) \/ RefreshUnread(s) \/ Subscribe(s)
                                 \/ (\E p \in Users : OpenDM(s, p)) \/ MarkDMRead(s) \/ LookAway(s)
      PROVE  /\ UNCHANGED <<inbox, event, to, dropped, gap>>
             /\ \A a \in Sessions : at[a] \in {"publish", "sending"} => at'[a] = at[a]
  BY <1>0, <1>1 DEF Connect, RefreshUnread, Subscribe, OpenDM, MarkDMRead, LookAway
<1>2. ASSUME NEW s \in Sessions, Send(s) \/ CheckAgain(s)
      PROVE  /\ UNCHANGED <<inbox, event, to, dropped, gap>>
             /\ \A a \in Sessions : at[a] \in {"publish", "sending"} => at'[a] = at[a]
  BY <1>0, <1>2 DEF Send, CheckAgain
<1>3. ASSUME NEW s \in Sessions, (\E u \in Users : Block(s, u) \/ Unblock(s, u))
                                 \/ (\E i \in Ids : Delete(s, i))
      PROVE  UNCHANGED <<inbox, event, to, dropped, gap, at>>
  BY <1>3 DEF Block, Unblock, Delete
<1>4. ASSUME NEW I \in SUBSET Ids, Purge(I)
      PROVE  UNCHANGED <<inbox, event, to, dropped, gap, at>>
  BY <1>4 DEF Purge
<1> QED  BY <1>1, <1>2, <1>3, <1>4 DEF CalmStep

LEMMA Steps ==
  ASSUME Next
  PROVE  \/ CalmStep \/ Restart
         \/ \E s \in Sessions :
               \/ Disconnect(s) \/ (\E i \in Ids : InsertDM(s, i)) \/ Publish(s) \/ Echo(s)
               \/ (\E r \in Sessions : Deliver(s, r)) \/ Return(s) \/ HandleDM(s)
BY DEF Next, CalmStep

\* A message on its way to a session stays so, is dropped, comes while Init has
\* not subscribed, or is the one that the session handles in this step.
LEMMA WayKept ==
  ASSUME MInv, Next, NEW s \in Sessions, Counting(s), Counting(s)',
         NEW i \in Stored, NEW nr, nr = rows[i].nr, OnItsWay(nr, s),
         rows[i].dest = UserOf[s] \/ (Connected(s) /\ rows[i].from = UserOf[s])
  PROVE  \/ OnItsWay(nr, s)' \/ nr \in dropped'[s]
         \/ ~Connected(s) /\ nr \in gap'[s]
         \/ HandleDM(s) /\ Head(inbox[s]).nr = nr
<1>0. /\ at \in [Sessions -> Stages] /\ to \in [Sessions -> SUBSET Sessions]
      /\ inbox \in [Sessions -> Seq(Rows)] /\ event \in [Sessions -> Rows \union {NoEvent}]
      /\ dropped \in [Sessions -> SUBSET Numbers] /\ users \subseteq Sessions
  BY DEF MInv, IInv, TypeOK
<1>1. CASE CalmStep
  BY <1>1, CalmSteps DEF OnItsWay
<1>2. CASE Restart
  BY <1>2 DEF Restart, Counting
<1>3. ASSUME NEW x \in Sessions,
             \/ Disconnect(x) \/ (\E k \in Ids : InsertDM(x, k)) \/ Return(x)
      PROVE  OnItsWay(nr, s)'
  <2>1. at[x] \notin {"publish", "sending"} /\ to[x] = {}
    BY <1>3 DEF Disconnect, InsertDM, Return, MInv, Placed
  <2>2. Disconnect(x) => s # x
    BY <1>0 DEF Disconnect, Counting
  <2>3. inbox'[s] = inbox[s]
    BY <1>3, <2>2 DEF Disconnect, Forget, InsertDM, Return
  <2>4. \A a \in Sessions \ {x} : at'[a] = at[a] /\ to'[a] = to[a] /\ event'[a] = event[a]
    BY <1>0, <1>3 DEF Disconnect, Forget, InsertDM, Return
  <2>5. ~With(x, nr, s)
    BY <2>1 DEF With
  <2>6. ASSUME NEW a \in Sessions, With(a, nr, s) PROVE With(a, nr, s)'
    BY <2>4, <2>5, <2>6 DEF With
  <2>7. Waiting(nr, s) => Waiting(nr, s)'
    BY <2>3 DEF Waiting
  <2> QED  BY <2>6, <2>7, WayCases DEF OnItsWay, Waiting, With
<1>4. ASSUME NEW x \in Sessions, Publish(x)
      PROVE  OnItsWay(nr, s)' \/ (~Connected(s) /\ nr \in gap'[s])
  <2>1. /\ at' = [at EXCEPT ![x] = "sending"] /\ at[x] = "publish"
        /\ to' = [to EXCEPT ![x] = SubsOf(event[x].dest)] /\ UNCHANGED <<inbox, event>>
    BY <1>4 DEF Publish
  <2>2. CASE event[x].nr = nr
    <3>1. event[x].dest = rows[i].dest /\ event[x].from = rows[i].from
      BY <2>2 DEF MInv, OneOfANumber, Agrees
    <3>2. at'[x] = "sending" /\ event'[x].nr = nr
      BY <1>0, <2>1, <2>2
    <3>3. CASE rows[i].from = UserOf[s]
      BY <2>1, <3>1, <3>2, <3>3 DEF OnItsWay
    <3>4. CASE rows[i].dest = UserOf[s] /\ Connected(s)
      <4>1. s \in users
        BY <3>4 DEF MInv, Placed
      <4>2. s \in to'[x]
        BY <1>0, <2>1, <3>1, <3>4, <4>1 DEF SubsOf
      <4> QED  BY <3>2, <4>2 DEF OnItsWay
    <3>5. CASE rows[i].dest = UserOf[s] /\ ~Connected(s)
      <4>1. at[s] = "subscribe"
        BY <3>5 DEF Counting, Connected
      <4> QED  BY <1>4, <2>2, <3>1, <3>5, <4>1 DEF Publish
    <3> QED  BY <3>3, <3>4, <3>5
  <2>3. CASE event[x].nr # nr
    <3>1. \A a \in Sessions \ {x} : at'[a] = at[a] /\ to'[a] = to[a]
      BY <1>0, <2>1
    <3> QED  BY <2>1, <2>3, <3>1 DEF OnItsWay
  <2> QED  BY <2>2, <2>3
<1>5. ASSUME NEW x \in Sessions, Echo(x)
      PROVE  OnItsWay(nr, s)'
  <2>1. /\ at' = [at EXCEPT ![x] = "echoing"] /\ at[x] = "sending" /\ to[x] = {}
        /\ to' = [to EXCEPT ![x] = SubsOf(event[x].from)] /\ UNCHANGED <<inbox, event>>
    BY <1>5 DEF Echo
  <2>2. CASE With(x, nr, s)
    <3>1. event[x].nr = nr /\ event[x].from = UserOf[s]
      BY <2>1, <2>2 DEF With
    <3>2. rows[i].from = UserOf[s] /\ rows[i].from # rows[i].dest
      BY <3>1 DEF MInv, OneOfANumber, Agrees
    <3>3. s \in users
      BY <3>2 DEF MInv, Placed
    <3>4. s \in to'[x]
      BY <1>0, <2>1, <3>1, <3>3 DEF SubsOf
    <3> QED  BY <2>1, <3>1, <3>4 DEF OnItsWay
  <2>3. CASE ~With(x, nr, s)
    <3>1. \A a \in Sessions \ {x} : at'[a] = at[a] /\ to'[a] = to[a]
      BY <1>0, <2>1
    <3>2. ASSUME NEW a \in Sessions, With(a, nr, s) PROVE With(a, nr, s)'
      BY <2>1, <2>3, <3>1, <3>2 DEF With
    <3> QED  BY <2>1, <3>2 DEF OnItsWay, With
  <2> QED  BY <2>2, <2>3
<1>6. ASSUME NEW x \in Sessions, NEW r \in Sessions, Deliver(x, r)
      PROVE  OnItsWay(nr, s)' \/ nr \in dropped'[s]
  <2>1. /\ to' = [to EXCEPT ![x] = @ \ {r}] /\ at' = at /\ event' = event /\ r \in to[x]
        /\ event[x] \in Rows
    BY <1>6 DEF Deliver, MInv, IInv, Midway
  <2>2. CASE s # r
    <3>1. inbox'[s] = inbox[s] /\ \A a \in Sessions : s \in to[a] => s \in to'[a]
      BY <1>0, <1>6, <2>1, <2>2 DEF Deliver
    <3> QED  BY <2>1, <3>1 DEF OnItsWay
  <2>3. CASE s = r
    <3>1. s \in users
      BY <2>1, <2>3 DEF MInv, Placed, Counting
    <3>2. inbox' = [inbox EXCEPT ![s] = Offer(inbox[s], event[x])]
      BY <1>6, <2>3, <3>1 DEF Deliver
    <3>3. Waiting(nr, s) => Waiting(nr, s)'
      BY <1>0, <2>1, <3>2 DEF Waiting, Offer
    <3>4. CASE Waiting(nr, s)
      BY <3>3, <3>4 DEF OnItsWay, Waiting
    <3>5. CASE event[x].nr = nr
      <4>1. CASE Len(inbox[s]) < InboxCap
        <5>1. inbox'[s] = Append(inbox[s], event[x])
          BY <1>0, <3>2, <4>1 DEF Offer
        <5>2. Len(inbox[s]) + 1 \in 1 .. Len(inbox'[s]) /\ inbox'[s][Len(inbox[s]) + 1] = event[x]
          BY <1>0, <2>1, <5>1
        <5> QED  BY <3>5, <5>2 DEF OnItsWay
      <4>2. CASE ~(Len(inbox[s]) < InboxCap)
        BY <1>0, <1>6, <2>3, <3>1, <3>5, <4>2 DEF Deliver
      <4> QED  BY <4>1, <4>2
    <3>6. ASSUME NEW a \in Sessions, With(a, nr, s), event[x].nr # nr PROVE With(a, nr, s)'
      BY <1>0, <2>1, <3>6 DEF With
    <3> QED  BY <3>4, <3>5, <3>6, WayCases DEF OnItsWay, With
  <2> QED  BY <2>2, <2>3
<1>7. ASSUME NEW x \in Sessions, HandleDM(x)
      PROVE  OnItsWay(nr, s)' \/ (HandleDM(s) /\ Head(inbox[s]).nr = nr)
  <2>1. inbox' = [inbox EXCEPT ![x] = Tail(@)] /\ UNCHANGED <<at, event, to>> /\ inbox[x] # <<>>
    BY <1>7 DEF HandleDM
  <2>2. \A a \in Sessions : With(a, nr, s) => With(a, nr, s)'
    BY <2>1 DEF With
  <2>3. Waiting(nr, s) => Waiting(nr, s)' \/ (s = x /\ Head(inbox[s]).nr = nr)
    <3>1. CASE s # x
      BY <1>0, <2>1, <3>1 DEF Waiting
    <3>2. CASE s = x
      <4>1. inbox'[s] = Tail(inbox[s]) /\ inbox[s] \in Seq(Rows) /\ inbox[s] # <<>>
        BY <1>0, <2>1, <3>2
      <4>2. ASSUME NEW j \in 1 .. Len(inbox[s]), inbox[s][j].nr = nr, j # 1
            PROVE  Waiting(nr, s)'
        <5>1. j - 1 \in 1 .. Len(inbox'[s]) /\ inbox'[s][j - 1] = inbox[s][j]
          BY <4>1, <4>2
        <5> QED  BY <4>2, <5>1 DEF Waiting
      <4>3. Head(inbox[s]) = inbox[s][1]
        BY <4>1
      <4> QED  BY <3>2, <4>2, <4>3 DEF Waiting
    <3> QED  BY <3>1, <3>2
  <2> QED  BY <1>7, <2>2, <2>3, WayCases DEF OnItsWay, With, Waiting
<1> QED  BY <1>1, <1>2, <1>3, <1>4, <1>5, <1>6, <1>7, Steps

-----------------------------------------------------------------------------
(* What a step leaves of the table and of a screen                         *)

\* A row is the row it was, unless it has just been inserted.
LEMMA RowsKept ==
  ASSUME MInv, Next, NEW i \in Stored', \A x \in Sessions : ~InsertDM(x, i)
  PROVE  /\ i \in Stored
         /\ rows'[i].nr = rows[i].nr /\ rows'[i].from = rows[i].from /\ rows'[i].dest = rows[i].dest
<1>0. rows \in [Ids -> Rows \union {NoRow}] /\ i \in Ids
  BY DEF MInv, IInv, TypeOK, Stored
<1>1. CASE rows' = rows
  BY <1>1 DEF Stored
<1>2. ASSUME NEW x \in Sessions, NEW k \in Ids, InsertDM(x, k) PROVE k # i /\ rows'[i] = rows[i]
  BY <1>0, <1>2 DEF InsertDM
<1>3. ASSUME NEW x \in Sessions, NEW k \in Ids, Delete(x, k)
      PROVE  /\ i \in Stored
             /\ rows'[i].nr = rows[i].nr /\ rows'[i].from = rows[i].from /\ rows'[i].dest = rows[i].dest
  <2>1. k \in Stored /\ rows' = [rows EXCEPT ![k] = [rows[k] EXCEPT !.gone = TRUE]]
    BY <1>3 DEF Delete
  <2>2. rows[k] \in Rows
    BY <2>1, StoredIsRow DEF MInv, IInv
  <2> QED  BY <1>0, <2>1, <2>2 DEF Rows, Stored
<1>4. ASSUME NEW I \in SUBSET Ids, Purge(I) PROVE rows'[i] = rows[i]
  BY <1>0, <1>4 DEF Purge, Stored
<1>5. ASSUME NEW x \in Sessions, Disconnect(x) \/ Publish(x) \/ Echo(x) \/ Return(x) \/ HandleDM(x)
                                 \/ \E r \in Sessions : Deliver(x, r)
      PROVE  rows' = rows
  BY <1>5 DEF Disconnect, Publish, Echo, Return, HandleDM, Deliver
<1>6. CASE Restart
  BY <1>1, <1>6 DEF Restart
<1>7. ASSUME NEW s \in Sessions, \/ Connect(s) \/ RefreshUnread(s) \/ Subscribe(s)
                                 \/ (\E p \in Users : OpenDM(s, p)) \/ MarkDMRead(s) \/ LookAway(s)
                                 \/ Send(s) \/ CheckAgain(s)
                                 \/ \E u \in Users : Block(s, u) \/ Unblock(s, u)
      PROVE  rows' = rows
  BY <1>7 DEF Connect, RefreshUnread, Subscribe, OpenDM, MarkDMRead, LookAway, Send, CheckAgain,
              Block, Unblock
<1> QED  BY <1>1, <1>2, <1>3, <1>4, <1>5, <1>6, <1>7, Steps DEF CalmStep, Stored

\* An unread notification was there before, unless its row has just been inserted.
LEMMA NotesKept ==
  ASSUME MInv, Next, NEW n \in notes', \A x \in Sessions : ~InsertDM(x, n[2])
  PROVE  n \in notes
<1>1. ASSUME NEW x \in Sessions, NEW k \in Ids, InsertDM(x, k) PROVE n \in notes
  <2>1. notes' = notes \union {<<view[x], k>>}
    BY <1>1 DEF InsertDM, Noted
  <2>2. n # <<view[x], k>>
    BY <1>1
  <2> QED  BY <2>1, <2>2
<1>2. ASSUME NEW x \in Sessions, Disconnect(x) \/ Publish(x) \/ Echo(x) \/ Return(x)
                                 \/ HandleDM(x) \/ \E r \in Sessions : Deliver(x, r)
      PROVE  n \in notes
  BY <1>2 DEF Disconnect, Publish, Echo, Return, HandleDM, Deliver, AfterRead
<1>3. CASE Restart
  BY <1>3 DEF Restart
<1>4. ASSUME NEW s \in Sessions, \/ Connect(s) \/ RefreshUnread(s) \/ Subscribe(s)
                                 \/ (\E p \in Users : OpenDM(s, p)) \/ MarkDMRead(s) \/ LookAway(s)
                                 \/ Send(s) \/ CheckAgain(s)
      PROVE  n \in notes
  BY <1>4 DEF Connect, RefreshUnread, Subscribe, OpenDM, MarkDMRead, LookAway, Send, CheckAgain,
              AfterRead
<1>5. ASSUME NEW s \in Sessions, (\E u \in Users : Block(s, u) \/ Unblock(s, u))
                                 \/ (\E i \in Ids : Delete(s, i))
      PROVE  n \in notes
  BY <1>5 DEF Block, Unblock, Delete
<1>6. ASSUME NEW I \in SUBSET Ids, Purge(I) PROVE n \in notes
  BY <1>6 DEF Purge, Cascade
<1> QED  BY <1>1, <1>2, <1>3, <1>4, <1>5, <1>6, Steps DEF CalmStep

\* A session that shows a thread was showing it, unless the step opened it, and
\* forgets nothing of it.
LEMMA ScreenKept ==
  ASSUME MInv, Next, NEW s \in Sessions, Connected(s)', view'[s] # Nobody,
         \A p \in Users : ~OpenDM(s, p)
  PROVE  /\ Connected(s) /\ view'[s] = view[s]
         /\ shown[s] \subseteq shown'[s] /\ dropped[s] \subseteq dropped'[s]
<1>0. /\ at \in [Sessions -> Stages] /\ view \in [Sessions -> Users \union {Nobody}]
      /\ shown \in [Sessions -> SUBSET Numbers] /\ dropped \in [Sessions -> SUBSET Numbers]
  BY DEF MInv, IInv, TypeOK
<1>p. ~Connected(s) => view[s] = Nobody
  BY DEF MInv, Placed
<1> USE DEF Connected
<1>1. ASSUME NEW x \in Sessions, Connect(x) \/ RefreshUnread(x) \/ Subscribe(x) \/ MarkDMRead(x)
                                 \/ LookAway(x) \/ Send(x) \/ CheckAgain(x)
      PROVE  /\ Connected(s) /\ view'[s] = view[s]
             /\ shown[s] \subseteq shown'[s] /\ dropped[s] \subseteq dropped'[s]
  BY <1>0, <1>p, <1>1 DEF Connect, RefreshUnread, Subscribe, MarkDMRead, LookAway, Send, CheckAgain
<1>2. ASSUME NEW x \in Sessions, NEW p \in Users, OpenDM(x, p)
      PROVE  /\ Connected(s) /\ view'[s] = view[s]
             /\ shown[s] \subseteq shown'[s] /\ dropped[s] \subseteq dropped'[s]
  BY <1>0, <1>2 DEF OpenDM
<1>3. ASSUME NEW x \in Sessions, (\E u \in Users : Block(x, u) \/ Unblock(x, u))
                                 \/ (\E i \in Ids : Delete(x, i))
      PROVE  UNCHANGED <<at, view, shown, dropped>>
  BY <1>3 DEF Block, Unblock, Delete
<1>4. ASSUME NEW I \in SUBSET Ids, Purge(I) PROVE UNCHANGED <<at, view, shown, dropped>>
  BY <1>4 DEF Purge
<1>5. ASSUME NEW x \in Sessions, (\E i \in Ids : InsertDM(x, i)) \/ Publish(x) \/ Echo(x) \/ Return(x)
      PROVE  /\ Connected(s) /\ view'[s] = view[s]
             /\ shown[s] \subseteq shown'[s] /\ dropped[s] \subseteq dropped'[s]
  BY <1>0, <1>5 DEF InsertDM, Publish, Echo, Return
<1>6. ASSUME NEW x \in Sessions, NEW r \in Sessions, Deliver(x, r)
      PROVE  UNCHANGED <<at, view, shown>> /\ dropped[s] \subseteq dropped'[s]
  <2>1. \/ dropped' = dropped
        \/ \E D : dropped' = [dropped EXCEPT ![r] = dropped[r] \union D]
    <3>1. CASE r \in users /\ ~(Len(inbox[r]) < InboxCap)
      <4>1. dropped' = [dropped EXCEPT ![r] = dropped[r] \union {event[x].nr}]
        BY <1>6, <3>1 DEF Deliver
      <4> QED  BY <4>1
    <3>2. CASE r \in users /\ Len(inbox[r]) < InboxCap
      BY <1>0, <1>6, <3>2 DEF Deliver
    <3>3. CASE r \notin users
      BY <1>6, <3>3 DEF Deliver
    <3> QED  BY <3>1, <3>2, <3>3
  <2> QED  BY <1>0, <1>6, <2>1 DEF Deliver
<1>7. ASSUME NEW x \in Sessions, HandleDM(x)
      PROVE  UNCHANGED <<at, view, dropped>> /\ shown[s] \subseteq shown'[s]
  BY <1>0, <1>7 DEF HandleDM
<1>8. ASSUME NEW x \in Sessions, Disconnect(x)
      PROVE  /\ Connected(s) /\ view'[s] = view[s]
             /\ shown[s] \subseteq shown'[s] /\ dropped[s] \subseteq dropped'[s]
  BY <1>0, <1>8 DEF Disconnect, Forget
<1>9. CASE Restart
  BY <1>9 DEF Restart
<1>10. CASE CalmStep
  BY <1>p, <1>1, <1>2, <1>3, <1>4, <1>10 DEF CalmStep
<1> QED  BY <1>p, <1>5, <1>6, <1>7, <1>8, <1>9, <1>10, Steps

\* A message that has just been inserted is on its way to everybody.
LEMMA InsertedOnItsWay ==
  ASSUME MInv, NEW x \in Sessions, NEW i \in Ids, InsertDM(x, i), NEW s \in Sessions
  PROVE  /\ OnItsWay(rows[i].nr, s)'
         /\ \A k \in Ids \ {i} : rows'[k] = rows[k]
<1>1. /\ at' = [at EXCEPT ![x] = "publish"] /\ event' = [event EXCEPT ![x] = NewRow(x, i)]
      /\ rows' = [rows EXCEPT ![i] = NewRow(x, i)]
  BY DEF InsertDM
<1>2. at'[x] = "publish" /\ event'[x] = rows'[i]
  BY <1>1 DEF MInv, IInv, TypeOK
<1> QED  BY <1>1, <1>2 DEF OnItsWay, MInv, IInv, TypeOK

\* The other party of a message of a thread is the peer of the thread.
LEMMA PeerOfThread ==
  ASSUME NEW u, NEW p, NEW ev, {ev.from, ev.dest} = {u, p}
  PROVE  p = IF ev.from = u THEN ev.dest ELSE ev.from
OBVIOUS

-----------------------------------------------------------------------------
(* Threads on the screen                                                   *)

LEMMA ThreadStep == MInv /\ ThreadComplete /\ Next => ThreadComplete'
<1> SUFFICES ASSUME MInv, ThreadComplete, Next,
                    NEW s \in Sessions, Connected(s)', view'[s] # Nobody,
                    NEW i \in Thread(UserOf[s], view[s])'
             PROVE  \/ rows'[i].nr \in shown'[s] \union dropped'[s]
                    \/ OnItsWay(rows[i].nr, s)'
  BY DEF ThreadComplete
<1>1. i \in Stored' /\ {rows'[i].from, rows'[i].dest} = {UserOf[s], view'[s]}
  BY DEF Thread, Parties
<1>2. ASSUME NEW p \in Users, OpenDM(s, p)
      PROVE  rows'[i].nr \in shown'[s]
  <2>1. /\ shown' = [shown EXCEPT ![s] = {rows[k].nr : k \in Thread(UserOf[s], p)}]
        /\ view' = [view EXCEPT ![s] = p] /\ rows' = rows
    BY <1>2 DEF OpenDM
  <2>2. view'[s] = p /\ shown'[s] = {rows[k].nr : k \in Thread(UserOf[s], p)}
    BY <2>1 DEF MInv, IInv, TypeOK
  <2>3. i \in Thread(UserOf[s], p)
    BY <1>1, <2>1, <2>2 DEF Thread, Stored, Parties
  <2> QED  BY <2>1, <2>2, <2>3
<1>3. CASE \E x \in Sessions : InsertDM(x, i)
  BY <1>1, <1>3, InsertedOnItsWay DEF Stored
<1>4. CASE (\A p \in Users : ~OpenDM(s, p)) /\ \A x \in Sessions : ~InsertDM(x, i)
  <2>1. /\ Connected(s) /\ view'[s] = view[s]
        /\ shown[s] \subseteq shown'[s] /\ dropped[s] \subseteq dropped'[s]
    BY <1>4, ScreenKept
  <2>2. /\ i \in Stored
        /\ rows'[i].nr = rows[i].nr /\ rows'[i].from = rows[i].from /\ rows'[i].dest = rows[i].dest
    BY <1>1, <1>4, RowsKept
  <2>3. i \in Thread(UserOf[s], view[s])
    BY <1>1, <2>1, <2>2 DEF Thread, Parties
  <2>4. PICK nr : nr = rows[i].nr
    OBVIOUS
  <2>5. nr \in shown[s] \union dropped[s] \/ OnItsWay(nr, s)
    BY <2>1, <2>3, <2>4 DEF ThreadComplete
  <2>6. CASE OnItsWay(nr, s)
    <3>1. rows[i].dest = UserOf[s] \/ rows[i].from = UserOf[s]
      BY <1>1, <2>2
    <3>2. Counting(s) /\ Counting(s)'
      BY <2>1 DEF Connected, Counting
    <3>3. \/ OnItsWay(nr, s)' \/ nr \in dropped'[s]
          \/ HandleDM(s) /\ Head(inbox[s]).nr = nr
      BY <2>1, <2>2, <2>4, <2>6, <3>1, <3>2, WayKept
    <3>4. CASE HandleDM(s) /\ Head(inbox[s]).nr = nr
      <4>1. Head(inbox[s]) = inbox[s][1] /\ 1 \in 1 .. Len(inbox[s])
        BY <3>4 DEF HandleDM, MInv, IInv, TypeOK
      <4>2. Head(inbox[s]).from = rows[i].from /\ Head(inbox[s]).dest = rows[i].dest
        BY <2>2, <2>4, <3>4, <4>1 DEF MInv, OneOfANumber, Agrees
      <4>3. view[s] = Other(s, Head(inbox[s]))
        BY <1>1, <2>1, <2>2, <4>2, PeerOfThread DEF Other
      <4>4. shown' = [shown EXCEPT ![s] = shown[s] \union {Head(inbox[s]).nr}]
        BY <3>4, <4>3 DEF HandleDM
      <4>5. nr \in shown'[s]
        BY <3>4, <4>4 DEF MInv, IInv, TypeOK
      <4> QED  BY <2>2, <2>4, <4>5
    <3>5. OnItsWay(nr, s)' => OnItsWay(rows[i].nr, s)'
      BY <2>2, <2>4 DEF OnItsWay
    <3> QED  BY <2>2, <2>4, <3>3, <3>4, <3>5
  <2> QED  BY <2>1, <2>2, <2>4, <2>5, <2>6
<1> QED  BY <1>2, <1>3, <1>4

\* A thread on the screen misses no message: each is shown, on its way, or was
\* dropped by a full channel (app.go:288-299, 637-656), for any number of sessions,
\* whatever rows are purged and ids given out again.
THEOREM ThreadsComplete == Spec => []ThreadComplete
<1>1. Init => ThreadComplete
  BY DEF Init, ThreadComplete, Connected
<1>2. MInv /\ ThreadComplete /\ [Next]_vars => ThreadComplete'
  <2>1. ASSUME UNCHANGED vars, ThreadComplete PROVE ThreadComplete'
    <3>1. UNCHANGED <<rows, at, view, shown, dropped, event, to, inbox>>
      BY <2>1 DEF vars
    <3>2. /\ \A s \in Sessions : Connected(s)' <=> Connected(s)
          /\ \A s \in Sessions : Thread(UserOf[s], view[s])' = Thread(UserOf[s], view[s])
          /\ \A s \in Sessions : \A nr : OnItsWay(nr, s)' <=> OnItsWay(nr, s)
      BY <3>1 DEF Connected, Thread, Stored, Parties, OnItsWay
    <3>3. \A s \in Sessions : \A i : OnItsWay(rows[i].nr, s) => OnItsWay(rows[i].nr, s)'
      BY <3>1 DEF OnItsWay
    <3> QED  BY <2>1, <3>1, <3>2, <3>3 DEF ThreadComplete
  <2> QED  BY <2>1, ThreadStep
<1> QED  BY <1>1, <1>2, AlwaysMInv, PTL DEF Spec

-----------------------------------------------------------------------------
(* Unread counts                                                           *)

\* UnreadCounted, also between reading the counts and subscribing, and for the
\* thread on the screen, unless it is just being marked: a message that comes
\* then must not be left unread by a session that goes to another thread.
AllCounted ==
    \A s \in Sessions : Counting(s) =>
        \A p \in Users : (p = view[s] => at[s] # "mark") =>
            \A i \in UnreadFrom(UserOf[s], p) :
                \/ badge[s][p] > 0
                \/ OnItsWay(rows[i].nr, s)
                \/ rows[i].nr \in dropped[s] \union gap[s]

\* What a session that has read its counts had before a step.
LEMMA CountsKept ==
  ASSUME MInv, Next, NEW s \in Sessions, Counting(s)', ~RefreshUnread(s), NEW p \in Users
  PROVE  /\ Counting(s)
         /\ dropped[s] \subseteq dropped'[s] /\ gap[s] \subseteq gap'[s]
         /\ badge'[s][p] >= badge[s][p] \/ (MarkDMRead(s) /\ p = view[s])
         /\ p = view[s] /\ at[s] = "mark" => MarkDMRead(s) \/ (p = view'[s] /\ at'[s] = "mark")
<1>0. /\ at \in [Sessions -> Stages] /\ view \in [Sessions -> Users \union {Nobody}]
      /\ gap \in [Sessions -> SUBSET Numbers] /\ dropped \in [Sessions -> SUBSET Numbers]
      /\ badge \in [Sessions -> [Users -> Nat]]
  BY DEF MInv, IInv, TypeOK
<1>n. \A c \in Nat : c >= c /\ c + 1 >= c
  OBVIOUS
<1> DEFINE Kept == /\ Counting(s)
                   /\ dropped[s] \subseteq dropped'[s] /\ gap[s] \subseteq gap'[s]
                   /\ badge'[s][p] >= badge[s][p] \/ (MarkDMRead(s) /\ p = view[s])
                   /\ p = view[s] /\ at[s] = "mark" =>
                         MarkDMRead(s) \/ (p = view'[s] /\ at'[s] = "mark")
<1> USE DEF Counting
<1>1. ASSUME NEW x \in Sessions, Connect(x) \/ RefreshUnread(x) \/ Subscribe(x) PROVE Kept
  BY <1>0, <1>n, <1>1 DEF Connect, RefreshUnread, Subscribe
<1>2. ASSUME NEW x \in Sessions, (\E q \in Users : OpenDM(x, q)) \/ LookAway(x) PROVE Kept
  BY <1>0, <1>n, <1>2 DEF OpenDM, LookAway
<1>3. ASSUME NEW x \in Sessions, MarkDMRead(x) PROVE Kept
  <2>1. /\ at' = [at EXCEPT ![x] = "idle"] /\ at[x] = "mark"
        /\ badge' = [badge EXCEPT ![x] = [badge[x] EXCEPT ![view[x]] = 0]]
        /\ UNCHANGED <<view, dropped, gap>>
    BY <1>3 DEF MarkDMRead
  <2>2. CASE x = s
    <3>1. CASE p = view[s]
      BY <1>0, <1>3, <2>1, <2>2, <3>1
    <3>2. CASE p # view[s]
      BY <1>0, <1>n, <2>1, <2>2, <3>2
    <3> QED  BY <3>1, <3>2
  <2>3. CASE x # s
    BY <1>0, <1>n, <2>1, <2>3
  <2> QED  BY <2>2, <2>3
<1>4. ASSUME NEW x \in Sessions, Send(x) \/ CheckAgain(x) PROVE Kept
  BY <1>0, <1>n, <1>4 DEF Send, CheckAgain, AfterCheck
<1>5. ASSUME UNCHANGED <<at, view, badge, dropped, gap>> PROVE Kept
  BY <1>0, <1>n, <1>5
<1>6. ASSUME NEW x \in Sessions, (\E u \in Users : Block(x, u) \/ Unblock(x, u))
                                 \/ (\E i \in Ids : Delete(x, i))
      PROVE  UNCHANGED <<at, view, badge, dropped, gap>>
  BY <1>6 DEF Block, Unblock, Delete
<1>7. ASSUME NEW I \in SUBSET Ids, Purge(I) PROVE UNCHANGED <<at, view, badge, dropped, gap>>
  BY <1>7 DEF Purge
<1>8. ASSUME NEW x \in Sessions, (\E i \in Ids : InsertDM(x, i)) \/ Echo(x) \/ Return(x) PROVE Kept
  BY <1>0, <1>n, <1>8 DEF InsertDM, Echo, Return
<1>9. ASSUME NEW x \in Sessions, Publish(x) PROVE Kept
  BY <1>0, <1>n, <1>9 DEF Publish
<1>10. ASSUME NEW x \in Sessions, NEW r \in Sessions, Deliver(x, r) PROVE Kept
  <2>1. UNCHANGED <<at, view, badge, gap>>
    BY <1>10 DEF Deliver
  <2>2. dropped[s] \subseteq dropped'[s]
    <3>1. CASE r \in users /\ ~(Len(inbox[r]) < InboxCap)
      <4>1. dropped' = [dropped EXCEPT ![r] = dropped[r] \union {event[x].nr}]
        BY <1>10, <3>1 DEF Deliver
      <4> QED  BY <1>0, <4>1
    <3>2. CASE r \in users /\ Len(inbox[r]) < InboxCap
      BY <1>0, <1>10, <3>2 DEF Deliver
    <3>3. CASE r \notin users
      BY <1>10, <3>3 DEF Deliver
    <3> QED  BY <3>1, <3>2, <3>3
  <2> QED  BY <1>0, <1>n, <2>1, <2>2
<1>11. ASSUME NEW x \in Sessions, HandleDM(x) PROVE Kept
  <2>1. /\ UNCHANGED <<at, view, gap, dropped>>
        /\ \E q : badge' = [badge EXCEPT ![x] = [badge[x] EXCEPT ![q] =
                              IF Bumps(x, Head(inbox[x])) THEN @ + 1 ELSE @]]
    BY <1>11 DEF HandleDM
  <2> QED  BY <1>0, <1>n, <2>1
<1>12. ASSUME NEW x \in Sessions, Disconnect(x) PROVE Kept
  BY <1>0, <1>n, <1>12 DEF Disconnect, Forget
<1>13. CASE Restart
  BY <1>13 DEF Restart
<1>14. CASE CalmStep
  BY <1>1, <1>2, <1>3, <1>4, <1>5, <1>6, <1>7, <1>14 DEF CalmStep
<1> QED  BY <1>8, <1>9, <1>10, <1>11, <1>12, <1>13, <1>14, Steps

LEMMA CountedStep == MInv /\ NotificationsFit /\ AllCounted /\ Next => AllCounted'
<1> SUFFICES ASSUME MInv, NotificationsFit, AllCounted, Next,
                    NEW s \in Sessions, Counting(s)', NEW p \in Users,
                    p = view'[s] => at'[s] # "mark",
                    NEW i \in UnreadFrom(UserOf[s], p)'
             PROVE  \/ badge'[s][p] > 0
                    \/ OnItsWay(rows[i].nr, s)'
                    \/ rows'[i].nr \in dropped'[s] \union gap'[s]
  BY DEF AllCounted
<1>1. /\ i \in Stored' /\ {rows'[i].from, rows'[i].dest} = {UserOf[s], p}
      /\ <<UserOf[s], i>> \in notes'
  BY DEF UnreadFrom, Thread, Parties
<1>2. CASE RefreshUnread(s)
  <2>1. /\ badge' = [badge EXCEPT ![s] = [q \in Users |-> Cardinality(UnreadFrom(UserOf[s], q))]]
        /\ rows' = rows /\ notes' = notes
    BY <1>2 DEF RefreshUnread
  <2>2. i \in UnreadFrom(UserOf[s], p)
    BY <1>1, <2>1 DEF UnreadFrom, Thread, Stored, Parties
  <2>3. Cardinality(UnreadFrom(UserOf[s], p)) \in Nat /\ Cardinality(UnreadFrom(UserOf[s], p)) # 0
    <3>1. IsFiniteSet(Ids) /\ UnreadFrom(UserOf[s], p) \subseteq Ids
      BY FS_Interval, MessagesAssumption DEF Ids, UnreadFrom, Thread, Stored
    <3>2. IsFiniteSet(UnreadFrom(UserOf[s], p))
      BY <3>1, FS_Subset
    <3> QED  BY <2>2, <3>2, CountIsNat, FS_EmptySet
  <2>4. badge'[s][p] = Cardinality(UnreadFrom(UserOf[s], p))
    BY <2>1 DEF MInv, IInv, TypeOK
  <2> QED  BY <2>3, <2>4
<1>3. CASE \E x \in Sessions : InsertDM(x, i)
  BY <1>1, <1>3, InsertedOnItsWay DEF Stored
<1>4. CASE ~RefreshUnread(s) /\ \A x \in Sessions : ~InsertDM(x, i)
  <2>1. /\ Counting(s)
        /\ dropped[s] \subseteq dropped'[s] /\ gap[s] \subseteq gap'[s]
        /\ badge'[s][p] >= badge[s][p] \/ (MarkDMRead(s) /\ p = view[s])
        /\ p = view[s] /\ at[s] = "mark" => MarkDMRead(s) \/ (p = view'[s] /\ at'[s] = "mark")
    BY <1>4, CountsKept
  <2>2. /\ i \in Stored
        /\ rows'[i].nr = rows[i].nr /\ rows'[i].from = rows[i].from /\ rows'[i].dest = rows[i].dest
    BY <1>1, <1>4, RowsKept
  <2>3. <<UserOf[s], i>> \in notes
    BY <1>1, <1>4, NotesKept
  <2>4. rows[i].dest = UserOf[s] /\ rows[i].from # UserOf[s] /\ rows[i].from = p
    BY <1>1, <2>2, <2>3 DEF NotificationsFit, MInv, OneOfANumber
  <2>5. i \in UnreadFrom(UserOf[s], p) /\ i \in Thread(UserOf[s], p)
    BY <1>1, <2>2, <2>3 DEF UnreadFrom, Thread, Parties
  <2>6. ~(MarkDMRead(s) /\ p = view[s])
    BY <1>1, <2>5 DEF MarkDMRead, AfterRead
  <2>7. PICK nr : nr = rows[i].nr
    OBVIOUS
  <2>8. badge[s][p] > 0 \/ OnItsWay(nr, s) \/ nr \in dropped[s] \union gap[s]
    BY <2>1, <2>5, <2>6, <2>7 DEF AllCounted
  <2>9. badge[s][p] \in Nat /\ badge'[s][p] >= badge[s][p]
    BY <2>1, <2>6 DEF MInv, IInv, TypeOK
  <2>10. CASE badge[s][p] > 0
    <3>1. badge'[s][p] \in Nat
      BY NextInv DEF MInv, IInv, TypeOK
    <3> QED  BY <2>9, <2>10, <3>1
  <2>11. CASE OnItsWay(nr, s)
    <3>1. \/ OnItsWay(nr, s)' \/ nr \in dropped'[s] \union gap'[s]
          \/ HandleDM(s) /\ Head(inbox[s]).nr = nr
      BY <2>1, <2>2, <2>4, <2>7, <2>11, WayKept
    <3>2. CASE HandleDM(s) /\ Head(inbox[s]).nr = nr
      <4> DEFINE ev == Head(inbox[s])
      <4>1. ev = inbox[s][1] /\ 1 \in 1 .. Len(inbox[s])
        BY <3>2 DEF HandleDM, MInv, IInv, TypeOK
      <4>2. ev.from = rows[i].from /\ ev.dest = rows[i].dest
        BY <2>2, <2>7, <3>2, <4>1 DEF MInv, OneOfANumber, Agrees
      <4>3. Other(s, ev) = p /\ ev.from # UserOf[s]
        BY <2>4, <4>2 DEF Other
      <4>4. CASE view[s] = p
        <5>1. notes' = AfterRead(UserOf[s], p)
          BY <3>2, <4>3, <4>4 DEF HandleDM
        <5> QED  BY <1>1, <2>5, <5>1 DEF AfterRead
      <4>5. CASE view[s] # p
        <5>1. Bumps(s, ev)
          BY <4>3, <4>5 DEF Bumps
        <5>2. badge' = [badge EXCEPT ![s] = [badge[s] EXCEPT ![p] = badge[s][p] + 1]]
          BY <3>2, <4>3, <5>1 DEF HandleDM
        <5>3. badge'[s][p] = badge[s][p] + 1
          BY <5>2 DEF MInv, IInv, TypeOK
        <5> QED  BY <2>9, <5>3
      <4> QED  BY <4>4, <4>5
    <3>3. OnItsWay(nr, s)' => OnItsWay(rows[i].nr, s)'
      BY <2>2, <2>7 DEF OnItsWay
    <3> QED  BY <2>2, <2>7, <3>1, <3>2, <3>3
  <2>12. CASE nr \in dropped[s] \union gap[s]
    BY <2>1, <2>2, <2>7, <2>12
  <2> QED  BY <2>8, <2>10, <2>11, <2>12
<1> QED  BY <1>2, <1>3, <1>4

LEMMA AlwaysFit == Spec => [](MInv /\ NotificationsFit)
BY AlwaysMInv, NotificationsStayFit, PTL

\* A message its user has not read is counted wherever its thread is not on the
\* screen, or is on its way there, met a full channel, or came between reading
\* the counts and subscribing (app.go:156-162, 637-656, 747-783).
THEOREM UnreadStaysCounted == Spec => []UnreadCounted
<1>1. Init => AllCounted
  BY DEF Init, AllCounted, UnreadFrom
<1>2. MInv /\ NotificationsFit /\ AllCounted /\ [Next]_vars => AllCounted'
  <2>1. ASSUME UNCHANGED vars, AllCounted PROVE AllCounted'
    <3>1. UNCHANGED <<rows, notes, at, view, badge, dropped, gap, event, to, inbox>>
      BY <2>1 DEF vars
    <3>2. /\ \A s \in Sessions : Counting(s)' <=> Counting(s)
          /\ \A s \in Sessions : \A p : UnreadFrom(UserOf[s], p)' = UnreadFrom(UserOf[s], p)
          /\ \A s \in Sessions : \A i : OnItsWay(rows[i].nr, s) => OnItsWay(rows[i].nr, s)'
      BY <3>1 DEF Counting, UnreadFrom, Thread, Stored, Parties, OnItsWay
    <3> QED  BY <2>1, <3>1, <3>2 DEF AllCounted
  <2> QED  BY <2>1, CountedStep
<1>3. AllCounted => UnreadCounted
  BY DEF AllCounted, UnreadCounted, Connected, Counting
<1> QED  BY <1>1, <1>2, <1>3, AlwaysFit, PTL DEF Spec

-----------------------------------------------------------------------------
(* Reading                                                                 *)

\* What ReadByOpening says of one notification and one step.
OpenedBy(n, s) ==
    /\ UserOf[s] = n[1] /\ view[s] = rows[n[2]].from
    /\ \/ rows[n[2]].nr \in shown[s] \union dropped[s]
       \/ OnItsWay(rows[n[2]].nr, s)

LEMMA ReadingOpens ==
  ASSUME MInv, NotificationsFit, ThreadComplete, NEW s \in Sessions, Connected(s), view[s] # Nobody,
         NEW n \in notes, n \notin AfterRead(UserOf[s], view[s])
  PROVE  OpenedBy(n, s)
<1>1. n[1] = UserOf[s] /\ n[2] \in Thread(UserOf[s], view[s])
  BY DEF AfterRead
<1>2. rows[n[2]].dest = UserOf[s]
  BY <1>1 DEF NotificationsFit
<1>3. rows[n[2]].from = view[s]
  BY <1>1, <1>2 DEF Thread, Parties, MInv, Placed
<1>4. \/ rows[n[2]].nr \in shown[s] \union dropped[s] \/ OnItsWay(rows[n[2]].nr, s)
  BY <1>1 DEF ThreadComplete
<1> QED  BY <1>1, <1>3, <1>4 DEF OpenedBy

LEMMA ReadStep ==
  ASSUME MInv, NotificationsFit, ThreadComplete, Next, NEW n \in notes, n \notin notes'
  PROVE  rows'[n[2]] = NoRow \/ \E s \in Sessions : OpenedBy(n, s)
<1>1. ASSUME NEW s \in Sessions, MarkDMRead(s) PROVE OpenedBy(n, s)
  <2>1. view[s] # Nobody /\ Connected(s) /\ n \notin AfterRead(UserOf[s], view[s])
    BY <1>1, MessagesAssumption DEF MarkDMRead, Connected, MInv, IInv, Midway
  <2> QED  BY <2>1, ReadingOpens
<1>2. ASSUME NEW s \in Sessions, HandleDM(s) PROVE OpenedBy(n, s)
  <2>1. view[s] = Other(s, Head(inbox[s]))
    BY <1>2 DEF HandleDM
  <2>2. Head(inbox[s]) \in Rows
    BY <1>2 DEF HandleDM, MInv, IInv, TypeOK
  <2>3. Other(s, Head(inbox[s])) \in Users
    BY <2>2 DEF Other, Rows
  <2>4. view[s] # Nobody /\ Connected(s) /\ n \notin AfterRead(UserOf[s], view[s])
    BY <1>2, <2>1, <2>3, MessagesAssumption DEF HandleDM, Connected
  <2> QED  BY <2>4, ReadingOpens
<1>3. ASSUME NEW I \in SUBSET Ids, Purge(I) PROVE rows'[n[2]] = NoRow
  BY <1>3 DEF Purge, Cascade, NotificationsFit, Stored
<1>4. ASSUME NEW s \in Sessions, \/ Connect(s) \/ RefreshUnread(s) \/ Subscribe(s)
                                 \/ (\E p \in Users : OpenDM(s, p)) \/ LookAway(s)
                                 \/ Send(s) \/ CheckAgain(s)
      PROVE  FALSE
  BY <1>4 DEF Connect, RefreshUnread, Subscribe, OpenDM, LookAway, Send, CheckAgain
<1>5. ASSUME NEW s \in Sessions, (\E u \in Users : Block(s, u) \/ Unblock(s, u))
                                 \/ (\E i \in Ids : Delete(s, i) \/ InsertDM(s, i))
      PROVE  FALSE
  BY <1>5 DEF Block, Unblock, Delete, InsertDM
<1>6. ASSUME NEW s \in Sessions, Disconnect(s) \/ Publish(s) \/ Echo(s) \/ Return(s)
                                 \/ \E r \in Sessions : Deliver(s, r)
      PROVE  FALSE
  BY <1>6 DEF Disconnect, Publish, Echo, Return, Deliver
<1>7. ~Restart
  BY DEF Restart
<1> QED  BY <1>1, <1>2, <1>3, <1>4, <1>5, <1>6, <1>7, Steps DEF CalmStep

\* A message counts as read only by a session of its recipient that has the thread
\* open, where it is shown, coming or was dropped, or by its purge
\* (app.go:292-294, 654-656; store.go:791-798).
THEOREM ReadOnlyByOpening == Spec => ReadByOpening
<1>1. MInv /\ NotificationsFit /\ ThreadComplete /\ [Next]_vars =>
        [\A n \in notes : n \notin notes' =>
            \/ rows'[n[2]] = NoRow
            \/ \E s \in Sessions :
                  /\ UserOf[s] = n[1] /\ view[s] = rows[n[2]].from
                  /\ \/ rows[n[2]].nr \in shown[s] \union dropped[s]
                     \/ OnItsWay(rows[n[2]].nr, s)]_vars
  BY ReadStep DEF OpenedBy
<1> QED  BY <1>1, AlwaysFit, ThreadsComplete, PTL DEF Spec, ReadByOpening
=============================================================================
