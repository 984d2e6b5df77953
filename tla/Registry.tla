------------------------------ MODULE Registry ------------------------------
(***************************************************************************)
(* What the hub promises about presence, with nothing of how it keeps it:  *)
(* sessions connect once and disconnect once, and a user is online exactly *)
(* while at least one of that user's sessions is connected (SPEC.md,       *)
(* section 5.4).  Hub.tla is shown to implement this module.               *)
(***************************************************************************)
CONSTANTS Sessions,    \* every SSH session that may ever connect
          Users,       \* registered users
          UserOf       \* the user each session authenticates as

VARIABLES live,        \* sessions connected now
          ended,       \* sessions that were connected and are not any more
          online       \* users shown as online

vars == <<live, ended, online>>

TypeOK == /\ live \subseteq Sessions
          /\ ended \subseteq Sessions
          /\ online \subseteq Users

Init == live = {} /\ ended = {} /\ online = {}

Connect(s) ==
    /\ s \notin live \union ended
    /\ live' = live \union {s}
    /\ online' = online \union {UserOf[s]}
    /\ UNCHANGED ended

\* A user stays online for as long as another session of theirs is live.
Disconnect(s) ==
    /\ s \in live
    /\ live' = live \ {s}
    /\ ended' = ended \union {s}
    /\ online' = {UserOf[t] : t \in live \ {s}}

Next == \E s \in Sessions : Connect(s) \/ Disconnect(s)

Spec == Init /\ [][Next]_vars
=============================================================================
