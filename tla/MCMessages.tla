----------------------------- MODULE MCMessages -----------------------------
(***************************************************************************)
(* An instance of Messages for TLC: a user with one session and another    *)
(* with two.                                                               *)
(***************************************************************************)
EXTENDS Messages

CONSTANTS a1, b1, b2, ann, bob

MCUserOf == [s \in Sessions |-> IF s = a1 THEN ann ELSE bob]

\* Two messages between two sessions, or one message and all three sessions.
MCInit == Init /\ (at[b2] = "gone" \/ sent = MaxSends - 1)

MCSpec == MCInit /\ [][Next]_vars
=============================================================================
