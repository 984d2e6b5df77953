----------------------------- MODULE MCPresence -----------------------------
(***************************************************************************)
(* Instances of Presence for TLC: a user who reconnects, and an observer.  *)
(***************************************************************************)
EXTENDS Presence, TLC

CONSTANTS s1, s2, s3, alice, bob

MCUserOf == s1 :> alice @@ s2 :> alice @@ s3 :> bob
=============================================================================
