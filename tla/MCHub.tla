------------------------------- MODULE MCHub --------------------------------
(***************************************************************************)
(* Instances of Hub for TLC: two sessions of one user and one of another,  *)
(* so that first and last sessions differ from the rest.                   *)
(***************************************************************************)
EXTENDS Hub, TLC

CONSTANTS s1, s2, s3, alice, bob

MCUserOf == s1 :> alice @@ s2 :> alice @@ s3 :> bob

\* Alice's sessions are interchangeable.
MCSymmetry == Permutations({s1, s2})
=============================================================================
