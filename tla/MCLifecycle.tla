---------------------------- MODULE MCLifecycle -----------------------------
(***************************************************************************)
(* Instances of Lifecycle for TLC: two connections of one key and one of   *)
(* another, over every table of two keys and two accounts.                 *)
(***************************************************************************)
EXTENDS Lifecycle, TLC

CONSTANTS c1, c2, c3, k1, k2

MCKeyOf == c1 :> k1 @@ c2 :> k1 @@ c3 :> k2

\* The connections of k1 are alike, and so are the handles.
MCSymmetry == Permutations({c1, c2}) \union Permutations(Users)
=============================================================================
