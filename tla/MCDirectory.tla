----------------------------- MODULE MCDirectory ----------------------------
(***************************************************************************)
(* An instance of Directory for TLC: a user with two sessions and another  *)
(* with one, and three names: the default room and two that users create,  *)
(* so that both sessions of the one user can race past the limit of one.   *)
(***************************************************************************)
EXTENDS Directory, TLC

CONSTANTS a1, a2, b1, ann, bob, den, attic

MCUserOf == [s \in Sessions |-> IF s = b1 THEN bob ELSE ann]

\* The sessions of one user are alike, and so are the rooms that users create.
MCSymmetry ==
    {f @@ g : f \in Permutations({a1, a2}), g \in Permutations({den, attic})}
=============================================================================
