---------------------------- MODULE MCRateLimit -----------------------------
(***************************************************************************)
(* An instance of RateLimit for TLC: two sessions of one user and one of   *)
(* another.                                                                *)
(***************************************************************************)
EXTENDS RateLimit, TLC

CONSTANTS c1, c2, d1, bea, dan

MCKeyOf == c1 :> bea @@ c2 :> bea @@ d1 :> dan
=============================================================================
