------------------------------- MODULE MCRooms ------------------------------
(***************************************************************************)
(* Instances of Rooms for TLC: the owner of the rooms with one session,    *)
(* and another user with one or two.                                       *)
(***************************************************************************)
EXTENDS Rooms, TLC

CONSTANTS o1, b1, b2, owen, bea

MCUserOf == o1 :> owen @@ b1 :> bea @@ b2 :> bea

MCUserOfTwo == o1 :> owen @@ b1 :> bea

MCOwnerOf == [r \in Rooms |-> owen]
=============================================================================
