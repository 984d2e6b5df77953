------------------------------- MODULE MCFeed -------------------------------
(***************************************************************************)
(* Instances of Feed for TLC: an owner with one session and another user   *)
(* with one, in a room of one message.                                     *)
(***************************************************************************)
EXTENDS Feed, TLC

CONSTANTS o1, b1, owen, bea

MCUserOf == o1 :> owen @@ b1 :> bea

MCOldMessages == <<o1>>
=============================================================================
