------------------------------- MODULE ChatMC -------------------------------
(* An instance of Chat for TLC. *)
EXTENDS Chat, TLC

CONSTANTS
  driver,   \* a passenger verified as a rider, whose old token is still valid
  Passengers

MCTokenRoles ==
  [u \in Users |->
     IF u \in Passengers THEN {"PASSENGER"} ELSE {"PASSENGER", "RIDER"}]

MCUsers == {driver} \cup Passengers

Symmetry == Permutations(Passengers)
=============================================================================
