------------------------------ MODULE RidesMC ------------------------------
(* Small instances of Rides for TLC. *)
EXTENDS RidesInvariant, RideViews, TLC

CONSTANTS
  driver,      \* a passenger verified as a rider, whose old token is still valid
  Passengers   \* users who are passengers only

MCTokenRoles ==
  [u \in Users |->
     IF u \in Passengers THEN {"PASSENGER"} ELSE {"PASSENGER", "RIDER"}]

MCUsers == {driver} \cup Passengers

Symmetry == Permutations(Calls) \cup Permutations(Passengers)
=============================================================================
