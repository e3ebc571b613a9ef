----------------------------- MODULE RatingsMC -----------------------------
(* Small instances of Ratings for TLC: the same two users meet in every    *)
(* ride.                                                                   *)
EXTENDS Ratings, TLC

CONSTANTS a, b, s1

MCParty == [r \in Rides |-> [rider |-> a, passenger |-> b]]
MCFare == [r \in Rides |-> 1]
MCServerOf == [k \in Calls |-> s1]
Symmetry == Permutations(Rides) \cup Permutations(Calls)
=============================================================================
