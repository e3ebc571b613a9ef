------------------------------- MODULE AuthMC -------------------------------
(* Instances of Auth for TLC. *)
EXTENDS Auth, TLC

\* The slots of handlers are interchangeable.
Symmetric == Permutations(Calls)
=============================================================================
