----------------------------- MODULE AccountsMC -----------------------------
(* Instances of Accounts for TLC. *)
EXTENDS Accounts, TLC

MCReporter == [r \in Reports |-> CHOOSE u \in Users : u \notin Admins]

\* The slots of handlers are interchangeable.
Symmetric == Permutations(Calls)
=============================================================================
