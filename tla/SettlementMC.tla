---------------------------- MODULE SettlementMC ----------------------------
(* Small instances of Settlement for TLC: one user drives one ride and     *)
(* travels in the next.                                                    *)
EXTENDS Settlement, TLC

CONSTANTS a, b, c, r1, r2

Seats(driver, passenger) == [rider |-> driver, passenger |-> passenger]

\* b travels in the first ride and drives the second.
MCParty == [r \in Rides |-> IF r = r1 THEN Seats(a, b) ELSE Seats(b, c)]
MCFare == [r \in Rides |-> IF r = r1 THEN 2 ELSE 3]
=============================================================================
