--------------------------- MODULE RideLifecycle ---------------------------
(***************************************************************************)
(* What RidesService promises about a ride, with no requests, queues,      *)
(* handlers or failures in sight: who may sit where, when a ride may be    *)
(* edited, and the order of its statuses.  Every step is a guard on the    *)
(* ride as it is at that moment.  Module Rides states in which mode of     *)
(* operation the service implements this.                                  *)
(***************************************************************************)

CONSTANTS Rides, Users, NoUser, Times, NoTime

VARIABLES
  status,     \* [Rides -> status]
  on,         \* [Rides -> [{"rider", "passenger"} -> user or NoUser]]
  schedule,   \* [Rides -> time of departure]
  confirmed   \* [Rides -> set of sides]

vars == <<status, on, schedule, confirmed>>

Sides == {"rider", "passenger"}

Init ==
  /\ status = [r \in Rides |-> "ABSENT"]
  /\ on = [r \in Rides |-> [s \in Sides |-> NoUser]]
  /\ schedule = [r \in Rides |-> NoTime]
  /\ confirmed = [r \in Rides |-> {}]

Become(r, from, to) ==
  /\ status[r] \in from
  /\ status' = [status EXCEPT ![r] = to]

\* A user posts a ride and takes one side of it.
Post(r, s, u, at) ==
  /\ Become(r, {"ABSENT"}, "SEARCHING")
  /\ on' = [on EXCEPT ![r] = [@ EXCEPT ![s] = u]]
  /\ schedule' = [schedule EXCEPT ![r] = at]
  /\ UNCHANGED confirmed

Edit(r, at) ==
  /\ status[r] = "SEARCHING"
  /\ schedule' = [schedule EXCEPT ![r] = at]
  /\ UNCHANGED <<status, on, confirmed>>

\* Somebody else takes the empty side.
Match(r, s, u) ==
  /\ Become(r, {"SEARCHING"}, "MATCHED")
  /\ on[r][s] = NoUser
  /\ \A t \in Sides : on[r][t] # u
  /\ on' = [on EXCEPT ![r] = [@ EXCEPT ![s] = u]]
  /\ UNCHANGED <<schedule, confirmed>>

Expire(r) ==
  /\ Become(r, {"SEARCHING"}, "EXPIRED")
  /\ UNCHANGED <<on, schedule, confirmed>>

\* A ride that expired may still be cancelled.
Cancel(r) ==
  /\ Become(r, {"SEARCHING", "MATCHED", "EXPIRED"}, "CANCELLED")
  /\ UNCHANGED <<on, schedule, confirmed>>

Start(r) ==
  /\ Become(r, {"MATCHED"}, "IN_PROGRESS")
  /\ UNCHANGED <<on, schedule, confirmed>>

\* Each side confirms once; the second confirmation completes the ride.
Confirm(r, s) ==
  /\ s \notin confirmed[r]
  /\ confirmed' = [confirmed EXCEPT ![r] = @ \cup {s}]
  /\ Become(r, {"IN_PROGRESS"},
            IF confirmed'[r] = Sides THEN "COMPLETED" ELSE "IN_PROGRESS")
  /\ UNCHANGED <<on, schedule>>

Next ==
  \E r \in Rides :
    \/ \E s \in Sides, u \in Users :
         \/ Match(r, s, u)
         \/ \E at \in Times : Post(r, s, u, at)
    \/ \E at \in Times : Edit(r, at)
    \/ Expire(r)
    \/ Cancel(r)
    \/ Start(r)
    \/ \E s \in Sides : Confirm(r, s)

Spec == Init /\ [][Next]_vars
=============================================================================
