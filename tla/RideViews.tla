----------------------------- MODULE RideViews -----------------------------
(***************************************************************************)
(* What RidesService and AdminService let users read of the rides: search, *)
(* a user's own rides, the requests waiting for an answer, and the         *)
(* administrators' lists.  Each is one query over the state of module      *)
(* Rides.  The columns that module leaves out only narrow a search: `near' *)
(* is the rides that pass the filters on seats, gender preference and the  *)
(* two boxes of coordinates; a filter that is not given passes all.        *)
(***************************************************************************)
EXTENDS Rides

\* searchRides, for the day that holds the given times.  It does not look at
\* ride_requests: who has asked for a ride goes on finding it, although requestRide
\* refuses a second request, and an administrator finds offers no administrator
\* may ask for.
SearchRides(viewer, role, times, near) ==
  {r \in near : /\ ride[r].status = "SEARCHING"
                /\ ride[r].type = (IF role = "RIDER" THEN "REQUEST" ELSE "OFFER")
                /\ ride[r].creator # viewer
                /\ ride[r].scheduledAt \in times}

\* findMyRidesAndCount; sides and statuses are all of them unless asked for.
MyRidesSlip(u, sides, statuses) ==
  {r \in Rides : ride[r].creator = u /\ ride[r].status \in statuses}
MyRides(u, sides, statuses) ==
  {r \in Rides : /\ \E s \in sides : ride[r].on[s] = u
                 /\ ride[r].status \in statuses}

\* getRideRequests, of the requests still PENDING.
RideRequests(u, r) ==
  IF ride[r].status # "ABSENT" /\ ride[r].creator = u
  THEN {v \in Users : request[r][v] = "PENDING"} ELSE {}

\* getRides of AdminService, and the rides its getDashboardStats counts.
AllRides(statuses) == {r \in Rides : ride[r].status \in statuses}
ActiveRidesSlip == Cardinality(AllRides({"SEARCHING", "MATCHED"}))
ActiveRides == Cardinality(AllRides({"SEARCHING", "MATCHED", "IN_PROGRESS"}))

-----------------------------------------------------------------------------
\* A search goes by the status alone, and however edits, answers and jobs overlap
\* that is enough: a ride for which a request was ever accepted is never listed
\* again, to nobody and on no day, nor is one that ever was started, confirmed or
\* cancelled.  (One whose departure has passed may be, until its expiry job has run.)
SearchShowsOpenRides ==
  \A u \in Users, role \in Role, r \in Rides :
    r \in SearchRides(u, role, Nat, Rides) =>
      /\ ride[r].on[OpenSide(ride[r].type)] = NoUser
      /\ ride[r].stamps = {} /\ ride[r].confirmed = {} /\ completionJobs[r] = 0
      /\ \A v \in Users : request[r][v] # "ACCEPTED"
      /\ ~ \E n \in sent : n.ride = r /\ n.note \in {"REQUEST_ACCEPTED", "RIDE_COMPLETED"}

\* Whoever is told REQUEST_ACCEPTED finds the ride among the rides of the side
\* asked for, and so does the creator on the other side, whatever happens to the
\* ride after, and none is left waiting for an answer; nobody else sees the ride
\* as theirs.  (Not under overlap: a second accept puts the first requester off
\* the ride.)
TheMatchedFindTheirRide ==
  \A r \in Rides, u \in Users :
    /\ [to |-> u, note |-> "REQUEST_ACCEPTED", ride |-> r] \in sent =>
         /\ r \in MyRides(u, {OpenSide(ride[r].type)}, RideStatus)
         /\ r \in MyRides(ride[r].creator, {CreatorSide(ride[r].type)}, RideStatus)
         /\ RideRequests(ride[r].creator, r) = {}
    /\ r \in MyRides(u, Side, RideStatus) =>
         u = ride[r].creator \/ request[r][u] = "ACCEPTED"

\* What the dashboard counts as active is what somebody can still bring to an
\* end, its creator by cancelling or a party by confirming, and a matched ride has a
\* driver who can start it and a running one a party who has yet to confirm it: no
\* ride is stuck among the active ones.  (An expired ride may be cancelled, and is
\* not active.)
ActiveRidesCanEnd ==
  /\ ActiveRides = Cardinality({r \in Rides \ AllRides({"EXPIRED"}) : \E u \in Users :
                                  MayCancel(ride[r], u) \/ MayConfirm(ride[r], u)})
  /\ \A r \in AllRides({"MATCHED"}) : \E u \in Users : MayStart(ride[r], u)
  /\ \A r \in AllRides({"IN_PROGRESS"}) : \E u \in Users : MayConfirm(ride[r], u)
=============================================================================
