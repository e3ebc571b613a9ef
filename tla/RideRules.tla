----------------------------- MODULE RideRules -----------------------------
(***************************************************************************)
(* The rows of the `rides' and `ride_requests' tables, the rules by which  *)
(* RidesService lets a caller act on a row it has read, and the values its *)
(* writes leave behind.  Everything here is a function of one row: when a  *)
(* handler reads and when it writes is the business of module Rides.       *)
(*                                                                         *)
(* The two columns riderId and passengerId are one function on[side], the  *)
(* two columns riderConfirmed and passengerConfirmed the set of sides that *)
(* confirmed, and the nullable columns startedAt, completedAt, cancelledAt *)
(* the set of those that are not null.  Addresses, fare, seats, gender     *)
(* preference and free text never decide anything and are left out.        *)
(*                                                                         *)
(* An operator whose name ends in Slip or Stale is a likely programming    *)
(* slip in the definition after it; no specification uses it.  It exists   *)
(* to show which property notices the slip.                                *)
(***************************************************************************)
EXTENDS Naturals

CONSTANTS
  Users,    \* rows of the users table
  NoUser    \* SQL NULL in rider_id and passenger_id

ASSUME NoUserAssumption == NoUser \notin Users

Role == {"PASSENGER", "RIDER", "ADMIN", "SUPER_ADMIN"}
Side == {"rider", "passenger"}
RideType == {"OFFER", "REQUEST"}
RideStatus ==
  {"SEARCHING", "MATCHED", "IN_PROGRESS", "COMPLETED", "CANCELLED", "EXPIRED"}
RequestStatus == {"PENDING", "ACCEPTED", "DECLINED", "EXPIRED"}
Stamp == {"startedAt", "completedAt", "cancelledAt"}

MaybeUser == Users \cup {NoUser}

\* A row of `rides'.  Status ABSENT: no row with this id has been inserted.
Row == [status      : RideStatus \cup {"ABSENT"},
        type        : RideType,
        creator     : MaybeUser,
        on          : [Side -> MaybeUser],
        confirmed   : SUBSET Side,
        scheduledAt : Nat,
        stamps      : SUBSET Stamp]

NoRow == [status      |-> "ABSENT",
          type        |-> "OFFER",
          creator     |-> NoUser,
          on          |-> [s \in Side |-> NoUser],
          confirmed   |-> {},
          scheduledAt |-> 0,
          stamps      |-> {}]

-----------------------------------------------------------------------------
(* Sides.  An OFFER is posted by the driver, a REQUEST by the passenger;   *)
(* the counterpart's column stays null until a request is accepted.        *)

CreatorSide(type) == IF type = "OFFER" THEN "rider" ELSE "passenger"

OpenSideSlip(type) == "passenger"
OpenSide(type) == IF type = "OFFER" THEN "passenger" ELSE "rider"

\* The role a caller's token must carry to take a side.
RoleOf(side) == IF side = "rider" THEN "RIDER" ELSE "PASSENGER"

-----------------------------------------------------------------------------
(* Guards.                                                                 *)

MayPost(type, role) == role = RoleOf(CreatorSide(type))

MayUpdate(row, user) == row.creator = user /\ row.status = "SEARCHING"

MayCancelSlip(row, user) ==
  row.creator = user /\ row.status \notin {"ABSENT", "COMPLETED", "CANCELLED"}
MayCancel(row, user) ==
  /\ row.creator = user
  /\ row.status \notin {"ABSENT", "IN_PROGRESS", "COMPLETED", "CANCELLED"}

MayRequestSlip(row, user, role) ==
  row.status = "SEARCHING" /\ role = RoleOf(OpenSide(row.type))
MayRequest(row, user, role) ==
  /\ row.creator # user
  /\ row.status = "SEARCHING"
  /\ role = RoleOf(OpenSide(row.type))

\* Who is told of a request.
Poster(row) == row.creator

MayRespond(row, user) == row.creator = user /\ row.status = "SEARCHING"

MayStart(row, user) == row.on["rider"] = user /\ row.status = "MATCHED"

\* confirmRide takes a caller who is the driver for the driver's side.
SideOf(row, user) == IF row.on["rider"] = user THEN "rider" ELSE "passenger"

MayConfirm(row, user) ==
  LET side == SideOf(row, user)
  IN  /\ row.on[side] = user
      /\ row.status = "IN_PROGRESS"
      /\ side \notin row.confirmed

\* Whether the confirmation of this side is the one that completes the ride,
\* judged by the row the handler read.
CompletesStale(row, side) == row.confirmed = Side
CompletesSlip(row, side) == row.confirmed \cup {side} # {}
Completes(row, side) == row.confirmed \cup {side} = Side

-----------------------------------------------------------------------------
(* Writes.  Each is an UPDATE by primary key: it sets the columns it names *)
(* whatever the row has become since it was read.                          *)

Posted(user, type, at) ==
  [NoRow EXCEPT !.status = "SEARCHING", !.type = type, !.creator = user,
                !.on = [@ EXCEPT ![CreatorSide(type)] = user],
                !.scheduledAt = at]

RescheduledSlip(row, at) == [row EXCEPT !.scheduledAt = at, !.status = "SEARCHING"]
Rescheduled(row, at) == [row EXCEPT !.scheduledAt = at]

Cancelled(row) ==
  [row EXCEPT !.status = "CANCELLED", !.stamps = @ \cup {"cancelledAt"}]

Matched(row, requester) ==
  [row EXCEPT !.status = "MATCHED",
              !.on = [@ EXCEPT ![OpenSide(row.type)] = requester]]

Started(row) ==
  [row EXCEPT !.status = "IN_PROGRESS", !.stamps = @ \cup {"startedAt"}]

ConfirmedSlip(row, side, completes) ==
  [row EXCEPT !.confirmed = @ \cup {side},
              !.status = IF completes THEN "COMPLETED" ELSE @]
Confirmed(row, side, completes) ==
  [row EXCEPT
     !.confirmed = @ \cup {side},
     !.status = IF completes THEN "COMPLETED" ELSE @,
     !.stamps = IF completes THEN @ \cup {"completedAt"} ELSE @]

Expired(row) == [row EXCEPT !.status = "EXPIRED"]

\* The request statuses of one ride after acceptRequestTx: the chosen request
\* is ACCEPTED, every other one still PENDING is DECLINED.
SettledStale(requests, requester) ==
  [u \in DOMAIN requests |->
     IF requests[u] = "PENDING" /\ u # requester THEN "DECLINED" ELSE requests[u]]
SettledSlip(requests, requester) ==
  [requests EXCEPT ![requester] = "ACCEPTED"]
Settled(requests, requester) ==
  [u \in DOMAIN requests |->
     IF u = requester THEN "ACCEPTED"
     ELSE IF requests[u] = "PENDING" THEN "DECLINED" ELSE requests[u]]
=============================================================================
