-------------------------- MODULE RidesInvariant ---------------------------
(***************************************************************************)
(* The inductive invariant behind the safety properties of module Rides    *)
(* that survive overlapping handlers.  A handler works from a row it read  *)
(* earlier, so what it relies on must be a fact that no other write can    *)
(* take back: the ride exists, its counterpart's side is taken, it was     *)
(* started, a side confirmed, a request was answered.  Statuses are not    *)
(* such facts, and nothing here depends on one staying as it was read.     *)
(***************************************************************************)
EXTENDS Rides

Answered == {"ACCEPTED", "DECLINED"}

Exists(row) == row.status # "ABSENT"

\* The counterpart's side is taken.
Paired(row) == row.on[OpenSide(row.type)] # NoUser

\* A user who may come to sit on the counterpart's side of this row.
MayClaim(row, u) ==
  /\ u \in Users
  /\ u # row.creator
  /\ RoleOf(OpenSide(row.type)) \in TokenRoles[u]

RowOK(row) ==
  /\ ~Exists(row) => row = NoRow
  /\ Exists(row) =>
       /\ row.creator \in Users
       /\ row.on[CreatorSide(row.type)] = row.creator
       /\ RoleOf(CreatorSide(row.type)) \in TokenRoles[row.creator]
       /\ Paired(row) => MayClaim(row, row.on[OpenSide(row.type)])
  /\ row.status \in Travelling \/ "startedAt" \in row.stamps => Paired(row)
  /\ row.status = "IN_PROGRESS" \/ row.confirmed # {} =>
       "startedAt" \in row.stamps
  /\ row.status = "COMPLETED" \/ "completedAt" \in row.stamps =>
       row.confirmed = Side

RequestOK(r, u) ==
  /\ request[r][u] # "NONE" => Exists(ride[r]) /\ MayClaim(ride[r], u)
  /\ Exists(ride[r]) /\ ride[r].on[OpenSide(ride[r].type)] = u =>
       request[r][u] \in Answered

\* What a call that has yet to do x.step relies on.
CallOK(x) ==
  x.step # "idle" =>
    /\ x.ride \in Rides
    /\ Exists(ride[x.ride])
    /\ x.step = "createRequest" => MayClaim(ride[x.ride], x.who)
    /\ x.step \in {"readRequest", "accept", "decline"} =>
         x.who \in Users /\ request[x.ride][x.who] # "NONE"
    /\ x.step = "writeStart" => Paired(ride[x.ride])
    /\ x.step = "writeConfirm" =>
         /\ "startedAt" \in ride[x.ride].stamps
         /\ x.completes => ride[x.ride].confirmed \cup {x.side} = Side
    /\ x.step = "enqueueCompletion" => ride[x.ride].confirmed = Side
    /\ x.step = "notify" =>
         /\ x.note = "REQUEST_ACCEPTED" =>
              /\ Paired(ride[x.ride])
              /\ \A u \in x.to : request[x.ride][u] \in Answered
         /\ x.note = "RIDE_COMPLETED" => ride[x.ride].confirmed = Side

JobOK(r) == expiryJob[r].state = "active" => Exists(ride[r])

\* What a notification that was sent says.
SentOK(n) ==
  /\ n.note = "REQUEST_ACCEPTED" =>
       /\ Exists(ride[n.ride])
       /\ Paired(ride[n.ride])
       /\ request[n.ride][n.to] \in Answered
  /\ n.note = "RIDE_COMPLETED" => ride[n.ride].confirmed = Side

\* The inductive invariant: the rows of both tables agree with each other,
\* and with what every handler in flight, every job and every notification
\* that was sent takes for granted.
Inductive ==
  /\ TypeOK
  /\ \A r \in Rides :
       /\ RowOK(ride[r])
       /\ JobOK(r)
       /\ completionJobs[r] > 0 => ride[r].confirmed = Side
       /\ \A u \in Users : RequestOK(r, u)
  /\ \A c \in Calls : CallOK(call[c])
  /\ \A n \in sent : SentOK(n)

\* Handlers that will add, or have yet to add, a completion job of a ride.
Completing(r) ==
  {c \in Calls : /\ call[c].ride = r
                 /\ \/ call[c].step = "writeConfirm" /\ call[c].completes
                    \/ call[c].step = "enqueueCompletion"}

\* What completed a ride shows in its row for good, and every job of a ride is
\* that of a handler that had read the ride before it was completed.
CompletionInductive ==
  /\ Inductive
  /\ \A r \in Rides :
       /\ ride[r].status = "COMPLETED" \/ completionJobs[r] > 0 =>
            "completedAt" \in ride[r].stamps
       /\ completionJobs[r] + Cardinality(Completing(r)) <= MostJobs
  /\ \A c \in Calls : call[c].step = "enqueueCompletion" =>
       "completedAt" \in ride[call[c].ride].stamps
=============================================================================
