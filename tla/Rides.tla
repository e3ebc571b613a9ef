------------------------------- MODULE Rides -------------------------------
(***************************************************************************)
(* RidesService, the table rows behind it and the ride-expiry worker.      *)
(*                                                                         *)
(* An HTTP handler is an async function: it reads the ride row, decides on *)
(* what it read, and awaits one database or queue call after another.      *)
(* Between two awaits every other handler and the expiry worker may run,   *)
(* in this process or in another instance of the server.  Each action      *)
(* below is the code between two awaits.  The first action of a handler is *)
(* its read together with the guards on the row that was read; a call that *)
(* fails its guards changes nothing and is left out.  The later actions    *)
(* work from what the call remembers, never from the row as it is now.     *)
(***************************************************************************)
EXTENDS RideRules, FiniteSets

CONSTANTS
  Rides,       \* ids of rides that may be posted
  NoRide,      \* ride of a call slot that is not in use
  Calls,       \* slots for handlers executing at the same time
  TokenRoles,  \* the roles found in access tokens each user can present
  MaxTime,     \* bound on the clock
  MaxStalls,   \* BullMQ's maxStalledCount
  Overlap      \* TRUE: handlers and jobs interleave at every await, as they
               \* do in the server; FALSE: one at a time for each ride

ASSUME RidesAssumption ==
  /\ NoRide \notin Rides
  /\ TokenRoles \in [Users -> SUBSET Role]
  /\ MaxTime \in Nat
  /\ MaxStalls \in Nat
  /\ Overlap \in BOOLEAN

VARIABLES
  ride,            \* table rides
  request,         \* table ride_requests: one row at most per ride and user
  call,            \* what each executing handler does next and remembers
  expiryJob,       \* queue ride-expiry: the job expire-<rideId>
  completionJobs,  \* queue ride-completion: jobs ever added per ride
  sent,            \* notifications handed to NotificationsService.send
  now              \* wall clock

vars == <<ride, request, call, expiryJob, completionJobs, sent, now>>

Step == {"idle", "enqueueExpiry", "writeUpdate", "writeCancel",
         "createRequest", "readRequest", "accept", "decline", "writeStart",
         "writeConfirm", "enqueueCompletion", "notify"}
Note == {"none", "RIDE_REQUEST", "REQUEST_ACCEPTED", "REQUEST_DECLINED",
         "RIDE_STARTED", "RIDE_COMPLETED"}

Call == [step      : Step,
         ride      : Rides \cup {NoRide},
         who       : MaybeUser,  \* the caller, or the requester decided on
         side      : Side,       \* the side a confirmation is for
         at        : Nat,        \* the scheduledAt of a post or an edit
         completes : BOOLEAN,    \* bothConfirmed, as computed from the read
         to        : SUBSET Users,  \* users the handler has yet to notify
         note      : Note]

Idle == [step |-> "idle", ride |-> NoRide, who |-> NoUser,
         side |-> "rider", at |-> 0, completes |-> FALSE, to |-> {},
         note |-> "none"]

Job == [state : {"none", "waiting", "active", "done", "failed"},
        due : Nat, stalls : 0..MaxStalls]

NoJob == [state |-> "none", due |-> 0, stalls |-> 0]

Init ==
  /\ ride = [r \in Rides |-> NoRow]
  /\ request = [r \in Rides |-> [u \in Users |-> "NONE"]]
  /\ call = [c \in Calls |-> Idle]
  /\ expiryJob = [r \in Rides |-> NoJob]
  /\ completionJobs = [r \in Rides |-> 0]
  /\ sent = {}
  /\ now = 0

-----------------------------------------------------------------------------
(* How calls proceed.                                                      *)

\* No handler is between two awaits of a call on r, and no worker runs its
\* expiry job.
Quiet(r) ==
  /\ \A c \in Calls : call[c].ride # r
  /\ expiryJob[r].state # "active"

MayBegin(r) == Overlap \/ Quiet(r)

\* A new call on r occupies slot c and stops at its next await.
Begin(c, r, next) ==
  /\ call[c] = Idle
  /\ MayBegin(r)
  /\ call' = [call EXCEPT ![c] = next]

\* A handler's first step only reads.
Read(c, r, next) ==
  /\ Begin(c, r, next)
  /\ UNCHANGED <<ride, request, expiryJob, completionJobs, sent, now>>

At(c, step) == call[c].step = step

Continue(c, next) == call' = [call EXCEPT ![c] = next]

Return(c) == Continue(c, Idle)

\* The rest of the handler is to send one notification type.
ThenNotify(c, users, note) ==
  Continue(c, [Idle EXCEPT !.step = "notify", !.ride = call[c].ride,
                           !.to = users, !.note = note])

-----------------------------------------------------------------------------
(* createRide, updateRide and cancelRide                                   *)

\* Guards and INSERT: nothing is read before the row exists.
CreateRide(c, r, u, role, type, at) ==
  /\ ride[r].status = "ABSENT"
  /\ role \in TokenRoles[u]
  /\ MayPost(type, role)
  /\ at > now
  /\ Begin(c, r, [Idle EXCEPT !.step = "enqueueExpiry", !.ride = r, !.at = at])
  /\ ride' = [ride EXCEPT ![r] = Posted(u, type, at)]
  /\ UNCHANGED <<request, expiryJob, completionJobs, sent, now>>

\* The delay is computed again when the row has been inserted.
EnqueueExpiry(c) ==
  /\ At(c, "enqueueExpiry")
  /\ LET due == IF call[c].at > now THEN call[c].at ELSE now
     IN  expiryJob' = [expiryJob EXCEPT ![call[c].ride] =
                         [state |-> "waiting", due |-> due, stalls |-> 0]]
  /\ Return(c)
  /\ UNCHANGED <<ride, request, completionJobs, sent, now>>

\* An edit of fare, seats or gender preference alone changes nothing here.
UpdateRide(c, r, u, at) ==
  /\ MayUpdate(ride[r], u)
  /\ at > now
  /\ Read(c, r, [Idle EXCEPT !.step = "writeUpdate", !.ride = r, !.at = at])

\* The expiry job keeps the time it was queued with.
WriteUpdate(c) ==
  /\ At(c, "writeUpdate")
  /\ ride' = [ride EXCEPT ![call[c].ride] = Rescheduled(@, call[c].at)]
  /\ Return(c)
  /\ UNCHANGED <<request, expiryJob, completionJobs, sent, now>>

CancelRide(c, r, u) ==
  /\ MayCancel(ride[r], u)
  /\ Read(c, r, [Idle EXCEPT !.step = "writeCancel", !.ride = r])

WriteCancel(c) ==
  /\ At(c, "writeCancel")
  /\ ride' = [ride EXCEPT ![call[c].ride] = Cancelled(@)]
  /\ Return(c)
  /\ UNCHANGED <<request, expiryJob, completionJobs, sent, now>>

-----------------------------------------------------------------------------
(* requestRide and respondToRequest                                        *)

RequestRide(c, r, u, role) ==
  /\ role \in TokenRoles[u]
  /\ MayRequest(ride[r], u, role)
  /\ Read(c, r, [Idle EXCEPT !.step = "createRequest", !.ride = r,
                             !.who = u, !.to = {Poster(ride[r])}])

\* findRequest and the INSERT: the unique key on ride and user makes the
\* INSERT throw where findRequest saw nothing yet, so one step stands for
\* both.
CreateRequest(c) ==
  LET r == call[c].ride
      u == call[c].who
  IN  /\ At(c, "createRequest")
      /\ \/ /\ request[r][u] = "NONE"
            /\ request' = [request EXCEPT ![r] = [@ EXCEPT ![u] = "PENDING"]]
            /\ ThenNotify(c, call[c].to, "RIDE_REQUEST")
         \/ /\ request[r][u] # "NONE"
            /\ Return(c)
            /\ UNCHANGED request
      /\ UNCHANGED <<ride, expiryJob, completionJobs, sent, now>>

\* u names the request: the row the requestId of the URL belongs to.
RespondToRequest(c, r, creator, u) ==
  /\ MayRespond(ride[r], creator)
  /\ request[r][u] # "NONE"
  /\ Read(c, r, [Idle EXCEPT !.step = "readRequest", !.ride = r, !.who = u])

ReadRequest(c) ==
  /\ At(c, "readRequest")
  /\ IF request[call[c].ride][call[c].who] = "PENDING"
     THEN \E answer \in {"accept", "decline"} :
            Continue(c, [call[c] EXCEPT !.step = answer])
     ELSE Return(c)
  /\ UNCHANGED <<ride, request, expiryJob, completionJobs, sent, now>>

\* acceptRequestTx.  Two of them on one ride lock the request rows and the
\* ride row in opposite orders when they overlap; PostgreSQL then aborts one
\* (Abort below), so a transaction that commits is a single step.
AcceptTx(c) ==
  LET r == call[c].ride
      u == call[c].who
  IN  /\ At(c, "accept")
      /\ ride' = [ride EXCEPT ![r] = Matched(@, u)]
      /\ request' = [request EXCEPT ![r] = Settled(@, u)]
      /\ ThenNotify(c, {u}, "REQUEST_ACCEPTED")
      /\ UNCHANGED <<expiryJob, completionJobs, sent, now>>

WriteDecline(c) ==
  LET r == call[c].ride
      u == call[c].who
  IN  /\ At(c, "decline")
      /\ request' = [request EXCEPT ![r] = [@ EXCEPT ![u] = "DECLINED"]]
      /\ ThenNotify(c, {u}, "REQUEST_DECLINED")
      /\ UNCHANGED <<ride, expiryJob, completionJobs, sent, now>>

-----------------------------------------------------------------------------
(* startRide and confirmRide                                               *)

StartRide(c, r, u) ==
  /\ MayStart(ride[r], u)
  /\ Read(c, r, [Idle EXCEPT !.step = "writeStart", !.ride = r, !.who = u,
                             !.to = {ride[r].on["passenger"]} \ {NoUser}])

WriteStart(c) ==
  /\ At(c, "writeStart")
  /\ ride' = [ride EXCEPT ![call[c].ride] = Started(@)]
  /\ ThenNotify(c, call[c].to, "RIDE_STARTED")
  /\ UNCHANGED <<request, expiryJob, completionJobs, sent, now>>

ConfirmRide(c, r, u) ==
  /\ MayConfirm(ride[r], u)
  /\ Read(c, r, [Idle EXCEPT
       !.step = "writeConfirm", !.ride = r, !.side = SideOf(ride[r], u),
       !.completes = Completes(ride[r], SideOf(ride[r], u)),
       !.to = {ride[r].on[s] : s \in Side} \ {NoUser}])

\* An UPDATE of one confirmed column; status and completedAt go with it when
\* the row that was read already had the other side's confirmation.
WriteConfirm(c) ==
  LET r == call[c].ride
  IN  /\ At(c, "writeConfirm")
      /\ ride' = [ride EXCEPT ![r] =
                    Confirmed(@, call[c].side, call[c].completes)]
      /\ IF call[c].completes
         THEN Continue(c, [call[c] EXCEPT !.step = "enqueueCompletion"])
         ELSE Return(c)
      /\ UNCHANGED <<request, expiryJob, completionJobs, sent, now>>

EnqueueCompletion(c) ==
  /\ At(c, "enqueueCompletion")
  /\ completionJobs' = [completionJobs EXCEPT ![call[c].ride] = @ + 1]
  /\ ThenNotify(c, call[c].to, "RIDE_COMPLETED")
  /\ UNCHANGED <<ride, request, expiryJob, sent, now>>

\* One call of NotificationsService.send; RIDE_COMPLETED goes to both sides,
\* in either order.
Notify(c) ==
  /\ At(c, "notify")
  /\ \E u \in call[c].to :
       /\ sent' = sent \cup
            {[to |-> u, note |-> call[c].note, ride |-> call[c].ride]}
       /\ IF call[c].to = {u}
          THEN Return(c)
          ELSE Continue(c, [call[c] EXCEPT !.to = @ \ {u}])
  /\ UNCHANGED <<ride, request, expiryJob, completionJobs, now>>

-----------------------------------------------------------------------------
(* The ride-expiry worker.  The queue itself is BullMQ's: a job runs no    *)
(* sooner than its delay says, is tried once (the queue sets no attempts), *)
(* and is handed out again when a worker dies with it, MaxStalls times.    *)

UnmatchedSlip(r) == ride[r].status = "SEARCHING" /\ now >= ride[r].scheduledAt
Unmatched(r) == ride[r].status = "SEARCHING"

\* RideExpiryProcessor.process up to its read of the ride.
TakeExpiryJob(r) ==
  /\ expiryJob[r].state = "waiting"
  /\ now >= expiryJob[r].due
  /\ MayBegin(r)
  /\ expiryJob' = [expiryJob EXCEPT ![r] = [@ EXCEPT !.state =
                      IF Unmatched(r) THEN "active" ELSE "done"]]
  /\ UNCHANGED <<ride, request, call, completionJobs, sent, now>>

WriteExpiry(r) ==
  /\ expiryJob[r].state = "active"
  /\ ride' = [ride EXCEPT ![r] = Expired(@)]
  /\ expiryJob' = [expiryJob EXCEPT ![r] = [@ EXCEPT !.state = "done"]]
  /\ UNCHANGED <<request, call, completionJobs, sent, now>>

-----------------------------------------------------------------------------
(* Failures and time.                                                      *)

\* A database or queue call throws: the caller gets an error and the rest of
\* the handler never runs.
Abort(c) ==
  /\ call[c] # Idle
  /\ Return(c)
  /\ UNCHANGED <<ride, request, expiryJob, completionJobs, sent, now>>

\* The worker's UPDATE throws.
JobFails(r) ==
  /\ expiryJob[r].state = "active"
  /\ expiryJob' = [expiryJob EXCEPT ![r] = [@ EXCEPT !.state = "failed"]]
  /\ UNCHANGED <<ride, request, call, completionJobs, sent, now>>

\* A job that was running when the server died is stalled.
Stalled(job) ==
  IF job.state # "active" THEN job
  ELSE IF job.stalls = MaxStalls THEN [job EXCEPT !.state = "failed"]
  ELSE [job EXCEPT !.state = "waiting", !.stalls = @ + 1]

\* The server dies and restarts.  Handlers in flight are lost; the database
\* and Redis are not.
Crash ==
  /\ call' = [c \in Calls |-> Idle]
  /\ expiryJob' = [r \in Rides |-> Stalled(expiryJob[r])]
  /\ UNCHANGED <<ride, request, completionJobs, sent, now>>

Tick ==
  /\ now < MaxTime
  /\ now' = now + 1
  /\ UNCHANGED <<ride, request, call, expiryJob, completionJobs, sent>>

-----------------------------------------------------------------------------
NewCall(c, r, u) ==
  \/ \E role \in Role, type \in RideType, at \in 1..MaxTime :
        CreateRide(c, r, u, role, type, at)
  \/ \E at \in 1..MaxTime : UpdateRide(c, r, u, at)
  \/ CancelRide(c, r, u)
  \/ \E role \in Role : RequestRide(c, r, u, role)
  \/ \E requester \in Users : RespondToRequest(c, r, u, requester)
  \/ StartRide(c, r, u)
  \/ ConfirmRide(c, r, u)

Resume(c) ==
  \/ EnqueueExpiry(c)
  \/ WriteUpdate(c)
  \/ WriteCancel(c)
  \/ CreateRequest(c)
  \/ ReadRequest(c)
  \/ AcceptTx(c)
  \/ WriteDecline(c)
  \/ WriteStart(c)
  \/ WriteConfirm(c)
  \/ EnqueueCompletion(c)
  \/ Notify(c)

Worker(r) == TakeExpiryJob(r) \/ WriteExpiry(r)

Next ==
  \/ \E c \in Calls, r \in Rides, u \in Users : NewCall(c, r, u)
  \/ \E c \in Calls : Resume(c) \/ Abort(c)
  \/ \E r \in Rides : Worker(r) \/ JobFails(r)
  \/ Crash
  \/ Tick

Spec == Init /\ [][Next]_vars

\* Time passes and the worker polls its queue; a client need never call again.
Fairness ==
  /\ WF_vars(Tick)
  /\ \A r \in Rides : WF_vars(Worker(r))

\* A handler that has begun runs on: the event loop drops no continuation.
FairSpec == Spec /\ Fairness /\ \A c \in Calls : WF_vars(Resume(c))

-----------------------------------------------------------------------------
(* What holds however handlers, jobs and failures interleave.              *)

\* Values stay in their types; above all no notification is ever addressed to
\* the null of an unfilled side (requestRide notifies the creator, and the
\* creator of a REQUEST is not in riderId).
TypeOK ==
  /\ ride \in [Rides -> Row]
  /\ request \in [Rides -> [Users -> RequestStatus \cup {"NONE"}]]
  /\ call \in [Calls -> Call]
  /\ expiryJob \in [Rides -> Job]
  /\ completionJobs \in [Rides -> Nat]
  /\ sent \subseteq [to : Users, note : Note, ride : Rides]
  /\ now \in 0..MaxTime

Travelling == {"MATCHED", "IN_PROGRESS", "COMPLETED"}

\* A matched, running or completed ride has a driver and a passenger: what the
\* completion worker, ratings and chat take for granted.  The start and
\* confirm writes name only a status, on whatever the row has become.
MatchedHasBothSides ==
  \A r \in Rides : ride[r].status \in Travelling =>
    \A s \in Side : ride[r].on[s] # NoUser

\* The creator keeps the side that goes with the type of the post, nobody
\* sits on both sides, and whoever is on a side could show a token with the
\* role of that side, however many accepts overlap.
SidesHoldTheRightRole ==
  \A r \in Rides : ride[r].status # "ABSENT" =>
    /\ ride[r].creator \in Users
    /\ ride[r].on[CreatorSide(ride[r].type)] = ride[r].creator
    /\ ride[r].on["rider"] # ride[r].on["passenger"]
    /\ \A s \in Side : ride[r].on[s] \in Users =>
         RoleOf(s) \in TokenRoles[ride[r].on[s]]

\* Whoever is on the counterpart's side asked for it and was answered, and a
\* user told REQUEST_ACCEPTED did ask, for a ride whose both sides are taken
\* from then on.
AcceptedHadAsked ==
  \A r \in Rides, u \in Users :
    /\ ride[r].status # "ABSENT" /\ ride[r].on[OpenSide(ride[r].type)] = u =>
         request[r][u] \in {"ACCEPTED", "DECLINED"}
    /\ [to |-> u, note |-> "REQUEST_ACCEPTED", ride |-> r] \in sent =>
         /\ request[r][u] \in {"ACCEPTED", "DECLINED"}
         /\ \A s \in Side : ride[r].on[s] # NoUser

\* Completion in any of its forms (the status, the timestamp, the settlement
\* job, the notification) needs the confirmation of both sides, and nobody
\* confirms a ride that was never started.
CompletionNeedsBothSides ==
  \A r \in Rides :
    /\ \/ ride[r].status = "COMPLETED"
       \/ "completedAt" \in ride[r].stamps
       \/ completionJobs[r] > 0
       \/ \E u \in Users :
            [to |-> u, note |-> "RIDE_COMPLETED", ride |-> r] \in sent
       => ride[r].confirmed = Side
    /\ ride[r].confirmed # {} => "startedAt" \in ride[r].stamps

-----------------------------------------------------------------------------
(* What holds when the calls on one ride run one at a time.                *)

\* Once a ride is matched exactly the counterpart's request is accepted and no
\* other request is left unanswered.
MatchSettlesRequests ==
  \A r \in Rides : ride[r].status \in Travelling =>
    \A u \in Users :
      /\ request[r][u] # "PENDING"
      /\ request[r][u] = "ACCEPTED"
           <=> u = ride[r].on[OpenSide(ride[r].type)]

\* When both sides have confirmed, the ride is completed.
ConfirmedMeansCompleted ==
  \A r \in Rides : ride[r].confirmed = Side => ride[r].status = "COMPLETED"

Lifecycle == INSTANCE RideLifecycle WITH
  Times     <- 1..MaxTime,
  NoTime    <- 0,
  status    <- [r \in Rides |-> ride[r].status],
  on        <- [r \in Rides |-> ride[r].on],
  schedule  <- [r \in Rides |-> ride[r].scheduledAt],
  confirmed <- [r \in Rides |-> ride[r].confirmed]

\* The service implements the lifecycle of a ride: the guards each handler
\* applies to the row it read are the right ones.
ImplementsLifecycle == Lifecycle!Spec

-----------------------------------------------------------------------------
(* What settlement sees.                                                   *)

\* A row that was completed and has another status now has been overwritten.
CompletionStatus(row) ==
  IF row.status = "COMPLETED" THEN "COMPLETED"
  ELSE IF "completedAt" \in row.stamps THEN "OVERWRITTEN" ELSE "IN_PROGRESS"

\* Completion jobs a ride may get.
MostJobs == IF Overlap THEN Cardinality(Calls) ELSE 1

Added(jobs) ==
  [n \in 1..MostJobs |-> [state |-> IF n <= jobs THEN "waiting" ELSE "none", stalls |-> 0]]

Completion == INSTANCE RideCompletion WITH
  MaxJobs <- MostJobs,
  status  <- [r \in Rides |-> CompletionStatus(ride[r])],
  job     <- [r \in Rides |-> Added(completionJobs[r])]

\* Settlement is told what it counts on: no job before the ride is completed,
\* no more jobs than handlers ran at the same time, no way back to a ride that
\* was never completed, and one job if handlers do not overlap.
ImplementsCompletion == Completion!CompletionSpec

-----------------------------------------------------------------------------
(* What must happen.                                                       *)

\* Once its expiry job is queued, a ride nobody is matched to leaves the
\* search results, or BullMQ reports the job as failed: restarts and the
\* stalls they cause do not lose it.
UnmatchedRideExpires ==
  \A r \in Rides :
    (ride[r].status = "SEARCHING" /\ expiryJob[r].state = "waiting")
      ~> (ride[r].status # "SEARCHING" \/ expiryJob[r].state = "failed")
=============================================================================
