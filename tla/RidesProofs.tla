---------------------------- MODULE RidesProofs ----------------------------
(***************************************************************************)
(* Proofs about module Rides, for every set of rides and users, any number *)
(* of handlers at a time: first for both values of Overlap, then for       *)
(* handlers and jobs that run one at a time on a ride (Overlap = FALSE),   *)
(* which is when the guards of a handler carry over to its writes and the  *)
(* service implements RideLifecycle.  Handlers may fail half-way, jobs be  *)
(* repeated and the server restart in both.                                *)
(***************************************************************************)
EXTENDS RidesInvariant, RideViews, FiniteSetTheorems, TLAPS

-----------------------------------------------------------------------------
(* The operators of RideRules on rows.                                     *)

\* A row written by any of the updates is again a row.
LEMMA RowTypes ==
  ASSUME NEW row \in Row, NEW u \in Users, NEW s \in Side, NEW at \in Nat,
         NEW b \in BOOLEAN, NEW type \in RideType
  PROVE  /\ Posted(u, type, at) \in Row
         /\ Rescheduled(row, at) \in Row
         /\ Cancelled(row) \in Row
         /\ Matched(row, u) \in Row
         /\ Started(row) \in Row
         /\ Confirmed(row, s, b) \in Row
         /\ Expired(row) \in Row
  <1>1. CreatorSide(type) \in Side /\ OpenSide(row.type) \in Side
    BY DEF CreatorSide, OpenSide, Side
  <1>2. Posted(u, type, at) \in Row
    BY <1>1 DEF Posted, NoRow, Row, MaybeUser, RideStatus, RideType, Stamp
  <1>3. Matched(row, u) \in Row
    BY <1>1 DEF Matched, Row, MaybeUser, RideStatus
  <1>4. Confirmed(row, s, b) \in Row
    BY DEF Confirmed, Row, RideStatus, Stamp
  <1>5. /\ Rescheduled(row, at) \in Row
        /\ Cancelled(row) \in Row
        /\ Started(row) \in Row
        /\ Expired(row) \in Row
    BY DEF Rescheduled, Cancelled, Started, Expired, Row, RideStatus, Stamp
  <1> QED
    BY <1>2, <1>3, <1>4, <1>5

\* Answering a request leaves every request of the ride with a status.
LEMMA SettledType ==
  ASSUME NEW reqs \in [Users -> RequestStatus \cup {"NONE"}], NEW u \in Users
  PROVE  Settled(reqs, u) \in [Users -> RequestStatus \cup {"NONE"}]
  BY DEF Settled, RequestStatus

\* What no update takes back once a row exists.
Grows(old, new) ==
  Exists(old) =>
    /\ Exists(new)
    /\ new.type = old.type
    /\ new.creator = old.creator
    /\ Paired(old) => Paired(new)
    /\ old.confirmed \subseteq new.confirmed
    /\ old.stamps \subseteq new.stamps

LEMMA SidesDiffer ==
  ASSUME NEW type \in RideType
  PROVE  /\ CreatorSide(type) \in Side
         /\ OpenSide(type) \in Side
         /\ CreatorSide(type) # OpenSide(type)
         /\ Side = {CreatorSide(type), OpenSide(type)}
  BY DEF RideType, CreatorSide, OpenSide, Side

\* The row that createRide inserts.
LEMMA PostedOK ==
  ASSUME NEW u \in Users, NEW type \in RideType, NEW at \in Nat, NEW role,
         role \in TokenRoles[u], MayPost(type, role)
  PROVE  LET row == Posted(u, type, at)
         IN  RowOK(row) /\ Exists(row) /\ ~Paired(row) /\ row.type = type
  <1> DEFINE row == Posted(u, type, at)
  <1>1. /\ row.status = "SEARCHING"
        /\ row.type = type
        /\ row.creator = u
        /\ row.confirmed = {}
        /\ row.stamps = {}
        /\ row.on[CreatorSide(type)] = u
        /\ row.on[OpenSide(type)] = NoUser
    BY SidesDiffer DEF Posted, NoRow
  <1> QED
    BY <1>1 DEF RowOK, Exists, Paired, MayPost, Travelling

\* The updates that touch neither side nor confirmation.
LEMMA StatusUpdatesOK ==
  ASSUME NEW row \in Row, RowOK(row), Exists(row), NEW at \in Nat
  PROVE  \A new \in {Rescheduled(row, at), Cancelled(row), Expired(row)} :
           /\ RowOK(new)
           /\ Grows(row, new)
           /\ new.on = row.on
  <1> SUFFICES ASSUME NEW new \in {Rescheduled(row, at), Cancelled(row), Expired(row)}
               PROVE  RowOK(new) /\ Grows(row, new) /\ new.on = row.on
    OBVIOUS
  <1>1. /\ new.type = row.type
        /\ new.creator = row.creator
        /\ new.on = row.on
        /\ new.confirmed = row.confirmed
        /\ new.status \in {row.status, "CANCELLED", "EXPIRED"}
        /\ new.stamps \in {row.stamps, row.stamps \cup {"cancelledAt"}}
    BY DEF Rescheduled, Cancelled, Expired, Row
  <1>2. Exists(new)
    BY <1>1 DEF Exists
  <1>3. Paired(new) = Paired(row)
    BY <1>1 DEF Paired
  <1> QED
    BY <1>1, <1>2, <1>3 DEF RowOK, Grows, Exists, Travelling, MayClaim

\* The update of acceptRequestTx seats a user who may claim the open side.
LEMMA MatchedOK ==
  ASSUME NEW row \in Row, RowOK(row), Exists(row), NEW u, MayClaim(row, u)
  PROVE  LET new == Matched(row, u)
         IN  /\ RowOK(new)
             /\ Grows(row, new)
             /\ new.on[OpenSide(new.type)] = u
  <1> DEFINE new == Matched(row, u)
  <1> USE NoUserAssumption
  <1>1. row.type \in RideType /\ row.on \in [Side -> MaybeUser]
    BY DEF Row
  <1>2. /\ new.type = row.type
        /\ new.creator = row.creator
        /\ new.on[OpenSide(row.type)] = u
        /\ new.on[CreatorSide(row.type)] = row.on[CreatorSide(row.type)]
        /\ new.confirmed = row.confirmed
        /\ new.status = "MATCHED"
        /\ new.stamps = row.stamps
    BY <1>1, SidesDiffer DEF Matched, Row
  <1>3. Exists(new) /\ Paired(new) /\ MayClaim(new, u)
    BY <1>2 DEF Exists, Paired, MayClaim
  <1> QED
    BY <1>2, <1>3 DEF RowOK, Grows

\* The update of startRide, on a row with both sides taken.
LEMMA StartedOK ==
  ASSUME NEW row \in Row, RowOK(row), Exists(row), Paired(row)
  PROVE  LET new == Started(row)
         IN  RowOK(new) /\ Grows(row, new) /\ new.on = row.on
  <1> DEFINE new == Started(row)
  <1>1. /\ new.type = row.type
        /\ new.creator = row.creator
        /\ new.on = row.on
        /\ new.confirmed = row.confirmed
        /\ new.status = "IN_PROGRESS"
        /\ new.stamps = row.stamps \cup {"startedAt"}
    BY DEF Started, Row
  <1>2. Exists(new) /\ Paired(new)
    BY <1>1 DEF Exists, Paired
  <1> QED
    BY <1>1, <1>2 DEF RowOK, Grows, MayClaim

\* The update of confirmRide, on a row that was started; it completes the ride
\* only when the other side has confirmed.
LEMMA ConfirmedOK ==
  ASSUME NEW row \in Row, RowOK(row), Exists(row), "startedAt" \in row.stamps,
         NEW s \in Side, NEW b \in BOOLEAN,
         b => row.confirmed \cup {s} = Side
  PROVE  LET new == Confirmed(row, s, b)
         IN  /\ RowOK(new)
             /\ Grows(row, new)
             /\ new.on = row.on
             /\ b => new.confirmed = Side
  <1> DEFINE new == Confirmed(row, s, b)
  <1>1. /\ new.type = row.type
        /\ new.creator = row.creator
        /\ new.on = row.on
        /\ new.confirmed = row.confirmed \cup {s}
    BY DEF Confirmed, Row
  <1>2. /\ b => new.status = "COMPLETED"
        /\ ~b => new.status = row.status
        /\ b => new.stamps = row.stamps \cup {"completedAt"}
        /\ ~b => new.stamps = row.stamps
    BY DEF Confirmed, Row
  <1>3. Exists(new)
    BY <1>2 DEF Exists
  <1>4. Paired(row) /\ Paired(new)
    BY <1>1 DEF RowOK, Paired
  <1>5. row.confirmed \in SUBSET Side
    BY DEF Row
  <1>6. row.confirmed = Side => new.confirmed = Side
    BY <1>1, <1>5
  <1>7. b => new.confirmed = Side
    BY <1>1
  <1>8. (new.status = "COMPLETED" \/ "completedAt" \in new.stamps)
          => new.confirmed = Side
    BY <1>2, <1>6, <1>7 DEF RowOK
  <1>9. "startedAt" \in new.stamps /\ row.stamps \subseteq new.stamps
    BY <1>2
  <1>10. Grows(row, new)
    BY <1>1, <1>3, <1>4, <1>9 DEF Grows
  <1>11. RowOK(new)
    BY <1>1, <1>3, <1>4, <1>8, <1>9 DEF RowOK, MayClaim
  <1> QED
    BY <1>1, <1>7, <1>10, <1>11

-----------------------------------------------------------------------------
(* Steps of the state.                                                     *)

\* Rows grow, and a request that was made or answered stays so.
StateGrows ==
  /\ \A r \in Rides : Grows(ride[r], ride'[r])
  /\ \A r \in Rides, u \in Users :
       /\ request[r][u] # "NONE" => request'[r][u] # "NONE"
       /\ request[r][u] \in Answered => request'[r][u] \in Answered

\* When rows only grow, what a call in flight relies on stays true: this is
\* why handlers that overlap it can do it no harm.
LEMMA CallStaysOK ==
  ASSUME TypeOK, TypeOK', StateGrows, NEW x \in Call, CallOK(x)
  PROVE  CallOK(x)'
  <1> SUFFICES ASSUME x.step # "idle"
               PROVE  CallOK(x)'
    BY DEF CallOK
  <1> DEFINE old == ride[x.ride]
             new == ride'[x.ride]
  <1>1. x.ride \in Rides /\ Exists(old)
    BY DEF CallOK
  <1>2. /\ Exists(new)
        /\ new.type = old.type
        /\ new.creator = old.creator
        /\ Paired(old) => Paired(new)
        /\ old.confirmed \subseteq new.confirmed
        /\ old.stamps \subseteq new.stamps
    BY <1>1 DEF StateGrows, Grows
  <1>3. new.confirmed \subseteq Side
    BY <1>1 DEF TypeOK, Row
  <1>4. x.side \in Side /\ x.to \subseteq Users
    BY DEF Call
  <1>5. x.step = "createRequest" => MayClaim(new, x.who)
    BY <1>2 DEF CallOK, MayClaim
  <1>6. x.step \in {"readRequest", "accept", "decline"} =>
          x.who \in Users /\ request'[x.ride][x.who] # "NONE"
    BY <1>1 DEF CallOK, StateGrows
  <1>7. x.step = "writeConfirm" =>
          /\ "startedAt" \in new.stamps
          /\ x.completes => new.confirmed \cup {x.side} = Side
    BY <1>2, <1>3, <1>4 DEF CallOK
  <1>8. old.confirmed = Side => new.confirmed = Side
    BY <1>2, <1>3
  <1>9. (\A u \in x.to : request[x.ride][u] \in Answered)
          => (\A u \in x.to : request'[x.ride][u] \in Answered)
    BY <1>1, <1>4 DEF StateGrows
  <1> QED
    BY <1>1, <1>2, <1>5, <1>6, <1>7, <1>8, <1>9 DEF CallOK

\* So does what a notification said.
LEMMA SentStaysOK ==
  ASSUME TypeOK, TypeOK', StateGrows, NEW n \in sent, SentOK(n),
         n.note = "RIDE_COMPLETED" => Exists(ride[n.ride])
  PROVE  SentOK(n)'
  <1>1. n.to \in Users /\ n.ride \in Rides
    BY DEF TypeOK
  <1>2. ride'[n.ride].confirmed \subseteq Side
    BY <1>1 DEF TypeOK, Row
  <1> QED
    BY <1>1, <1>2 DEF SentOK, StateGrows, Grows

\* A ride without a row was confirmed by nobody.
LEMMA ConfirmedExists ==
  ASSUME Inductive, NEW r \in Rides, ride[r].confirmed = Side
  PROVE  Exists(ride[r])
  <1>1. RowOK(ride[r])
    BY DEF Inductive
  <1>2. NoRow.confirmed # Side
    BY DEF NoRow, Side
  <1> QED
    BY <1>1, <1>2 DEF RowOK

-----------------------------------------------------------------------------
(* Type correctness.                                                       *)

LEMMA IdleType == Idle \in Call
  BY DEF Idle, Call, Step, MaybeUser, Side, Note

\* What a handler goes on with, or sends, is well typed.
LEMMA NotifyType ==
  ASSUME TypeOK, NEW c \in Calls, NEW users, users \subseteq Users,
         NEW note \in Note, ThenNotify(c, users, note)
  PROVE  call' \in [Calls -> Call]
  <1>1. call[c] \in Call
    BY DEF TypeOK
  <1>2. [Idle EXCEPT !.step = "notify", !.ride = call[c].ride,
                     !.to = users, !.note = note] \in Call
    BY <1>1 DEF Idle, Call, Step, MaybeUser, Side, Note
  <1> QED
    BY <1>2 DEF ThenNotify, Continue, TypeOK

LEMMA ReturnType ==
  ASSUME TypeOK, NEW c \in Calls, Return(c)
  PROVE  call' \in [Calls -> Call]
  BY IdleType DEF Return, Continue, TypeOK

\* The first step of every handler keeps the types.
LEMMA NewCallTypes ==
  ASSUME Inductive, NEW c \in Calls, NEW r \in Rides, NEW u \in Users,
         NewCall(c, r, u)
  PROVE  TypeOK'
  <1> USE RidesAssumption, NoUserAssumption
  <1>0. /\ TypeOK
        /\ ride[r] \in Row
        /\ RowOK(ride[r])
        /\ call \in [Calls -> Call]
    BY DEF Inductive, TypeOK
  <1>1. ASSUME NEW next \in Call, Read(c, r, next)
        PROVE  TypeOK'
    BY <1>0, <1>1 DEF Read, Begin, TypeOK
  <1>2. ASSUME NEW role \in Role, NEW type \in RideType, NEW at \in 1..MaxTime,
               CreateRide(c, r, u, role, type, at)
        PROVE  TypeOK'
    <2>0. at \in Nat
      OBVIOUS
    <2>1. [Idle EXCEPT !.step = "enqueueExpiry", !.ride = r, !.at = at] \in Call
      BY <2>0 DEF Idle, Call, Step, MaybeUser, Side, Note
    <2>2. Posted(u, type, at) \in Row
      <3>1. CreatorSide(type) \in Side
        BY SidesDiffer
      <3> QED
        BY <2>0, <3>1 DEF Posted, NoRow, Row, MaybeUser, RideStatus, RideType, Stamp
    <2>3. call' \in [Calls -> Call]
      BY <1>0, <1>2, <2>1 DEF CreateRide, Begin
    <2>4. ride' \in [Rides -> Row]
      BY <1>0, <1>2, <2>2 DEF CreateRide, TypeOK
    <2> QED
      BY <1>0, <1>2, <2>3, <2>4 DEF CreateRide, TypeOK
  <1>3. ASSUME NEW at \in 1..MaxTime, UpdateRide(c, r, u, at)
        PROVE  TypeOK'
    <2>0. at \in Nat
      OBVIOUS
    <2>1. [Idle EXCEPT !.step = "writeUpdate", !.ride = r, !.at = at] \in Call
      BY <2>0 DEF Idle, Call, Step, MaybeUser, Side, Note
    <2> QED
      BY <1>1, <1>3, <2>1 DEF UpdateRide
  <1>4. ASSUME CancelRide(c, r, u)
        PROVE  TypeOK'
    <2>1. [Idle EXCEPT !.step = "writeCancel", !.ride = r] \in Call
      BY DEF Idle, Call, Step, MaybeUser, Side, Note
    <2> QED
      BY <1>1, <1>4, <2>1 DEF CancelRide
  <1>5. ASSUME NEW role \in Role, RequestRide(c, r, u, role)
        PROVE  TypeOK'
    <2>1. Poster(ride[r]) \in Users
      BY <1>0, <1>5 DEF Poster, RequestRide, MayRequest, RowOK, Exists
    <2>2. [Idle EXCEPT !.step = "createRequest", !.ride = r, !.who = u,
                       !.to = {Poster(ride[r])}] \in Call
      BY <2>1 DEF Idle, Call, Step, MaybeUser, Side, Note
    <2> QED
      BY <1>1, <1>5, <2>2 DEF RequestRide
  <1>6. ASSUME NEW requester \in Users, RespondToRequest(c, r, u, requester)
        PROVE  TypeOK'
    <2>1. [Idle EXCEPT !.step = "readRequest", !.ride = r, !.who = requester] \in Call
      BY DEF Idle, Call, Step, MaybeUser, Side, Note
    <2> QED
      BY <1>1, <1>6, <2>1 DEF RespondToRequest
  <1>7. ride[r].on \in [Side -> MaybeUser]
    BY <1>0 DEF Row
  <1>8. ASSUME StartRide(c, r, u)
        PROVE  TypeOK'
    <2>1. {ride[r].on["passenger"]} \ {NoUser} \subseteq Users
      BY <1>7 DEF Side, MaybeUser
    <2>2. [Idle EXCEPT !.step = "writeStart", !.ride = r, !.who = u,
                       !.to = {ride[r].on["passenger"]} \ {NoUser}] \in Call
      BY <2>1 DEF Idle, Call, Step, MaybeUser, Side, Note
    <2> QED
      BY <1>1, <1>8, <2>2 DEF StartRide
  <1>9. ASSUME ConfirmRide(c, r, u)
        PROVE  TypeOK'
    <2>1. {ride[r].on[s] : s \in Side} \ {NoUser} \subseteq Users
      BY <1>7 DEF MaybeUser
    <2>2. /\ SideOf(ride[r], u) \in Side
          /\ Completes(ride[r], SideOf(ride[r], u)) \in BOOLEAN
      BY DEF SideOf, Side, Completes
    <2>3. [Idle EXCEPT
             !.step = "writeConfirm", !.ride = r, !.side = SideOf(ride[r], u),
             !.completes = Completes(ride[r], SideOf(ride[r], u)),
             !.to = {ride[r].on[s] : s \in Side} \ {NoUser}] \in Call
      BY <2>1, <2>2 DEF Idle, Call, Step, MaybeUser, Note
    <2> QED
      BY <1>1, <1>9, <2>3 DEF ConfirmRide
  <1> QED
    BY <1>2, <1>3, <1>4, <1>5, <1>6, <1>8, <1>9 DEF NewCall

\* What call c remembers when it goes on.
LEMMA CallFacts ==
  ASSUME Inductive, NEW c \in Calls, call[c].step # "idle"
  PROVE  /\ call[c] \in Call
         /\ call[c].ride \in Rides
         /\ call[c].to \subseteq Users
         /\ ride[call[c].ride] \in Row
         /\ RowOK(ride[call[c].ride])
         /\ Exists(ride[call[c].ride])
         /\ CallOK(call[c])
         /\ call[c].step \in {"createRequest", "readRequest", "accept", "decline"}
              => call[c].who \in Users
  <1>1. call[c] \in Call /\ CallOK(call[c])
    BY DEF Inductive, TypeOK
  <1>2. call[c].ride \in Rides /\ call[c].to \subseteq Users
    BY <1>1 DEF Call, CallOK
  <1> QED
    BY <1>1, <1>2 DEF Inductive, TypeOK, CallOK, MayClaim

\* Every later step of a handler keeps the types.
LEMMA ResumeTypes ==
  ASSUME Inductive, NEW c \in Calls, Resume(c)
  PROVE  TypeOK'
  <1> USE RidesAssumption, NoUserAssumption
  <1> DEFINE r == call[c].ride
             u == call[c].who
  <1>1. TypeOK
    BY DEF Inductive
  <1>2. call[c].step # "idle"
    BY DEF Resume, At, EnqueueExpiry, WriteUpdate, WriteCancel, CreateRequest,
           ReadRequest, AcceptTx, WriteDecline, WriteStart, WriteConfirm,
           EnqueueCompletion, Notify
  <1>3. /\ call[c] \in Call
        /\ r \in Rides
        /\ call[c].to \subseteq Users
        /\ ride[r] \in Row
        /\ At(c, "createRequest") \/ At(c, "accept") \/ At(c, "decline")
             => u \in Users
    BY <1>2, CallFacts DEF At
  <1>4. call[c].at \in Nat /\ call[c].side \in Side /\ call[c].completes \in BOOLEAN
    BY <1>3 DEF Call
  <1>5. request[r] \in [Users -> RequestStatus \cup {"NONE"}]
    BY <1>1, <1>3 DEF TypeOK
  <1>6. CASE EnqueueExpiry(c)
    <2>1. call' \in [Calls -> Call]
      BY <1>1, <1>6, ReturnType DEF EnqueueExpiry
    <2>2. ASSUME NEW due \in Nat
          PROVE  [state |-> "waiting", due |-> due, stalls |-> 0] \in Job
      BY DEF Job
    <2>3. now \in Nat
      BY <1>1 DEF TypeOK
    <2>4. (IF call[c].at > now THEN call[c].at ELSE now) \in Nat
      BY <1>4, <2>3
    <2>5. expiryJob' \in [Rides -> Job]
      BY <1>1, <1>3, <1>6, <2>2, <2>4 DEF EnqueueExpiry, TypeOK
    <2> QED
      BY <1>1, <1>6, <2>1, <2>5 DEF EnqueueExpiry, TypeOK
  <1>7. CASE WriteUpdate(c)
    <2>1. call' \in [Calls -> Call]
      BY <1>1, <1>7, ReturnType DEF WriteUpdate
    <2>2. Rescheduled(ride[r], call[c].at) \in Row
      BY <1>3, <1>4 DEF Rescheduled, Row
    <2> QED
      BY <1>1, <1>3, <1>7, <2>1, <2>2 DEF WriteUpdate, TypeOK
  <1>8. CASE WriteCancel(c)
    <2>1. call' \in [Calls -> Call]
      BY <1>1, <1>8, ReturnType DEF WriteCancel
    <2>2. Cancelled(ride[r]) \in Row
      BY <1>3 DEF Cancelled, Row, RideStatus, Stamp
    <2> QED
      BY <1>1, <1>3, <1>8, <2>1, <2>2 DEF WriteCancel, TypeOK
  <1>9. CASE CreateRequest(c)
    <2>1. call' \in [Calls -> Call]
      BY <1>1, <1>3, <1>9, ReturnType, NotifyType DEF CreateRequest, Note
    <2>2. [request[r] EXCEPT ![u] = "PENDING"]
            \in [Users -> RequestStatus \cup {"NONE"}]
      BY <1>5 DEF RequestStatus
    <2>3. request' \in [Rides -> [Users -> RequestStatus \cup {"NONE"}]]
      BY <1>1, <1>3, <1>9, <2>2 DEF CreateRequest, TypeOK
    <2> QED
      BY <1>1, <1>9, <2>1, <2>3 DEF CreateRequest, TypeOK
  <1>10. CASE ReadRequest(c)
    <2>1. ASSUME NEW answer \in {"accept", "decline"}
          PROVE  [call[c] EXCEPT !.step = answer] \in Call
      BY <1>3 DEF Call, Step
    <2>2. call' \in [Calls -> Call]
      BY <1>1, <1>10, <2>1, ReturnType DEF ReadRequest, Continue, TypeOK
    <2> QED
      BY <1>1, <1>10, <2>2 DEF ReadRequest, TypeOK
  <1>11. CASE AcceptTx(c)
    <2>1. u \in Users
      BY <1>3, <1>11 DEF AcceptTx
    <2>2. call' \in [Calls -> Call]
      BY <1>1, <1>11, <2>1, NotifyType DEF AcceptTx, Note
    <2>3. Matched(ride[r], u) \in Row
      BY <1>3, <2>1, RowTypes DEF Side, RideType
    <2>4. Settled(request[r], u) \in [Users -> RequestStatus \cup {"NONE"}]
      BY <1>5, <2>1, SettledType
    <2>5. ride' \in [Rides -> Row]
      BY <1>1, <1>3, <1>11, <2>3 DEF AcceptTx, TypeOK
    <2>6. request' \in [Rides -> [Users -> RequestStatus \cup {"NONE"}]]
      BY <1>1, <1>3, <1>11, <2>4 DEF AcceptTx, TypeOK
    <2> QED
      BY <1>1, <1>11, <2>2, <2>5, <2>6 DEF AcceptTx, TypeOK
  <1>12. CASE WriteDecline(c)
    <2>1. u \in Users
      BY <1>3, <1>12 DEF WriteDecline
    <2>2. call' \in [Calls -> Call]
      BY <1>1, <1>12, <2>1, NotifyType DEF WriteDecline, Note
    <2>3. [request[r] EXCEPT ![u] = "DECLINED"]
            \in [Users -> RequestStatus \cup {"NONE"}]
      BY <1>5 DEF RequestStatus
    <2>4. request' \in [Rides -> [Users -> RequestStatus \cup {"NONE"}]]
      BY <1>1, <1>3, <1>12, <2>3 DEF WriteDecline, TypeOK
    <2> QED
      BY <1>1, <1>12, <2>2, <2>4 DEF WriteDecline, TypeOK
  <1>13. CASE WriteStart(c)
    <2>1. call' \in [Calls -> Call]
      BY <1>1, <1>3, <1>13, NotifyType DEF WriteStart, Note
    <2>2. Started(ride[r]) \in Row
      BY <1>3 DEF Started, Row, RideStatus, Stamp
    <2> QED
      BY <1>1, <1>3, <1>13, <2>1, <2>2 DEF WriteStart, TypeOK
  <1>14. CASE WriteConfirm(c)
    <2>1. [call[c] EXCEPT !.step = "enqueueCompletion"] \in Call
      BY <1>3 DEF Call, Step
    <2>2. call' \in [Calls -> Call]
      BY <1>1, <1>14, <2>1, ReturnType DEF WriteConfirm, Continue, TypeOK
    <2>3. Confirmed(ride[r], call[c].side, call[c].completes) \in Row
      BY <1>3, <1>4 DEF Confirmed, Row, RideStatus, Stamp
    <2> QED
      BY <1>1, <1>3, <1>14, <2>2, <2>3 DEF WriteConfirm, TypeOK
  <1>15. CASE EnqueueCompletion(c)
    <2>1. call' \in [Calls -> Call]
      BY <1>1, <1>3, <1>15, NotifyType DEF EnqueueCompletion, Note
    <2>2. completionJobs' \in [Rides -> Nat]
      BY <1>1, <1>3, <1>15 DEF EnqueueCompletion, TypeOK
    <2> QED
      BY <1>1, <1>15, <2>1, <2>2 DEF EnqueueCompletion, TypeOK
  <1>16. CASE Notify(c)
    <2>1. PICK v \in call[c].to :
            /\ sent' = sent \cup
                 {[to |-> v, note |-> call[c].note, ride |-> call[c].ride]}
            /\ IF call[c].to = {v}
               THEN Return(c)
               ELSE Continue(c, [call[c] EXCEPT !.to = @ \ {v}])
      BY <1>16 DEF Notify
    <2>2. [call[c] EXCEPT !.to = @ \ {v}] \in Call
      BY <1>3 DEF Call
    <2>3. call' \in [Calls -> Call]
      BY <1>1, <2>1, <2>2, ReturnType DEF Continue, TypeOK
    <2>4. call[c].note \in Note
      BY <1>3 DEF Call
    <2>5. sent' \subseteq [to : Users, note : Note, ride : Rides]
      BY <1>1, <1>3, <2>1, <2>4 DEF TypeOK
    <2> QED
      BY <1>1, <1>16, <2>3, <2>5 DEF Notify, TypeOK
  <1> QED
    BY <1>6, <1>7, <1>8, <1>9, <1>10, <1>11, <1>12, <1>13, <1>14, <1>15, <1>16
       DEF Resume

\* The worker's steps, failures, restarts and the clock keep the types.
LEMMA OtherTypes ==
  ASSUME Inductive,
         \/ \E c \in Calls : Abort(c)
         \/ \E r \in Rides : Worker(r) \/ JobFails(r)
         \/ Crash
         \/ Tick
         \/ UNCHANGED vars
  PROVE  TypeOK'
  <1> USE RidesAssumption
  <1>1. TypeOK
    BY DEF Inductive
  <1>2. ASSUME NEW c \in Calls, Abort(c)
        PROVE  TypeOK'
    BY <1>1, <1>2, ReturnType DEF Abort, TypeOK
  <1>3. ASSUME NEW r \in Rides, NEW state \in {"active", "done", "failed"}
        PROVE  [expiryJob EXCEPT ![r] = [@ EXCEPT !.state = state]]
                 \in [Rides -> Job]
    BY <1>1 DEF TypeOK, Job
  <1>4. ASSUME NEW r \in Rides, TakeExpiryJob(r)
        PROVE  TypeOK'
    <2>1. expiryJob' \in [Rides -> Job]
      BY <1>3, <1>4 DEF TakeExpiryJob
    <2> QED
      BY <1>1, <1>4, <2>1 DEF TakeExpiryJob, TypeOK
  <1>5. ASSUME NEW r \in Rides, WriteExpiry(r)
        PROVE  TypeOK'
    <2>1. expiryJob' \in [Rides -> Job]
      BY <1>3, <1>5 DEF WriteExpiry
    <2>2. ride[r] \in Row
      BY <1>1 DEF TypeOK
    <2>3. Expired(ride[r]) \in Row
      BY <2>2 DEF Expired, Row, RideStatus
    <2> QED
      BY <1>1, <1>5, <2>1, <2>3 DEF WriteExpiry, TypeOK
  <1>6. ASSUME NEW r \in Rides, JobFails(r)
        PROVE  TypeOK'
    <2>1. expiryJob' \in [Rides -> Job]
      BY <1>3, <1>6 DEF JobFails
    <2> QED
      BY <1>1, <1>6, <2>1 DEF JobFails, TypeOK
  <1>7. ASSUME Crash
        PROVE  TypeOK'
    <2>1. ASSUME NEW r \in Rides
          PROVE  Stalled(expiryJob[r]) \in Job
      <3>1. expiryJob[r] \in Job
        BY <1>1 DEF TypeOK
      <3>2. expiryJob[r].stalls \in 0..MaxStalls
        BY <3>1 DEF Job
      <3>3. expiryJob[r].stalls # MaxStalls => expiryJob[r].stalls + 1 \in 0..MaxStalls
        BY <3>2
      <3> QED
        BY <3>1, <3>3 DEF Stalled, Job
    <2> QED
      BY <1>1, <1>7, <2>1, IdleType DEF Crash, TypeOK
  <1>8. ASSUME Tick
        PROVE  TypeOK'
    BY <1>1, <1>8 DEF Tick, TypeOK
  <1>9. ASSUME UNCHANGED vars
        PROVE  TypeOK'
    BY <1>1, <1>9 DEF vars, TypeOK
  <1> QED
    BY <1>2, <1>4, <1>5, <1>6, <1>7, <1>8, <1>9 DEF Worker

LEMMA TypeStep ==
  ASSUME Inductive, [Next]_vars
  PROVE  TypeOK'
  BY NewCallTypes, ResumeTypes, OtherTypes DEF Next

-----------------------------------------------------------------------------
(* The inductive invariant.                                                *)

LEMMA InductiveInit ==
  Init => Inductive
  <1> SUFFICES ASSUME Init
               PROVE  Inductive
    OBVIOUS
  <1> USE RidesAssumption, NoUserAssumption
  <1>1. NoRow \in Row
    BY DEF NoRow, Row, MaybeUser, RideType, Stamp
  <1>2. NoJob \in Job
    BY DEF NoJob, Job
  <1>3. TypeOK
    BY <1>1, <1>2, IdleType DEF Init, TypeOK
  <1>4. ~Exists(NoRow) /\ ~Paired(NoRow)
    BY DEF NoRow, Exists, Paired, OpenSide, Side
  <1>5. RowOK(NoRow)
    BY <1>4 DEF RowOK, NoRow, Travelling
  <1>6. \A r \in Rides : JobOK(r)
    BY DEF Init, JobOK, NoJob
  <1>7. \A r \in Rides, u \in Users : RequestOK(r, u)
    BY <1>4 DEF Init, RequestOK
  <1>8. \A c \in Calls : CallOK(call[c])
    BY DEF Init, CallOK, Idle
  <1> QED
    BY <1>3, <1>5, <1>6, <1>7, <1>8 DEF Init, Inductive

\* What is left to show of a step: the row and the requests it writes, the
\* call it continues, the job it takes and the notification it sends.
LEMMA Preserved ==
  ASSUME Inductive, TypeOK', StateGrows,
         \A r \in Rides : RowOK(ride'[r]),
         \A r \in Rides : JobOK(r)',
         \A r \in Rides :
           completionJobs'[r] > 0 =>
             completionJobs[r] > 0 \/ ride[r].confirmed = Side,
         \A r \in Rides, u \in Users : RequestOK(r, u)',
         \A c \in Calls : call'[c] = call[c] \/ CallOK(call[c])',
         \A n \in sent' : n \in sent \/ SentOK(n)'
  PROVE  Inductive' /\ StateGrows
  <1>1. TypeOK
    BY DEF Inductive
  <1>2. ASSUME NEW r \in Rides, ride[r].confirmed = Side
        PROVE  ride'[r].confirmed = Side
    <2>1. ride'[r].confirmed \subseteq Side
      BY DEF TypeOK, Row
    <2> QED
      BY <1>2, <2>1, ConfirmedExists DEF StateGrows, Grows
  <1>3. \A r \in Rides : completionJobs'[r] > 0 => ride'[r].confirmed = Side
    BY <1>2 DEF Inductive
  <1>4. ASSUME NEW c \in Calls
        PROVE  CallOK(call[c])'
    <2>1. CASE call'[c] = call[c]
      <3>1. PICK x \in Call : x = call[c]
        BY <1>1 DEF TypeOK
      <3>2. CallOK(x)
        BY <3>1 DEF Inductive
      <3>3. CallOK(x)'
        BY <1>1, <3>2, CallStaysOK
      <3> QED
        BY <2>1, <3>1, <3>3 DEF CallOK
    <2> QED
      BY <2>1
  <1>5. ASSUME NEW n \in sent'
        PROVE  SentOK(n)'
    <2>1. CASE n \in sent
      <3>1. n.ride \in Rides /\ SentOK(n)
        BY <1>1, <2>1 DEF Inductive, TypeOK
      <3>2. n.note = "RIDE_COMPLETED" => Exists(ride[n.ride])
        BY <3>1, ConfirmedExists DEF SentOK
      <3> QED
        BY <1>1, <2>1, <3>1, <3>2, SentStaysOK
    <2> QED
      BY <2>1
  <1> QED
    BY <1>3, <1>4, <1>5 DEF Inductive

\* A step that writes neither table disturbs nothing that is said of them.
LEMMA NoWrite ==
  ASSUME Inductive, ride' = ride, request' = request
  PROVE  /\ StateGrows
         /\ \A r \in Rides : RowOK(ride'[r])
         /\ \A r \in Rides : Exists(ride'[r]) = Exists(ride[r])
         /\ \A r \in Rides, u \in Users : RequestOK(r, u)'
  <1>1. StateGrows
    BY DEF StateGrows, Grows
  <1>2. \A r \in Rides, u \in Users : RequestOK(r, u)'
    BY DEF Inductive, RequestOK
  <1> QED
    BY <1>1, <1>2 DEF Inductive

\* A step that updates one existing row and leaves its sides alone.
LEMMA OneWrite ==
  ASSUME Inductive, NEW r \in Rides, Exists(ride[r]),
         ride' = [ride EXCEPT ![r] = ride'[r]], request' = request,
         RowOK(ride'[r]), Grows(ride[r], ride'[r]), ride'[r].on = ride[r].on
  PROVE  /\ StateGrows
         /\ \A q \in Rides : RowOK(ride'[q])
         /\ \A q \in Rides : Exists(ride'[q]) = Exists(ride[q])
         /\ \A q \in Rides, u \in Users : RequestOK(q, u)'
  <1>1. ride \in [Rides -> Row]
    BY DEF Inductive, TypeOK
  <1>2. ASSUME NEW q \in Rides, q # r
        PROVE  ride'[q] = ride[q]
    BY <1>1, <1>2
  <1>3. \A q \in Rides : RowOK(ride'[q])
    BY <1>2 DEF Inductive
  <1>4. \A q \in Rides : Grows(ride[q], ride'[q])
    BY <1>2 DEF Grows
  <1>5. \A q \in Rides : Exists(ride'[q]) = Exists(ride[q])
    BY <1>2 DEF Grows, Exists
  <1>6. ASSUME NEW u \in Users
        PROVE  RequestOK(r, u)'
    <2>1. RequestOK(r, u)
      BY DEF Inductive
    <2>2. /\ Exists(ride'[r])
          /\ ride'[r].type = ride[r].type
          /\ ride'[r].creator = ride[r].creator
      BY DEF Grows
    <2>3. MayClaim(ride[r], u) => MayClaim(ride'[r], u)
      BY <2>2 DEF MayClaim
    <2> QED
      BY <2>1, <2>2, <2>3 DEF RequestOK
  <1>7. ASSUME NEW q \in Rides, q # r, NEW u \in Users
        PROVE  RequestOK(q, u)'
    BY <1>2, <1>7 DEF Inductive, RequestOK
  <1> QED
    BY <1>3, <1>4, <1>5, <1>6, <1>7 DEF StateGrows

\* A handler's first step reads a row and remembers what follows from it.
LEMMA NewCallStep ==
  ASSUME Inductive, NEW c \in Calls, NEW r \in Rides, NEW u \in Users,
         NewCall(c, r, u)
  PROVE  Inductive' /\ StateGrows
  <1> USE NoUserAssumption
  <1>1. TypeOK /\ TypeOK' /\ call \in [Calls -> Call] /\ ride \in [Rides -> Row]
    BY NewCallTypes DEF Inductive, TypeOK
  <1>2. RowOK(ride[r]) /\ ride[r] \in Row
    BY <1>1 DEF Inductive
  <1>3. ASSUME NEW next, Read(c, r, next), CallOK(call[c])'
        PROVE  Inductive' /\ StateGrows
    <2>1. \A d \in Calls : call'[d] = call[d] \/ CallOK(call[d])'
      BY <1>1, <1>3 DEF Read, Begin
    <2>2. \A q \in Rides : JobOK(q)'
      BY <1>3 DEF Read, Inductive, JobOK
    <2> QED
      BY <1>1, <1>3, <2>1, <2>2, NoWrite, Preserved DEF Read
  <1>4. ASSUME NEW role \in Role, NEW type \in RideType, NEW at \in 1..MaxTime,
               CreateRide(c, r, u, role, type, at)
        PROVE  Inductive' /\ StateGrows
    <2> DEFINE new == Posted(u, type, at)
    <2>1. /\ role \in TokenRoles[u]
          /\ MayPost(type, role)
          /\ ~Exists(ride[r])
          /\ ride' = [ride EXCEPT ![r] = new]
          /\ UNCHANGED <<request, expiryJob, completionJobs, sent, now>>
      BY <1>4 DEF CreateRide, Exists
    <2>2. at \in Nat
      BY RidesAssumption
    <2>3. RowOK(new) /\ Exists(new) /\ ~Paired(new)
      BY <2>1, <2>2, PostedOK
    <2>4. ride'[r] = new /\ \A q \in Rides : q # r => ride'[q] = ride[q]
      BY <1>1, <2>1
    <2>5. \A q \in Rides : RowOK(ride'[q])
      BY <2>3, <2>4 DEF Inductive
    <2>6. StateGrows
      BY <2>1, <2>4 DEF StateGrows, Grows
    <2>7. \A q \in Rides : JobOK(q)'
      BY <2>1, <2>3, <2>4 DEF Inductive, JobOK
    <2>8. ASSUME NEW q \in Rides, NEW v \in Users
          PROVE  RequestOK(q, v)'
      <3>1. CASE q = r
        <4>1. request[r][v] = "NONE"
          BY <2>1 DEF Inductive, RequestOK
        <4>2. ride'[r].on[OpenSide(ride'[r].type)] # v
          BY <2>3, <2>4 DEF Paired
        <4> QED
          BY <2>1, <3>1, <4>1, <4>2 DEF RequestOK
      <3>2. CASE q # r
        BY <2>1, <2>4, <3>2 DEF Inductive, RequestOK
      <3> QED
        BY <3>1, <3>2
    <2>9. call'[c].step = "enqueueExpiry" /\ call'[c].ride = r
      BY <1>1, <1>4 DEF CreateRide, Begin, Idle
    <2>10. CallOK(call[c])'
      BY <2>3, <2>4, <2>9 DEF CallOK
    <2>11. \A d \in Calls : call'[d] = call[d] \/ CallOK(call[d])'
      BY <1>1, <1>4, <2>10 DEF CreateRide, Begin
    <2> QED
      BY <1>1, <2>1, <2>5, <2>6, <2>7, <2>8, <2>11, Preserved
  <1>5. ASSUME NEW at \in 1..MaxTime, UpdateRide(c, r, u, at)
        PROVE  Inductive' /\ StateGrows
    <2>1. call'[c].step = "writeUpdate" /\ call'[c].ride = r
      BY <1>1, <1>5 DEF UpdateRide, Read, Begin, Idle
    <2>2. CallOK(call[c])'
      BY <1>5, <2>1 DEF UpdateRide, Read, MayUpdate, CallOK, Exists
    <2> QED
      BY <1>3, <1>5, <2>2 DEF UpdateRide
  <1>6. ASSUME CancelRide(c, r, u)
        PROVE  Inductive' /\ StateGrows
    <2>1. call'[c].step = "writeCancel" /\ call'[c].ride = r
      BY <1>1, <1>6 DEF CancelRide, Read, Begin, Idle
    <2>2. CallOK(call[c])'
      BY <1>6, <2>1 DEF CancelRide, Read, MayCancel, CallOK, Exists
    <2> QED
      BY <1>3, <1>6, <2>2 DEF CancelRide
  <1>7. ASSUME NEW role \in Role, RequestRide(c, r, u, role)
        PROVE  Inductive' /\ StateGrows
    <2>1. /\ call'[c].step = "createRequest"
          /\ call'[c].ride = r
          /\ call'[c].who = u
      BY <1>1, <1>7 DEF RequestRide, Read, Begin, Idle
    <2>2. Exists(ride[r]) /\ MayClaim(ride[r], u)
      BY <1>7 DEF RequestRide, MayRequest, Exists, MayClaim
    <2>3. CallOK(call[c])'
      BY <1>7, <2>1, <2>2 DEF RequestRide, Read, CallOK
    <2> QED
      BY <1>3, <1>7, <2>3 DEF RequestRide
  <1>8. ASSUME NEW requester \in Users, RespondToRequest(c, r, u, requester)
        PROVE  Inductive' /\ StateGrows
    <2>1. /\ call'[c].step = "readRequest"
          /\ call'[c].ride = r
          /\ call'[c].who = requester
      BY <1>1, <1>8 DEF RespondToRequest, Read, Begin, Idle
    <2>2. CallOK(call[c])'
      BY <1>8, <2>1 DEF RespondToRequest, Read, MayRespond, CallOK, Exists
    <2> QED
      BY <1>3, <1>8, <2>2 DEF RespondToRequest
  <1>9. ASSUME StartRide(c, r, u)
        PROVE  Inductive' /\ StateGrows
    <2>1. call'[c].step = "writeStart" /\ call'[c].ride = r
      BY <1>1, <1>9 DEF StartRide, Read, Begin, Idle
    <2>2. Exists(ride[r]) /\ Paired(ride[r])
      BY <1>2, <1>9 DEF StartRide, MayStart, RowOK, Exists, Travelling
    <2>3. CallOK(call[c])'
      BY <1>9, <2>1, <2>2 DEF StartRide, Read, CallOK
    <2> QED
      BY <1>3, <1>9, <2>3 DEF StartRide
  <1>10. ASSUME ConfirmRide(c, r, u)
         PROVE  Inductive' /\ StateGrows
    <2>1. Exists(ride[r])
      BY <1>10 DEF ConfirmRide, MayConfirm, Exists
    <2>2. /\ call'[c].step = "writeConfirm"
          /\ call'[c].ride = r
          /\ call'[c].side = SideOf(ride[r], u)
          /\ call'[c].completes = Completes(ride[r], SideOf(ride[r], u))
      BY <1>1, <1>10 DEF ConfirmRide, Read, Begin, Idle
    <2>3. "startedAt" \in ride[r].stamps
      BY <1>2, <1>10 DEF ConfirmRide, MayConfirm, RowOK
    <2>4. CallOK(call[c])'
      BY <1>10, <2>1, <2>2, <2>3 DEF ConfirmRide, Read, CallOK, Completes
    <2> QED
      BY <1>3, <1>10, <2>4 DEF ConfirmRide
  <1> QED
    BY <1>4, <1>5, <1>6, <1>7, <1>8, <1>9, <1>10 DEF NewCall

\* A call that returns relies on nothing more.
LEMMA ReturnOK ==
  ASSUME Inductive, NEW c \in Calls, Return(c)
  PROVE  \A d \in Calls : call'[d] = call[d] \/ CallOK(call[d])'
  <1>1. call \in [Calls -> Call]
    BY DEF Inductive, TypeOK
  <1>2. call'[c].step = "idle" /\ \A d \in Calls : d # c => call'[d] = call[d]
    BY <1>1 DEF Return, Continue, Idle
  <1> QED
    BY <1>2 DEF CallOK

\* A call that goes on to notify relies on what the notification says.
LEMMA NotifyOK ==
  ASSUME Inductive, NEW c \in Calls, NEW users, NEW note,
         ThenNotify(c, users, note), call[c].ride \in Rides,
         Exists(ride'[call[c].ride]),
         note = "REQUEST_ACCEPTED" =>
           /\ Paired(ride'[call[c].ride])
           /\ \A u \in users : request'[call[c].ride][u] \in Answered,
         note = "RIDE_COMPLETED" => ride'[call[c].ride].confirmed = Side
  PROVE  \A d \in Calls : call'[d] = call[d] \/ CallOK(call[d])'
  <1>1. call \in [Calls -> Call]
    BY DEF Inductive, TypeOK
  <1>2. /\ call'[c].step = "notify"
        /\ call'[c].ride = call[c].ride
        /\ call'[c].to = users
        /\ call'[c].note = note
        /\ \A d \in Calls : d # c => call'[d] = call[d]
    BY <1>1 DEF ThenNotify, Continue, Idle
  <1> QED
    BY <1>2 DEF CallOK

\* Every later step of a handler writes what the row, whatever it has become,
\* can take.
LEMMA ResumeStep ==
  ASSUME Inductive, NEW c \in Calls, Resume(c)
  PROVE  Inductive' /\ StateGrows
  <1> DEFINE r == call[c].ride
             u == call[c].who
             new == ride'[r]
             CallsOK == \A d \in Calls : call'[d] = call[d] \/ CallOK(call[d])'
             Unsent == UNCHANGED <<completionJobs, sent>>
  <1>1. /\ TypeOK
        /\ TypeOK'
        /\ call \in [Calls -> Call]
        /\ ride \in [Rides -> Row]
        /\ request \in [Rides -> [Users -> RequestStatus \cup {"NONE"}]]
        /\ expiryJob \in [Rides -> Job]
    BY ResumeTypes DEF Inductive, TypeOK
  <1>2. call[c].step # "idle"
    BY DEF Resume, At, EnqueueExpiry, WriteUpdate, WriteCancel, CreateRequest,
           ReadRequest, AcceptTx, WriteDecline, WriteStart, WriteConfirm,
           EnqueueCompletion, Notify
  <1>3. /\ call[c] \in Call
        /\ r \in Rides
        /\ ride[r] \in Row
        /\ RowOK(ride[r])
        /\ Exists(ride[r])
        /\ CallOK(call[c])
        /\ call[c].at \in Nat
        /\ call[c].side \in Side
        /\ call[c].completes \in BOOLEAN
    BY <1>2, CallFacts DEF Call
  <1>4. ASSUME ride' = [ride EXCEPT ![r] = new], UNCHANGED <<request, expiryJob>>,
               Unsent, CallsOK,
               RowOK(new), Grows(ride[r], new), new.on = ride[r].on
        PROVE  Inductive' /\ StateGrows
    <2>1. \A q \in Rides : JobOK(q)'
      BY <1>3, <1>4, OneWrite DEF Inductive, JobOK
    <2> QED
      BY <1>1, <1>3, <1>4, <2>1, OneWrite, Preserved
  <1>5. ASSUME UNCHANGED <<ride, request, expiryJob>>, CallsOK,
               \A q \in Rides :
                 completionJobs'[q] > 0 =>
                   completionJobs[q] > 0 \/ ride[q].confirmed = Side,
               \A n \in sent' : n \in sent \/ SentOK(n)'
        PROVE  Inductive' /\ StateGrows
    <2>1. \A q \in Rides : JobOK(q)'
      BY <1>5 DEF Inductive, JobOK
    <2> QED
      BY <1>1, <1>5, <2>1, NoWrite, Preserved
  <1>6. CASE EnqueueExpiry(c)
    <2>1. UNCHANGED <<ride, request>> /\ Unsent
      BY <1>6 DEF EnqueueExpiry
    <2>2. \A q \in Rides : expiryJob'[q].state = "active" => expiryJob[q].state = "active"
      BY <1>1, <1>6 DEF EnqueueExpiry
    <2>3. \A q \in Rides : JobOK(q)'
      BY <2>1, <2>2 DEF Inductive, JobOK
    <2>4. CallsOK
      BY <1>6, ReturnOK DEF EnqueueExpiry
    <2> QED
      BY <1>1, <2>1, <2>3, <2>4, NoWrite, Preserved
  <1>7. CASE WriteUpdate(c)
    <2>1. /\ ride' = [ride EXCEPT ![r] = new]
          /\ new = Rescheduled(ride[r], call[c].at)
      BY <1>1, <1>3, <1>7 DEF WriteUpdate
    <2>2. CallsOK
      BY <1>7, ReturnOK DEF WriteUpdate
    <2> QED
      BY <1>3, <1>4, <1>7, <2>1, <2>2, StatusUpdatesOK DEF WriteUpdate
  <1>8. CASE WriteCancel(c)
    <2>1. ride' = [ride EXCEPT ![r] = new] /\ new = Cancelled(ride[r])
      BY <1>1, <1>3, <1>8 DEF WriteCancel
    <2>2. CallsOK
      BY <1>8, ReturnOK DEF WriteCancel
    <2> QED
      BY <1>3, <1>4, <1>8, <2>1, <2>2, StatusUpdatesOK DEF WriteCancel
  <1>9. CASE CreateRequest(c)
    <2>1. CASE request[r][u] = "NONE"
      <3>1. /\ request' = [request EXCEPT ![r] = [@ EXCEPT ![u] = "PENDING"]]
            /\ ThenNotify(c, call[c].to, "RIDE_REQUEST")
            /\ UNCHANGED <<ride, expiryJob>>
            /\ Unsent
        BY <1>9, <2>1 DEF CreateRequest
      <3>2. MayClaim(ride[r], u)
        BY <1>3, <1>9 DEF CreateRequest, At, CallOK
      <3>3. u \in Users
        BY <3>2 DEF MayClaim
      <3>4. \A q \in Rides, v \in Users :
              request'[q][v] = IF q = r /\ v = u THEN "PENDING" ELSE request[q][v]
        BY <1>1, <1>3, <3>1, <3>3
      <3>5. StateGrows
        BY <2>1, <3>1, <3>4 DEF StateGrows, Grows, Answered
      <3>6. ASSUME NEW q \in Rides, NEW v \in Users
            PROVE  RequestOK(q, v)'
        <4>1. RequestOK(q, v)
          BY DEF Inductive
        <4>2. CASE q = r /\ v = u
          <5>1. ride[r].on[OpenSide(ride[r].type)] # u
            BY <1>3, <2>1, <4>1, <4>2 DEF RequestOK, Answered
          <5> QED
            BY <1>3, <3>1, <3>2, <4>2, <5>1 DEF RequestOK
        <4>3. CASE ~(q = r /\ v = u)
          BY <3>1, <3>4, <4>1, <4>3 DEF RequestOK
        <4> QED
          BY <4>2, <4>3
      <3>7. \A q \in Rides : RowOK(ride'[q]) /\ JobOK(q)'
        BY <3>1 DEF Inductive, JobOK
      <3>8. CallsOK
        BY <1>3, <3>1, NotifyOK
      <3> QED
        BY <1>1, <3>1, <3>5, <3>6, <3>7, <3>8, Preserved
    <2>2. CASE request[r][u] # "NONE"
      <3>1. Return(c) /\ UNCHANGED <<ride, request, expiryJob>> /\ Unsent
        BY <1>9, <2>2 DEF CreateRequest
      <3> QED
        BY <1>5, <3>1, ReturnOK
    <2> QED
      BY <2>1, <2>2
  <1>10. CASE ReadRequest(c)
    <2>1. UNCHANGED <<ride, request, expiryJob>> /\ Unsent
      BY <1>10 DEF ReadRequest
    <2>2. CASE request[r][u] = "PENDING"
      <3>1. PICK answer \in {"accept", "decline"} :
              Continue(c, [call[c] EXCEPT !.step = answer])
        BY <1>10, <2>2 DEF ReadRequest
      <3>2. /\ call'[c].step = answer
            /\ call'[c].ride = r
            /\ call'[c].who = u
            /\ \A d \in Calls : d # c => call'[d] = call[d]
        BY <1>1, <1>3, <3>1 DEF Continue, Call
      <3>3. CallOK(call[c])'
        BY <1>3, <1>10, <2>1, <3>2 DEF ReadRequest, At, CallOK
      <3> QED
        BY <1>5, <2>1, <3>2, <3>3
    <2>3. CASE request[r][u] # "PENDING"
      BY <1>5, <1>10, <2>1, <2>3, ReturnOK DEF ReadRequest
    <2> QED
      BY <2>2, <2>3
  <1>11. CASE AcceptTx(c)
    <2>1. u \in Users /\ request[r][u] # "NONE"
      BY <1>3, <1>11 DEF AcceptTx, At, CallOK
    <2>2. MayClaim(ride[r], u)
      BY <1>3, <2>1 DEF Inductive, RequestOK
    <2>3. /\ ride' = [ride EXCEPT ![r] = Matched(ride[r], u)]
          /\ request' = [request EXCEPT ![r] = Settled(request[r], u)]
          /\ ThenNotify(c, {u}, "REQUEST_ACCEPTED")
          /\ UNCHANGED expiryJob
          /\ Unsent
      BY <1>11 DEF AcceptTx
    <2>4. /\ RowOK(Matched(ride[r], u))
          /\ Grows(ride[r], Matched(ride[r], u))
          /\ Matched(ride[r], u).on[OpenSide(Matched(ride[r], u).type)] = u
      BY <1>3, <2>2, MatchedOK
    <2>5. new = Matched(ride[r], u) /\ \A q \in Rides : q # r => ride'[q] = ride[q]
      BY <1>1, <1>3, <2>3
    <2>6. \A q \in Rides : RowOK(ride'[q]) /\ Grows(ride[q], ride'[q])
      BY <2>4, <2>5 DEF Inductive, Grows
    <2>7. request'[r] = Settled(request[r], u)
          /\ \A q \in Rides : q # r => request'[q] = request[q]
      BY <1>1, <1>3, <2>3
    <2>8. /\ request'[r][u] = "ACCEPTED"
          /\ \A v \in Users :
               v # u => request'[r][v] = IF request[r][v] = "PENDING"
                                         THEN "DECLINED" ELSE request[r][v]
      BY <1>1, <1>3, <2>1, <2>7 DEF Settled
    <2>9. StateGrows
      BY <2>6, <2>7, <2>8 DEF StateGrows, Answered
    <2>10. ASSUME NEW q \in Rides, NEW v \in Users
           PROVE  RequestOK(q, v)'
      <3>1. RequestOK(q, v)
        BY DEF Inductive
      <3>2. CASE q = r
        <4>1. /\ Exists(new)
              /\ new.type = ride[r].type
              /\ new.creator = ride[r].creator
          BY <1>3, <2>4, <2>5 DEF Grows
        <4>2. MayClaim(ride[r], v) => MayClaim(new, v)
          BY <4>1 DEF MayClaim
        <4>3. new.on[OpenSide(new.type)] = v => v = u
          BY <2>4, <2>5
        <4>4. request'[r][v] # "NONE" => request[r][v] # "NONE"
          BY <2>1, <2>8
        <4>5. v = u => request'[r][v] \in Answered
          BY <2>8 DEF Answered
        <4> QED
          BY <3>1, <3>2, <4>1, <4>2, <4>3, <4>4, <4>5 DEF RequestOK
      <3>3. CASE q # r
        BY <2>5, <2>7, <3>1, <3>3 DEF RequestOK
      <3> QED
        BY <3>2, <3>3
    <2>11. Exists(new) /\ Paired(new)
      BY <1>3, <2>2, <2>4, <2>5, NoUserAssumption DEF Grows, Paired, MayClaim
    <2>12. CallsOK
      BY <1>3, <2>3, <2>8, <2>11, NotifyOK DEF Answered
    <2>13. \A q \in Rides : JobOK(q)'
      BY <2>3, <2>6 DEF Inductive, JobOK, Grows
    <2> QED
      BY <1>1, <2>3, <2>6, <2>9, <2>10, <2>12, <2>13, Preserved
  <1>12. CASE WriteDecline(c)
    <2>1. u \in Users /\ request[r][u] # "NONE"
      BY <1>3, <1>12 DEF WriteDecline, At, CallOK
    <2>2. /\ request' = [request EXCEPT ![r] = [@ EXCEPT ![u] = "DECLINED"]]
          /\ ThenNotify(c, {u}, "REQUEST_DECLINED")
          /\ UNCHANGED <<ride, expiryJob>>
          /\ Unsent
      BY <1>12 DEF WriteDecline
    <2>3. \A q \in Rides, v \in Users :
            request'[q][v] = IF q = r /\ v = u THEN "DECLINED" ELSE request[q][v]
      BY <1>1, <1>3, <2>1, <2>2
    <2>4. StateGrows
      BY <2>2, <2>3 DEF StateGrows, Grows, Answered
    <2>5. \A q \in Rides, v \in Users : RequestOK(q, v)'
      BY <2>1, <2>2, <2>3 DEF Inductive, RequestOK, Answered
    <2>6. \A q \in Rides : RowOK(ride'[q]) /\ JobOK(q)'
      BY <2>2 DEF Inductive, JobOK
    <2>7. CallsOK
      BY <1>3, <2>2, NotifyOK
    <2> QED
      BY <1>1, <2>2, <2>4, <2>5, <2>6, <2>7, Preserved
  <1>13. CASE WriteStart(c)
    <2>1. /\ ride' = [ride EXCEPT ![r] = new]
          /\ new = Started(ride[r])
          /\ ThenNotify(c, call[c].to, "RIDE_STARTED")
          /\ UNCHANGED <<request, expiryJob>>
          /\ Unsent
      BY <1>1, <1>3, <1>13 DEF WriteStart
    <2>2. Paired(ride[r])
      BY <1>3, <1>13 DEF WriteStart, At, CallOK
    <2>3. RowOK(new) /\ Grows(ride[r], new) /\ new.on = ride[r].on
      BY <1>3, <2>1, <2>2, StartedOK
    <2>4. CallsOK
      BY <1>3, <2>1, <2>3, NotifyOK DEF Grows
    <2> QED
      BY <1>4, <2>1, <2>3, <2>4
  <1>14. CASE WriteConfirm(c)
    <2>1. /\ ride' = [ride EXCEPT ![r] = new]
          /\ new = Confirmed(ride[r], call[c].side, call[c].completes)
          /\ UNCHANGED <<request, expiryJob>>
          /\ Unsent
      BY <1>1, <1>3, <1>14 DEF WriteConfirm
    <2>2. /\ "startedAt" \in ride[r].stamps
          /\ call[c].completes => ride[r].confirmed \cup {call[c].side} = Side
      BY <1>3, <1>14 DEF WriteConfirm, At, CallOK
    <2>3. /\ RowOK(new)
          /\ Grows(ride[r], new)
          /\ new.on = ride[r].on
          /\ call[c].completes => new.confirmed = Side
      BY <1>3, <2>1, <2>2, ConfirmedOK
    <2>4. CASE call[c].completes
      <3>1. /\ call'[c].step = "enqueueCompletion"
            /\ call'[c].ride = r
            /\ \A d \in Calls : d # c => call'[d] = call[d]
        BY <1>1, <1>3, <1>14, <2>4 DEF WriteConfirm, Continue, Call
      <3>2. CallOK(call[c])'
        BY <1>3, <2>3, <2>4, <3>1 DEF CallOK, Grows
      <3> QED
        BY <1>4, <2>1, <2>3, <3>1, <3>2
    <2>5. CASE ~call[c].completes
      BY <1>4, <1>14, <2>1, <2>3, <2>5, ReturnOK DEF WriteConfirm
    <2> QED
      BY <2>4, <2>5
  <1>15. CASE EnqueueCompletion(c)
    <2>1. ride[r].confirmed = Side
      BY <1>3, <1>15 DEF EnqueueCompletion, At, CallOK
    <2>2. /\ ThenNotify(c, call[c].to, "RIDE_COMPLETED")
          /\ UNCHANGED <<ride, request, expiryJob, sent>>
      BY <1>15 DEF EnqueueCompletion
    <2>3. CallsOK
      BY <1>3, <2>1, <2>2, NotifyOK
    <2>4. \A q \in Rides : q # r => completionJobs'[q] = completionJobs[q]
      BY <1>1, <1>15 DEF EnqueueCompletion, TypeOK
    <2> QED
      BY <1>5, <2>1, <2>2, <2>3, <2>4
  <1>16. CASE Notify(c)
    <2>1. PICK v \in call[c].to :
            /\ sent' = sent \cup
                 {[to |-> v, note |-> call[c].note, ride |-> r]}
            /\ IF call[c].to = {v}
               THEN Return(c)
               ELSE Continue(c, [call[c] EXCEPT !.to = @ \ {v}])
      BY <1>16 DEF Notify
    <2>2. UNCHANGED <<ride, request, expiryJob, completionJobs>>
      BY <1>16 DEF Notify
    <2>3. /\ call[c].step = "notify"
          /\ call[c].note = "REQUEST_ACCEPTED" =>
               Paired(ride[r]) /\ \A w \in call[c].to : request[r][w] \in Answered
          /\ call[c].note = "RIDE_COMPLETED" => ride[r].confirmed = Side
      BY <1>3, <1>16 DEF Notify, At, CallOK
    <2>4. PICK m : m = [to |-> v, note |-> call[c].note, ride |-> r]
      OBVIOUS
    <2>5. \A n \in sent' : n \in sent \/ SentOK(n)'
      <3>1. m.to = v /\ m.note = call[c].note /\ m.ride = r
        BY <2>4
      <3>2. SentOK(m)'
        BY <1>3, <2>2, <2>3, <3>1 DEF SentOK
      <3> QED
        BY <2>1, <2>4, <3>2
    <2>6. CASE call[c].to = {v}
      BY <1>5, <2>1, <2>2, <2>5, <2>6, ReturnOK
    <2>7. CASE call[c].to # {v}
      <3>1. /\ call'[c] = [call[c] EXCEPT !.to = @ \ {v}]
            /\ \A d \in Calls : d # c => call'[d] = call[d]
        BY <1>1, <2>1, <2>7 DEF Continue
      <3>2. /\ call'[c].step = "notify"
            /\ call'[c].ride = r
            /\ call'[c].note = call[c].note
            /\ call'[c].to \subseteq call[c].to
        BY <1>3, <2>3, <3>1 DEF Call
      <3>3. CallOK(call[c])'
        BY <1>3, <2>2, <2>3, <3>2 DEF CallOK
      <3> QED
        BY <1>5, <2>2, <2>5, <3>1, <3>3
    <2> QED
      BY <2>6, <2>7
  <1> QED
    BY <1>6, <1>7, <1>8, <1>9, <1>10, <1>11, <1>12, <1>13, <1>14, <1>15, <1>16
       DEF Resume

\* The worker's UPDATE, failures, restarts and the clock.
LEMMA OtherStep ==
  ASSUME Inductive,
         \/ \E c \in Calls : Abort(c)
         \/ \E r \in Rides : Worker(r) \/ JobFails(r)
         \/ Crash
         \/ Tick
         \/ UNCHANGED vars
  PROVE  Inductive' /\ StateGrows
  <1>1. /\ TypeOK'
        /\ call \in [Calls -> Call]
        /\ ride \in [Rides -> Row]
        /\ expiryJob \in [Rides -> Job]
    BY OtherTypes DEF Inductive, TypeOK
  <1> DEFINE Kept == UNCHANGED <<ride, request, completionJobs, sent>>
             CallsOK == \A d \in Calls : call'[d] = call[d] \/ CallOK(call[d])'
  <1>2. ASSUME Kept, CallsOK,
               \A q \in Rides :
                 expiryJob'[q].state = "active" =>
                   expiryJob[q].state = "active" \/ Exists(ride[q])
        PROVE  Inductive' /\ StateGrows
    <2>1. \A q \in Rides : JobOK(q)'
      BY <1>2 DEF Inductive, JobOK
    <2> QED
      BY <1>1, <1>2, <2>1, NoWrite, Preserved
  <1>3. ASSUME NEW c \in Calls, Abort(c)
        PROVE  Inductive' /\ StateGrows
    BY <1>2, <1>3, ReturnOK DEF Abort
  <1>4. ASSUME NEW r \in Rides, TakeExpiryJob(r)
        PROVE  Inductive' /\ StateGrows
    <2>1. /\ Kept
          /\ call' = call
          /\ \A q \in Rides : q # r => expiryJob'[q] = expiryJob[q]
          /\ expiryJob'[r].state = "active" => ride[r].status = "SEARCHING"
      BY <1>1, <1>4 DEF TakeExpiryJob, Unmatched, Job
    <2> QED
      BY <1>2, <2>1 DEF Exists
  <1>5. ASSUME NEW r \in Rides, WriteExpiry(r)
        PROVE  Inductive' /\ StateGrows
    <2>1. /\ ride' = [ride EXCEPT ![r] = ride'[r]]
          /\ ride'[r] = Expired(ride[r])
          /\ expiryJob[r].state = "active"
          /\ \A q \in Rides :
               expiryJob'[q].state = "active" => expiryJob[q].state = "active"
          /\ UNCHANGED <<request, call, completionJobs, sent>>
      BY <1>1, <1>5 DEF WriteExpiry, Job
    <2>2. Exists(ride[r]) /\ RowOK(ride[r])
      BY <2>1 DEF Inductive, JobOK
    <2>3. /\ RowOK(ride'[r])
          /\ Grows(ride[r], ride'[r])
          /\ ride'[r].on = ride[r].on
      <3>1. 0 \in Nat
        OBVIOUS
      <3> QED
        BY <1>1, <2>1, <2>2, <3>1, StatusUpdatesOK
    <2>4. /\ StateGrows
          /\ \A q \in Rides : RowOK(ride'[q])
          /\ \A q \in Rides : Exists(ride'[q]) = Exists(ride[q])
          /\ \A q \in Rides, u \in Users : RequestOK(q, u)'
      BY <2>1, <2>2, <2>3, OneWrite
    <2>5. \A q \in Rides : JobOK(q)'
      BY <2>1, <2>4 DEF Inductive, JobOK
    <2> QED
      BY <1>1, <2>1, <2>4, <2>5, Preserved
  <1>6. ASSUME NEW r \in Rides, JobFails(r)
        PROVE  Inductive' /\ StateGrows
    <2>1. /\ Kept
          /\ call' = call
          /\ \A q \in Rides :
               expiryJob'[q].state = "active" => expiryJob[q].state = "active"
      BY <1>1, <1>6 DEF JobFails, Job
    <2> QED
      BY <1>2, <2>1
  <1>7. ASSUME Crash
        PROVE  Inductive' /\ StateGrows
    <2>1. Kept /\ call' = [c \in Calls |-> Idle]
      BY <1>7 DEF Crash
    <2>2. CallsOK
      BY <2>1 DEF CallOK, Idle
    <2>3. \A q \in Rides :
            expiryJob'[q].state = "active" => expiryJob[q].state = "active"
      BY <1>1, <1>7 DEF Crash, Stalled, Job
    <2> QED
      BY <1>2, <2>1, <2>2, <2>3
  <1>8. ASSUME Tick \/ UNCHANGED vars
        PROVE  Inductive' /\ StateGrows
    BY <1>2, <1>8 DEF Tick, vars
  <1> QED
    BY <1>3, <1>4, <1>5, <1>6, <1>7, <1>8 DEF Worker

LEMMA InductiveStep ==
  Inductive /\ [Next]_vars => Inductive' /\ StateGrows
  BY NewCallStep, ResumeStep, OtherStep DEF Next

\* The rows, the calls in flight, the jobs and the notifications agree in
\* every reachable state.
THEOREM InductiveInvariant == Spec => []Inductive
  BY InductiveInit, InductiveStep, PTL DEF Spec

\* What a handler may have read and nothing ever takes back: a ride's type and
\* creator, a side that is taken, a confirmation, a stamp, a request that was made
\* and the fact that it was answered.
THEOREM RecordsOnlyGrow == Spec => [][StateGrows]_vars
  <1>1. Inductive /\ [Next]_vars => StateGrows
    BY InductiveStep
  <1> QED
    BY <1>1, InductiveInvariant, PTL DEF Spec

-----------------------------------------------------------------------------
(* The properties.                                                         *)

\* Every value stays in its type, and no notification is addressed to the null
\* of an unfilled side.
THEOREM TypeCorrect == Spec => []TypeOK
  <1>1. Inductive => TypeOK
    BY DEF Inductive
  <1> QED
    BY <1>1, InductiveInvariant, PTL

\* A matched, running or completed ride has a driver and a passenger, whatever
\* overlaps the handlers that moved it there.
THEOREM MatchedRidesHaveBothSides == Spec => []MatchedHasBothSides
  <1>1. Inductive => MatchedHasBothSides
    <2> SUFFICES ASSUME Inductive, NEW r \in Rides, ride[r].status \in Travelling,
                        NEW s \in Side
                 PROVE  ride[r].on[s] # NoUser
      BY DEF MatchedHasBothSides
    <2>1. RowOK(ride[r]) /\ ride[r].type \in RideType
      BY DEF Inductive, TypeOK, Row
    <2>2. Exists(ride[r]) /\ Paired(ride[r])
      BY <2>1 DEF RowOK, Exists, Travelling
    <2>3. ride[r].on[CreatorSide(ride[r].type)] \in Users
      BY <2>1, <2>2 DEF RowOK
    <2> QED
      BY <2>1, <2>2, <2>3, SidesDiffer, NoUserAssumption DEF Paired
  <1> QED
    BY <1>1, InductiveInvariant, PTL

\* The creator keeps the side of the post, nobody sits on both sides, and
\* whoever sits on a side holds a token with the role for it.
THEOREM SidesHaveTheRightRole == Spec => []SidesHoldTheRightRole
  <1>1. Inductive => SidesHoldTheRightRole
    <2> SUFFICES ASSUME Inductive, NEW r \in Rides, ride[r].status # "ABSENT"
                 PROVE  /\ ride[r].creator \in Users
                        /\ ride[r].on[CreatorSide(ride[r].type)] = ride[r].creator
                        /\ ride[r].on["rider"] # ride[r].on["passenger"]
                        /\ \A s \in Side : ride[r].on[s] \in Users =>
                             RoleOf(s) \in TokenRoles[ride[r].on[s]]
      BY DEF SidesHoldTheRightRole
    <2> DEFINE open    == OpenSide(ride[r].type)
               creator == CreatorSide(ride[r].type)
    <2>1. RowOK(ride[r]) /\ ride[r].type \in RideType
      BY DEF Inductive, TypeOK, Row
    <2>2. /\ ride[r].creator \in Users
          /\ ride[r].on[creator] = ride[r].creator
          /\ RoleOf(creator) \in TokenRoles[ride[r].creator]
          /\ ride[r].on[open] # NoUser => MayClaim(ride[r], ride[r].on[open])
      BY <2>1 DEF RowOK, Exists, Paired
    <2>3. ride[r].on[open] # ride[r].on[creator]
      BY <2>2, NoUserAssumption DEF MayClaim
    <2>4. /\ creator \in Side
          /\ open \in Side
          /\ creator # open
          /\ Side = {creator, open}
      BY <2>1, SidesDiffer
    <2>5. ride[r].on["rider"] # ride[r].on["passenger"]
      BY <2>3, <2>4 DEF Side
    <2>6. ASSUME NEW s \in Side, ride[r].on[s] \in Users
          PROVE  RoleOf(s) \in TokenRoles[ride[r].on[s]]
      <3>1. CASE s = creator
        BY <2>2, <3>1
      <3>2. CASE s = open
        BY <2>2, <2>6, <3>2, NoUserAssumption DEF MayClaim
      <3> QED
        BY <2>4, <3>1, <3>2
    <2> QED
      BY <2>2, <2>5, <2>6
  <1> QED
    BY <1>1, InductiveInvariant, PTL

\* The counterpart asked and was answered, and so was every user who was told
\* of an acceptance, for a ride whose sides are both taken.
THEOREM AcceptedUsersHadAsked == Spec => []AcceptedHadAsked
  <1>1. Inductive => AcceptedHadAsked
    <2> SUFFICES ASSUME Inductive, NEW r \in Rides, NEW u \in Users
                 PROVE  /\ /\ ride[r].status # "ABSENT"
                           /\ ride[r].on[OpenSide(ride[r].type)] = u
                           => request[r][u] \in {"ACCEPTED", "DECLINED"}
                        /\ [to |-> u, note |-> "REQUEST_ACCEPTED", ride |-> r] \in sent =>
                             /\ request[r][u] \in {"ACCEPTED", "DECLINED"}
                             /\ \A s \in Side : ride[r].on[s] # NoUser
      BY DEF AcceptedHadAsked
    <2>1. RowOK(ride[r]) /\ ride[r].type \in RideType /\ RequestOK(r, u)
      BY DEF Inductive, TypeOK, Row
    <2>2. ASSUME [to |-> u, note |-> "REQUEST_ACCEPTED", ride |-> r] \in sent
          PROVE  /\ request[r][u] \in {"ACCEPTED", "DECLINED"}
                 /\ \A s \in Side : ride[r].on[s] # NoUser
      <3>1. Exists(ride[r]) /\ Paired(ride[r]) /\ request[r][u] \in Answered
        BY <2>2 DEF Inductive, SentOK
      <3>2. ride[r].on[CreatorSide(ride[r].type)] # NoUser
        BY <2>1, <3>1, NoUserAssumption DEF RowOK
      <3> QED
        BY <2>1, <3>1, <3>2, SidesDiffer DEF Paired, Answered
    <2> QED
      BY <2>1, <2>2 DEF RequestOK, Exists, Answered
  <1> QED
    BY <1>1, InductiveInvariant, PTL

\* No status, timestamp, settlement job or notification of completion without
\* the confirmation of both sides, and no confirmation without a start.
THEOREM CompletionIsMutual == Spec => []CompletionNeedsBothSides
  <1>1. Inductive => CompletionNeedsBothSides
    <2> SUFFICES ASSUME Inductive, NEW r \in Rides
                 PROVE  /\ \/ ride[r].status = "COMPLETED"
                           \/ "completedAt" \in ride[r].stamps
                           \/ completionJobs[r] > 0
                           \/ \E u \in Users :
                                [to |-> u, note |-> "RIDE_COMPLETED", ride |-> r]
                                  \in sent
                           => ride[r].confirmed = Side
                        /\ ride[r].confirmed # {} => "startedAt" \in ride[r].stamps
      BY DEF CompletionNeedsBothSides
    <2>1. RowOK(ride[r])
      BY DEF Inductive
    <2>2. ASSUME NEW u \in Users,
                 [to |-> u, note |-> "RIDE_COMPLETED", ride |-> r] \in sent
          PROVE  ride[r].confirmed = Side
      BY <2>2 DEF Inductive, SentOK
    <2>3. completionJobs[r] > 0 => ride[r].confirmed = Side
      BY DEF Inductive
    <2> QED
      BY <2>1, <2>2, <2>3 DEF RowOK
  <1> QED
    BY <1>1, InductiveInvariant, PTL

-----------------------------------------------------------------------------
(* One handler or job at a time on each ride.                              *)

\* What a call has read about its ride still holds.
Fresh(x) ==
  /\ x.step = "writeUpdate" =>
       ride[x.ride].status = "SEARCHING" /\ x.at \in 1..MaxTime
  /\ x.step = "writeCancel" =>
       ride[x.ride].status \in {"SEARCHING", "MATCHED", "EXPIRED"}
  /\ x.step \in {"createRequest", "readRequest", "accept", "decline"} =>
       ride[x.ride].status = "SEARCHING"
  /\ x.step \in {"accept", "decline"} => request[x.ride][x.who] = "PENDING"
  /\ x.step = "writeStart" => ride[x.ride].status = "MATCHED"
  /\ x.step = "writeConfirm" =>
       /\ ride[x.ride].status = "IN_PROGRESS"
       /\ x.side \notin ride[x.ride].confirmed
       /\ x.completes <=> Completes(ride[x.ride], x.side)
  /\ x.step = "notify" /\ x.note = "REQUEST_ACCEPTED" =>
       \A u \in x.to : request[x.ride][u] = "ACCEPTED"

\* A row and the requests for it, as the handlers leave them one at a time.
Settles(row, requests) ==
  /\ row.status \in {"SEARCHING", "EXPIRED"} => ~Paired(row)
  /\ row.confirmed # {} => row.status \in {"IN_PROGRESS", "COMPLETED"}
  /\ row.confirmed = Side => row.status = "COMPLETED"
  /\ \A u \in Users :
       /\ requests[u] = "ACCEPTED" <=> row.on[OpenSide(row.type)] = u
       /\ requests[u] = "PENDING" => ~Paired(row)

\* One handler or job at a time for each ride; a free slot is at no ride.
OneAtATime ==
  /\ \A c \in Calls : call[c].step = "idle" => call[c] = Idle
  /\ \A c, d \in Calls :
       call[c].ride = call[d].ride /\ call[c].ride # NoRide => c = d
  /\ \A c \in Calls, r \in Rides :
       expiryJob[r].state = "active" => call[c].ride # r

SerialInductive ==
  /\ OneAtATime
  /\ \A r \in Rides :
       /\ Settles(ride[r], request[r])
       /\ expiryJob[r].state = "active" => ride[r].status = "SEARCHING"
  /\ \A c \in Calls : Fresh(call[c])
  /\ \A n \in sent :
       n.note = "REQUEST_ACCEPTED" => request[n.ride][n.to] = "ACCEPTED"

-----------------------------------------------------------------------------
(* What each write makes of a row that is as it was read.                  *)

\* The row that createRide inserts, for which nobody has asked yet.
LEMMA PostedSettles ==
  ASSUME NEW u \in Users, NEW type \in RideType, NEW at,
         NEW requests, \A v \in Users : requests[v] = "NONE"
  PROVE  Settles(Posted(u, type, at), requests)
  <1> DEFINE row == Posted(u, type, at)
  <1>1. /\ row.status = "SEARCHING"
        /\ row.type = type
        /\ row.confirmed = {}
        /\ row.on[OpenSide(type)] = NoUser
    BY SidesDiffer DEF Posted, NoRow
  <1>2. ~Paired(row)
    BY <1>1 DEF Paired
  <1> QED
    BY <1>1, <1>2, NoUserAssumption DEF Settles, Side

\* The updates that change no more than schedule and status, each made to a
\* row that its handler may make it to.
LEMMA StatusSettles ==
  ASSUME NEW row \in Row, NEW requests, Settles(row, requests), NEW at
  PROVE  /\ Settles(Rescheduled(row, at), requests)
         /\ row.status \in {"SEARCHING", "MATCHED", "EXPIRED"} =>
              Settles(Cancelled(row), requests)
         /\ row.status = "SEARCHING" => Settles(Expired(row), requests)
         /\ row.status = "MATCHED" => Settles(Started(row), requests)
  <1>1. ASSUME NEW new, new.on = row.on, new.type = row.type, new.confirmed = row.confirmed
        PROVE  Paired(new) = Paired(row)
    BY <1>1 DEF Paired
  <1>2. LET new == Rescheduled(row, at)
        IN  /\ new.on = row.on /\ new.type = row.type /\ new.confirmed = row.confirmed
            /\ new.status = row.status
    BY DEF Rescheduled, Row
  <1>3. LET new == Cancelled(row)
        IN  /\ new.on = row.on /\ new.type = row.type /\ new.confirmed = row.confirmed
            /\ new.status = "CANCELLED"
    BY DEF Cancelled, Row
  <1>4. LET new == Expired(row)
        IN  /\ new.on = row.on /\ new.type = row.type /\ new.confirmed = row.confirmed
            /\ new.status = "EXPIRED"
    BY DEF Expired, Row
  <1>5. LET new == Started(row)
        IN  /\ new.on = row.on /\ new.type = row.type /\ new.confirmed = row.confirmed
            /\ new.status = "IN_PROGRESS"
    BY DEF Started, Row
  <1>6. Settles(Rescheduled(row, at), requests)
    BY <1>1, <1>2 DEF Settles
  <1>7. row.status \in {"SEARCHING", "MATCHED", "EXPIRED"} =>
          Settles(Cancelled(row), requests)
    BY <1>1, <1>3 DEF Settles, Side
  <1>8. row.status = "SEARCHING" => Settles(Expired(row), requests)
    BY <1>1, <1>4 DEF Settles
  <1>9. row.status = "MATCHED" => Settles(Started(row), requests)
    BY <1>1, <1>5 DEF Settles, Side
  <1> QED
    BY <1>6, <1>7, <1>8, <1>9

\* acceptRequestTx on a row that is still searching.
LEMMA MatchedSettles ==
  ASSUME NEW row \in Row, NEW requests, DOMAIN requests = Users,
         Settles(row, requests), row.status = "SEARCHING", NEW u \in Users
  PROVE  Settles(Matched(row, u), Settled(requests, u))
  <1> DEFINE new == Matched(row, u)
             after == Settled(requests, u)
  <1>1. /\ new.type = row.type
        /\ new.status = "MATCHED"
        /\ new.confirmed = row.confirmed
        /\ new.on[OpenSide(row.type)] = u
    BY SidesDiffer DEF Matched, Row
  <1>2. row.confirmed = {} /\ ~Paired(row)
    BY DEF Settles
  <1>3. \A v \in Users : requests[v] # "ACCEPTED"
    BY <1>2, NoUserAssumption DEF Settles, Paired
  <1>4. \A v \in Users : after[v] =
          IF v = u THEN "ACCEPTED"
          ELSE IF requests[v] = "PENDING" THEN "DECLINED" ELSE requests[v]
    BY DEF Settled
  <1>5. \A v \in Users : (after[v] = "ACCEPTED" <=> v = u) /\ after[v] # "PENDING"
    BY <1>3, <1>4
  <1> QED
    BY <1>1, <1>2, <1>5 DEF Settles, Side

\* confirmRide, when nobody else has confirmed since the read.
LEMMA ConfirmedSettles ==
  ASSUME NEW row \in Row, NEW requests, Settles(row, requests),
         row.status = "IN_PROGRESS", NEW s \in Side, NEW b \in BOOLEAN,
         b <=> Completes(row, s)
  PROVE  Settles(Confirmed(row, s, b), requests)
  <1> DEFINE new == Confirmed(row, s, b)
  <1>1. /\ new.type = row.type
        /\ new.on = row.on
        /\ new.confirmed = row.confirmed \cup {s}
        /\ new.status = IF b THEN "COMPLETED" ELSE "IN_PROGRESS"
    BY DEF Confirmed, Row
  <1>2. Paired(new) = Paired(row)
    BY <1>1 DEF Paired
  <1>3. new.confirmed = Side => b
    BY <1>1 DEF Completes
  <1> QED
    BY <1>1, <1>2, <1>3 DEF Settles

\* A request that is made, or declined, while the open side is free.
LEMMA AnsweredSettles ==
  ASSUME NEW row \in Row, NEW requests \in [Users -> RequestStatus \cup {"NONE"}],
         Settles(row, requests), row.status = "SEARCHING", NEW u \in Users,
         NEW answer \in {"PENDING", "DECLINED"}
  PROVE  /\ Settles(row, [requests EXCEPT ![u] = answer])
         /\ requests[u] # "ACCEPTED"
  <1>1. ~Paired(row)
    BY DEF Settles
  <1>2. \A v \in Users : requests[v] # "ACCEPTED" /\ row.on[OpenSide(row.type)] # v
    BY <1>1, NoUserAssumption DEF Settles, Paired
  <1> QED
    BY <1>1, <1>2 DEF Settles

-----------------------------------------------------------------------------
(* Steps of the state.                                                     *)

LEMMA SerialInit ==
  Init => SerialInductive
  <1> SUFFICES ASSUME Init
               PROVE  SerialInductive
    OBVIOUS
  <1> USE RidesAssumption, NoUserAssumption
  <1>1. OneAtATime
    BY DEF Init, OneAtATime, Idle, NoJob
  <1>2. /\ ~Paired(NoRow) /\ NoRow.status = "ABSENT" /\ NoRow.confirmed = {}
        /\ NoRow.on[OpenSide(NoRow.type)] = NoUser
    BY DEF NoRow, Paired, OpenSide, Side
  <1>3. \A r \in Rides : Settles(ride[r], request[r])
    BY <1>2 DEF Init, Settles, Side
  <1>4. \A c \in Calls : Fresh(call[c])
    BY DEF Init, Fresh, Idle
  <1>5. \A r \in Rides : expiryJob[r].state # "active"
    BY DEF Init, NoJob
  <1> QED
    BY <1>1, <1>3, <1>4, <1>5 DEF Init, SerialInductive

\* What is left to show of a step of call c, alone on ride r.
LEMMA AloneStep ==
  ASSUME Inductive, SerialInductive, TypeOK', NEW c \in Calls, NEW r \in Rides,
         \A q \in Rides : q # r => ride'[q] = ride[q] /\ request'[q] = request[q],
         \A d \in Calls : d # c => call'[d] = call[d] /\ call[d].ride # r,
         call'[c] = Idle \/ (call'[c].step # "idle" /\ call'[c].ride = r),
         \A q \in Rides :
           expiryJob'[q].state = "active" => expiryJob[q].state = "active" /\ q # r,
         Settles(ride'[r], request'[r]),
         Fresh(call[c])',
         \A u \in Users : request[r][u] = "ACCEPTED" => request'[r][u] = "ACCEPTED",
         \A n \in sent' :
           n \in sent \/ (n.note = "REQUEST_ACCEPTED" => request'[n.ride][n.to] = "ACCEPTED")
  PROVE  SerialInductive'
  <1> USE RidesAssumption
  <1>1. /\ call \in [Calls -> Call] /\ call' \in [Calls -> Call]
        /\ sent \subseteq [to : Users, note : Note, ride : Rides]
    BY DEF Inductive, TypeOK
  <1>2. call'[c].ride \in {r, NoRide}
    BY DEF Idle
  <1>3. OneAtATime'
    <2>1. \A d \in Calls : call'[d].step = "idle" => call'[d] = Idle
      BY DEF SerialInductive, OneAtATime
    <2>2. ASSUME NEW d \in Calls, NEW e \in Calls,
                 call'[d].ride = call'[e].ride, call'[d].ride # NoRide
          PROVE  d = e
      BY <1>2, <2>2 DEF SerialInductive, OneAtATime
    <2>3. ASSUME NEW d \in Calls, NEW q \in Rides, expiryJob'[q].state = "active"
          PROVE  call'[d].ride # q
      BY <1>2, <2>3 DEF SerialInductive, OneAtATime
    <2> QED
      BY <2>1, <2>2, <2>3 DEF OneAtATime
  <1>4. ASSUME NEW q \in Rides
        PROVE  /\ Settles(ride'[q], request'[q])
               /\ expiryJob'[q].state = "active" => ride'[q].status = "SEARCHING"
    BY DEF SerialInductive
  <1>5. ASSUME NEW d \in Calls
        PROVE  Fresh(call[d])'
    <2>1. CASE d = c
      BY <2>1
    <2>2. CASE d # c
      <3>1. call'[d] = call[d] /\ call[d].ride # r /\ Fresh(call[d])
        BY <2>2 DEF SerialInductive
      <3>2. CASE call[d].step = "idle"
        BY <3>1, <3>2 DEF Fresh
      <3>3. CASE call[d].step # "idle"
        <4>1. call[d].ride \in Rides
          BY <3>3, CallFacts
        <4>2. ride'[call[d].ride] = ride[call[d].ride] /\ request'[call[d].ride] = request[call[d].ride]
          BY <3>1, <4>1
        <4> QED
          BY <3>1, <4>2 DEF Fresh
      <3> QED
        BY <3>2, <3>3
    <2> QED
      BY <2>1, <2>2
  <1>6. ASSUME NEW n \in sent', n.note = "REQUEST_ACCEPTED"
        PROVE  request'[n.ride][n.to] = "ACCEPTED"
    <2>1. CASE n \in sent
      <3>1. n.ride \in Rides /\ n.to \in Users /\ request[n.ride][n.to] = "ACCEPTED"
        BY <1>1, <1>6, <2>1 DEF SerialInductive
      <3> QED
        BY <3>1
    <2> QED
      BY <1>6, <2>1
  <1> QED
    BY <1>3, <1>4, <1>5, <1>6 DEF SerialInductive

\* A handler begins when nothing else is at its ride, and what it has read is
\* true.
LEMMA SerialNewCall ==
  ASSUME ~Overlap, Inductive, SerialInductive, NEW c \in Calls, NEW r \in Rides,
         NEW u \in Users, NewCall(c, r, u)
  PROVE  SerialInductive'
  <1> USE NoUserAssumption
  <1>1. /\ TypeOK /\ TypeOK'
        /\ call \in [Calls -> Call]
        /\ ride \in [Rides -> Row]
        /\ request \in [Rides -> [Users -> RequestStatus \cup {"NONE"}]]
    BY NewCallTypes DEF Inductive, TypeOK
  <1>2. ASSUME NEW next, Begin(c, r, next)
        PROVE  /\ call'[c] = next
               /\ \A d \in Calls : d # c => call'[d] = call[d] /\ call[d].ride # r
               /\ expiryJob[r].state # "active"
    BY <1>1, <1>2 DEF Begin, MayBegin, Quiet
  <1>3. ASSUME NEW next, Read(c, r, next), next.step # "idle", next.ride = r,
               Fresh(call[c])'
        PROVE  SerialInductive'
    <2>1. /\ call'[c] = next
          /\ \A d \in Calls : d # c => call'[d] = call[d] /\ call[d].ride # r
          /\ expiryJob[r].state # "active"
      BY <1>2, <1>3 DEF Read
    <2>2. UNCHANGED <<ride, request, expiryJob, sent>>
      BY <1>3 DEF Read
    <2>3. \A q \in Rides :
            expiryJob'[q].state = "active" => expiryJob[q].state = "active" /\ q # r
      BY <2>1, <2>2
    <2>4. Settles(ride'[r], request'[r])
      BY <2>2 DEF SerialInductive
    <2> QED
      BY <1>1, <1>3, <2>1, <2>2, <2>3, <2>4, AloneStep
  <1>4. ASSUME NEW role \in Role, NEW type \in RideType, NEW at \in 1..MaxTime,
               CreateRide(c, r, u, role, type, at)
        PROVE  SerialInductive'
    <2> DEFINE next == [Idle EXCEPT !.step = "enqueueExpiry", !.ride = r, !.at = at]
    <2>1. /\ call'[c] = next
          /\ \A d \in Calls : d # c => call'[d] = call[d] /\ call[d].ride # r
          /\ expiryJob[r].state # "active"
      BY <1>2, <1>4 DEF CreateRide
    <2>2. /\ ~Exists(ride[r])
          /\ ride' = [ride EXCEPT ![r] = Posted(u, type, at)]
          /\ UNCHANGED <<request, expiryJob, sent>>
      BY <1>4 DEF CreateRide, Exists
    <2>3. /\ ride'[r] = Posted(u, type, at)
          /\ \A q \in Rides : q # r => ride'[q] = ride[q]
      BY <1>1, <2>2
    <2>4. \A v \in Users : request[r][v] = "NONE"
      BY <2>2 DEF Inductive, RequestOK
    <2>5. Settles(ride'[r], request'[r])
      BY <2>2, <2>3, <2>4, PostedSettles
    <2>6. next.step = "enqueueExpiry" /\ next.ride = r
      BY DEF Idle
    <2>7. Fresh(call[c])'
      BY <2>1, <2>6 DEF Fresh
    <2>8. /\ \A q \in Rides : q # r => ride'[q] = ride[q] /\ request'[q] = request[q]
          /\ \A q \in Rides :
               expiryJob'[q].state = "active" => expiryJob[q].state = "active" /\ q # r
          /\ \A v \in Users : request[r][v] = "ACCEPTED" => request'[r][v] = "ACCEPTED"
          /\ sent' = sent
      BY <2>1, <2>2, <2>3
    <2>9. call'[c].step # "idle" /\ call'[c].ride = r
      BY <2>1, <2>6
    <2> HIDE DEF next
    <2> QED
      BY <1>1, <2>1, <2>5, <2>7, <2>8, <2>9, AloneStep
  <1>5. ASSUME NEW at \in 1..MaxTime, UpdateRide(c, r, u, at)
        PROVE  SerialInductive'
    <2> DEFINE next == [Idle EXCEPT !.step = "writeUpdate", !.ride = r, !.at = at]
    <2>1. next.step = "writeUpdate" /\ next.ride = r /\ next.at = at
      BY DEF Idle
    <2>2. Read(c, r, next) /\ ride[r].status = "SEARCHING" /\ ride' = ride
      BY <1>5 DEF UpdateRide, MayUpdate, Read
    <2>3. Fresh(call[c])'
      BY <1>2, <2>1, <2>2 DEF Fresh, Read
    <2> QED
      BY <1>3, <2>1, <2>2, <2>3
  <1>6. ASSUME CancelRide(c, r, u)
        PROVE  SerialInductive'
    <2> DEFINE next == [Idle EXCEPT !.step = "writeCancel", !.ride = r]
    <2>1. next.step = "writeCancel" /\ next.ride = r
      BY DEF Idle
    <2>2. /\ Read(c, r, next) /\ ride' = ride
          /\ ride[r].status \in {"SEARCHING", "MATCHED", "EXPIRED"}
      BY <1>1, <1>6 DEF CancelRide, MayCancel, Read, Row, RideStatus
    <2>3. Fresh(call[c])'
      BY <1>2, <2>1, <2>2 DEF Fresh, Read
    <2> QED
      BY <1>3, <2>1, <2>2, <2>3
  <1>7. ASSUME NEW role \in Role, RequestRide(c, r, u, role)
        PROVE  SerialInductive'
    <2> DEFINE next == [Idle EXCEPT !.step = "createRequest", !.ride = r,
                                    !.who = u, !.to = {Poster(ride[r])}]
    <2>1. next.step = "createRequest" /\ next.ride = r
      BY DEF Idle
    <2>2. Read(c, r, next) /\ ride[r].status = "SEARCHING" /\ ride' = ride
      BY <1>7 DEF RequestRide, MayRequest, Read
    <2>3. Fresh(call[c])'
      BY <1>2, <2>1, <2>2 DEF Fresh, Read
    <2> QED
      BY <1>3, <2>1, <2>2, <2>3
  <1>8. ASSUME NEW requester \in Users, RespondToRequest(c, r, u, requester)
        PROVE  SerialInductive'
    <2> DEFINE next == [Idle EXCEPT !.step = "readRequest", !.ride = r, !.who = requester]
    <2>1. next.step = "readRequest" /\ next.ride = r
      BY DEF Idle
    <2>2. Read(c, r, next) /\ ride[r].status = "SEARCHING" /\ ride' = ride
      BY <1>8 DEF RespondToRequest, MayRespond, Read
    <2>3. Fresh(call[c])'
      BY <1>2, <2>1, <2>2 DEF Fresh, Read
    <2> QED
      BY <1>3, <2>1, <2>2, <2>3
  <1>9. ASSUME StartRide(c, r, u)
        PROVE  SerialInductive'
    <2> DEFINE next == [Idle EXCEPT !.step = "writeStart", !.ride = r, !.who = u,
                                    !.to = {ride[r].on["passenger"]} \ {NoUser}]
    <2>1. next.step = "writeStart" /\ next.ride = r
      BY DEF Idle
    <2>2. Read(c, r, next) /\ ride[r].status = "MATCHED" /\ ride' = ride
      BY <1>9 DEF StartRide, MayStart, Read
    <2>3. Fresh(call[c])'
      BY <1>2, <2>1, <2>2 DEF Fresh, Read
    <2> QED
      BY <1>3, <2>1, <2>2, <2>3
  <1>10. ASSUME ConfirmRide(c, r, u)
         PROVE  SerialInductive'
    <2> DEFINE side == SideOf(ride[r], u)
               next == [Idle EXCEPT
                          !.step = "writeConfirm", !.ride = r, !.side = side,
                          !.completes = Completes(ride[r], side),
                          !.to = {ride[r].on[s] : s \in Side} \ {NoUser}]
    <2>1. /\ next.step = "writeConfirm" /\ next.ride = r
          /\ next.side = side /\ next.completes = Completes(ride[r], side)
      BY DEF Idle
    <2>2. /\ Read(c, r, next) /\ ride' = ride
          /\ ride[r].status = "IN_PROGRESS" /\ side \notin ride[r].confirmed
      BY <1>10 DEF ConfirmRide, MayConfirm, Read
    <2>3. Fresh(call[c])'
      BY <1>2, <2>1, <2>2 DEF Fresh, Read, Completes
    <2> QED
      BY <1>3, <2>1, <2>2, <2>3
  <1> QED
    BY <1>4, <1>5, <1>6, <1>7, <1>8, <1>9, <1>10 DEF NewCall

\* A handler goes on alone at its ride, and writes to what it has read.
LEMMA SerialResume ==
  ASSUME Inductive, SerialInductive, NEW c \in Calls, Resume(c)
  PROVE  SerialInductive'
  <1> DEFINE r == call[c].ride
             u == call[c].who
             new == ride'[r]
             Kept(S) == \A q \in S : q # r => ride'[q] = ride[q] /\ request'[q] = request[q]
             Unsent == UNCHANGED <<expiryJob, sent>>
  <1>1. /\ TypeOK /\ TypeOK'
        /\ call \in [Calls -> Call]
        /\ ride \in [Rides -> Row]
        /\ request \in [Rides -> [Users -> RequestStatus \cup {"NONE"}]]
        /\ expiryJob \in [Rides -> Job]
    BY ResumeTypes DEF Inductive, TypeOK
  <1>2. call[c].step # "idle"
    BY DEF Resume, At, EnqueueExpiry, WriteUpdate, WriteCancel, CreateRequest,
           ReadRequest, AcceptTx, WriteDecline, WriteStart, WriteConfirm,
           EnqueueCompletion, Notify
  <1>3. /\ call[c] \in Call
        /\ r \in Rides
        /\ ride[r] \in Row
        /\ CallOK(call[c])
        /\ call[c].step \in {"createRequest", "readRequest", "accept", "decline"}
             => u \in Users
        /\ call[c].side \in Side
        /\ call[c].completes \in BOOLEAN
    BY <1>2, CallFacts DEF Call
  <1>4. Settles(ride[r], request[r]) /\ Fresh(call[c])
    BY <1>3 DEF SerialInductive
  <1>5. (\A d \in Calls : d # c => call[d].ride # r) /\ expiryJob[r].state # "active"
    BY <1>3, RidesAssumption DEF SerialInductive, OneAtATime
  <1>6. ASSUME NEW next, Continue(c, next)
        PROVE  call'[c] = next /\ \A d \in Calls : d # c => call'[d] = call[d]
    BY <1>1, <1>6 DEF Continue
  <1> HIDE DEF r, u
  <1>7. ASSUME NEW next, Continue(c, next),
               next = Idle \/ (next.step # "idle" /\ next.ride = r),
               Fresh(call[c])', Kept(Rides), Settles(ride'[r], request'[r]),
               \A v \in Users : request[r][v] = "ACCEPTED" => request'[r][v] = "ACCEPTED",
               \A q \in Rides :
                 expiryJob'[q].state = "active" => expiryJob[q].state = "active",
               \A n \in sent' : n \in sent \/
                 (n.note = "REQUEST_ACCEPTED" => request'[n.ride][n.to] = "ACCEPTED")
        PROVE  SerialInductive'
    <2>1. \A q \in Rides :
            expiryJob'[q].state = "active" => expiryJob[q].state = "active" /\ q # r
      BY <1>5, <1>7
    <2>2. \A d \in Calls : d # c => call'[d] = call[d] /\ call[d].ride # r
      BY <1>5, <1>6, <1>7
    <2>3. call'[c] = Idle \/ (call'[c].step # "idle" /\ call'[c].ride = r)
      BY <1>6, <1>7
    <2> QED
      BY <1>1, <1>3, <1>7, <2>1, <2>2, <2>3, AloneStep
  <1>8. ASSUME Return(c), Kept(Rides), Settles(ride'[r], request'[r]),
               request'[r] = request[r], sent' = sent,
               \A q \in Rides :
                 expiryJob'[q].state = "active" => expiryJob[q].state = "active"
        PROVE  SerialInductive'
    <2>1. Fresh(call[c])'
      BY <1>6, <1>8 DEF Return, Fresh, Idle
    <2> QED
      BY <1>7, <1>8, <2>1 DEF Return
  <1>9. ASSUME NEW users, NEW note, ThenNotify(c, users, note), Kept(Rides),
               Settles(ride'[r], request'[r]), Unsent,
               \A v \in Users : request[r][v] = "ACCEPTED" => request'[r][v] = "ACCEPTED",
               note = "REQUEST_ACCEPTED" =>
                 \A v \in users : request'[r][v] = "ACCEPTED"
        PROVE  SerialInductive'
    <2> DEFINE next == [Idle EXCEPT !.step = "notify", !.ride = call[c].ride,
                                    !.to = users, !.note = note]
    <2>1. next.step = "notify" /\ next.ride = r /\ next.to = users /\ next.note = note
      BY DEF Idle, r
    <2>2. Continue(c, next)
      BY <1>9 DEF ThenNotify
    <2> HIDE DEF next
    <2>3. Fresh(call[c])'
      BY <1>6, <1>9, <2>1, <2>2 DEF Fresh
    <2> QED
      BY <1>7, <1>9, <2>1, <2>2, <2>3
  <1>10. ASSUME NEW row, ride' = [ride EXCEPT ![r] = row], UNCHANGED request
         PROVE  ride'[r] = row /\ Kept(Rides)
    BY <1>1, <1>3, <1>10
  <1>11. CASE EnqueueExpiry(c)
    <2>1. \A q \in Rides : expiryJob'[q].state = "active" => expiryJob[q].state = "active"
      BY <1>1, <1>11 DEF EnqueueExpiry
    <2>2. Return(c) /\ UNCHANGED <<ride, request, sent>>
      BY <1>11 DEF EnqueueExpiry
    <2> QED
      BY <1>4, <1>8, <2>1, <2>2
  <1>12. CASE WriteUpdate(c)
    <2>1. /\ ride' = [ride EXCEPT ![r] = Rescheduled(ride[r], call[c].at)]
          /\ Return(c) /\ UNCHANGED <<request, expiryJob, sent>>
      BY <1>12 DEF WriteUpdate, r
    <2>2. ride'[r] = Rescheduled(ride[r], call[c].at) /\ Kept(Rides)
      BY <1>10, <2>1
    <2>3. Settles(ride'[r], request'[r])
      BY <1>3, <1>4, <2>1, <2>2, StatusSettles
    <2> QED
      BY <1>8, <2>1, <2>2, <2>3
  <1>13. CASE WriteCancel(c)
    <2>1. /\ ride' = [ride EXCEPT ![r] = Cancelled(ride[r])]
          /\ Return(c) /\ UNCHANGED <<request, expiryJob, sent>>
      BY <1>13 DEF WriteCancel, r
    <2>2. ride'[r] = Cancelled(ride[r]) /\ Kept(Rides)
      BY <1>10, <2>1
    <2>3. ride[r].status \in {"SEARCHING", "MATCHED", "EXPIRED"}
      BY <1>4, <1>13 DEF WriteCancel, At, Fresh, r
    <2>4. Settles(ride'[r], request'[r])
      BY <1>3, <1>4, <2>1, <2>2, <2>3, StatusSettles
    <2> QED
      BY <1>8, <2>1, <2>2, <2>4
  <1>14. CASE CreateRequest(c)
    <2>1. ride[r].status = "SEARCHING" /\ u \in Users
      BY <1>3, <1>4, <1>14 DEF CreateRequest, At, Fresh, r
    <2>2. CASE request[r][u] = "NONE"
      <3>1. /\ request' = [request EXCEPT ![r] = [@ EXCEPT ![u] = "PENDING"]]
            /\ ThenNotify(c, call[c].to, "RIDE_REQUEST")
            /\ ride' = ride /\ Unsent
        BY <1>14, <2>2 DEF CreateRequest, r, u
      <3>2. request'[r] = [request[r] EXCEPT ![u] = "PENDING"] /\ Kept(Rides)
        BY <1>1, <1>3, <3>1
      <3>3. Settles(ride'[r], request'[r])
        BY <1>1, <1>3, <1>4, <2>1, <3>1, <3>2, AnsweredSettles
      <3>4. \A v \in Users : request[r][v] = "ACCEPTED" => request'[r][v] = "ACCEPTED"
        BY <1>1, <1>3, <2>2, <3>2
      <3> QED
        BY <1>9, <3>1, <3>2, <3>3, <3>4
    <2>3. CASE request[r][u] # "NONE"
      <3>1. Return(c) /\ UNCHANGED <<ride, request, expiryJob, sent>>
        BY <1>14, <2>3 DEF CreateRequest, r, u
      <3> QED
        BY <1>4, <1>8, <3>1
    <2> QED
      BY <2>2, <2>3
  <1>15. CASE ReadRequest(c)
    <2>1. UNCHANGED <<ride, request, expiryJob, sent>> /\ ride[r].status = "SEARCHING"
      BY <1>4, <1>15 DEF ReadRequest, At, Fresh, r
    <2>2. CASE request[r][u] = "PENDING"
      <3>1. PICK answer \in {"accept", "decline"} :
              Continue(c, [call[c] EXCEPT !.step = answer])
        BY <1>15, <2>2 DEF ReadRequest, r, u
      <3> DEFINE next == [call[c] EXCEPT !.step = answer]
      <3>2. next.step = answer /\ next.ride = r /\ next.who = u
        BY <1>3 DEF Call, r, u
      <3> HIDE DEF next
      <3>3. Fresh(call[c])'
        BY <1>6, <2>1, <2>2, <3>1, <3>2 DEF Fresh, next
      <3> QED
        BY <1>4, <1>7, <2>1, <3>1, <3>2, <3>3 DEF next
    <2>3. CASE request[r][u] # "PENDING"
      <3>1. Return(c)
        BY <1>15, <2>3 DEF ReadRequest, r, u
      <3> QED
        BY <1>4, <1>8, <2>1, <3>1
    <2> QED
      BY <2>2, <2>3
  <1>16. CASE AcceptTx(c)
    <2>1. ride[r].status = "SEARCHING" /\ u \in Users
      BY <1>3, <1>4, <1>16 DEF AcceptTx, At, Fresh, r
    <2>2. /\ ride' = [ride EXCEPT ![r] = Matched(ride[r], u)]
          /\ request' = [request EXCEPT ![r] = Settled(request[r], u)]
          /\ ThenNotify(c, {u}, "REQUEST_ACCEPTED") /\ Unsent
      BY <1>16 DEF AcceptTx, r, u
    <2>3. /\ ride'[r] = Matched(ride[r], u)
          /\ request'[r] = Settled(request[r], u)
          /\ Kept(Rides)
      BY <1>1, <1>3, <2>2
    <2>4. DOMAIN request[r] = Users
      BY <1>1, <1>3
    <2>5. Settles(ride'[r], request'[r])
      BY <1>3, <1>4, <2>1, <2>3, <2>4, MatchedSettles
    <2>6. /\ request'[r][u] = "ACCEPTED"
          /\ \A v \in Users : request[r][v] = "ACCEPTED" => request'[r][v] = "ACCEPTED"
      BY <2>1, <2>3, <2>4 DEF Settled
    <2> QED
      BY <1>9, <2>2, <2>3, <2>5, <2>6
  <1>17. CASE WriteDecline(c)
    <2>1. ride[r].status = "SEARCHING" /\ u \in Users
      BY <1>3, <1>4, <1>17 DEF WriteDecline, At, Fresh, r
    <2>2. /\ request' = [request EXCEPT ![r] = [@ EXCEPT ![u] = "DECLINED"]]
          /\ ThenNotify(c, {u}, "REQUEST_DECLINED")
          /\ ride' = ride /\ Unsent
      BY <1>17 DEF WriteDecline, r, u
    <2>3. request'[r] = [request[r] EXCEPT ![u] = "DECLINED"] /\ Kept(Rides)
      BY <1>1, <1>3, <2>2
    <2>4. Settles(ride'[r], request'[r]) /\ request[r][u] # "ACCEPTED"
      <3>1. request[r] \in [Users -> RequestStatus \cup {"NONE"}]
        BY <1>1, <1>3
      <3>2. /\ Settles(ride[r], [request[r] EXCEPT ![u] = "DECLINED"])
            /\ request[r][u] # "ACCEPTED"
        BY <1>3, <1>4, <2>1, <3>1, AnsweredSettles
      <3> QED
        BY <2>2, <2>3, <3>2
    <2>5. \A v \in Users : request[r][v] = "ACCEPTED" => request'[r][v] = "ACCEPTED"
      BY <1>1, <1>3, <2>3, <2>4
    <2> QED
      BY <1>9, <2>2, <2>3, <2>4, <2>5
  <1>18. CASE WriteStart(c)
    <2>1. /\ ride' = [ride EXCEPT ![r] = Started(ride[r])]
          /\ ThenNotify(c, call[c].to, "RIDE_STARTED")
          /\ UNCHANGED request /\ Unsent
      BY <1>18 DEF WriteStart, r
    <2>2. ride'[r] = Started(ride[r]) /\ Kept(Rides)
      BY <1>10, <2>1
    <2>3. ride[r].status = "MATCHED"
      BY <1>4, <1>18 DEF WriteStart, At, Fresh, r
    <2>4. Settles(ride'[r], request'[r])
      BY <1>3, <1>4, <2>1, <2>2, <2>3, StatusSettles
    <2> QED
      BY <1>9, <2>1, <2>2, <2>4
  <1>19. CASE WriteConfirm(c)
    <2>1. /\ ride' = [ride EXCEPT ![r] =
                        Confirmed(ride[r], call[c].side, call[c].completes)]
          /\ UNCHANGED <<request, expiryJob, sent>>
      BY <1>19 DEF WriteConfirm, r
    <2>2. ride'[r] = Confirmed(ride[r], call[c].side, call[c].completes) /\ Kept(Rides)
      BY <1>10, <2>1
    <2>3. ride[r].status = "IN_PROGRESS" /\ (call[c].completes <=> Completes(ride[r], call[c].side))
      BY <1>4, <1>19 DEF WriteConfirm, At, Fresh, r
    <2>4. Settles(ride'[r], request'[r])
      BY <1>3, <1>4, <2>1, <2>2, <2>3, ConfirmedSettles
    <2>5. CASE call[c].completes
      <3> DEFINE next == [call[c] EXCEPT !.step = "enqueueCompletion"]
      <3>1. next.step = "enqueueCompletion" /\ next.ride = r
        BY <1>3 DEF Call, r
      <3>2. Continue(c, next)
        BY <1>19, <2>5 DEF WriteConfirm
      <3> HIDE DEF next
      <3>3. Fresh(call[c])'
        BY <1>6, <3>1, <3>2 DEF Fresh
      <3> QED
        BY <1>7, <2>1, <2>2, <2>4, <3>1, <3>2, <3>3
    <2>6. CASE ~call[c].completes
      <3>1. Return(c)
        BY <1>19, <2>6 DEF WriteConfirm
      <3> QED
        BY <1>8, <2>1, <2>2, <2>4, <3>1
    <2> QED
      BY <2>5, <2>6
  <1>20. CASE EnqueueCompletion(c)
    <2>1. ThenNotify(c, call[c].to, "RIDE_COMPLETED") /\ UNCHANGED <<ride, request>> /\ Unsent
      BY <1>20 DEF EnqueueCompletion
    <2> QED
      BY <1>4, <1>9, <2>1
  <1>21. CASE Notify(c)
    <2>1. UNCHANGED <<ride, request, expiryJob>> /\ call[c].step = "notify"
      BY <1>21 DEF Notify, At
    <2>2. PICK v \in call[c].to :
            /\ sent' = sent \cup {[to |-> v, note |-> call[c].note, ride |-> r]}
            /\ IF call[c].to = {v} THEN Return(c)
               ELSE Continue(c, [call[c] EXCEPT !.to = @ \ {v}])
      BY <1>21 DEF Notify, r
    <2>3. call[c].note = "REQUEST_ACCEPTED" =>
            \A w \in call[c].to : request[r][w] = "ACCEPTED"
      BY <1>4, <2>1 DEF Fresh, r
    <2>4. \A n \in sent' : n \in sent \/
            (n.note = "REQUEST_ACCEPTED" => request'[n.ride][n.to] = "ACCEPTED")
      BY <2>1, <2>2, <2>3
    <2>5. CASE call[c].to = {v}
      <3>1. Return(c)
        BY <2>2, <2>5
      <3>2. Fresh(call[c])'
        BY <1>6, <3>1 DEF Return, Fresh, Idle
      <3> QED
        BY <1>4, <1>7, <2>1, <2>4, <3>1, <3>2 DEF Return
    <2>6. CASE call[c].to # {v}
      <3> DEFINE next == [call[c] EXCEPT !.to = @ \ {v}]
      <3>1. /\ next.step = "notify" /\ next.ride = r /\ next.note = call[c].note
            /\ next.to \subseteq call[c].to
        BY <1>3, <2>1 DEF Call, r
      <3>2. Continue(c, next)
        BY <2>2, <2>6
      <3> HIDE DEF next
      <3>3. Fresh(call[c])'
        BY <1>6, <2>1, <2>3, <3>1, <3>2 DEF Fresh
      <3> QED
        BY <1>4, <1>7, <2>1, <2>4, <3>1, <3>2, <3>3
    <2> QED
      BY <2>5, <2>6
  <1> QED
    BY <1>11, <1>12, <1>13, <1>14, <1>15, <1>16, <1>17, <1>18, <1>19, <1>20, <1>21
       DEF Resume

\* Failures, restarts, time and the worker, which finds no handler at the ride
\* whose job it takes.
LEMMA SerialOther ==
  ASSUME ~Overlap, Inductive, SerialInductive,
         \/ \E c \in Calls : Abort(c)
         \/ \E r \in Rides : Worker(r) \/ JobFails(r)
         \/ Crash
         \/ Tick
         \/ UNCHANGED vars
  PROVE  SerialInductive'
  <1>1. /\ TypeOK'
        /\ call \in [Calls -> Call]
        /\ ride \in [Rides -> Row]
        /\ expiryJob \in [Rides -> Job]
    BY OtherTypes DEF Inductive, TypeOK
  <1>2. ASSUME UNCHANGED <<ride, request, sent>>,
               \A c \in Calls : call'[c] = call[c] \/ call'[c] = Idle,
               \A q \in Rides : expiryJob'[q].state = "active" =>
                 \/ expiryJob[q].state = "active"
                 \/ ride[q].status = "SEARCHING" /\ \A c \in Calls : call[c].ride # q
        PROVE  SerialInductive'
    <2>1. Idle.ride = NoRide /\ Idle.step = "idle"
      BY DEF Idle
    <2>2. OneAtATime'
      <3>1. \A c \in Calls : call'[c].step = "idle" => call'[c] = Idle
        BY <1>2 DEF SerialInductive, OneAtATime
      <3>2. \A c, d \in Calls :
              call'[c].ride = call'[d].ride /\ call'[c].ride # NoRide => c = d
        BY <1>2, <2>1 DEF SerialInductive, OneAtATime
      <3>3. \A c \in Calls, q \in Rides :
              expiryJob'[q].state = "active" => call'[c].ride # q
        BY <1>2, <2>1, RidesAssumption DEF SerialInductive, OneAtATime
      <3> QED
        BY <3>1, <3>2, <3>3 DEF OneAtATime
    <2>3. \A c \in Calls : Fresh(call[c])'
      <3>1. ASSUME NEW c \in Calls, call'[c] = Idle
            PROVE  Fresh(call[c])'
        BY <2>1, <3>1 DEF Fresh
      <3>2. ASSUME NEW c \in Calls, call'[c] = call[c]
            PROVE  Fresh(call[c])'
        BY <1>2, <3>2 DEF SerialInductive, Fresh
      <3> QED
        BY <1>2, <3>1, <3>2
    <2> QED
      BY <1>2, <2>2, <2>3 DEF SerialInductive
  <1>3. ASSUME NEW c \in Calls, Abort(c)
        PROVE  SerialInductive'
    BY <1>1, <1>2, <1>3 DEF Abort, Return, Continue
  <1>4. ASSUME NEW r \in Rides, TakeExpiryJob(r)
        PROVE  SerialInductive'
    <2>1. /\ UNCHANGED <<ride, request, call, sent>>
          /\ \A q \in Rides : q # r => expiryJob'[q] = expiryJob[q]
          /\ expiryJob'[r].state = "active" => ride[r].status = "SEARCHING"
          /\ \A c \in Calls : call[c].ride # r
      BY <1>1, <1>4 DEF TakeExpiryJob, Unmatched, Job, MayBegin, Quiet
    <2> QED
      BY <1>2, <2>1
  <1>5. ASSUME NEW r \in Rides, WriteExpiry(r)
        PROVE  SerialInductive'
    <2>1. /\ ride' = [ride EXCEPT ![r] = Expired(ride[r])]
          /\ expiryJob[r].state = "active"
          /\ \A q \in Rides :
               expiryJob'[q].state = "active" => expiryJob[q].state = "active" /\ q # r
          /\ UNCHANGED <<request, call, sent>>
      BY <1>1, <1>5 DEF WriteExpiry, Job
    <2>2. /\ ride'[r] = Expired(ride[r])
          /\ \A q \in Rides : q # r => ride'[q] = ride[q]
      BY <1>1, <2>1
    <2>3. /\ ride[r].status = "SEARCHING"
          /\ Settles(ride[r], request[r])
          /\ \A c \in Calls : call[c].ride # r
      BY <2>1 DEF SerialInductive, OneAtATime
    <2>4. Settles(ride'[r], request'[r])
      <3>1. ride[r] \in Row /\ 0 \in Nat
        BY <1>1
      <3> QED
        BY <2>1, <2>2, <2>3, <3>1, StatusSettles
    <2>5. \A c \in Calls : Fresh(call[c])'
      <3>1. ASSUME NEW c \in Calls, call[c].step # "idle"
            PROVE  Fresh(call[c])'
        <4>1. call[c].ride \in Rides \ {r}
          BY <2>3, <3>1, CallFacts
        <4>2. ride'[call[c].ride] = ride[call[c].ride]
          BY <2>2, <4>1
        <4> QED
          BY <2>1, <4>2 DEF SerialInductive, Fresh
      <3>2. ASSUME NEW c \in Calls, call[c].step = "idle"
            PROVE  Fresh(call[c])'
        BY <2>1, <3>2 DEF Fresh
      <3> QED
        BY <3>1, <3>2
    <2>6. OneAtATime'
      BY <2>1 DEF SerialInductive, OneAtATime
    <2> QED
      BY <2>1, <2>2, <2>4, <2>5, <2>6 DEF SerialInductive
  <1>6. ASSUME NEW r \in Rides, JobFails(r)
        PROVE  SerialInductive'
    BY <1>1, <1>2, <1>6 DEF JobFails, Job
  <1>7. ASSUME Crash
        PROVE  SerialInductive'
    BY <1>1, <1>2, <1>7 DEF Crash, Stalled, Job
  <1>8. ASSUME Tick \/ UNCHANGED vars
        PROVE  SerialInductive'
    BY <1>2, <1>8 DEF Tick, vars
  <1> QED
    BY <1>3, <1>4, <1>5, <1>6, <1>7, <1>8 DEF Worker

LEMMA SerialStep ==
  ASSUME ~Overlap
  PROVE  Inductive /\ SerialInductive /\ [Next]_vars => SerialInductive'
  BY SerialNewCall, SerialResume, SerialOther DEF Next

\* One handler or job at a time for each ride: every handler writes to what it
\* has read, and the two tables agree.
THEOREM SerialInvariant ==
  ASSUME ~Overlap
  PROVE  Spec => []SerialInductive
  BY SerialInit, SerialStep, InductiveInvariant, PTL DEF Spec

-----------------------------------------------------------------------------
(* The properties.                                                         *)

\* Once a ride is matched exactly the counterpart's request is accepted and no
\* other request is left unanswered.
THEOREM MatchesSettleRequests ==
  ASSUME ~Overlap
  PROVE  Spec => []MatchSettlesRequests
  <1>1. Inductive /\ SerialInductive => MatchSettlesRequests
    BY DEF SerialInductive, Settles, Inductive, RowOK, MatchSettlesRequests
  <1> QED
    BY <1>1, InductiveInvariant, SerialInvariant, PTL

\* When both sides have confirmed, the ride is completed.
THEOREM BothConfirmedIsCompleted ==
  ASSUME ~Overlap
  PROVE  Spec => []ConfirmedMeansCompleted
  <1>1. SerialInductive => ConfirmedMeansCompleted
    BY DEF SerialInductive, Settles, ConfirmedMeansCompleted
  <1> QED
    BY <1>1, SerialInvariant, PTL

\* Whoever is told REQUEST_ACCEPTED finds the ride among their own, on the side
\* asked for, and the creator on the other; nobody else does.
THEOREM MatchedUsersFindTheirRide ==
  ASSUME ~Overlap
  PROVE  Spec => []TheMatchedFindTheirRide
  <1>1. ASSUME Inductive, SerialInductive, NEW r \in Rides, NEW u \in Users,
               [to |-> u, note |-> "REQUEST_ACCEPTED", ride |-> r] \in sent
        PROVE  /\ r \in MyRides(u, {OpenSide(ride[r].type)}, RideStatus)
               /\ r \in MyRides(ride[r].creator, {CreatorSide(ride[r].type)}, RideStatus)
               /\ RideRequests(ride[r].creator, r) = {}
    <2> DEFINE n == [to |-> u, note |-> "REQUEST_ACCEPTED", ride |-> r]
    <2>1. request[r][u] = "ACCEPTED" /\ Exists(ride[r]) /\ Paired(ride[r])
      <3>1. n.note = "REQUEST_ACCEPTED" /\ n.ride = r /\ n.to = u
        OBVIOUS
      <3> QED
        BY <1>1, <3>1 DEF SerialInductive, Inductive, SentOK
    <2>2. Settles(ride[r], request[r]) /\ RowOK(ride[r]) /\ ride[r] \in Row
      BY <1>1 DEF SerialInductive, Inductive, TypeOK
    <2>3. ride[r].status \in RideStatus
      BY <2>1, <2>2 DEF Row, Exists
    <2>4. ride[r].on[OpenSide(ride[r].type)] = u
      BY <2>1, <2>2 DEF Settles
    <2>5. ride[r].on[CreatorSide(ride[r].type)] = ride[r].creator
      BY <2>1, <2>2 DEF RowOK
    <2>6. \A v \in Users : request[r][v] # "PENDING"
      BY <2>1, <2>2 DEF Settles
    <2> QED
      BY <2>3, <2>4, <2>5, <2>6 DEF MyRides, RideRequests
  <1>2. ASSUME Inductive, SerialInductive, NEW r \in Rides, NEW u \in Users,
               r \in MyRides(u, Side, RideStatus)
        PROVE  u = ride[r].creator \/ request[r][u] = "ACCEPTED"
    <2>1. /\ \E s \in Side : ride[r].on[s] = u
          /\ ride[r].status \in RideStatus
      BY <1>2 DEF MyRides
    <2>2. Settles(ride[r], request[r]) /\ RowOK(ride[r]) /\ Exists(ride[r])
      BY <1>2, <2>1 DEF SerialInductive, Inductive, RideStatus, Exists
    <2>3. Side = {OpenSide(ride[r].type), CreatorSide(ride[r].type)}
      BY DEF Side, OpenSide, CreatorSide
    <2> QED
      BY <2>1, <2>2, <2>3 DEF Settles, RowOK
  <1>3. Inductive /\ SerialInductive => TheMatchedFindTheirRide
    BY <1>1, <1>2 DEF TheMatchedFindTheirRide
  <1> QED
    BY <1>3, InductiveInvariant, SerialInvariant, PTL

\* No ride is stuck among the active ones: its creator can cancel it before it
\* starts, a matched one has a driver who can start it, and a running one a party
\* who has not confirmed and can.
THEOREM ActiveRidesEnd ==
  ASSUME ~Overlap
  PROVE  Spec => []ActiveRidesCanEnd
  <1> DEFINE Ends(r) == \E u \in Users : MayCancel(ride[r], u) \/ MayConfirm(ride[r], u)
             Active(r) == ride[r].status \in {"SEARCHING", "MATCHED", "IN_PROGRESS"}
  <1>1. ASSUME Inductive, SerialInductive, NEW r \in Rides
        PROVE  /\ Active(r) <=> ride[r].status # "EXPIRED" /\ Ends(r)
               /\ ride[r].status = "MATCHED" => \E u \in Users : MayStart(ride[r], u)
               /\ ride[r].status = "IN_PROGRESS" => \E u \in Users : MayConfirm(ride[r], u)
    <2>1. Settles(ride[r], request[r]) /\ RowOK(ride[r]) /\ ride[r] \in Row
      BY <1>1 DEF SerialInductive, Inductive, TypeOK
    <2>2. ride[r].status # "EXPIRED" /\ Ends(r) => Active(r)
      BY <2>1 DEF MayCancel, MayConfirm, Row, RideStatus
    <2>3. ASSUME ride[r].status \in {"MATCHED", "IN_PROGRESS"}
          PROVE  /\ \A s \in Side : ride[r].on[s] \in Users
                 /\ ride[r].on["rider"] # ride[r].on["passenger"]
      <3>1. /\ ride[r].creator \in Users
            /\ ride[r].on[CreatorSide(ride[r].type)] = ride[r].creator
            /\ MayClaim(ride[r], ride[r].on[OpenSide(ride[r].type)])
        BY <2>1, <2>3 DEF RowOK, Exists, Travelling
      <3>2. Side = {OpenSide(ride[r].type), CreatorSide(ride[r].type)}
        BY DEF Side, OpenSide, CreatorSide
      <3> QED
        BY <3>1, <3>2 DEF MayClaim, Side
    <2>4. ASSUME ride[r].status \in {"SEARCHING", "MATCHED"}
          PROVE  Ends(r)
      <3>1. ride[r].creator \in Users /\ MayCancel(ride[r], ride[r].creator)
        BY <2>1, <2>4 DEF RowOK, Exists, MayCancel
      <3> QED
        BY <3>1
    <2>5. ASSUME ride[r].status = "MATCHED"
          PROVE  \E u \in Users : MayStart(ride[r], u)
      BY <2>3, <2>5 DEF MayStart, Side
    <2>6. ASSUME ride[r].status = "IN_PROGRESS"
          PROVE  \E u \in Users : MayConfirm(ride[r], u)
      <3>1. ride[r].confirmed # Side /\ ride[r].confirmed \subseteq Side
        BY <2>1, <2>6 DEF Settles, Row
      <3>2. PICK s \in Side : s \notin ride[r].confirmed
        BY <3>1
      <3>3. SideOf(ride[r], ride[r].on[s]) = s
        BY <2>3, <2>6 DEF SideOf, Side
      <3>4. MayConfirm(ride[r], ride[r].on[s])
        BY <2>6, <3>2, <3>3 DEF MayConfirm
      <3> QED
        BY <2>3, <2>6, <3>4
    <2>7. ride[r].status = "IN_PROGRESS" => Ends(r)
      BY <2>6
    <2> QED
      BY <2>2, <2>4, <2>5, <2>6, <2>7
  <1>2. ASSUME Inductive, SerialInductive
        PROVE  ActiveRidesCanEnd
    <2>1. {r \in Rides : Active(r)} = {r \in Rides \ AllRides({"EXPIRED"}) : Ends(r)}
      <3> HIDE DEF Active, Ends
      <3>1. \A r \in Rides : r \in AllRides({"EXPIRED"}) <=> ride[r].status = "EXPIRED"
        BY DEF AllRides
      <3> QED
        BY <1>1, <1>2, <3>1
    <2>2. AllRides({"SEARCHING", "MATCHED", "IN_PROGRESS"}) = {r \in Rides : Active(r)}
      BY DEF AllRides
    <2>3. /\ \A r \in AllRides({"MATCHED"}) : \E u \in Users : MayStart(ride[r], u)
          /\ \A r \in AllRides({"IN_PROGRESS"}) : \E u \in Users : MayConfirm(ride[r], u)
      BY <1>1, <1>2 DEF AllRides
    <2> QED
      BY <2>1, <2>2, <2>3 DEF ActiveRidesCanEnd, ActiveRides
  <1> QED
    BY <1>2, InductiveInvariant, SerialInvariant, PTL

-----------------------------------------------------------------------------
(* The service implements the lifecycle of a ride.                         *)

StatusOf    == [r \in Rides |-> ride[r].status]
OnOf        == [r \in Rides |-> ride[r].on]
ScheduleOf  == [r \in Rides |-> ride[r].scheduledAt]
ConfirmedOf == [r \in Rides |-> ride[r].confirmed]

\* What an UPDATE of one row is to the four columns of the lifecycle.
LEMMA OneRow ==
  ASSUME ride \in [Rides -> Row], NEW r \in Rides, NEW new,
         ride' = [ride EXCEPT ![r] = new]
  PROVE  /\ StatusOf' = [StatusOf EXCEPT ![r] = new.status]
         /\ OnOf' = [OnOf EXCEPT ![r] = new.on]
         /\ ScheduleOf' = [ScheduleOf EXCEPT ![r] = new.scheduledAt]
         /\ ConfirmedOf' = [ConfirmedOf EXCEPT ![r] = new.confirmed]
         /\ new.status = ride[r].status => StatusOf' = StatusOf
         /\ new.on = ride[r].on => OnOf' = OnOf
         /\ new.scheduledAt = ride[r].scheduledAt => ScheduleOf' = ScheduleOf
         /\ new.confirmed = ride[r].confirmed => ConfirmedOf' = ConfirmedOf
  BY DEF StatusOf, OnOf, ScheduleOf, ConfirmedOf

LEMMA LifecycleInit ==
  Init => Lifecycle!Init
  BY DEF Init, NoRow, Side, Lifecycle!Init, Lifecycle!Sides

LEMMA LifecycleStep ==
  ASSUME ~Overlap, Inductive, SerialInductive, [Next]_vars
  PROVE  [Lifecycle!Next]_(Lifecycle!vars)
  <1> DEFINE Abstract == [Lifecycle!Next]_(Lifecycle!vars)
  <1>1. ASSUME ride' = ride
        PROVE  Abstract
    BY <1>1 DEF Lifecycle!vars
  <1>2. ride \in [Rides -> Row]
    BY DEF Inductive, TypeOK
  <1>3. Side = Lifecycle!Sides
    BY DEF Side, Lifecycle!Sides
  <1>4. ASSUME NEW c \in Calls, NEW r \in Rides, NEW u \in Users, NEW role \in Role,
               NEW type \in RideType, NEW at \in 1..MaxTime,
               CreateRide(c, r, u, role, type, at)
        PROVE  Abstract
    <2> DEFINE new == Posted(u, type, at)
    <2>1. ride' = [ride EXCEPT ![r] = new] /\ ride[r].status = "ABSENT"
      BY <1>4 DEF CreateRide
    <2>2. ride[r] = NoRow
      BY <2>1 DEF Inductive, RowOK, Exists
    <2>3. /\ new.status = "SEARCHING"
          /\ new.on = [ride[r].on EXCEPT ![CreatorSide(type)] = u]
          /\ new.scheduledAt = at
          /\ new.confirmed = ride[r].confirmed
      BY <2>2 DEF Posted, NoRow
    <2>4. CreatorSide(type) \in Side
      BY DEF CreatorSide, Side
    <2> HIDE DEF new
    <2>5. Lifecycle!Post(r, CreatorSide(type), u, at)
      BY <1>2, <2>1, <2>3, OneRow
         DEF Lifecycle!Post, Lifecycle!Become, StatusOf, OnOf, ScheduleOf, ConfirmedOf
    <2> QED
      BY <1>3, <2>4, <2>5 DEF Lifecycle!Next
  <1>5. ASSUME NEW c \in Calls, call[c].step # "idle"
        PROVE  /\ call[c].ride \in Rides
               /\ ride[call[c].ride] \in Row
               /\ RowOK(ride[call[c].ride])
               /\ Settles(ride[call[c].ride], request[call[c].ride])
               /\ CallOK(call[c])
               /\ Fresh(call[c])
               /\ call[c] \in Call
    BY <1>5, CallFacts DEF SerialInductive
  <1>6. ASSUME NEW c \in Calls, WriteUpdate(c)
        PROVE  Abstract
    <2>0. PICK r \in Rides, at \in 1..MaxTime : r = call[c].ride /\ at = call[c].at
      BY <1>5, <1>6 DEF WriteUpdate, At, Fresh
    <2> DEFINE new == Rescheduled(ride[r], at)
    <2>1. call[c].step = "writeUpdate" /\ ride' = [ride EXCEPT ![r] = new]
      BY <1>6, <2>0 DEF WriteUpdate, At
    <2>2. ride[r] \in Row /\ ride[r].status = "SEARCHING"
      BY <1>5, <2>0, <2>1 DEF Fresh
    <2>3. /\ new.status = ride[r].status /\ new.on = ride[r].on
          /\ new.confirmed = ride[r].confirmed /\ new.scheduledAt = at
      BY <2>2 DEF Rescheduled, Row
    <2> HIDE DEF new
    <2>4. Lifecycle!Edit(r, at)
      BY <1>2, <2>1, <2>2, <2>3, OneRow
         DEF Lifecycle!Edit, StatusOf, OnOf, ScheduleOf, ConfirmedOf
    <2> QED
      BY <2>4 DEF Lifecycle!Next
  <1>7. ASSUME NEW c \in Calls, WriteCancel(c)
        PROVE  Abstract
    <2>0. PICK r \in Rides : r = call[c].ride
      BY <1>5, <1>7 DEF WriteCancel, At
    <2> DEFINE new == Cancelled(ride[r])
    <2>1. call[c].step = "writeCancel" /\ ride' = [ride EXCEPT ![r] = new]
      BY <1>7, <2>0 DEF WriteCancel, At
    <2>2. ride[r] \in Row /\ ride[r].status \in {"SEARCHING", "MATCHED", "EXPIRED"}
      BY <1>5, <2>0, <2>1 DEF Fresh
    <2>3. /\ new.status = "CANCELLED" /\ new.on = ride[r].on
          /\ new.confirmed = ride[r].confirmed /\ new.scheduledAt = ride[r].scheduledAt
      BY <2>2 DEF Cancelled, Row
    <2> HIDE DEF new
    <2>4. Lifecycle!Cancel(r)
      BY <1>2, <2>1, <2>2, <2>3, OneRow
         DEF Lifecycle!Cancel, Lifecycle!Become, StatusOf, OnOf, ScheduleOf, ConfirmedOf
    <2> QED
      BY <2>4 DEF Lifecycle!Next
  <1>8. ASSUME NEW c \in Calls, AcceptTx(c)
        PROVE  Abstract
    <2>0. PICK r \in Rides, u \in Users, s \in Side :
            r = call[c].ride /\ u = call[c].who /\ s = OpenSide(ride[r].type)
      BY <1>5, <1>8 DEF AcceptTx, At, CallOK, OpenSide, Side
    <2> DEFINE new == Matched(ride[r], u)
    <2>1. call[c].step = "accept" /\ ride' = [ride EXCEPT ![r] = new]
      BY <1>8, <2>0 DEF AcceptTx, At
    <2>2. /\ ride[r] \in Row /\ RowOK(ride[r]) /\ ~Paired(ride[r])
          /\ ride[r].status = "SEARCHING" /\ request[r][u] # "NONE"
      BY <1>5, <2>0, <2>1 DEF Fresh, CallOK, Settles
    <2>3. /\ new.status = "MATCHED" /\ new.on = [ride[r].on EXCEPT ![s] = u]
          /\ new.confirmed = ride[r].confirmed /\ new.scheduledAt = ride[r].scheduledAt
      BY <2>0, <2>2 DEF Matched, Row
    <2>4. Side = {s, CreatorSide(ride[r].type)}
      BY <2>0 DEF Side, OpenSide, CreatorSide
    <2>5. u # ride[r].creator
      BY <2>2 DEF Inductive, RequestOK, MayClaim
    <2>6. ride[r].on[s] = NoUser /\ \A t \in Side : ride[r].on[t] # u
      BY <2>0, <2>2, <2>4, <2>5, NoUserAssumption DEF Paired, RowOK, Exists
    <2> HIDE DEF new
    <2>7. Lifecycle!Match(r, s, u)
      BY <1>2, <1>3, <2>1, <2>2, <2>3, <2>6, OneRow
         DEF Lifecycle!Match, Lifecycle!Become, StatusOf, OnOf, ScheduleOf, ConfirmedOf
    <2> QED
      BY <1>3, <2>7 DEF Lifecycle!Next
  <1>9. ASSUME NEW c \in Calls, WriteStart(c)
        PROVE  Abstract
    <2>0. PICK r \in Rides : r = call[c].ride
      BY <1>5, <1>9 DEF WriteStart, At
    <2> DEFINE new == Started(ride[r])
    <2>1. call[c].step = "writeStart" /\ ride' = [ride EXCEPT ![r] = new]
      BY <1>9, <2>0 DEF WriteStart, At
    <2>2. ride[r] \in Row /\ ride[r].status = "MATCHED"
      BY <1>5, <2>0, <2>1 DEF Fresh
    <2>3. /\ new.status = "IN_PROGRESS" /\ new.on = ride[r].on
          /\ new.confirmed = ride[r].confirmed /\ new.scheduledAt = ride[r].scheduledAt
      BY <2>2 DEF Started, Row
    <2> HIDE DEF new
    <2>4. Lifecycle!Start(r)
      BY <1>2, <2>1, <2>2, <2>3, OneRow
         DEF Lifecycle!Start, Lifecycle!Become, StatusOf, OnOf, ScheduleOf, ConfirmedOf
    <2> QED
      BY <2>4 DEF Lifecycle!Next
  <1>10. ASSUME NEW c \in Calls, WriteConfirm(c)
         PROVE  Abstract
    <2>0. PICK r \in Rides, s \in Side : r = call[c].ride /\ s = call[c].side
      BY <1>5, <1>10 DEF WriteConfirm, At, Call
    <2> DEFINE new == Confirmed(ride[r], s, call[c].completes)
    <2>1. call[c].step = "writeConfirm" /\ ride' = [ride EXCEPT ![r] = new]
      BY <1>10, <2>0 DEF WriteConfirm, At
    <2>2. /\ ride[r] \in Row
          /\ ride[r].status = "IN_PROGRESS" /\ s \notin ride[r].confirmed
          /\ call[c].completes <=> ride[r].confirmed \cup {s} = Side
      BY <1>5, <2>0, <2>1 DEF Fresh, Completes
    <2>3. /\ new.status = IF ride[r].confirmed \cup {s} = Side
                          THEN "COMPLETED" ELSE "IN_PROGRESS"
          /\ new.on = ride[r].on
          /\ new.confirmed = ride[r].confirmed \cup {s}
          /\ new.scheduledAt = ride[r].scheduledAt
      BY <2>2 DEF Confirmed, Row
    <2> HIDE DEF new
    <2>4. ConfirmedOf'[r] = ride[r].confirmed \cup {s}
      BY <1>2, <2>1, <2>2, <2>3 DEF ConfirmedOf
    <2>5. Lifecycle!Confirm(r, s)
      BY <1>2, <1>3, <2>1, <2>2, <2>3, <2>4, OneRow
         DEF Lifecycle!Confirm, Lifecycle!Become, StatusOf, OnOf, ScheduleOf, ConfirmedOf
    <2> QED
      BY <1>3, <2>5 DEF Lifecycle!Next
  <1>11. ASSUME NEW r \in Rides, WriteExpiry(r)
         PROVE  Abstract
    <2> DEFINE new == Expired(ride[r])
    <2>1. ride' = [ride EXCEPT ![r] = new] /\ expiryJob[r].state = "active"
      BY <1>11 DEF WriteExpiry
    <2>2. ride[r] \in Row /\ ride[r].status = "SEARCHING"
      BY <1>2, <2>1 DEF SerialInductive
    <2>3. /\ new.status = "EXPIRED" /\ new.on = ride[r].on
          /\ new.confirmed = ride[r].confirmed /\ new.scheduledAt = ride[r].scheduledAt
      BY <2>2 DEF Expired, Row
    <2> HIDE DEF new
    <2>4. Lifecycle!Expire(r)
      BY <1>2, <2>1, <2>2, <2>3, OneRow
         DEF Lifecycle!Expire, Lifecycle!Become, StatusOf, OnOf, ScheduleOf, ConfirmedOf
    <2> QED
      BY <2>4 DEF Lifecycle!Next
  <1>12. ASSUME NEW c \in Calls, NEW r \in Rides, NEW u \in Users, NewCall(c, r, u)
         PROVE  Abstract
    <2>1. \/ ride' = ride
          \/ \E role \in Role, type \in RideType, at \in 1..MaxTime :
               CreateRide(c, r, u, role, type, at)
      BY <1>12 DEF NewCall, UpdateRide, CancelRide, RequestRide, RespondToRequest,
                   StartRide, ConfirmRide, Read
    <2> QED
      BY <1>1, <1>4, <2>1
  <1>13. ASSUME NEW c \in Calls, Resume(c)
         PROVE  Abstract
    <2>1. \/ ride' = ride
          \/ WriteUpdate(c) \/ WriteCancel(c) \/ AcceptTx(c)
          \/ WriteStart(c) \/ WriteConfirm(c)
      BY <1>13 DEF Resume, EnqueueExpiry, CreateRequest, ReadRequest, WriteDecline,
                   EnqueueCompletion, Notify
    <2> QED
      BY <1>1, <1>6, <1>7, <1>8, <1>9, <1>10, <2>1
  <1>14. ASSUME NEW r \in Rides, Worker(r)
         PROVE  Abstract
    BY <1>1, <1>11, <1>14 DEF Worker, TakeExpiryJob
  <1>15. ASSUME \/ \E c \in Calls : Abort(c)
                \/ \E r \in Rides : JobFails(r)
                \/ Crash \/ Tick \/ UNCHANGED vars
         PROVE  Abstract
    BY <1>1, <1>15 DEF Abort, JobFails, Crash, Tick, vars
  <1> QED
    BY <1>12, <1>13, <1>14, <1>15 DEF Next

\* One at a time, the handlers and jobs implement the lifecycle: every write is
\* one of its steps, guarded by the ride as it is at that moment.
THEOREM ServiceImplementsLifecycle ==
  ASSUME ~Overlap
  PROVE  Spec => ImplementsLifecycle
  BY LifecycleInit, LifecycleStep, InductiveInvariant, SerialInvariant, PTL
     DEF Spec, ImplementsLifecycle, Lifecycle!Spec

-----------------------------------------------------------------------------
(* The search, however the handlers overlap.                               *)

\* A ride that says SEARCHING has said so since it was posted.
OpenOK(row, requests) ==
  row.status = "SEARCHING" =>
    /\ ~Paired(row) /\ row.stamps = {}
    /\ \A v \in Users : requests[v] # "ACCEPTED"

\* No update puts SEARCHING back, or leaves it when a request is accepted.
LEMMA UpdatesKeepOpen ==
  ASSUME NEW row \in Row, NEW requests, OpenOK(row, requests)
  PROVE  /\ \A at : OpenOK(Rescheduled(row, at), requests)
         /\ OpenOK(Cancelled(row), requests)
         /\ \A u, other : OpenOK(Matched(row, u), other)
         /\ OpenOK(Started(row), requests)
         /\ \A s, b : "startedAt" \in row.stamps => OpenOK(Confirmed(row, s, b), requests)
         /\ OpenOK(Expired(row), requests)
  <1> USE DEF OpenOK, Row
  <1>1. ASSUME NEW at PROVE OpenOK(Rescheduled(row, at), requests)
    BY DEF Rescheduled, Paired
  <1>2. OpenOK(Cancelled(row), requests) /\ OpenOK(Started(row), requests)
          /\ OpenOK(Expired(row), requests)
    BY DEF Cancelled, Started, Expired
  <1>3. ASSUME NEW u, NEW other PROVE OpenOK(Matched(row, u), other)
    BY DEF Matched
  <1>4. ASSUME NEW s, NEW b, "startedAt" \in row.stamps
        PROVE  OpenOK(Confirmed(row, s, b), requests)
    <2>1. row.status # "SEARCHING"
      BY <1>4
    <2>2. Confirmed(row, s, b).status \in {"COMPLETED", row.status}
      BY DEF Confirmed
    <2> QED
      BY <2>1, <2>2
  <1> QED
    BY <1>1, <1>2, <1>3, <1>4

LEMMA OpenStep ==
  ASSUME Inductive, [Next]_vars, NEW q \in Rides, OpenOK(ride[q], request[q])
  PROVE  OpenOK(ride'[q], request'[q])
  <1>1. /\ ride \in [Rides -> Row] /\ ride[q] \in Row
        /\ request \in [Rides -> [Users -> RequestStatus \cup {"NONE"}]]
    BY DEF Inductive, TypeOK
  <1>2. ASSUME NEW r \in Rides, NEW new, ride' = [ride EXCEPT ![r] = new],
               q = r => OpenOK(new, request'[q]),
               q # r => request'[q] = request[q]
        PROVE  OpenOK(ride'[q], request'[q])
    BY <1>1, <1>2
  <1>3. ASSUME UNCHANGED <<ride, request>>
        PROVE  OpenOK(ride'[q], request'[q])
    BY <1>3
  <1>4. ASSUME NEW c \in Calls, NEW r \in Rides, NEW u \in Users, NewCall(c, r, u)
        PROVE  OpenOK(ride'[q], request'[q])
    <2>1. ASSUME NEW role \in Role, NEW type \in RideType, NEW at \in 1..MaxTime,
                 CreateRide(c, r, u, role, type, at)
          PROVE  OpenOK(ride'[q], request'[q])
      <3>1. /\ ride' = [ride EXCEPT ![r] = Posted(u, type, at)] /\ request' = request
            /\ ~Exists(ride[r])
        BY <2>1 DEF CreateRide, Exists
      <3>2. \A v \in Users : request[r][v] = "NONE"
        BY <3>1 DEF Inductive, RequestOK
      <3>3. ~Paired(Posted(u, type, at)) /\ Posted(u, type, at).stamps = {}
        BY SidesDiffer, NoUserAssumption
           DEF Posted, NoRow, Paired, OpenSide, CreatorSide, Side, RideType
      <3>4. OpenOK(Posted(u, type, at), request[r])
        BY <3>2, <3>3 DEF OpenOK
      <3> QED
        BY <1>2, <3>1, <3>4
    <2>2. CASE UNCHANGED <<ride, request>>
      BY <1>3, <2>2
    <2> QED
      BY <1>4, <2>1, <2>2 DEF NewCall, UpdateRide, CancelRide, RequestRide,
         RespondToRequest, StartRide, ConfirmRide, Read
  <1>5. ASSUME NEW c \in Calls, Resume(c)
        PROVE  OpenOK(ride'[q], request'[q])
    <2> DEFINE r == call[c].ride
    <2>1. call[c].step # "idle"
      BY <1>5 DEF Resume, At, EnqueueExpiry, WriteUpdate, WriteCancel, CreateRequest,
             ReadRequest, AcceptTx, WriteDecline, WriteStart, WriteConfirm,
             EnqueueCompletion, Notify
    <2>2. r \in Rides /\ CallOK(call[c])
      BY <2>1, CallFacts DEF Inductive
    <2>3. CASE UNCHANGED <<ride, request>>
      BY <1>3, <2>3
    <2>4. CASE WriteUpdate(c) \/ WriteCancel(c) \/ WriteStart(c)
      <3>1. /\ request' = request
            /\ \E new \in {Rescheduled(ride[r], call[c].at), Cancelled(ride[r]),
                           Started(ride[r])} : ride' = [ride EXCEPT ![r] = new]
        BY <2>4 DEF WriteUpdate, WriteCancel, WriteStart
      <3> HIDE DEF r
      <3>2. q = r => \A new \in {Rescheduled(ride[r], call[c].at), Cancelled(ride[r]),
                                 Started(ride[r])} : OpenOK(new, request'[q])
        BY <1>1, <3>1, UpdatesKeepOpen
      <3> QED
        BY <1>2, <2>2, <3>1, <3>2
    <2>5. CASE WriteConfirm(c)
      <3>1. /\ request' = request
            /\ ride' = [ride EXCEPT ![r] =
                          Confirmed(ride[r], call[c].side, call[c].completes)]
            /\ "startedAt" \in ride[r].stamps
        BY <2>2, <2>5 DEF WriteConfirm, CallOK, At
      <3> HIDE DEF r
      <3>2. q = r => OpenOK(Confirmed(ride[r], call[c].side, call[c].completes), request'[q])
        BY <1>1, <3>1, UpdatesKeepOpen
      <3> QED
        BY <1>2, <2>2, <3>1, <3>2
    <2>6. CASE AcceptTx(c)
      <3>1. /\ ride' = [ride EXCEPT ![r] = Matched(ride[r], call[c].who)]
            /\ q # r => request'[q] = request[q]
        BY <1>1, <2>6 DEF AcceptTx
      <3> HIDE DEF r
      <3>2. q = r => OpenOK(Matched(ride[r], call[c].who), request'[q])
        BY <1>1, UpdatesKeepOpen
      <3> QED
        BY <1>2, <2>2, <3>1, <3>2
    <2>7. CASE (CreateRequest(c) \/ WriteDecline(c)) /\ ride' = ride
      <3>1. \/ request' = request
            \/ \E answer \in {"PENDING", "DECLINED"} :
                 request' = [request EXCEPT ![r] = [@ EXCEPT ![call[c].who] = answer]]
        BY <2>7 DEF CreateRequest, WriteDecline
      <3>2. \A v \in Users : request'[q][v] \in {request[q][v], "PENDING", "DECLINED"}
        BY <1>1, <2>2, <3>1
      <3> QED
        BY <2>7, <3>2 DEF OpenOK
    <2> QED
      BY <1>5, <2>3, <2>4, <2>5, <2>6, <2>7 DEF Resume, EnqueueExpiry, CreateRequest,
         ReadRequest, WriteDecline, EnqueueCompletion, Notify
  <1>6. ASSUME NEW r \in Rides, Worker(r)
        PROVE  OpenOK(ride'[q], request'[q])
    <2>1. /\ request' = request
          /\ ride' = ride \/ ride' = [ride EXCEPT ![r] = Expired(ride[r])]
      BY <1>6 DEF Worker, TakeExpiryJob, WriteExpiry
    <2>2. q = r => OpenOK(Expired(ride[r]), request'[q])
      BY <1>1, <2>1, UpdatesKeepOpen
    <2> QED
      BY <1>2, <1>3, <2>1, <2>2
  <1>7. (\/ \E c \in Calls : Abort(c)
         \/ \E r \in Rides : JobFails(r)
         \/ Crash \/ Tick \/ UNCHANGED vars) => UNCHANGED <<ride, request>>
    BY DEF Abort, JobFails, Crash, Tick, vars
  <1> QED
    BY <1>3, <1>4, <1>5, <1>6, <1>7 DEF Next

\* A ride that was ever taken, started, confirmed or cancelled is not listed again,
\* and nobody was told of an acceptance for a ride that is listed.
THEOREM SearchesShowOpenRides == Spec => []SearchShowsOpenRides
  <1> DEFINE Open == \A r \in Rides : OpenOK(ride[r], request[r])
  <1>1. Init => Open
    BY DEF Init, OpenOK, NoRow
  <1>2. Inductive /\ Open /\ [Next]_vars => Open'
    BY OpenStep
  <1>3. ASSUME Inductive, Open, NEW r \in Rides, ride[r].status = "SEARCHING"
        PROVE  /\ ~Paired(ride[r]) /\ ride[r].stamps = {}
               /\ ride[r].confirmed = {} /\ completionJobs[r] = 0
               /\ \A v \in Users : request[r][v] # "ACCEPTED"
               /\ ~ \E n \in sent : n.ride = r /\ n.note \in {"REQUEST_ACCEPTED", "RIDE_COMPLETED"}
    <2>1. /\ ~Paired(ride[r]) /\ ride[r].stamps = {}
          /\ \A v \in Users : request[r][v] # "ACCEPTED"
      BY <1>3 DEF OpenOK
    <2>2. ride[r].confirmed = {} /\ ride[r].confirmed # Side
      BY <1>3, <2>1 DEF Inductive, RowOK, Side
    <2>3. completionJobs[r] = 0
      BY <1>3, <2>2 DEF Inductive, TypeOK
    <2>4. ~ \E n \in sent : n.ride = r /\ n.note \in {"REQUEST_ACCEPTED", "RIDE_COMPLETED"}
      BY <1>3, <2>1, <2>2 DEF Inductive, SentOK
    <2> QED
      BY <2>1, <2>2, <2>3, <2>4
  <1>4. Inductive /\ Open => SearchShowsOpenRides
    BY <1>3 DEF SearchShowsOpenRides, SearchRides, Paired
  <1> QED
    BY <1>1, <1>2, <1>4, InductiveInvariant, PTL DEF Spec

-----------------------------------------------------------------------------
(* What settlement sees.                                                   *)

\* What an update of a row may do to the status that settlement sees.
Turns(old, new) ==
  \/ CompletionStatus(new) = CompletionStatus(old)
  \/ /\ CompletionStatus(old) = "IN_PROGRESS" \/ Overlap
     /\ CompletionStatus(new) = "COMPLETED"
  \/ /\ Overlap
     /\ CompletionStatus(old) = "COMPLETED" /\ CompletionStatus(new) = "OVERWRITTEN"

\* A row that is completed says when.
Timed(row) == row.status = "COMPLETED" => "completedAt" \in row.stamps

\* A write of another status.
LEMMA OtherStatusTurns ==
  ASSUME NEW old, NEW new, Timed(old), new.status # "COMPLETED",
         "completedAt" \in new.stamps <=> "completedAt" \in old.stamps,
         Overlap \/ old.status # "COMPLETED"
  PROVE  Turns(old, new) /\ Timed(new)
  BY DEF Turns, Timed, CompletionStatus

\* A confirmation completes the ride or leaves its status alone.
LEMMA ConfirmedTurns ==
  ASSUME NEW row \in Row, NEW side \in Side, NEW completes \in BOOLEAN, Timed(row),
         completes => Overlap \/ CompletionStatus(row) = "IN_PROGRESS",
         NEW new, new = Confirmed(row, side, completes)
  PROVE  /\ Turns(row, new) /\ Timed(new)
         /\ completes => "completedAt" \in new.stamps
  <1>1. CASE completes
    <2>1. new.status = "COMPLETED" /\ "completedAt" \in new.stamps
      BY <1>1 DEF Row, Confirmed
    <2>2. CompletionStatus(new) = "COMPLETED"
      BY <2>1 DEF CompletionStatus
    <2> QED
      BY <1>1, <2>1, <2>2 DEF Turns, Timed
  <1>2. CASE ~completes
    <2>1. new.status = row.status /\ new.stamps = row.stamps
      BY <1>2 DEF Row, Confirmed
    <2>2. CompletionStatus(new) = CompletionStatus(row)
      BY <2>1 DEF CompletionStatus
    <2> QED
      BY <1>2, <2>1, <2>2 DEF Turns, Timed
  <1> QED
    BY <1>1, <1>2

\* A step writes one row at most, and what settlement sees of it changes in
\* one of the ways it counts on.
LEMMA RowTurns ==
  ASSUME CompletionInductive, Overlap \/ SerialInductive, [Next]_vars, ride' # ride
  PROVE  /\ UNCHANGED completionJobs
         /\ \E r \in Rides : /\ ride' = [ride EXCEPT ![r] = ride'[r]]
                             /\ Turns(ride[r], ride'[r]) /\ Timed(ride'[r])
  <1> DEFINE Effect ==
               /\ UNCHANGED completionJobs
               /\ \E r \in Rides : /\ ride' = [ride EXCEPT ![r] = ride'[r]]
                                   /\ Turns(ride[r], ride'[r]) /\ Timed(ride'[r])
  <1>1. Inductive /\ ride \in [Rides -> Row]
    BY DEF CompletionInductive, Inductive, TypeOK
  <1>2. ASSUME NEW r \in Rides, NEW new, ride' = [ride EXCEPT ![r] = new],
               Turns(ride[r], new), Timed(new), UNCHANGED completionJobs
        PROVE  Effect
    <2>1. ride'[r] = new
      BY <1>1, <1>2
    <2> QED
      BY <1>2, <2>1
  <1> HIDE DEF Effect
  <1>3. \A r \in Rides : Timed(ride[r]) /\ ride[r] \in Row
    BY <1>1 DEF CompletionInductive, Timed
  <1>4. ASSUME NEW c \in Calls, call[c].step # "idle"
        PROVE  /\ call[c].ride \in Rides
               /\ call[c] \in Call
               /\ CallOK(call[c])
               /\ Overlap \/ Fresh(call[c])
    BY <1>1, <1>4, CallFacts DEF SerialInductive
  <1>5. ASSUME NEW c \in Calls, NEW r \in Rides, NEW u \in Users, NEW role \in Role,
               NEW type \in RideType, NEW at \in 1..MaxTime,
               CreateRide(c, r, u, role, type, at)
        PROVE  Effect
    <2> DEFINE new == Posted(u, type, at)
    <2>1. ride' = [ride EXCEPT ![r] = new] /\ ride[r].status = "ABSENT"
          /\ UNCHANGED completionJobs
      BY <1>5 DEF CreateRide
    <2>2. ride[r] = NoRow
      BY <1>1, <2>1 DEF Inductive, RowOK, Exists
    <2>3. new.status = "SEARCHING" /\ new.stamps = {}
      BY DEF Posted, NoRow
    <2>4. ride[r].stamps = {}
      BY <2>2 DEF NoRow
    <2> HIDE DEF new
    <2>5. Turns(ride[r], new) /\ Timed(new)
      BY <2>1, <2>3, <2>4 DEF Turns, Timed, CompletionStatus
    <2> QED
      BY <1>2, <2>1, <2>5
  <1>6. ASSUME NEW c \in Calls, WriteUpdate(c)
        PROVE  Effect
    <2>0. PICK r \in Rides, at \in Nat : r = call[c].ride /\ at = call[c].at
      BY <1>4, <1>6 DEF WriteUpdate, At, Call
    <2> DEFINE new == Rescheduled(ride[r], at)
    <2>1. ride' = [ride EXCEPT ![r] = new] /\ UNCHANGED completionJobs
      BY <1>6, <2>0 DEF WriteUpdate
    <2>2. new.status = ride[r].status /\ new.stamps = ride[r].stamps
      BY <1>3 DEF Rescheduled, Row
    <2> HIDE DEF new
    <2>3. Turns(ride[r], new) /\ Timed(new)
      BY <1>3, <2>2 DEF Turns, Timed, CompletionStatus
    <2> QED
      BY <1>2, <2>1, <2>3
  <1>7. ASSUME NEW c \in Calls, WriteCancel(c)
        PROVE  Effect
    <2>0. PICK r \in Rides : r = call[c].ride
      BY <1>4, <1>7 DEF WriteCancel, At
    <2>u. PICK new : new = Cancelled(ride[r])
      OBVIOUS
    <2>1. ride' = [ride EXCEPT ![r] = new] /\ UNCHANGED completionJobs
      BY <1>7, <2>0, <2>u DEF WriteCancel
    <2>2. Overlap \/ ride[r].status # "COMPLETED"
      BY <1>4, <1>7, <2>0 DEF WriteCancel, At, Fresh
    <2>3. /\ new.status # "COMPLETED"
          /\ "completedAt" \in new.stamps <=> "completedAt" \in ride[r].stamps
      BY <1>3, <2>u DEF Cancelled, Row
    <2>4. Turns(ride[r], new) /\ Timed(new)
      BY <1>3, <2>2, <2>3, OtherStatusTurns
    <2> QED
      BY <1>2, <2>1, <2>4
  <1>8. ASSUME NEW c \in Calls, AcceptTx(c)
        PROVE  Effect
    <2>0. PICK r \in Rides, u \in Users : r = call[c].ride /\ u = call[c].who
      BY <1>4, <1>8 DEF AcceptTx, At, CallOK
    <2>u. PICK new : new = Matched(ride[r], u)
      OBVIOUS
    <2>1. ride' = [ride EXCEPT ![r] = new] /\ UNCHANGED completionJobs
      BY <1>8, <2>0, <2>u DEF AcceptTx
    <2>2. Overlap \/ ride[r].status # "COMPLETED"
      BY <1>4, <1>8, <2>0 DEF AcceptTx, At, Fresh
    <2>3. /\ new.status # "COMPLETED"
          /\ "completedAt" \in new.stamps <=> "completedAt" \in ride[r].stamps
      BY <1>3, <2>u DEF Matched, Row
    <2>4. Turns(ride[r], new) /\ Timed(new)
      BY <1>3, <2>2, <2>3, OtherStatusTurns
    <2> QED
      BY <1>2, <2>1, <2>4
  <1>9. ASSUME NEW c \in Calls, WriteStart(c)
        PROVE  Effect
    <2>0. PICK r \in Rides : r = call[c].ride
      BY <1>4, <1>9 DEF WriteStart, At
    <2>u. PICK new : new = Started(ride[r])
      OBVIOUS
    <2>1. ride' = [ride EXCEPT ![r] = new] /\ UNCHANGED completionJobs
      BY <1>9, <2>0, <2>u DEF WriteStart
    <2>2. Overlap \/ ride[r].status # "COMPLETED"
      BY <1>4, <1>9, <2>0 DEF WriteStart, At, Fresh
    <2>3. /\ new.status # "COMPLETED"
          /\ "completedAt" \in new.stamps <=> "completedAt" \in ride[r].stamps
      BY <1>3, <2>u DEF Started, Row
    <2>4. Turns(ride[r], new) /\ Timed(new)
      BY <1>3, <2>2, <2>3, OtherStatusTurns
    <2> QED
      BY <1>2, <2>1, <2>4
  <1>10. ASSUME NEW c \in Calls, WriteConfirm(c)
         PROVE  Effect
    <2>0. PICK r \in Rides, side \in Side, completes \in BOOLEAN :
            r = call[c].ride /\ side = call[c].side /\ completes = call[c].completes
      BY <1>4, <1>10 DEF WriteConfirm, At, Call
    <2>1. /\ ride' = [ride EXCEPT ![r] = Confirmed(ride[r], side, completes)]
          /\ UNCHANGED completionJobs
      BY <1>10, <2>0 DEF WriteConfirm
    <2>2. Overlap \/ CompletionStatus(ride[r]) = "IN_PROGRESS"
      <3> SUFFICES ASSUME ~Overlap
                   PROVE  CompletionStatus(ride[r]) = "IN_PROGRESS"
        OBVIOUS
      <3>1. ride[r].status = "IN_PROGRESS"
        BY <1>4, <1>10, <2>0 DEF WriteConfirm, At, Fresh
      <3>2. RowOK(ride[r]) /\ Settles(ride[r], request[r])
        BY <1>1 DEF Inductive, SerialInductive
      <3>3. "completedAt" \notin ride[r].stamps
        BY <3>1, <3>2 DEF RowOK, Settles
      <3> QED
        BY <3>1, <3>3 DEF CompletionStatus
    <2>3. PICK new : new = Confirmed(ride[r], side, completes)
      OBVIOUS
    <2>4. Turns(ride[r], new) /\ Timed(new)
      BY <1>3, <2>2, <2>3, ConfirmedTurns
    <2> QED
      BY <1>2, <2>1, <2>3, <2>4
  <1>11. ASSUME NEW r \in Rides, WriteExpiry(r)
         PROVE  Effect
    <2>u. PICK new : new = Expired(ride[r])
      OBVIOUS
    <2>1. ride' = [ride EXCEPT ![r] = new] /\ UNCHANGED completionJobs
      BY <1>11, <2>u DEF WriteExpiry
    <2>2. Overlap \/ ride[r].status # "COMPLETED"
      BY <1>11 DEF WriteExpiry, SerialInductive
    <2>3. /\ new.status # "COMPLETED"
          /\ "completedAt" \in new.stamps <=> "completedAt" \in ride[r].stamps
      BY <1>3, <2>u DEF Expired, Row
    <2>4. Turns(ride[r], new) /\ Timed(new)
      BY <1>3, <2>2, <2>3, OtherStatusTurns
    <2> QED
      BY <1>2, <2>1, <2>4
  <1>12. ASSUME NEW c \in Calls, NEW r \in Rides, NEW u \in Users, NewCall(c, r, u)
         PROVE  Effect
    <2>1. ASSUME \A role \in Role, type \in RideType, at \in 1..MaxTime :
                   ~CreateRide(c, r, u, role, type, at)
          PROVE  UNCHANGED ride
      BY <1>12, <2>1 DEF NewCall, UpdateRide, CancelRide, RequestRide, RespondToRequest,
                         StartRide, ConfirmRide, Read
    <2> QED
      BY <1>5, <2>1
  <1>13. ASSUME NEW c \in Calls, Resume(c)
         PROVE  Effect
    BY <1>6, <1>7, <1>8, <1>9, <1>10, <1>13
       DEF Resume, EnqueueExpiry, CreateRequest, ReadRequest, WriteDecline,
           EnqueueCompletion, Notify
  <1>14. ASSUME NEW r \in Rides, Worker(r)
         PROVE  Effect
    BY <1>11, <1>14 DEF Worker, TakeExpiryJob
  <1>15. (\/ \E c \in Calls : Abort(c)
          \/ \E r \in Rides : JobFails(r)
          \/ Crash \/ Tick \/ UNCHANGED vars) => UNCHANGED ride
    BY DEF Abort, JobFails, Crash, Tick, vars
  <1> QED
    BY <1>12, <1>13, <1>14, <1>15 DEF Next, Effect

\* How a handler begins ...
LEMMA NewCallBegins ==
  ASSUME NEW c \in Calls, NEW r \in Rides, NEW u \in Users, NewCall(c, r, u)
  PROVE  /\ UNCHANGED completionJobs
         /\ \E x : /\ Begin(c, r, x) /\ x.ride = r
                   /\ x.step # "enqueueCompletion"
                   /\ x.step = "writeConfirm" => ride[r].confirmed # Side
  <1> DEFINE Began == /\ UNCHANGED completionJobs
                      /\ \E x : /\ Begin(c, r, x) /\ x.ride = r
                                /\ x.step # "enqueueCompletion"
                                /\ x.step = "writeConfirm" => ride[r].confirmed # Side
  <1>1. ASSUME NEW x, Begin(c, r, x), x.ride = r, UNCHANGED completionJobs,
               x.step # "enqueueCompletion",
               x.step = "writeConfirm" => ride[r].confirmed # Side
        PROVE  Began
    BY <1>1
  <1>2. ASSUME NEW role, NEW type, NEW at, CreateRide(c, r, u, role, type, at)
        PROVE  Began
    <2> DEFINE x == [Idle EXCEPT !.step = "enqueueExpiry", !.ride = r, !.at = at]
    <2>1. x.step = "enqueueExpiry" /\ x.ride = r
      BY DEF Idle
    <2>2. Begin(c, r, x) /\ UNCHANGED completionJobs
      BY <1>2 DEF CreateRide
    <2> HIDE DEF x, Began
    <2> QED
      BY <1>1, <2>1, <2>2
  <1>3. ASSUME NEW at, UpdateRide(c, r, u, at)
        PROVE  Began
    <2> DEFINE x == [Idle EXCEPT !.step = "writeUpdate", !.ride = r, !.at = at]
    <2>1. x.step = "writeUpdate" /\ x.ride = r
      BY DEF Idle
    <2>2. Begin(c, r, x) /\ UNCHANGED completionJobs
      BY <1>3 DEF UpdateRide, Read
    <2> HIDE DEF x, Began
    <2> QED
      BY <1>1, <2>1, <2>2
  <1>4. ASSUME CancelRide(c, r, u)
        PROVE  Began
    <2> DEFINE x == [Idle EXCEPT !.step = "writeCancel", !.ride = r]
    <2>1. x.step = "writeCancel" /\ x.ride = r
      BY DEF Idle
    <2>2. Begin(c, r, x) /\ UNCHANGED completionJobs
      BY <1>4 DEF CancelRide, Read
    <2> HIDE DEF x, Began
    <2> QED
      BY <1>1, <2>1, <2>2
  <1>5. ASSUME NEW role, RequestRide(c, r, u, role)
        PROVE  Began
    <2> DEFINE x == [Idle EXCEPT !.step = "createRequest", !.ride = r,
                                 !.who = u, !.to = {Poster(ride[r])}]
    <2>1. x.step = "createRequest" /\ x.ride = r
      BY DEF Idle
    <2>2. Begin(c, r, x) /\ UNCHANGED completionJobs
      BY <1>5 DEF RequestRide, Read
    <2> HIDE DEF x, Began
    <2> QED
      BY <1>1, <2>1, <2>2
  <1>6. ASSUME NEW v, RespondToRequest(c, r, u, v)
        PROVE  Began
    <2> DEFINE x == [Idle EXCEPT !.step = "readRequest", !.ride = r, !.who = v]
    <2>1. x.step = "readRequest" /\ x.ride = r
      BY DEF Idle
    <2>2. Begin(c, r, x) /\ UNCHANGED completionJobs
      BY <1>6 DEF RespondToRequest, Read
    <2> HIDE DEF x, Began
    <2> QED
      BY <1>1, <2>1, <2>2
  <1>7. ASSUME StartRide(c, r, u)
        PROVE  Began
    <2> DEFINE x == [Idle EXCEPT !.step = "writeStart", !.ride = r, !.who = u,
                                 !.to = {ride[r].on["passenger"]} \ {NoUser}]
    <2>1. x.step = "writeStart" /\ x.ride = r
      BY DEF Idle
    <2>2. Begin(c, r, x) /\ UNCHANGED completionJobs
      BY <1>7 DEF StartRide, Read
    <2> HIDE DEF x, Began
    <2> QED
      BY <1>1, <2>1, <2>2
  <1>8. ASSUME ConfirmRide(c, r, u)
        PROVE  Began
    <2> DEFINE x == [Idle EXCEPT
           !.step = "writeConfirm", !.ride = r, !.side = SideOf(ride[r], u),
           !.completes = Completes(ride[r], SideOf(ride[r], u)),
           !.to = {ride[r].on[s] : s \in Side} \ {NoUser}]
    <2>1. x.step = "writeConfirm" /\ x.ride = r
      BY DEF Idle
    <2>2. Begin(c, r, x) /\ UNCHANGED completionJobs
      BY <1>8 DEF ConfirmRide, Read
    <2>3. ride[r].confirmed # Side
      BY <1>8 DEF ConfirmRide, MayConfirm, SideOf, Side
    <2> HIDE DEF x, Began
    <2> QED
      BY <1>1, <2>1, <2>2, <2>3
  <1> HIDE DEF Began
  <1>9. Began
    BY <1>2, <1>3, <1>4, <1>5, <1>6, <1>7, <1>8 DEF NewCall
  <1> QED
    BY <1>9 DEF Began

\* ... and goes on.
LEMMA ResumeGoesOn ==
  ASSUME TypeOK, NEW c \in Calls, Resume(c)
  PROVE  \/ WriteConfirm(c) /\ call[c].completes
         \/ \E x : /\ call' = [call EXCEPT ![c] = x]
                   /\ x.step \notin {"writeConfirm", "enqueueCompletion"}
  <1> DEFINE GoesOn == \E x : /\ call' = [call EXCEPT ![c] = x]
                              /\ x.step \notin {"writeConfirm", "enqueueCompletion"}
  <1>1. call[c] \in Call
    BY DEF TypeOK
  <1>2. ASSUME NEW x, Continue(c, x), x.step \notin {"writeConfirm", "enqueueCompletion"}
        PROVE  GoesOn
    BY <1>2 DEF Continue
  <1> HIDE DEF GoesOn
  <1>3. Return(c) => GoesOn
    <2>1. Idle.step = "idle"
      BY DEF Idle
    <2> QED
      BY <1>2, <2>1 DEF Return
  <1>4. ASSUME NEW users, NEW note, ThenNotify(c, users, note)
        PROVE  GoesOn
    <2> DEFINE x == [Idle EXCEPT !.step = "notify", !.ride = call[c].ride,
                                 !.to = users, !.note = note]
    <2>1. x.step = "notify"
      BY DEF Idle
    <2>2. Continue(c, x)
      BY <1>4 DEF ThenNotify
    <2> HIDE DEF x
    <2> QED
      BY <1>2, <2>1, <2>2
  <1>5. ASSUME Notify(c), ~Return(c)
        PROVE  GoesOn
    <2>1. PICK u : Continue(c, [call[c] EXCEPT !.to = @ \ {u}])
      BY <1>5 DEF Notify
    <2>2. PICK x : x = [call[c] EXCEPT !.to = @ \ {u}]
      OBVIOUS
    <2>3. x.step = "notify"
      BY <1>1, <1>5, <2>2 DEF Notify, At, Call
    <2> QED
      BY <1>2, <2>1, <2>2, <2>3
  <1>6. ASSUME ReadRequest(c), ~Return(c)
        PROVE  GoesOn
    <2>1. PICK answer \in {"accept", "decline"} :
            Continue(c, [call[c] EXCEPT !.step = answer])
      BY <1>6 DEF ReadRequest
    <2>2. PICK x : x = [call[c] EXCEPT !.step = answer]
      OBVIOUS
    <2>3. x.step \in {"accept", "decline"}
      BY <1>1, <2>2 DEF Call
    <2> QED
      BY <1>2, <2>1, <2>2, <2>3
  <1>7. \/ WriteConfirm(c) /\ call[c].completes
        \/ Notify(c) \/ ReadRequest(c) \/ Return(c)
        \/ \E users, note : ThenNotify(c, users, note)
    BY DEF Resume, EnqueueExpiry, WriteUpdate, WriteCancel, CreateRequest, AcceptTx,
           WriteDecline, WriteStart, WriteConfirm, EnqueueCompletion
  <1>8. GoesOn \/ (WriteConfirm(c) /\ call[c].completes)
    BY <1>3, <1>4, <1>5, <1>6, <1>7
  <1> QED
    BY <1>8 DEF GoesOn

\* A handler that has read that the ride is not yet confirmed by both is the
\* only one to join those that will add a job, and whoever adds one leaves them.
LEMMA CompletingStep ==
  ASSUME Inductive, [Next]_vars, NEW q \in Rides
  PROVE  \/ /\ completionJobs'[q] = completionJobs[q]
            /\ Completing(q)' \subseteq Completing(q) \/ ride[q].confirmed # Side
         \/ \E c \in Completing(q) :
              /\ EnqueueCompletion(c)
              /\ completionJobs'[q] = completionJobs[q] + 1
              /\ Completing(q)' \subseteq Completing(q) \ {c}
  <1> DEFINE Fewer == Completing(q)' \subseteq Completing(q)
             Effect == \/ /\ completionJobs'[q] = completionJobs[q]
                          /\ Fewer \/ ride[q].confirmed # Side
                       \/ \E c \in Completing(q) :
                            /\ EnqueueCompletion(c)
                            /\ completionJobs'[q] = completionJobs[q] + 1
                            /\ Completing(q)' \subseteq Completing(q) \ {c}
  <1>1. TypeOK /\ call \in [Calls -> Call] /\ completionJobs \in [Rides -> Nat]
    BY DEF Inductive, TypeOK
  <1>2. ASSUME NEW c \in Calls, NEW x, call' = [call EXCEPT ![c] = x],
               x.step \notin {"writeConfirm", "enqueueCompletion"}
        PROVE  Completing(q)' \subseteq Completing(q) \ {c}
    BY <1>1, <1>2 DEF Completing
  <1>3. ASSUME NEW c \in Calls, NEW r \in Rides, NEW u \in Users, NewCall(c, r, u)
        PROVE  Effect
    <2>1. PICK x : /\ Begin(c, r, x) /\ x.ride = r
                   /\ x.step # "enqueueCompletion"
                   /\ x.step = "writeConfirm" => ride[r].confirmed # Side
      BY <1>3, NewCallBegins
    <2>2. UNCHANGED completionJobs
      BY <1>3, NewCallBegins
    <2>3. call' = [call EXCEPT ![c] = x]
      BY <2>1 DEF Begin
    <2>4. CASE x.step # "writeConfirm"
      BY <1>2, <2>1, <2>2, <2>3, <2>4
    <2>5. CASE x.step = "writeConfirm"
      <3>1. q # r => Fewer
        BY <1>1, <2>1, <2>3 DEF Completing
      <3> QED
        BY <2>1, <2>2, <2>5, <3>1
    <2> QED
      BY <2>4, <2>5
  <1>4. ASSUME NEW c \in Calls, WriteConfirm(c), call[c].completes
        PROVE  Fewer
    <2>1. call' = [call EXCEPT ![c] = [call[c] EXCEPT !.step = "enqueueCompletion"]]
      BY <1>4 DEF WriteConfirm, Continue
    <2>2. PICK x : x = [call[c] EXCEPT !.step = "enqueueCompletion"]
      OBVIOUS
    <2>3. x.ride = call[c].ride
      BY <1>1, <2>2 DEF Call
    <2>4. \A d \in Calls : d # c => call'[d] = call[d]
      BY <1>1, <2>1
    <2>5. call[c].ride = q => c \in Completing(q)
      BY <1>4 DEF WriteConfirm, At, Completing
    <2>6. call'[c].ride = call[c].ride
      BY <1>1, <2>1, <2>2, <2>3
    <2> QED
      BY <2>4, <2>5, <2>6 DEF Completing
  <1>5. ASSUME NEW c \in Calls, Resume(c)
        PROVE  Effect
    <2>1. CASE EnqueueCompletion(c)
      <3>1. Completing(q)' \subseteq Completing(q) \ {c}
        <4>1. ~WriteConfirm(c)
          BY <2>1 DEF EnqueueCompletion, WriteConfirm, At
        <4> QED
          BY <1>1, <1>2, <1>5, <4>1, ResumeGoesOn
      <3>2. CASE call[c].ride = q
        <4>1. c \in Completing(q)
          BY <2>1, <3>2 DEF EnqueueCompletion, At, Completing
        <4>2. completionJobs'[q] = completionJobs[q] + 1
          BY <1>1, <2>1, <3>2 DEF EnqueueCompletion
        <4> QED
          BY <2>1, <3>1, <4>1, <4>2
      <3>3. CASE call[c].ride # q
        <4>1. completionJobs'[q] = completionJobs[q]
          BY <1>1, <2>1, <3>3 DEF EnqueueCompletion
        <4> QED
          BY <3>1, <4>1
      <3> QED
        BY <3>2, <3>3
    <2>2. CASE ~EnqueueCompletion(c)
      <3>1. UNCHANGED completionJobs
        BY <1>5, <2>2 DEF Resume, EnqueueExpiry, WriteUpdate, WriteCancel, CreateRequest,
             ReadRequest, AcceptTx, WriteDecline, WriteStart, WriteConfirm, Notify
      <3>2. Fewer
        BY <1>1, <1>2, <1>4, <1>5, ResumeGoesOn
      <3> QED
        BY <3>1, <3>2
    <2> QED
      BY <2>1, <2>2
  <1>6. ASSUME \/ \E c \in Calls : Abort(c)
               \/ \E r \in Rides : Worker(r) \/ JobFails(r)
               \/ Crash \/ Tick \/ UNCHANGED vars
        PROVE  Effect
    <2>1. UNCHANGED completionJobs
      BY <1>6 DEF Abort, Worker, TakeExpiryJob, WriteExpiry, JobFails, Crash, Tick, vars
    <2>2. \/ \E c \in Calls : call' = [call EXCEPT ![c] = Idle]
          \/ UNCHANGED call
          \/ call' = [c \in Calls |-> Idle]
      BY <1>6 DEF Abort, Return, Continue, Worker, TakeExpiryJob, WriteExpiry, JobFails,
                  Crash, Tick, vars
    <2>3. Idle.step = "idle"
      BY DEF Idle
    <2>4. UNCHANGED call => Fewer
      BY DEF Completing
    <2>5. call' = [c \in Calls |-> Idle] => Fewer
      BY <2>3 DEF Completing
    <2> QED
      BY <1>2, <2>1, <2>2, <2>3, <2>4, <2>5
  <1> QED
    BY <1>3, <1>5, <1>6 DEF Next

\* A handler about to add a completion job has just written the completion.
LEMMA EnqueuersStep ==
  ASSUME Inductive, [Next]_vars, NEW c \in Calls, call'[c].step = "enqueueCompletion"
  PROVE  \/ call'[c] = call[c]
         \/ WriteConfirm(c) /\ call[c].completes /\ call'[c].ride = call[c].ride
  <1>1. TypeOK /\ call \in [Calls -> Call]
    BY DEF Inductive, TypeOK
  <1>2. ASSUME NEW d \in Calls, NEW x, call' = [call EXCEPT ![d] = x],
               x.step # "enqueueCompletion"
        PROVE  call'[c] = call[c]
    BY <1>1, <1>2
  <1>3. ASSUME NEW d \in Calls, NEW r \in Rides, NEW u \in Users, NewCall(d, r, u)
        PROVE  call'[c] = call[c]
    <2>1. PICK x : Begin(d, r, x) /\ x.step # "enqueueCompletion"
      BY <1>3, NewCallBegins
    <2> QED
      BY <1>2, <2>1 DEF Begin
  <1>4. ASSUME NEW d \in Calls, Resume(d), ~(WriteConfirm(d) /\ call[d].completes)
        PROVE  call'[c] = call[c]
    BY <1>1, <1>2, <1>4, ResumeGoesOn
  <1>5. ASSUME NEW d \in Calls, WriteConfirm(d), call[d].completes
        PROVE  call'[c] = call[c] \/ (c = d /\ call'[c].ride = call[c].ride)
    <2>1. call' = [call EXCEPT ![d] = [call[d] EXCEPT !.step = "enqueueCompletion"]]
      BY <1>5 DEF WriteConfirm, Continue
    <2>2. PICK x : x = [call[d] EXCEPT !.step = "enqueueCompletion"]
      OBVIOUS
    <2>3. x.ride = call[d].ride
      BY <1>1, <2>2 DEF Call
    <2> QED
      BY <1>1, <2>1, <2>2, <2>3
  <1>6. ASSUME \/ \E d \in Calls : Abort(d)
               \/ \E r \in Rides : Worker(r) \/ JobFails(r)
               \/ Crash \/ Tick \/ UNCHANGED vars
        PROVE  call'[c] = call[c]
    <2>1. \/ \E d \in Calls : call' = [call EXCEPT ![d] = Idle]
          \/ UNCHANGED call
          \/ call' = [d \in Calls |-> Idle]
      BY <1>6 DEF Abort, Return, Continue, Worker, TakeExpiryJob, WriteExpiry, JobFails,
                  Crash, Tick, vars
    <2>2. Idle.step = "idle"
      BY DEF Idle
    <2> QED
      BY <1>2, <2>1, <2>2
  <1> QED
    BY <1>3, <1>4, <1>5, <1>6 DEF Next

\* A job is added for a handler that leaves, and handlers may leave without one.
LEMMA JobsStayFew ==
  ASSUME NEW Old, NEW New, IsFiniteSet(Old), NEW jobs \in Nat, NEW most \in Nat,
         jobs + Cardinality(Old) <= most
  PROVE  /\ New \subseteq Old => jobs + Cardinality(New) <= most
         /\ \A c \in Old : New \subseteq Old \ {c} => jobs + 1 + Cardinality(New) <= most
  <1>1. Cardinality(Old) \in Nat
    BY FS_CardinalityType
  <1>2. ASSUME New \subseteq Old
        PROVE  jobs + Cardinality(New) <= most
    <2>1. IsFiniteSet(New) /\ Cardinality(New) <= Cardinality(Old)
      BY <1>2, FS_Subset
    <2>2. Cardinality(New) \in Nat
      BY <2>1, FS_CardinalityType
    <2> QED
      BY <1>1, <2>1, <2>2
  <1>3. ASSUME NEW c \in Old, New \subseteq Old \ {c}
        PROVE  jobs + 1 + Cardinality(New) <= most
    <2>1. IsFiniteSet(Old \ {c}) /\ Cardinality(Old \ {c}) = Cardinality(Old) - 1
      BY FS_RemoveElement
    <2>2. IsFiniteSet(New) /\ Cardinality(New) <= Cardinality(Old \ {c})
      BY <1>3, <2>1, FS_Subset
    <2>3. Cardinality(New) \in Nat
      BY <2>2, FS_CardinalityType
    <2> QED
      BY <1>1, <2>1, <2>2, <2>3
  <1> QED
    BY <1>2, <1>3

LEMMA MostJobsType ==
  ASSUME IsFiniteSet(Calls)
  PROVE  MostJobs \in Nat
  BY FS_CardinalityType DEF MostJobs

\* Handlers at a ride: as many as there are, or one.
LEMMA FewComplete ==
  ASSUME IsFiniteSet(Calls), NEW S \in SUBSET Calls,
         Overlap \/ \A c, d \in S : c = d
  PROVE  Cardinality(S) <= MostJobs
  <1>1. Cardinality(S) <= Cardinality(Calls)
    BY FS_Subset
  <1>2. CASE Overlap
    BY <1>1, <1>2 DEF MostJobs
  <1>3. CASE ~Overlap
    <2>1. CASE S = {}
      BY <1>3, <2>1, FS_EmptySet DEF MostJobs
    <2>2. CASE S # {}
      <3>1. PICK c \in S : TRUE
        BY <2>2
      <3>2. S = {c}
        BY <1>3, <3>1
      <3> QED
        BY <1>3, <3>2, FS_Singleton DEF MostJobs
    <2> QED
      BY <2>1, <2>2
  <1> QED
    BY <1>2, <1>3

LEMMA CompletionInductiveInit ==
  ASSUME IsFiniteSet(Calls)
  PROVE  Init => CompletionInductive
  <1> SUFFICES ASSUME Init
               PROVE  CompletionInductive
    OBVIOUS
  <1>1. Idle.step = "idle" /\ NoRow.status = "ABSENT"
    BY DEF Idle, NoRow
  <1>2. \A c \in Calls : call[c].step = "idle"
    BY <1>1 DEF Init
  <1>3. ASSUME NEW r \in Rides
        PROVE  completionJobs[r] + Cardinality(Completing(r)) <= MostJobs
    <2>1. Completing(r) = {}
      BY <1>2 DEF Completing
    <2>2. completionJobs[r] = 0 /\ Cardinality(Completing(r)) = 0
      BY <2>1, FS_EmptySet DEF Init
    <2> QED
      BY <2>2, MostJobsType
  <1>4. \A r \in Rides : ride[r].status # "COMPLETED" /\ completionJobs[r] = 0
    BY <1>1 DEF Init
  <1> QED
    BY <1>2, <1>3, <1>4, InductiveInit DEF CompletionInductive

LEMMA CompletionInductiveStep ==
  ASSUME IsFiniteSet(Calls), CompletionInductive, [Next]_vars,
         Overlap \/ (SerialInductive /\ SerialInductive')
  PROVE  CompletionInductive'
  <1>1. Inductive /\ Inductive' /\ StateGrows
    BY InductiveStep DEF CompletionInductive
  <1>2. /\ TypeOK /\ TypeOK'
        /\ ride \in [Rides -> Row] /\ ride' \in [Rides -> Row]
        /\ completionJobs \in [Rides -> Nat] /\ completionJobs' \in [Rides -> Nat]
    BY <1>1 DEF Inductive, TypeOK
  <1>3. \A r \in Rides : Timed(ride'[r])
    <2>1. CASE ride' = ride
      BY <2>1 DEF CompletionInductive, Timed
    <2>2. CASE ride' # ride
      <3>1. PICK q \in Rides : ride' = [ride EXCEPT ![q] = ride'[q]] /\ Timed(ride'[q])
        BY <2>2, RowTurns
      <3>2. \A r \in Rides : r # q => ride'[r] = ride[r]
        BY <1>2, <3>1
      <3> QED
        BY <3>1, <3>2 DEF CompletionInductive, Timed
    <2> QED
      BY <2>1, <2>2
  <1>4. \A r \in Rides : "completedAt" \in ride[r].stamps => "completedAt" \in ride'[r].stamps
    <2> SUFFICES ASSUME NEW r \in Rides, "completedAt" \in ride[r].stamps
                 PROVE  "completedAt" \in ride'[r].stamps
      OBVIOUS
    <2>1. ride[r].confirmed = Side
      BY <1>1 DEF Inductive, RowOK
    <2>2. Exists(ride[r])
      BY <1>1, <2>1, ConfirmedExists
    <2> QED
      BY <1>1, <2>2 DEF StateGrows, Grows
  <1>5. ASSUME NEW q \in Rides
        PROVE  completionJobs'[q] > 0 => "completedAt" \in ride'[q].stamps
    <2>1. CASE completionJobs'[q] = completionJobs[q]
      BY <1>4, <2>1 DEF CompletionInductive
    <2>2. ASSUME NEW c \in Completing(q), EnqueueCompletion(c)
          PROVE  "completedAt" \in ride'[q].stamps
      BY <1>4, <2>2 DEF CompletionInductive, Completing, EnqueueCompletion, At
    <2> QED
      BY <1>1, <2>1, <2>2, CompletingStep
  <1>6. ASSUME NEW q \in Rides
        PROVE  (completionJobs[q] + Cardinality(Completing(q)) <= MostJobs)'
    <2>0. PICK Old, New : Old = Completing(q) /\ New = Completing(q)'
      OBVIOUS
    <2>1. PICK jobs \in Nat, jobs1 \in Nat, most \in Nat :
            jobs = completionJobs[q] /\ jobs1 = completionJobs'[q] /\ most = MostJobs
      BY <1>2, MostJobsType
    <2>2. Old \subseteq Calls /\ New \subseteq Calls
      BY <2>0 DEF Completing
    <2>3. IsFiniteSet(Old)
      BY <2>2, FS_Subset
    <2>4. jobs + Cardinality(Old) <= most
      BY <2>0, <2>1 DEF CompletionInductive
    <2>5. /\ New \subseteq Old => jobs + Cardinality(New) <= most
          /\ \A c \in Old : New \subseteq Old \ {c} => jobs + 1 + Cardinality(New) <= most
      BY <2>3, <2>4, JobsStayFew
    <2>6. \/ jobs1 = jobs /\ (New \subseteq Old \/ ride[q].confirmed # Side)
          \/ \E c \in Old : jobs1 = jobs + 1 /\ New \subseteq Old \ {c}
      BY <1>1, <2>0, <2>1, CompletingStep
    <2>7. ride[q].confirmed # Side => jobs = 0
      BY <1>1, <2>1 DEF Inductive
    <2>8. Cardinality(New) <= most
      <3>1. Overlap \/ \A c, d \in New : c = d
        BY <2>0, <2>2, RidesAssumption DEF SerialInductive, OneAtATime, Completing
      <3> QED
        BY <2>1, <2>2, <3>1, FewComplete
    <2>9. Cardinality(New) \in Nat
      BY <2>2, FS_Subset, FS_CardinalityType
    <2>10. jobs1 + Cardinality(New) <= most
      BY <2>5, <2>6, <2>7, <2>8, <2>9
    <2> QED
      BY <2>0, <2>1, <2>10 DEF MostJobs
  <1>7. ASSUME NEW c \in Calls, call'[c].step = "enqueueCompletion"
        PROVE  "completedAt" \in ride'[call'[c].ride].stamps
    <2>1. CASE call'[c] = call[c]
      <3>1. CallOK(call[c]) /\ call[c].ride \in Rides
        BY <1>1, <1>7, <2>1 DEF Inductive, CallOK
      <3> QED
        BY <1>4, <1>7, <2>1, <3>1 DEF CompletionInductive
    <2>2. CASE WriteConfirm(c) /\ call[c].completes /\ call'[c].ride = call[c].ride
      <3>1. call[c].step = "writeConfirm" /\ call[c].step # "idle"
        BY <2>2 DEF WriteConfirm, At
      <3>2. PICK r \in Rides, side \in Side : r = call[c].ride /\ side = call[c].side
        BY <1>1, <1>2, <3>1, CallFacts DEF Call
      <3>3. ride' = [ride EXCEPT ![r] = Confirmed(ride[r], side, TRUE)]
        BY <2>2, <3>2 DEF WriteConfirm
      <3>4. ride'[r] = Confirmed(ride[r], side, TRUE)
        BY <1>2, <3>3
      <3>5. "completedAt" \in ride'[r].stamps
        BY <1>2, <3>4 DEF Confirmed, Row
      <3> QED
        BY <2>2, <3>2, <3>5
    <2> QED
      BY <1>1, <1>7, <2>1, <2>2, EnqueuersStep
  <1> QED
    BY <1>1, <1>3, <1>5, <1>6, <1>7 DEF CompletionInductive, Timed

\* However the handlers overlap, a ride that was completed says so for good, and
\* it has a completion job for each handler, at most, that had read it before.
THEOREM CompletionsAreCounted ==
  ASSUME IsFiniteSet(Calls)
  PROVE  Spec => []CompletionInductive
  <1>1. CASE Overlap
    <2>1. CompletionInductive /\ [Next]_vars => CompletionInductive'
      BY <1>1, CompletionInductiveStep
    <2> QED
      BY <2>1, CompletionInductiveInit, PTL DEF Spec
  <1>2. CASE ~Overlap
    <2>1. CompletionInductive /\ SerialInductive /\ SerialInductive' /\ [Next]_vars
            => CompletionInductive'
      BY <1>2, CompletionInductiveStep
    <2>2. Spec => []SerialInductive
      BY <1>2, SerialInvariant
    <2> QED
      BY <2>1, <2>2, CompletionInductiveInit, PTL DEF Spec
  <1> QED
    BY <1>1, <1>2

\* A row of the queue as settlement sees it: empty, and with one more job.
LEMMA AddedJobs ==
  ASSUME NEW jobs \in Nat, MostJobs \in Nat, jobs + 1 <= MostJobs
  PROVE  /\ jobs + 1 \in 1..MostJobs
         /\ Added(jobs)[jobs + 1].state = "none"
         /\ jobs > 0 => /\ jobs \in 1..MostJobs
                        /\ Added(jobs)[jobs].state = "waiting"
         /\ Added(jobs + 1) = [Added(jobs) EXCEPT ![jobs + 1].state = "waiting"]
  <1> DEFINE row(k) == [n \in 1..MostJobs |->
                          [state |-> IF n <= k THEN "waiting" ELSE "none", stalls |-> 0]]
  <1>1. Added(jobs) = row(jobs) /\ Added(jobs + 1) = row(jobs + 1)
    BY DEF Added
  <1>2. jobs + 1 \in 1..MostJobs /\ (jobs > 0 => jobs \in 1..MostJobs)
    OBVIOUS
  <1>3. row(jobs)[jobs + 1] = [state |-> "none", stalls |-> 0]
    BY <1>2
  <1>4. jobs > 0 => row(jobs)[jobs].state = "waiting"
    BY <1>2
  <1>5. row(jobs + 1) = [row(jobs) EXCEPT ![jobs + 1].state = "waiting"]
    <2>1. ASSUME NEW n \in 1..MostJobs, n # jobs + 1
          PROVE  row(jobs + 1)[n] = row(jobs)[n]
      BY <2>1
    <2>2. row(jobs + 1)[jobs + 1] = [row(jobs)[jobs + 1] EXCEPT !.state = "waiting"]
      BY <1>2, <1>3
    <2> QED
      BY <2>1, <2>2
  <1> QED
    BY <1>1, <1>2, <1>3, <1>4, <1>5

LEMMA FeedsInit ==
  ASSUME IsFiniteSet(Calls)
  PROVE  Init => Completion!CompletionInit
  <1> SUFFICES ASSUME Init
               PROVE  Completion!CompletionInit
    OBVIOUS
  <1>1. \A r \in Rides : CompletionStatus(ride[r]) = "IN_PROGRESS"
    BY DEF Init, NoRow, CompletionStatus
  <1>2. \A r \in Rides : Added(completionJobs[r]) = [n \in 1..MostJobs |-> Completion!NoJob]
    BY MostJobsType DEF Init, Added, Completion!NoJob
  <1> QED
    BY <1>1, <1>2 DEF Completion!CompletionInit, Completion!JobNo

LEMMA FeedsStep ==
  ASSUME IsFiniteSet(Calls), CompletionInductive, Overlap \/ SerialInductive, [Next]_vars
  PROVE  [Completion!CompletionNext]_<<[r \in Rides |-> CompletionStatus(ride[r])],
                                       [r \in Rides |-> Added(completionJobs[r])]>>
  <1> DEFINE status == [r \in Rides |-> CompletionStatus(ride[r])]
             job    == [r \in Rides |-> Added(completionJobs[r])]
  <1>1. /\ Inductive
        /\ ride \in [Rides -> Row] /\ completionJobs \in [Rides -> Nat]
        /\ completionJobs' \in [Rides -> Nat]
        /\ MostJobs \in Nat
    BY InductiveStep, MostJobsType DEF CompletionInductive, Inductive, TypeOK
  <1>2. CASE ride' # ride
    <2>1. UNCHANGED completionJobs
      BY <1>2, RowTurns
    <2>2. PICK r \in Rides : ride' = [ride EXCEPT ![r] = ride'[r]] /\ Turns(ride[r], ride'[r])
      BY <1>2, RowTurns
    <2>3. job' = job
      BY <2>1
    <2>4. PICK new : new = CompletionStatus(ride'[r])
      OBVIOUS
    <2>5. status' = [status EXCEPT ![r] = new]
      BY <1>1, <2>2, <2>4
    <2>6. CASE new = CompletionStatus(ride[r])
      <3>1. status' = status
        BY <2>5, <2>6
      <3> QED
        BY <2>3, <3>1
    <2>7. CASE CompletionStatus(ride[r]) = "IN_PROGRESS" \/ Overlap
      <3>1. CASE new = "COMPLETED"
        <4>1. Completion!ConfirmRide(r)
          BY <2>3, <2>5, <2>7, <3>1 DEF Completion!ConfirmRide
        <4> QED
          BY <4>1 DEF Completion!CompletionNext, Completion!RideCompletes
      <3>2. CASE Overlap /\ CompletionStatus(ride[r]) = "COMPLETED" /\ new = "OVERWRITTEN"
        <4>1. Completion!OverwriteStatus(r)
          BY <2>3, <2>5, <3>2 DEF Completion!OverwriteStatus
        <4> QED
          BY <4>1 DEF Completion!CompletionNext, Completion!RideCompletes
      <3> QED
        BY <2>2, <2>4, <2>6, <3>1, <3>2 DEF Turns
    <2> QED
      BY <2>2, <2>4, <2>6, <2>7 DEF Turns
  <1>3. CASE ride' = ride
    <2>1. status' = status
      BY <1>3
    <2>2. CASE UNCHANGED completionJobs
      BY <2>1, <2>2
    <2>3. CASE completionJobs' # completionJobs
      <3>1. PICK q \in Rides : completionJobs'[q] # completionJobs[q]
        BY <1>1, <2>3
      <3>2. PICK c \in Completing(q) : EnqueueCompletion(c)
        BY <1>1, <3>1, CompletingStep
      <3>3. PICK n \in Nat : n = completionJobs[q]
        BY <1>1
      <3>4. call[c].ride = q /\ c \in Calls /\ call[c].step = "enqueueCompletion"
        BY <3>2 DEF Completing, EnqueueCompletion, At
      <3>5. completionJobs' = [completionJobs EXCEPT ![q] = n + 1]
        BY <3>2, <3>3, <3>4 DEF EnqueueCompletion
      <3>6. n + 1 <= MostJobs
        <4>1. PICK S : S = Completing(q)
          OBVIOUS
        <4>2. S \subseteq Calls /\ c \in S
          BY <3>2, <4>1 DEF Completing
        <4>3. Cardinality(S) \in Nat /\ Cardinality(S) # 0
          BY <4>2, FS_Subset, FS_CardinalityType, FS_EmptySet
        <4>4. n + Cardinality(S) <= MostJobs
          BY <3>3, <4>1 DEF CompletionInductive
        <4> QED
          BY <1>1, <4>3, <4>4
      <3>7. /\ n + 1 \in 1..MostJobs
            /\ Added(n)[n + 1].state = "none"
            /\ n > 0 => n \in 1..MostJobs /\ Added(n)[n].state = "waiting"
            /\ Added(n + 1) = [Added(n) EXCEPT ![n + 1].state = "waiting"]
        BY <1>1, <3>6, AddedJobs
      <3>8. job[q] = Added(n)
        BY <3>3
      <3>9. job' = [job EXCEPT ![q] = Added(n + 1)]
        BY <1>1, <3>5
      <3>10. status[q] # "IN_PROGRESS"
        BY <3>4 DEF CompletionInductive, CompletionStatus
      <3>11. n + 1 > 1 => Overlap
        BY <1>1, <3>6 DEF MostJobs
      <3> HIDE DEF job, status
      <3>12. /\ job[q][n + 1].state = "none"
             /\ n + 1 > 1 => Overlap /\ job[q][(n + 1) - 1].state # "none"
             /\ job' = [job EXCEPT ![q][n + 1].state = "waiting"]
        <4>1. (n + 1) - 1 = n /\ (n + 1 > 1 => n > 0)
          OBVIOUS
        <4> QED
          BY <3>7, <3>8, <3>9, <3>11, <4>1
      <3> USE DEF job, status
      <3>13. Completion!AddCompletionJob(q)
        BY <2>1, <3>7, <3>10, <3>12 DEF Completion!AddCompletionJob, Completion!JobNo
      <3> QED
        BY <3>13 DEF Completion!CompletionNext, Completion!RideCompletes
    <2> QED
      BY <2>2, <2>3
  <1> QED
    BY <1>2, <1>3

\* The service feeds settlement what it counts on: no job before the ride is
\* completed, a job at most for each handler that overlaps, one if none do, and
\* no way back to a ride that was never completed.
THEOREM ServiceFeedsSettlement ==
  ASSUME IsFiniteSet(Calls)
  PROVE  Spec => ImplementsCompletion
  <1>1. Spec => [](Overlap \/ SerialInductive)
    <2>1. CASE Overlap
      BY <2>1, PTL
    <2>2. CASE ~Overlap
      <3>1. Spec => []SerialInductive
        BY <2>2, SerialInvariant
      <3> QED
        BY <3>1, PTL
    <2> QED
      BY <2>1, <2>2
  <1>2. Init => Completion!CompletionInit
    BY FeedsInit
  <1>3. CompletionInductive /\ (Overlap \/ SerialInductive) /\ [Next]_vars
          => [Completion!CompletionNext]_<<[r \in Rides |-> CompletionStatus(ride[r])],
                                           [r \in Rides |-> Added(completionJobs[r])]>>
    BY FeedsStep
  <1>4. Spec => []CompletionInductive
    BY CompletionsAreCounted
  <1> QED
    BY <1>1, <1>2, <1>3, <1>4, PTL DEF Spec, ImplementsCompletion, Completion!CompletionSpec

\* The parties of a completed ride, whom settlement pays and rates, are not
\* exchanged while it is completed: an acceptance that comes late takes the
\* ride out of COMPLETED.
KeepsParties(old, new) ==
  old.status = "COMPLETED" /\ new.status = "COMPLETED" => new.on = old.on

LEMMA PartiesStep ==
  ASSUME Inductive, [Next]_vars, NEW q \in Rides
  PROVE  KeepsParties(ride[q], ride'[q])
  <1>1. ride \in [Rides -> Row]
    BY DEF Inductive, TypeOK
  <1>2. ASSUME NEW r \in Rides, NEW new, ride' = [ride EXCEPT ![r] = new],
               KeepsParties(ride[r], new)
        PROVE  KeepsParties(ride[q], ride'[q])
    <2>1. q # r => ride'[q] = ride[q]
      BY <1>1, <1>2
    <2>2. q = r => ride'[q] = new
      BY <1>1, <1>2
    <2> QED
      BY <1>2, <2>1, <2>2 DEF KeepsParties
  <1>3. ASSUME UNCHANGED ride
        PROVE  KeepsParties(ride[q], ride'[q])
    BY <1>3 DEF KeepsParties
  <1>4. ASSUME NEW r \in Rides, NEW u, NEW s, NEW b, NEW at
        PROVE  /\ KeepsParties(ride[r], Rescheduled(ride[r], at))
               /\ KeepsParties(ride[r], Cancelled(ride[r]))
               /\ KeepsParties(ride[r], Matched(ride[r], u))
               /\ KeepsParties(ride[r], Started(ride[r]))
               /\ KeepsParties(ride[r], Confirmed(ride[r], s, b))
               /\ KeepsParties(ride[r], Expired(ride[r]))
    BY <1>1 DEF KeepsParties, Row, Rescheduled, Cancelled, Matched, Started, Confirmed,
                Expired
  <1>5. ASSUME NEW c \in Calls, NEW r \in Rides, NEW u \in Users, NewCall(c, r, u)
        PROVE  KeepsParties(ride[q], ride'[q])
    <2>1. \/ \E new : ride' = [ride EXCEPT ![r] = new] /\ ride[r].status = "ABSENT"
          \/ UNCHANGED ride
      BY <1>5 DEF NewCall, CreateRide, UpdateRide, CancelRide, RequestRide,
                  RespondToRequest, StartRide, ConfirmRide, Read
    <2>2. ASSUME NEW new, ride[r].status = "ABSENT"
          PROVE  KeepsParties(ride[r], new)
      BY <2>2 DEF KeepsParties
    <2> QED
      BY <1>2, <1>3, <2>1, <2>2
  <1>6. ASSUME NEW c \in Calls, Resume(c)
        PROVE  KeepsParties(ride[q], ride'[q])
    <2>1. call[c].step # "idle" => call[c].ride \in Rides
      BY CallFacts
    <2>2. \/ UNCHANGED ride
          \/ /\ call[c].step # "idle"
             /\ \E new : /\ ride' = [ride EXCEPT ![call[c].ride] = new]
                         /\ \/ new = Rescheduled(ride[call[c].ride], call[c].at)
                            \/ new = Cancelled(ride[call[c].ride])
                            \/ new = Matched(ride[call[c].ride], call[c].who)
                            \/ new = Started(ride[call[c].ride])
                            \/ new = Confirmed(ride[call[c].ride], call[c].side,
                                               call[c].completes)
      BY <1>6 DEF Resume, EnqueueExpiry, WriteUpdate, WriteCancel, CreateRequest,
                  ReadRequest, AcceptTx, WriteDecline, WriteStart, WriteConfirm,
                  EnqueueCompletion, Notify, At
    <2> QED
      BY <1>2, <1>3, <1>4, <2>1, <2>2
  <1>7. ASSUME NEW r \in Rides, Worker(r)
        PROVE  KeepsParties(ride[q], ride'[q])
    <2>1. UNCHANGED ride \/ ride' = [ride EXCEPT ![r] = Expired(ride[r])]
      BY <1>7 DEF Worker, TakeExpiryJob, WriteExpiry
    <2> QED
      BY <1>2, <1>3, <1>4, <2>1
  <1>8. (\/ \E c \in Calls : Abort(c)
         \/ \E r \in Rides : JobFails(r)
         \/ Crash \/ Tick \/ UNCHANGED vars) => UNCHANGED ride
    BY DEF Abort, JobFails, Crash, Tick, vars
  <1> QED
    BY <1>3, <1>5, <1>6, <1>7, <1>8 DEF Next

\* Settlement may take a ride's parties as given while the ride is completed.
THEOREM CompletedRidesKeepTheirParties ==
  Spec => [][\A r \in Rides : KeepsParties(ride[r], ride'[r])]_vars
  <1>1. Inductive /\ [Next]_vars => \A r \in Rides : KeepsParties(ride[r], ride'[r])
    BY PartiesStep
  <1> QED
    BY <1>1, InductiveInvariant, PTL DEF Spec
=============================================================================
