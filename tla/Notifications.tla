--------------------------- MODULE Notifications ---------------------------
(***************************************************************************)
(* NotificationsService and NotificationProcessor: a notification is a row *)
(* in the user's feed and a push to the user's devices.  The handler that  *)
(* tells a user something inserts the row and queues a job; the push       *)
(* worker marks the row delivered, looks up the devices and hands the      *)
(* message to Firebase.  Meanwhile the user reads and deletes rows.        *)
(*                                                                         *)
(* As elsewhere an action is the code between two awaits.  Notifications   *)
(* are numbered in the order of their INSERTs, which is that of createdAt. *)
(* Title, body and data decide nothing and are left out.                   *)
(***************************************************************************)
EXTENDS Paging

CONSTANTS
  Users,
  NoUser,     \* whom a row that is not there is for
  Devices,    \* FCM tokens
  MaxNotes,   \* bound on notifications
  Calls,      \* slots for handlers executing at the same time
  Workers,    \* push workers, one per server process
  MaxStalls   \* BullMQ's maxStalledCount

ASSUME NotificationsAssumption == 
  /\ NoUser \notin Users
  /\ MaxNotes \in Nat
  /\ MaxStalls \in Nat

VARIABLES
  note,     \* table notifications
  pushJob,  \* queue notifications: the job of each notification
  devices,  \* table user_devices
  pushes,   \* multicasts of each notification handed to Firebase
  call,     \* what each executing handler does next
  worker    \* what each push worker is at

vars == <<note, pushJob, devices, pushes, call, worker>>

Notes == 1..MaxNotes
Presence == {"absent", "unread", "read", "deleted"}
Row == [row : Presence, to : Users \cup {NoUser}, delivered : BOOLEAN]
Job == [state : {"none", "waiting", "active", "done", "failed"},
        stalls : 0..MaxStalls]
Call == [step : {"idle", "enqueue", "markRead", "delete"}, note : 0..MaxNotes]
Worker == [step : {"idle", "findDevices", "multicast", "finish"}, note : 0..MaxNotes]

Idle == [step |-> "idle", note |-> 0]

Init ==
  /\ note = [n \in Notes |-> [row |-> "absent", to |-> NoUser, delivered |-> FALSE]]
  /\ pushJob = [n \in Notes |-> [state |-> "none", stalls |-> 0]]
  /\ devices = [u \in Users |-> {}]
  /\ pushes = [n \in Notes |-> 0]
  /\ call = [k \in Calls |-> Idle]
  /\ worker = [w \in Workers |-> Idle]

-----------------------------------------------------------------------------
Stored(n) == note[n].row \in {"unread", "read"}

SetRow(n, row) == note' = [note EXCEPT ![n] = [@ EXCEPT !.row = row]]
SetJob(n, state) == pushJob' = [pushJob EXCEPT ![n] = [@ EXCEPT !.state = state]]

Begin(k, step, n) ==
  call[k] = Idle /\ call' = [call EXCEPT ![k] = [step |-> step, note |-> n]]
Return(k) == call' = [call EXCEPT ![k] = Idle]

\* send: the INSERT.
Send(k, u, n) ==
  /\ note[n].row = "absent"
  /\ \A m \in 1..(n - 1) : note[m].row # "absent"
  /\ Begin(k, "enqueue", n)
  /\ note' = [note EXCEPT ![n] = [row |-> "unread", to |-> u, delivered |-> FALSE]]
  /\ UNCHANGED <<pushJob, devices, pushes, worker>>

Enqueue(k) ==
  /\ call[k].step = "enqueue"
  /\ SetJob(call[k].note, "waiting")
  /\ Return(k)
  /\ UNCHANGED <<note, devices, pushes, worker>>

\* markRead and deleteNotification look the row up first ...
FindOne(k, n, step) ==
  /\ step \in {"markRead", "delete"}
  /\ Stored(n)
  /\ Begin(k, step, n)
  /\ UNCHANGED <<note, pushJob, devices, pushes, worker>>

\* ... and then write to as many rows as there still are.
Marked(row) == IF row = "unread" THEN "read" ELSE row

MarkRead(k) ==
  LET n == call[k].note
  IN  /\ call[k].step = "markRead"
      /\ SetRow(n, Marked(note[n].row))
      /\ Return(k)
      /\ UNCHANGED <<pushJob, devices, pushes, worker>>

DeleteOne(k) ==
  /\ call[k].step = "delete"
  /\ SetRow(call[k].note, "deleted")
  /\ Return(k)
  /\ UNCHANGED <<pushJob, devices, pushes, worker>>

MarkAllRead(u) ==
  /\ note' = [n \in Notes |-> IF note[n].to = u
                THEN [note[n] EXCEPT !.row = Marked(@)] ELSE note[n]]
  /\ UNCHANGED <<pushJob, devices, pushes, call, worker>>

\* AuthRepository.upsertUserDevice, which login calls.
UpsertDevice(u, d) ==
  /\ devices' = [devices EXCEPT ![u] = @ \cup {d}]
  /\ UNCHANGED <<note, pushJob, pushes, call, worker>>

-----------------------------------------------------------------------------
(* NotificationProcessor.                                                  *)

WorkerAt(w, step) == worker[w].step = step
WorkerGoes(w, step, n) ==
  worker' = [worker EXCEPT ![w] = [step |-> step, note |-> n]]
WorkerRests(w) == worker' = [worker EXCEPT ![w] = Idle]

\* update throws when there is no row, updateMany would not.
MarkDeliveredThrowsSlip(n) == FALSE
MarkDeliveredThrows(n) == ~Stored(n)

DeliveredSlip(row) == [row EXCEPT !.delivered = devices[row.to] # {}]
Delivered(row) == [row EXCEPT !.delivered = TRUE]

\* The job is taken and the row marked.
TakePushJob(w, n) ==
  /\ worker[w] = Idle
  /\ pushJob[n].state = "waiting"
  /\ IF MarkDeliveredThrows(n)
     THEN /\ SetJob(n, "failed")
          /\ UNCHANGED <<note, worker>>
     ELSE /\ SetJob(n, "active")
          /\ note' = [note EXCEPT ![n] = Delivered(@)]
          /\ WorkerGoes(w, "findDevices", n)
  /\ UNCHANGED <<devices, pushes, call>>

FindDevices(w) ==
  LET n == worker[w].note
  IN  /\ WorkerAt(w, "findDevices")
      /\ IF devices[note[n].to] = {}
         THEN SetJob(n, "done") /\ WorkerRests(w)
         ELSE WorkerGoes(w, "multicast", n) /\ UNCHANGED pushJob
      /\ UNCHANGED <<note, devices, pushes, call>>

\* FirebaseService.sendMulticast: without credentials it returns at once, and
\* an error of Firebase is logged and forgotten.
Multicast(w) ==
  LET n == worker[w].note
  IN  /\ WorkerAt(w, "multicast")
      /\ \E sent \in 0..1 : pushes' = [pushes EXCEPT ![n] = @ + sent]
      /\ WorkerGoes(w, "finish", n)
      /\ UNCHANGED <<note, pushJob, devices, call>>

\* process has returned and BullMQ is told so.
FinishJob(w) ==
  /\ WorkerAt(w, "finish")
  /\ SetJob(worker[w].note, "done")
  /\ WorkerRests(w)
  /\ UNCHANGED <<note, devices, pushes, call>>

-----------------------------------------------------------------------------
(* Failures.                                                               *)

\* A call of a handler throws, or its server dies.
Abort(k) ==
  /\ call[k] # Idle
  /\ Return(k)
  /\ UNCHANGED <<note, pushJob, devices, pushes, worker>>

\* A database call of the worker throws.
JobFails(w) ==
  /\ WorkerAt(w, "findDevices")
  /\ SetJob(worker[w].note, "failed")
  /\ WorkerRests(w)
  /\ UNCHANGED <<note, devices, pushes, call>>

StalledLost(job) == job
StalledSlip(job) == [job EXCEPT !.state = "waiting"]
Stalled(job) ==
  IF job.stalls < MaxStalls
  THEN [job EXCEPT !.state = "waiting", !.stalls = @ + 1]
  ELSE [job EXCEPT !.state = "failed"]

\* The worker's server dies: the job stalls and is handed out again, as long
\* as BullMQ allows.
WorkerDies(w) ==
  /\ worker[w] # Idle
  /\ pushJob' = [pushJob EXCEPT ![worker[w].note] = Stalled(@)]
  /\ WorkerRests(w)
  /\ UNCHANGED <<note, devices, pushes, call>>

-----------------------------------------------------------------------------
Work(w) ==
  \/ \E n \in Notes : TakePushJob(w, n)
  \/ FindDevices(w)
  \/ Multicast(w)
  \/ FinishJob(w)

Resume(k) == Enqueue(k) \/ MarkRead(k) \/ DeleteOne(k)

Next ==
  \/ \E k \in Calls, n \in Notes :
       \/ \E u \in Users : Send(k, u, n)
       \/ \E step \in {"markRead", "delete"} : FindOne(k, n, step)
  \/ \E k \in Calls : Resume(k) \/ Abort(k)
  \/ \E u \in Users : MarkAllRead(u) \/ \E d \in Devices : UpsertDevice(u, d)
  \/ \E w \in Workers : Work(w) \/ JobFails(w) \/ WorkerDies(w)

Spec == Init /\ [][Next]_vars

\* The workers poll the queue; nobody has to call anything.
FairSpec == Spec /\ \A w \in Workers : WF_vars(Work(w))

-----------------------------------------------------------------------------
(* What holds however handlers, workers and failures interleave.           *)

\* Values stay in their types.
NotificationsTypeOK ==
  /\ note \in [Notes -> Row]
  /\ pushJob \in [Notes -> Job]
  /\ devices \in [Users -> SUBSET Devices]
  /\ pushes \in [Notes -> Nat]
  /\ call \in [Calls -> Call]
  /\ worker \in [Workers -> Worker]

\* Delivery tracking errs on one side only: what was pushed is marked, although
\* the mark and the push are two awaits of a worker that may die between them
\* and start over.  (What is marked need not have been pushed.)
PushedAreMarked == \A n \in Notes : pushes[n] > 0 => note[n].delivered

RanThrough(n) ==
  \/ pushJob[n].state \in {"done", "failed"}
  \/ \E w \in Workers : WorkerAt(w, "finish") /\ worker[w].note = n

\* A user is told once, and once more for every time a worker died at it, be it
\* after the push and before the queue knew.
PushedOncePerAttempt ==
  \A n \in Notes :
    pushes[n] <= pushJob[n].stalls + IF RanThrough(n) THEN 1 ELSE 0

Attended(n) == \E w \in Workers : worker[w].note = n

\* A notification the user deletes while no worker is at it is never pushed
\* again, whether its job is waiting, stalled or not yet queued.
DeletedStaysSilent ==
  [][\A n \in Notes : note[n].row = "deleted" /\ ~Attended(n)
       => note'[n].row = "deleted" /\ ~Attended(n)' /\ pushes'[n] = pushes[n]]_vars

\* A queued push is done or reported as failed in the end.
PushJobEnds ==
  \A n \in Notes :
    pushJob[n].state = "waiting" ~> pushJob[n].state \in {"done", "failed"}

-----------------------------------------------------------------------------
(* The feed: getNotifications and getUnreadCount.                          *)

\* Unread rows first, then the newest.
Before(m, n) ==
  \/ note[m].row = "unread" /\ note[n].row = "read"
  \/ note[m].row = note[n].row /\ m > n

Feed(u) == Listed({n \in Notes : Stored(n) /\ note[n].to = u}, Before)

UnreadCountSlip(u) == Cardinality({n \in Notes : note[n].row = "unread"})
UnreadCount(u) ==
  Cardinality({n \in Notes : note[n].row = "unread" /\ note[n].to = u})

GetNotifications(u, page, limit) ==
  LET feed == Feed(u)
  IN  [notifications |-> PageRows(feed, page, limit),
       totalPages    |-> TotalPages(Len(feed), limit)]

\* The count on the badge is the length of the unread head of the feed, and the
\* pages of the feed are the feed.
FeedIsConsistent ==
  \A u \in Users :
    LET feed == Feed(u)
        unread == UnreadCount(u)
    IN  /\ \A i \in 1..Len(feed) : note[feed[i]].row = "unread" <=> i <= unread
        /\ unread <= Len(feed)
        /\ \A limit \in 0..2 :
             feed = FlattenSeq([p \in 1..GetNotifications(u, 1, limit).totalPages
                                  |-> GetNotifications(u, p, limit).notifications])
=============================================================================
