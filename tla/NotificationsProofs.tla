------------------------- MODULE NotificationsProofs -------------------------
(***************************************************************************)
(* Proofs about module Notifications, for any number of notifications,     *)
(* users, handlers and push workers.                                       *)
(***************************************************************************)
EXTENDS Notifications, Counting, TLAPS

\* A worker is busy with a marked row and with an active job, no two with the
\* same one.
WorkersInv ==
  \A w \in Workers :
    /\ IF worker[w].step = "idle" THEN worker[w].note = 0
       ELSE /\ worker[w].note \in Notes
            /\ note[worker[w].note].delivered
            /\ pushJob[worker[w].note].state = "active"
            /\ \A v \in Workers : worker[w].note = worker[v].note => w = v

\* A handler that is about to queue a job is the only one and the first.
HandlersInv ==
  /\ \A k \in Calls : call[k].step # "idle" => call[k].note \in Notes
  /\ \A k \in Calls : call[k].step = "enqueue" =>
       /\ note[call[k].note].row # "absent"
       /\ pushJob[call[k].note].state = "none"
       /\ \A l \in Calls :
            call[l].step = "enqueue" /\ call[k].note = call[l].note => k = l

\* No job without a row, no push without a job.
JobsInv ==
  \A n \in Notes :
    /\ note[n].row = "absent" => pushJob[n].state = "none"
    /\ pushJob[n].state = "none" => pushes[n] = 0

WorkInv == WorkersInv /\ HandlersInv /\ JobsInv

IInv == NotificationsTypeOK /\ PushedAreMarked /\ PushedOncePerAttempt /\ WorkInv

-----------------------------------------------------------------------------
(* The records the actions write.                                          *)

LEMMA RowTyped ==
  ASSUME NEW r \in Row
  PROVE  /\ \A x \in Presence : [r EXCEPT !.row = x] \in Row
         /\ Delivered(r) \in Row
         /\ [r EXCEPT !.row = Marked(@)] \in Row
BY DEF Row, Presence, Delivered, Marked

LEMMA JobTyped ==
  ASSUME NEW j \in Job
  PROVE  /\ \A x \in {"none", "waiting", "active", "done", "failed"} :
              [j EXCEPT !.state = x] \in Job
         /\ Stalled(j) \in Job
<1> USE NotificationsAssumption DEF Job
<1>1. \A x \in {"none", "waiting", "active", "done", "failed"} :
        [j EXCEPT !.state = x] \in Job
  OBVIOUS
<1>2. CASE j.stalls < MaxStalls
  <2>1. j.stalls + 1 \in 0..MaxStalls
    BY <1>2
  <2> QED
    BY <2>1, <1>1, <1>2 DEF Stalled
<1>3. CASE ~(j.stalls < MaxStalls)
  BY <1>1, <1>3 DEF Stalled
<1> QED
  BY <1>1, <1>2, <1>3

LEMMA NoNoteZero == 0 \notin Notes
BY NotificationsAssumption DEF Notes

LEMMA BusyIsNotIdle ==
  /\ \A c \in Worker : c # Idle /\ (c.step = "idle" => c.note = 0) => c.step # "idle"
  /\ Idle.step = "idle" /\ Idle.note = 0
BY DEF Worker, Idle

LEMMA StepsTyped ==
  /\ Idle \in Call /\ Idle \in Worker
  /\ \A n \in Notes :
       /\ \A x \in {"enqueue", "markRead", "delete"} :
            [step |-> x, note |-> n] \in Call
       /\ \A x \in {"findDevices", "multicast", "finish"} :
            [step |-> x, note |-> n] \in Worker
BY NotificationsAssumption DEF Idle, Call, Worker, Notes

-----------------------------------------------------------------------------
LEMMA InitIInv == Init => IInv
<1>1. Init => NotificationsTypeOK
  BY NotificationsAssumption, StepsTyped
  DEF Init, NotificationsTypeOK, Row, Presence, Job
<1>2. Init => PushedAreMarked /\ PushedOncePerAttempt /\ WorkInv
  BY NotificationsAssumption
  DEF Init, Idle, PushedAreMarked, PushedOncePerAttempt, WorkInv, WorkersInv,
      HandlersInv, JobsInv
<1> QED
  BY <1>1, <1>2 DEF IInv

\* Every step leaves the values in their types.
LEMMA TypeStep ==
  ASSUME NotificationsTypeOK, WorkInv, [Next]_vars
  PROVE  NotificationsTypeOK'
<1>1. ASSUME NEW k \in Calls, NEW n \in Notes, NEW u \in Users, Send(k, u, n)
      PROVE  NotificationsTypeOK'
  <2>1. [row |-> "unread", to |-> u, delivered |-> FALSE] \in Row
    BY DEF Row, Presence
  <2>2. note' \in [Notes -> Row]
    BY <1>1, <2>1 DEF Send, NotificationsTypeOK
  <2>3. call' \in [Calls -> Call]
    BY <1>1, StepsTyped DEF Send, Begin, NotificationsTypeOK
  <2> QED
    BY <1>1, <2>2, <2>3 DEF Send, NotificationsTypeOK
<1>2. ASSUME NEW k \in Calls, NEW n \in Notes, NEW step \in {"markRead", "delete"},
             FindOne(k, n, step)
      PROVE  NotificationsTypeOK'
  BY <1>2, RowTyped, JobTyped, StepsTyped, BusyIsNotIdle
  DEF NotificationsTypeOK, Presence, WorkInv, WorkersInv, HandlersInv,
      FindOne, Begin, Stored
<1>3. ASSUME NEW k \in Calls, Enqueue(k)
      PROVE  NotificationsTypeOK'
  BY <1>3, RowTyped, JobTyped, StepsTyped, BusyIsNotIdle
  DEF NotificationsTypeOK, Presence, WorkInv, WorkersInv, HandlersInv,
      Enqueue, SetJob, Return
<1>4. ASSUME NEW k \in Calls, MarkRead(k)
      PROVE  NotificationsTypeOK'
  BY <1>4, RowTyped, JobTyped, StepsTyped, BusyIsNotIdle
  DEF NotificationsTypeOK, Presence, WorkInv, WorkersInv, HandlersInv,
      MarkRead, SetRow, Marked, Return
<1>5. ASSUME NEW k \in Calls, DeleteOne(k)
      PROVE  NotificationsTypeOK'
  BY <1>5, RowTyped, JobTyped, StepsTyped, BusyIsNotIdle
  DEF NotificationsTypeOK, Presence, WorkInv, WorkersInv, HandlersInv,
      DeleteOne, SetRow, Return
<1>6. ASSUME NEW k \in Calls, Abort(k)
      PROVE  NotificationsTypeOK'
  BY <1>6, RowTyped, JobTyped, StepsTyped, BusyIsNotIdle
  DEF NotificationsTypeOK, Presence, WorkInv, WorkersInv, HandlersInv,
      Abort, Return
<1>7. ASSUME NEW u \in Users, MarkAllRead(u)
      PROVE  NotificationsTypeOK'
  BY <1>7, RowTyped, JobTyped, StepsTyped, BusyIsNotIdle
  DEF NotificationsTypeOK, Presence, WorkInv, WorkersInv, HandlersInv,
      MarkAllRead, Marked
<1>8. ASSUME NEW u \in Users, NEW d \in Devices, UpsertDevice(u, d)
      PROVE  NotificationsTypeOK'
  BY <1>8, RowTyped, JobTyped, StepsTyped, BusyIsNotIdle
  DEF NotificationsTypeOK, Presence, WorkInv, WorkersInv, HandlersInv,
      UpsertDevice
<1>9. ASSUME NEW w \in Workers, NEW n \in Notes, TakePushJob(w, n)
      PROVE  NotificationsTypeOK'
  <2>1. note[n] \in Row /\ pushJob[n] \in Job
    BY DEF NotificationsTypeOK
  <2>2. note' \in [Notes -> Row]
    BY <1>9, <2>1, RowTyped DEF TakePushJob, NotificationsTypeOK
  <2>3. pushJob' \in [Notes -> Job]
    BY <1>9, <2>1, JobTyped DEF TakePushJob, SetJob, NotificationsTypeOK
  <2>4. worker' \in [Workers -> Worker]
    BY <1>9, StepsTyped DEF TakePushJob, WorkerGoes, NotificationsTypeOK
  <2> QED
    BY <1>9, <2>2, <2>3, <2>4 DEF TakePushJob, NotificationsTypeOK
<1>10. ASSUME NEW w \in Workers, FindDevices(w)
      PROVE  NotificationsTypeOK'
  <2>1. worker[w].note \in Notes
    BY <1>10 DEF FindDevices, WorkerAt, WorkInv, WorkersInv
  <2>2. pushJob[worker[w].note] \in Job
    BY <2>1 DEF NotificationsTypeOK
  <2>3. pushJob' \in [Notes -> Job]
    BY <1>10, <2>2, JobTyped DEF FindDevices, SetJob, NotificationsTypeOK
  <2>4. worker' \in [Workers -> Worker]
    BY <1>10, <2>1, StepsTyped
    DEF FindDevices, WorkerGoes, WorkerRests, NotificationsTypeOK
  <2> QED
    BY <1>10, <2>3, <2>4 DEF FindDevices, NotificationsTypeOK
<1>11. ASSUME NEW w \in Workers, Multicast(w)
      PROVE  NotificationsTypeOK'
  <2>1. worker[w].note \in Notes
    BY <1>11 DEF Multicast, WorkerAt, WorkInv, WorkersInv
  <2>2. worker' \in [Workers -> Worker]
    BY <1>11, <2>1, StepsTyped DEF Multicast, WorkerGoes, NotificationsTypeOK
  <2>3. pushes' \in [Notes -> Nat]
    BY <1>11, <2>1 DEF Multicast, NotificationsTypeOK
  <2> QED
    BY <1>11, <2>2, <2>3 DEF Multicast, NotificationsTypeOK
<1>15. ASSUME NEW w \in Workers, FinishJob(w)
       PROVE  NotificationsTypeOK'
  BY <1>15, RowTyped, JobTyped, StepsTyped, BusyIsNotIdle
  DEF NotificationsTypeOK, Presence, WorkInv, WorkersInv, HandlersInv,
      FinishJob, WorkerAt, SetJob, WorkerRests
<1>12. ASSUME NEW w \in Workers, JobFails(w)
      PROVE  NotificationsTypeOK'
  BY <1>12, RowTyped, JobTyped, StepsTyped, BusyIsNotIdle
  DEF NotificationsTypeOK, Presence, WorkInv, WorkersInv, HandlersInv,
      JobFails, WorkerAt, SetJob, WorkerRests
<1>13. ASSUME NEW w \in Workers, WorkerDies(w)
      PROVE  NotificationsTypeOK'
  BY <1>13, RowTyped, JobTyped, StepsTyped, BusyIsNotIdle
  DEF NotificationsTypeOK, Presence, WorkInv, WorkersInv, HandlersInv,
      WorkerDies, Stalled, WorkerRests
<1>14. CASE UNCHANGED vars
  BY <1>14 DEF vars, NotificationsTypeOK, Presence, WorkInv, WorkersInv, HandlersInv
<1> QED
  BY <1>1, <1>2, <1>3, <1>4, <1>5, <1>6, <1>7, <1>8, <1>9, <1>10, <1>11, <1>12,
     <1>13, <1>14, <1>15
  DEF Next, Resume, Work

\* Every step leaves the workers and handlers where they should be.
LEMMA WorkStep ==
  ASSUME NotificationsTypeOK, WorkInv, [Next]_vars
  PROVE  WorkInv'
<1>1. ASSUME NEW k \in Calls, NEW n \in Notes, NEW u \in Users, Send(k, u, n)
      PROVE  WorkInv'
  <2>1. /\ call'[k] = [step |-> "enqueue", note |-> n]
        /\ \A l \in Calls : l # k => call'[l] = call[l]
        /\ UNCHANGED <<worker, pushJob, pushes>>
    BY <1>1 DEF Send, Begin, NotificationsTypeOK
  <2>2. note[n].row = "absent" /\ note'[n].row = "unread"
    BY <1>1 DEF Send, NotificationsTypeOK
  <2>3. \A m \in Notes : m # n => note'[m] = note[m]
    BY <1>1 DEF Send, NotificationsTypeOK
  <2>4. \A l \in Calls : l # k /\ call'[l].step = "enqueue" => call'[l].note # n
    BY <2>1, <2>2 DEF WorkInv, HandlersInv
  <2>5. pushJob[n].state = "none"
    BY <2>2 DEF WorkInv, JobsInv
  <2>6. HandlersInv'
    BY <2>1, <2>2, <2>3, <2>4, <2>5 DEF WorkInv, HandlersInv
  <2>7. WorkersInv' /\ JobsInv'
    BY <2>1, <2>2, <2>3, <2>5 DEF WorkInv, WorkersInv, JobsInv
  <2> QED
    BY <2>6, <2>7 DEF WorkInv
<1>2. ASSUME NEW k \in Calls, NEW n \in Notes, NEW step \in {"markRead", "delete"},
             FindOne(k, n, step)
      PROVE  WorkInv'
  BY <1>2, NoNoteZero, BusyIsNotIdle
  DEF WorkInv, WorkersInv, HandlersInv, JobsInv,
      NotificationsTypeOK, Row, Job, Call, Worker, Idle,
      FindOne, Begin, Stored
<1>3. ASSUME NEW k \in Calls, Enqueue(k)
      PROVE  WorkInv'
  <2>1. WorkersInv'
    BY <1>3, NoNoteZero, BusyIsNotIdle DEF WorkInv, WorkersInv, HandlersInv, JobsInv, NotificationsTypeOK, Row, Job, Worker, Idle,
        Enqueue, SetJob, Return
  <2>2. HandlersInv'
    BY <1>3, NoNoteZero, BusyIsNotIdle DEF WorkInv, WorkersInv, HandlersInv, NotificationsTypeOK, Row, Job, Call, Idle,
        Enqueue, SetJob, Return
  <2>3. JobsInv'
    BY <1>3, NoNoteZero, BusyIsNotIdle DEF WorkInv, WorkersInv, HandlersInv, JobsInv, NotificationsTypeOK, Row, Job,
        Enqueue, SetJob, Return
  <2> QED
    BY <2>1, <2>2, <2>3 DEF WorkInv
<1>4. ASSUME NEW k \in Calls, MarkRead(k)
      PROVE  WorkInv'
  BY <1>4, NoNoteZero, BusyIsNotIdle
  DEF WorkInv, WorkersInv, HandlersInv, JobsInv,
      NotificationsTypeOK, Row, Job, Call, Worker, Idle,
      MarkRead, SetRow, Marked, Return
<1>5. ASSUME NEW k \in Calls, DeleteOne(k)
      PROVE  WorkInv'
  BY <1>5, NoNoteZero, BusyIsNotIdle
  DEF WorkInv, WorkersInv, HandlersInv, JobsInv,
      NotificationsTypeOK, Row, Job, Call, Worker, Idle,
      DeleteOne, SetRow, Return
<1>6. ASSUME NEW k \in Calls, Abort(k)
      PROVE  WorkInv'
  BY <1>6, NoNoteZero, BusyIsNotIdle
  DEF WorkInv, WorkersInv, HandlersInv, JobsInv,
      NotificationsTypeOK, Row, Job, Call, Worker, Idle,
      Abort, Return
<1>7. ASSUME NEW u \in Users, MarkAllRead(u)
      PROVE  WorkInv'
  BY <1>7, NoNoteZero, BusyIsNotIdle
  DEF WorkInv, WorkersInv, HandlersInv, JobsInv,
      NotificationsTypeOK, Row, Job, Call, Worker, Idle,
      MarkAllRead, Marked
<1>8. ASSUME NEW u \in Users, NEW d \in Devices, UpsertDevice(u, d)
      PROVE  WorkInv'
  BY <1>8, NoNoteZero, BusyIsNotIdle
  DEF WorkInv, WorkersInv, HandlersInv, JobsInv,
      NotificationsTypeOK, Row, Job, Call, Worker, Idle,
      UpsertDevice
<1>9. ASSUME NEW w \in Workers, NEW n \in Notes, TakePushJob(w, n)
      PROVE  WorkInv'
  <2>1. CASE MarkDeliveredThrows(n)
    <3>1. /\ pushJob' = [pushJob EXCEPT ![n] = [@ EXCEPT !.state = "failed"]]
          /\ UNCHANGED <<note, worker, call, pushes>>
      BY <1>9, <2>1 DEF TakePushJob, SetJob
    <3>2. pushJob[n].state = "waiting" /\ pushJob'[n].state = "failed"
      BY <1>9, <3>1 DEF TakePushJob, NotificationsTypeOK, Job
    <3> QED
      BY <3>1, <3>2 DEF WorkInv, WorkersInv, HandlersInv, JobsInv
  <2>2. CASE ~MarkDeliveredThrows(n)
    <3>1. /\ worker' = [worker EXCEPT ![w] = [step |-> "findDevices", note |-> n]]
          /\ note' = [note EXCEPT ![n] = Delivered(@)]
          /\ pushJob' = [pushJob EXCEPT ![n] = [@ EXCEPT !.state = "active"]]
          /\ UNCHANGED <<call, pushes>>
      BY <1>9, <2>2 DEF TakePushJob, SetJob, WorkerGoes
    <3>2. pushJob[n].state = "waiting" /\ pushJob'[n].state = "active"
      BY <1>9, <3>1 DEF TakePushJob, NotificationsTypeOK, Job
    <3>3. /\ note'[n].delivered
          /\ \A m \in Notes : note'[m].row = note[m].row
          /\ \A m \in Notes : m # n => note'[m] = note[m] /\ pushJob'[m] = pushJob[m]
      BY <3>1 DEF NotificationsTypeOK, Row, Delivered
    <3>4. worker'[w].step = "findDevices" /\ worker'[w].note = n
      BY <3>1 DEF NotificationsTypeOK
    <3>5. \A v \in Workers : v # w => worker'[v] = worker[v] /\ worker[v].note # n
      BY <3>1, <3>2, NoNoteZero DEF NotificationsTypeOK, WorkInv, WorkersInv
    <3>6. WorkersInv'
      BY <3>2, <3>3, <3>4, <3>5, NoNoteZero DEF WorkInv, WorkersInv
    <3> QED
      BY <3>1, <3>2, <3>3, <3>6 DEF WorkInv, HandlersInv, JobsInv
  <2> QED
    BY <2>1, <2>2
<1>10. ASSUME NEW w \in Workers, FindDevices(w)
      PROVE  WorkInv'
  <2>1. /\ worker[w].step = "findDevices" /\ worker[w].note \in Notes
        /\ pushJob[worker[w].note].state = "active"
    BY <1>10 DEF FindDevices, WorkerAt, WorkInv, WorkersInv
  <2>2. CASE devices[note[worker[w].note].to] = {}
    <3>1. /\ pushJob' = [pushJob EXCEPT ![worker[w].note] = [@ EXCEPT !.state = "done"]]
          /\ worker' = [worker EXCEPT ![w] = Idle]
          /\ UNCHANGED <<note, call, pushes>>
      BY <1>10, <2>2 DEF FindDevices, SetJob, WorkerRests
    <3>2. WorkersInv'
      BY <2>1, <3>1, NoNoteZero, BusyIsNotIdle
      DEF WorkInv, WorkersInv, NotificationsTypeOK, Job
    <3>3. HandlersInv' /\ JobsInv'
      BY <2>1, <3>1 DEF WorkInv, HandlersInv, JobsInv, NotificationsTypeOK, Job
    <3> QED
      BY <3>2, <3>3 DEF WorkInv
  <2>3. CASE devices[note[worker[w].note].to] # {}
    <3>1. /\ worker' = [worker EXCEPT ![w] = [step |-> "multicast", note |-> worker[w].note]]
          /\ UNCHANGED <<note, pushJob, pushes, call>>
      BY <1>10, <2>3 DEF FindDevices, WorkerGoes
    <3>2. /\ \A v \in Workers : worker'[v].note = worker[v].note
          /\ \A v \in Workers : worker'[v].step = "idle" <=> worker[v].step = "idle"
      BY <3>1, <2>1 DEF NotificationsTypeOK
    <3> QED
      BY <3>1, <3>2 DEF WorkInv, WorkersInv, HandlersInv, JobsInv
  <2> QED
    BY <2>2, <2>3
<1>11. ASSUME NEW w \in Workers, Multicast(w)
      PROVE  WorkInv'
  <2>1. /\ worker[w].step # "idle" /\ worker[w].note \in Notes
        /\ pushJob[worker[w].note].state = "active"
    BY <1>11 DEF Multicast, WorkerAt, WorkInv, WorkersInv
  <2>2. /\ worker' = [worker EXCEPT ![w] = [step |-> "finish", note |-> worker[w].note]]
        /\ UNCHANGED <<note, pushJob, call>>
        /\ \A n \in Notes : n # worker[w].note => pushes'[n] = pushes[n]
    BY <1>11 DEF Multicast, WorkerGoes, NotificationsTypeOK
  <2>3. /\ \A v \in Workers : worker'[v].note = worker[v].note
        /\ \A v \in Workers : worker'[v].step = "idle" <=> worker[v].step = "idle"
    BY <2>1, <2>2 DEF NotificationsTypeOK
  <2> QED
    BY <2>1, <2>2, <2>3 DEF WorkInv, WorkersInv, HandlersInv, JobsInv
<1>15. ASSUME NEW w \in Workers, FinishJob(w)
       PROVE  WorkInv'
  <2>1. WorkersInv'
    BY <1>15, NoNoteZero, BusyIsNotIdle DEF WorkInv, WorkersInv, HandlersInv, JobsInv, NotificationsTypeOK, Row, Job, Worker, Idle,
        FinishJob, WorkerAt, SetJob, WorkerRests
  <2>2. HandlersInv'
    BY <1>15, NoNoteZero, BusyIsNotIdle DEF WorkInv, WorkersInv, HandlersInv, NotificationsTypeOK, Row, Job, Call, Idle,
        FinishJob, WorkerAt, SetJob, WorkerRests
  <2>3. JobsInv'
    BY <1>15, NoNoteZero, BusyIsNotIdle DEF WorkInv, WorkersInv, HandlersInv, JobsInv, NotificationsTypeOK, Row, Job,
        FinishJob, WorkerAt, SetJob, WorkerRests
  <2> QED
    BY <2>1, <2>2, <2>3 DEF WorkInv
<1>12. ASSUME NEW w \in Workers, JobFails(w)
      PROVE  WorkInv'
  <2>1. WorkersInv'
    BY <1>12, NoNoteZero, BusyIsNotIdle DEF WorkInv, WorkersInv, HandlersInv, JobsInv, NotificationsTypeOK, Row, Job, Worker, Idle,
        JobFails, WorkerAt, SetJob, WorkerRests
  <2>2. HandlersInv'
    BY <1>12, NoNoteZero, BusyIsNotIdle DEF WorkInv, WorkersInv, HandlersInv, NotificationsTypeOK, Row, Job, Call, Idle,
        JobFails, WorkerAt, SetJob, WorkerRests
  <2>3. JobsInv'
    BY <1>12, NoNoteZero, BusyIsNotIdle DEF WorkInv, WorkersInv, HandlersInv, JobsInv, NotificationsTypeOK, Row, Job,
        JobFails, WorkerAt, SetJob, WorkerRests
  <2> QED
    BY <2>1, <2>2, <2>3 DEF WorkInv
<1>13. ASSUME NEW w \in Workers, WorkerDies(w)
      PROVE  WorkInv'
  <2>1. WorkersInv'
    BY <1>13, NoNoteZero, BusyIsNotIdle DEF WorkInv, WorkersInv, HandlersInv, JobsInv, NotificationsTypeOK, Row, Job, Worker, Idle,
        WorkerDies, Stalled, WorkerRests
  <2>2. HandlersInv'
    BY <1>13, NoNoteZero, BusyIsNotIdle DEF WorkInv, WorkersInv, HandlersInv, NotificationsTypeOK, Row, Job, Call, Idle,
        WorkerDies, Stalled, WorkerRests
  <2>3. JobsInv'
    BY <1>13, NoNoteZero, BusyIsNotIdle DEF WorkInv, WorkersInv, HandlersInv, JobsInv, NotificationsTypeOK, Row, Job,
        WorkerDies, Stalled, WorkerRests
  <2> QED
    BY <2>1, <2>2, <2>3 DEF WorkInv
<1>14. CASE UNCHANGED vars
  BY <1>14 DEF vars, WorkInv, WorkersInv, HandlersInv, JobsInv,
      NotificationsTypeOK, Row, Job, Call, Worker, Idle
<1> QED
  BY <1>1, <1>2, <1>3, <1>4, <1>5, <1>6, <1>7, <1>8, <1>9, <1>10, <1>11, <1>12,
     <1>13, <1>14, <1>15
  DEF Next, Resume, Work

\* Nothing is pushed that was not, no mark is taken back, and no job forgets that
\* it was tried.
Keeps(n) ==
  /\ pushes'[n] = pushes[n]
  /\ pushes[n] > 0 /\ note[n].delivered => note'[n].delivered
  /\ \/ pushJob'[n].stalls = pushJob[n].stalls /\ (RanThrough(n) => RanThrough(n)')
     \/ pushJob'[n].stalls = pushJob[n].stalls + 1

LEMMA HandlersKeep ==
  ASSUME IInv, UNCHANGED <<pushes, worker>>, NEW n \in Notes,
         pushes[n] > 0 /\ note[n].delivered => note'[n].delivered,
         pushJob'[n] = pushJob[n] \/
           (pushJob[n].state = "none" /\ pushJob'[n].stalls = pushJob[n].stalls)
  PROVE  Keeps(n)
<1>1. ASSUME pushJob[n].state = "none" PROVE ~RanThrough(n)
  BY <1>1 DEF RanThrough, IInv, WorkInv, WorkersInv, WorkerAt
<1>2. ASSUME pushJob'[n] = pushJob[n] PROVE RanThrough(n) => RanThrough(n)'
  BY <1>2 DEF RanThrough, WorkerAt
<1> QED
  BY <1>1, <1>2 DEF Keeps

LEMMA KeptPushes ==
  ASSUME IInv, \A n \in Notes : Keeps(n)
  PROVE  (PushedAreMarked /\ PushedOncePerAttempt)'
<1> SUFFICES ASSUME NEW n \in Notes
             PROVE  /\ pushes'[n] > 0 => note'[n].delivered
                    /\ pushes'[n] <= pushJob'[n].stalls + IF RanThrough(n)' THEN 1 ELSE 0
  BY DEF PushedAreMarked, PushedOncePerAttempt
<1>1. pushes[n] \in Nat /\ pushJob[n].stalls \in Nat
  BY NotificationsAssumption DEF IInv, NotificationsTypeOK, Job
<1>2. /\ pushes[n] > 0 => note[n].delivered
      /\ pushes[n] <= pushJob[n].stalls + IF RanThrough(n) THEN 1 ELSE 0
  BY DEF IInv, PushedAreMarked, PushedOncePerAttempt
<1>3. Keeps(n)
  OBVIOUS
<1> QED
  BY <1>1, <1>2, <1>3 DEF Keeps

\* Every step leaves the pushes within the marks and the attempts.
LEMMA PushStep ==
  ASSUME IInv, [Next]_vars
  PROVE  (PushedAreMarked /\ PushedOncePerAttempt)'
<1> USE DEF IInv
<1>1. ASSUME NEW k \in Calls,
             \/ \E n \in Notes, u \in Users : Send(k, u, n)
             \/ \E n \in Notes, step \in {"markRead", "delete"} : FindOne(k, n, step)
             \/ Resume(k) \/ Abort(k)
      PROVE  \A n \in Notes : Keeps(n)
  <2>1. UNCHANGED <<pushes, worker>>
    BY <1>1 DEF Send, FindOne, Resume, Enqueue, MarkRead, DeleteOne, Abort
  <2>2. \A n \in Notes : pushes[n] > 0 /\ note[n].delivered => note'[n].delivered
    <3>1. ASSUME NEW m \in Notes, NEW u \in Users, Send(k, u, m)
          PROVE  \A n \in Notes : pushes[n] > 0 /\ note[n].delivered => note'[n].delivered
      BY <3>1 DEF Send, NotificationsTypeOK, WorkInv, JobsInv
    <3>2. ASSUME MarkRead(k) \/ DeleteOne(k)
          PROVE  \A n \in Notes : pushes[n] > 0 /\ note[n].delivered => note'[n].delivered
      BY <3>2 DEF MarkRead, DeleteOne, SetRow, Marked, NotificationsTypeOK, Row
    <3>3. ASSUME NEW m \in Notes, NEW step \in {"markRead", "delete"}, FindOne(k, m, step)
          PROVE  note' = note
      BY <3>3 DEF FindOne
    <3>4. ASSUME Enqueue(k) \/ Abort(k)
          PROVE  note' = note
      BY <3>4 DEF Enqueue, Abort
    <3> QED
      BY <1>1, <3>1, <3>2, <3>3, <3>4 DEF Resume
  <2>3. \A n \in Notes : pushJob'[n] = pushJob[n] \/
          (pushJob[n].state = "none" /\ pushJob'[n].stalls = pushJob[n].stalls)
    <3>1. CASE Enqueue(k)
      BY <3>1 DEF Enqueue, SetJob, NotificationsTypeOK, Job, WorkInv, HandlersInv
    <3>2. CASE ~Enqueue(k)
      BY <1>1, <3>2 DEF Send, FindOne, Resume, MarkRead, DeleteOne, Abort
    <3> QED
      BY <3>1, <3>2
  <2> QED
    BY <2>1, <2>2, <2>3, HandlersKeep
<1>2. ASSUME NEW u \in Users, MarkAllRead(u) \/ \E d \in Devices : UpsertDevice(u, d)
      PROVE  \A n \in Notes : Keeps(n)
  <2>1. UNCHANGED <<pushes, worker, pushJob>>
    BY <1>2 DEF MarkAllRead, UpsertDevice
  <2>2. \A n \in Notes : note[n].delivered => note'[n].delivered
    BY <1>2 DEF MarkAllRead, UpsertDevice, Marked, NotificationsTypeOK, Row
  <2> QED
    BY <2>1, <2>2, HandlersKeep
<1>3. ASSUME NEW w \in Workers, NEW m \in Notes, TakePushJob(w, m)
      PROVE  \A n \in Notes : Keeps(n)
  <2>1. /\ pushes' = pushes
        /\ \A n \in Notes : note[n].delivered => note'[n].delivered
        /\ \A n \in Notes : pushJob'[n].stalls = pushJob[n].stalls
        /\ \A n \in Notes : n # m => pushJob'[n].state = pushJob[n].state
        /\ pushJob[m].state = "waiting"
        /\ \A v \in Workers \ {w} : worker'[v] = worker[v]
        /\ worker[w].step = "idle"
    <3>1. /\ pushes' = pushes
          /\ pushJob[m].state = "waiting"
          /\ worker[w].step = "idle"
          /\ \A v \in Workers \ {w} : worker'[v] = worker[v]
      BY <1>3 DEF TakePushJob, WorkerGoes, Idle, NotificationsTypeOK
    <3>2. \A n \in Notes : note[n].delivered => note'[n].delivered
      BY <1>3 DEF TakePushJob, Delivered, NotificationsTypeOK, Row
    <3>3. /\ \A n \in Notes : pushJob'[n].stalls = pushJob[n].stalls
          /\ \A n \in Notes : n # m => pushJob'[n].state = pushJob[n].state
      <4>1. \E state \in {"active", "failed"} :
              pushJob' = [pushJob EXCEPT ![m] = [@ EXCEPT !.state = state]]
        <5>1. CASE MarkDeliveredThrows(m)
          BY <1>3, <5>1 DEF TakePushJob, SetJob
        <5>2. CASE ~MarkDeliveredThrows(m)
          BY <1>3, <5>2 DEF TakePushJob, SetJob
        <5> QED
          BY <5>1, <5>2
      <4> QED
        BY <4>1 DEF NotificationsTypeOK, Job
    <3> QED
      BY <3>1, <3>2, <3>3
  <2>2. ~RanThrough(m)
    BY <2>1 DEF RanThrough, WorkInv, WorkersInv, WorkerAt
  <2>3. \A n \in Notes : RanThrough(n) => RanThrough(n)'
    BY <2>1, <2>2 DEF RanThrough, WorkerAt
  <2> QED
    BY <2>1, <2>3 DEF Keeps
<1>4. ASSUME NEW w \in Workers, FindDevices(w) \/ JobFails(w) \/ FinishJob(w)
      PROVE  \A n \in Notes : Keeps(n)
  <2>1. /\ UNCHANGED <<pushes, note>>
        /\ \A v \in Workers \ {w} : worker'[v] = worker[v]
        /\ worker[w].note \in Notes
        /\ worker[w].step \in {"findDevices", "finish"}
    BY <1>4 DEF FindDevices, JobFails, FinishJob, WorkerAt, WorkerGoes, WorkerRests,
                NotificationsTypeOK, WorkInv, WorkersInv
  <2>2. \/ pushJob' = pushJob /\ worker[w].step = "findDevices"
        \/ \E state \in {"done", "failed"} :
             pushJob' = [pushJob EXCEPT ![worker[w].note] = [@ EXCEPT !.state = state]]
    BY <1>4 DEF FindDevices, JobFails, FinishJob, WorkerAt, SetJob
  <2>3. \A n \in Notes : pushJob'[n].stalls = pushJob[n].stalls
    BY <2>1, <2>2 DEF NotificationsTypeOK, Job
  <2>4. \A n \in Notes : RanThrough(n) => RanThrough(n)'
    BY <2>1, <2>2 DEF RanThrough, WorkerAt, NotificationsTypeOK, Job
  <2> QED
    BY <2>1, <2>3, <2>4 DEF Keeps
<1>5. ASSUME NEW w \in Workers, WorkerDies(w)
      PROVE  \A n \in Notes : Keeps(n)
  <2>1. /\ UNCHANGED <<pushes, note>>
        /\ \A v \in Workers \ {w} : worker'[v] = worker[v]
        /\ worker[w].note \in Notes
        /\ pushJob' = [pushJob EXCEPT ![worker[w].note] = Stalled(@)]
    BY <1>5, BusyIsNotIdle DEF WorkerDies, WorkerRests, NotificationsTypeOK, WorkInv, WorkersInv
  <2>2. \A n \in Notes : n # worker[w].note =>
          pushJob'[n] = pushJob[n] /\ (RanThrough(n) => RanThrough(n)')
    BY <2>1 DEF RanThrough, WorkerAt, NotificationsTypeOK
  <2>m. PICK m \in Notes : m = worker[w].note
    BY <2>1
  <2>3. \/ pushJob'[m].stalls = pushJob[m].stalls + 1
        \/ (pushJob'[m].stalls = pushJob[m].stalls /\ pushJob'[m].state = "failed")
    <3>1. m \in Notes /\ pushJob[m] \in Job
      BY DEF NotificationsTypeOK
    <3>2. pushJob'[m] = Stalled(pushJob[m])
      BY <2>1, <2>m DEF NotificationsTypeOK
    <3>3. CASE pushJob[m].stalls < MaxStalls
      BY <3>1, <3>2, <3>3 DEF Stalled, Job
    <3>4. CASE ~(pushJob[m].stalls < MaxStalls)
      BY <3>1, <3>2, <3>4 DEF Stalled, Job
    <3> QED
      BY <3>3, <3>4
  <2>4. Keeps(m)
    BY <2>1, <2>3 DEF Keeps, RanThrough
  <2>5. \A n \in Notes : n # m => Keeps(n)
    BY <2>1, <2>2, <2>m DEF Keeps
  <2> QED
    BY <2>4, <2>5
<1>6. ASSUME NEW w \in Workers, Multicast(w)
      PROVE  (PushedAreMarked /\ PushedOncePerAttempt)'
  <2>m. PICK m \in Notes : m = worker[w].note
    BY <1>6 DEF Multicast, WorkerAt, WorkInv, WorkersInv
  <2>1. /\ m \in Notes /\ note[m].delivered /\ pushJob[m].state = "active"
        /\ worker[w].step = "multicast"
        /\ \A v \in Workers : worker[v].note = m => v = w
    BY <1>6, <2>m DEF Multicast, WorkerAt, WorkInv, WorkersInv
  <2>2. /\ UNCHANGED <<note, pushJob>>
        /\ worker' = [worker EXCEPT ![w] = [step |-> "finish", note |-> m]]
        /\ \E sent \in 0..1 : pushes' = [pushes EXCEPT ![m] = @ + sent]
    BY <1>6, <2>m DEF Multicast, WorkerGoes
  <2>3. ~RanThrough(m) /\ RanThrough(m)'
    BY <2>1, <2>2 DEF RanThrough, WorkerAt, NotificationsTypeOK
  <2>4. \A n \in Notes : n # m => (RanThrough(n) => RanThrough(n)')
    BY <2>1, <2>2 DEF RanThrough, WorkerAt, NotificationsTypeOK
  <2>5. \A n \in Notes : n # m => pushes'[n] = pushes[n]
    BY <2>2 DEF NotificationsTypeOK
  <2>6. pushes'[m] <= pushes[m] + 1
    BY <2>1, <2>2 DEF NotificationsTypeOK
  <2>7. PushedAreMarked'
    BY <2>1, <2>2, <2>5 DEF PushedAreMarked
  <2>8. \A n \in Notes : pushes[n] \in Nat /\ pushJob[n].stalls \in Nat /\ pushes'[n] \in Nat
    <3>1. NotificationsTypeOK'
      BY TypeStep
    <3> QED
      BY <3>1, NotificationsAssumption DEF NotificationsTypeOK, Job
  <2>9. PushedOncePerAttempt'
    <3> SUFFICES ASSUME NEW n \in Notes
                 PROVE  pushes'[n] <= pushJob[n].stalls + IF RanThrough(n)' THEN 1 ELSE 0
      BY <2>2 DEF PushedOncePerAttempt
    <3>1. pushes[n] <= pushJob[n].stalls + IF RanThrough(n) THEN 1 ELSE 0
      BY DEF PushedOncePerAttempt
    <3>2. CASE n = m
      <4>1. (IF RanThrough(n) THEN 1 ELSE 0) = 0
        BY <3>2, <2>3
      <4>2. (IF RanThrough(n)' THEN 1 ELSE 0) = 1
        BY <3>2, <2>3
      <4>3. pushes'[n] <= pushes[n] + 1
        BY <3>2, <2>6
      <4> QED
        BY <3>1, <4>1, <4>2, <4>3, <2>8
    <3>3. CASE n # m
      <4>1. pushes'[n] = pushes[n]
        BY <3>3, <2>5
      <4>2. (IF RanThrough(n) THEN 1 ELSE 0) <= (IF RanThrough(n)' THEN 1 ELSE 0)
        BY <3>3, <2>4
      <4> QED
        BY <3>1, <4>1, <4>2, <2>8
    <3> QED
      BY <3>2, <3>3
  <2> QED
    BY <2>7, <2>9
<1>7. CASE UNCHANGED vars
  BY <1>7, HandlersKeep, KeptPushes DEF vars
<1> QED
  BY <1>1, <1>2, <1>3, <1>4, <1>5, <1>6, <1>7, KeptPushes DEF Next, Work

\* The strengthened invariant: PushedAreMarked and PushedOncePerAttempt with what
\* they lean on, for any number of users, handlers and push workers.
THEOREM NotificationsInvariant == Spec => []IInv
<1>1. IInv /\ [Next]_vars => IInv'
  BY TypeStep, WorkStep, PushStep DEF IInv
<1> QED
  BY InitIInv, <1>1, PTL DEF Spec

\* Delivery tracking never misses a push that was made.
THEOREM PushesAreMarked == Spec => []PushedAreMarked
BY NotificationsInvariant, PTL DEF IInv

\* One push, and one more for every worker that died at it.
THEOREM PushesAreCounted == Spec => []PushedOncePerAttempt
BY NotificationsInvariant, PTL DEF IInv

\* Type correctness.
THEOREM NotificationsTyped == Spec => []NotificationsTypeOK
BY NotificationsInvariant, PTL DEF IInv

-----------------------------------------------------------------------------
\* A deleted notification that no worker is at stays deleted and unpushed.
LEMMA SilentStep ==
  ASSUME IInv, [Next]_vars, NEW n \in Notes,
         note[n].row = "deleted", ~Attended(n)
  PROVE  note'[n].row = "deleted" /\ ~Attended(n)' /\ pushes'[n] = pushes[n]
<1>1. ASSUME NEW k \in Calls, NEW m \in Notes, NEW u \in Users, Send(k, u, m)
      PROVE  note'[n].row = "deleted" /\ ~Attended(n)' /\ pushes'[n] = pushes[n]
  BY <1>1, NoNoteZero, BusyIsNotIdle
  DEF Attended, IInv, NotificationsTypeOK, WorkInv, WorkersInv, Row,
      Send, Begin
<1>2. ASSUME NEW k \in Calls, NEW m \in Notes, NEW step \in {"markRead", "delete"},
             FindOne(k, m, step)
      PROVE  note'[n].row = "deleted" /\ ~Attended(n)' /\ pushes'[n] = pushes[n]
  BY <1>2, NoNoteZero, BusyIsNotIdle
  DEF Attended, IInv, NotificationsTypeOK, WorkInv, WorkersInv, Row,
      FindOne, Begin, Stored
<1>3. ASSUME NEW k \in Calls, Enqueue(k)
      PROVE  note'[n].row = "deleted" /\ ~Attended(n)' /\ pushes'[n] = pushes[n]
  BY <1>3, NoNoteZero, BusyIsNotIdle
  DEF Attended, IInv, NotificationsTypeOK, WorkInv, WorkersInv, Row,
      Enqueue, SetJob, Return
<1>4. ASSUME NEW k \in Calls, MarkRead(k)
      PROVE  note'[n].row = "deleted" /\ ~Attended(n)' /\ pushes'[n] = pushes[n]
  BY <1>4, NoNoteZero, BusyIsNotIdle
  DEF Attended, IInv, NotificationsTypeOK, WorkInv, WorkersInv, Row,
      MarkRead, SetRow, Marked, Return
<1>5. ASSUME NEW k \in Calls, DeleteOne(k)
      PROVE  note'[n].row = "deleted" /\ ~Attended(n)' /\ pushes'[n] = pushes[n]
  BY <1>5, NoNoteZero, BusyIsNotIdle
  DEF Attended, IInv, NotificationsTypeOK, WorkInv, WorkersInv, Row,
      DeleteOne, SetRow, Return
<1>6. ASSUME NEW k \in Calls, Abort(k)
      PROVE  note'[n].row = "deleted" /\ ~Attended(n)' /\ pushes'[n] = pushes[n]
  BY <1>6, NoNoteZero, BusyIsNotIdle
  DEF Attended, IInv, NotificationsTypeOK, WorkInv, WorkersInv, Row,
      Abort, Return
<1>7. ASSUME NEW u \in Users, MarkAllRead(u)
      PROVE  note'[n].row = "deleted" /\ ~Attended(n)' /\ pushes'[n] = pushes[n]
  BY <1>7, NoNoteZero, BusyIsNotIdle
  DEF Attended, IInv, NotificationsTypeOK, WorkInv, WorkersInv, Row,
      MarkAllRead, Marked
<1>8. ASSUME NEW u \in Users, NEW d \in Devices, UpsertDevice(u, d)
      PROVE  note'[n].row = "deleted" /\ ~Attended(n)' /\ pushes'[n] = pushes[n]
  BY <1>8, NoNoteZero, BusyIsNotIdle
  DEF Attended, IInv, NotificationsTypeOK, WorkInv, WorkersInv, Row,
      UpsertDevice
<1>9. ASSUME NEW w \in Workers, NEW m \in Notes, TakePushJob(w, m)
      PROVE  note'[n].row = "deleted" /\ ~Attended(n)' /\ pushes'[n] = pushes[n]
  <2>1. CASE m = n
    BY <1>9, <2>1 DEF TakePushJob, MarkDeliveredThrows, Stored, Attended
  <2>2. CASE m # n
    <3>1. pushes' = pushes /\ note'[n] = note[n]
      BY <1>9, <2>2 DEF TakePushJob, IInv, NotificationsTypeOK
    <3>2. \A v \in Workers : worker'[v] = worker[v] \/ worker'[v].note = m
      BY <1>9 DEF TakePushJob, WorkerGoes, IInv, NotificationsTypeOK
    <3> QED
      BY <2>2, <3>1, <3>2 DEF Attended
  <2> QED
    BY <2>1, <2>2
<1>10. ASSUME NEW w \in Workers, FindDevices(w)
      PROVE  note'[n].row = "deleted" /\ ~Attended(n)' /\ pushes'[n] = pushes[n]
  BY <1>10, NoNoteZero, BusyIsNotIdle
  DEF Attended, IInv, NotificationsTypeOK, WorkInv, WorkersInv, Row,
      FindDevices, WorkerAt, SetJob, WorkerRests, WorkerGoes
<1>11. ASSUME NEW w \in Workers, Multicast(w)
      PROVE  note'[n].row = "deleted" /\ ~Attended(n)' /\ pushes'[n] = pushes[n]
  BY <1>11, NoNoteZero, BusyIsNotIdle
  DEF Attended, IInv, NotificationsTypeOK, WorkInv, WorkersInv, Row,
      Multicast, WorkerAt, WorkerGoes
<1>15. ASSUME NEW w \in Workers, FinishJob(w)
       PROVE  note'[n].row = "deleted" /\ ~Attended(n)' /\ pushes'[n] = pushes[n]
  BY <1>15, NoNoteZero, BusyIsNotIdle
  DEF Attended, IInv, NotificationsTypeOK, WorkInv, WorkersInv, Row,
      FinishJob, WorkerAt, SetJob, WorkerRests
<1>12. ASSUME NEW w \in Workers, JobFails(w)
      PROVE  note'[n].row = "deleted" /\ ~Attended(n)' /\ pushes'[n] = pushes[n]
  BY <1>12, NoNoteZero, BusyIsNotIdle
  DEF Attended, IInv, NotificationsTypeOK, WorkInv, WorkersInv, Row,
      JobFails, WorkerAt, SetJob, WorkerRests
<1>13. ASSUME NEW w \in Workers, WorkerDies(w)
      PROVE  note'[n].row = "deleted" /\ ~Attended(n)' /\ pushes'[n] = pushes[n]
  BY <1>13, NoNoteZero, BusyIsNotIdle
  DEF Attended, IInv, NotificationsTypeOK, WorkInv, WorkersInv, Row,
      WorkerDies, Stalled, WorkerRests
<1>14. CASE UNCHANGED vars
  BY <1>14 DEF vars, Attended
<1> QED
  BY <1>1, <1>2, <1>3, <1>4, <1>5, <1>6, <1>7, <1>8, <1>9, <1>10, <1>11, <1>12,
     <1>13, <1>14, <1>15
  DEF Next, Resume, Work

\* What the user deleted before a worker took it up is not pushed any more.
THEOREM DeletedSilence == Spec => DeletedStaysSilent
<1>1. IInv /\ [Next]_vars =>
        [\A n \in Notes : note[n].row = "deleted" /\ ~Attended(n)
           => note'[n].row = "deleted" /\ ~Attended(n)' /\ pushes'[n] = pushes[n]]_vars
  BY SilentStep
<1> QED
  BY <1>1, NotificationsInvariant, PTL DEF DeletedStaysSilent, Spec

-----------------------------------------------------------------------------
(* The feed.                                                               *)

FeedRows(u) == {n \in Notes : Stored(n) /\ note[n].to = u}

\* The ORDER BY of the feed is one: it lists the user's rows, each once, unread
\* rows first and then the newest.
LEMMA FeedListed ==
  ASSUME NotificationsTypeOK, NEW u \in Users
  PROVE  /\ Feed(u) \in SetToSeqs(FeedRows(u))
         /\ \A i, j \in 1..Len(Feed(u)) : i < j => Before(Feed(u)[i], Feed(u)[j])
         /\ IsFiniteSet(FeedRows(u))
<1>0. PICK S : S = FeedRows(u)
  OBVIOUS
<1>1. IsFiniteSet(S)
  <2>1. S \in SUBSET (1..MaxNotes) /\ 1 \in Int /\ MaxNotes \in Int
    BY <1>0, NotificationsAssumption DEF FeedRows, Notes
  <2>2. IsFiniteSet(1..MaxNotes)
    BY <2>1, FS_Interval
  <2> QED
    BY <2>1, <2>2, FS_Subset
<1>2. PICK R : R = {pair \in Notes \X Notes : Before(pair[1], pair[2])}
  OBVIOUS
<1>3. S \subseteq Notes /\ \A m, n \in S : <<m, n>> \in R <=> Before(m, n)
  BY <1>0, <1>2 DEF FeedRows
<1>4. \A n \in S : n \in Int /\ note[n].row \in {"unread", "read"}
  BY <1>0, NotificationsAssumption DEF FeedRows, Stored, Notes
<1>5. Orders(R, S)
  <2>1. ASSUME NEW m \in S, NEW n \in S, m # n
        PROVE  Before(m, n) \/ Before(n, m)
    <3>1. m > n \/ n > m
      BY <1>4, <2>1
    <3> QED
      BY <1>4, <3>1 DEF Before
  <2>2. ASSUME NEW l \in S, NEW m \in S, NEW n \in S, Before(l, m), Before(m, n)
        PROVE  Before(l, n)
    <3>1. l > m /\ m > n => l > n
      BY <1>4
    <3> QED
      BY <1>4, <2>2, <3>1 DEF Before
  <2> QED
    BY <1>3, <2>1, <2>2, Zenon DEF Orders
<1>6. \A n \in S : <<n, n>> \notin R
  <2>1. \A n \in S : ~(n > n)
    BY <1>4
  <2> QED
    BY <1>3, <2>1, Zenon DEF Before
<1>7. PICK list \in SetToSeqs(S) :
        \A i, j \in 1..Len(list) : i < j => <<list[i], list[j]>> \in R
  BY <1>1, <1>5, <1>6, OrderedListExists
<1>8. ASSUME NEW i \in 1..Len(list), NEW j \in 1..Len(list), i < j
      PROVE  Before(list[i], list[j])
  <2>1. list \in Seq(S)
    BY <1>1, ListsOfSet
  <2> QED
    BY <1>3, <1>7, <1>8, <2>1, ElementOfSeq
<1>9. Feed(u) = CHOOSE l \in SetToSeqs(S) :
                  \A i, j \in 1..Len(l) : i < j => Before(l[i], l[j])
  BY <1>0, Zenon DEF Feed, Listed, FeedRows
<1> QED
  BY <1>0, <1>1, <1>7, <1>8, <1>9, Zenon

\* The badge counts the unread head of the feed.
LEMMA UnreadHead ==
  ASSUME NotificationsTypeOK, NEW u \in Users
  PROVE  /\ \A i \in 1..Len(Feed(u)) :
              note[Feed(u)[i]].row = "unread" <=> i <= UnreadCount(u)
         /\ UnreadCount(u) <= Len(Feed(u))
<1>1. PICK S, feed, n : S = FeedRows(u) /\ feed = Feed(u) /\ n = Len(Feed(u))
  OBVIOUS
<1>2. /\ feed \in SetToSeqs(S) /\ IsFiniteSet(S)
      /\ \A i, j \in 1..n : i < j => Before(feed[i], feed[j])
  BY <1>1, FeedListed
<1>3. /\ feed \in Seq(S) /\ n \in Nat
      /\ \A i, j \in 1..n : feed[i] = feed[j] => i = j
      /\ \A x \in S : \E i \in 1..n : feed[i] = x
      /\ \A i \in 1..n : feed[i] \in S
  BY <1>1, <1>2, ListsOfSet, ElementOfSeq
<1>4. PICK I : I = {i \in 1..n : note[feed[i]].row = "unread"}
  OBVIOUS
<1>5. PICK U : U = {m \in Notes : note[m].row = "unread" /\ note[m].to = u}
  OBVIOUS
<1>6. I = 1..Cardinality(I) /\ Cardinality(I) \in Nat /\ Cardinality(I) <= n
  <2>1. I \in SUBSET (1..n)
    BY <1>4
  <2>2. ASSUME NEW i \in I, NEW j \in 1..n, j < i
        PROVE  j \in I
    <3>1. Before(feed[j], feed[i]) /\ note[feed[i]].row = "unread"
      BY <1>2, <1>4, <2>2
    <3> QED
      BY <1>4, <3>1 DEF Before
  <2> QED
    BY <1>3, <2>1, <2>2, InitialSegment
<1>7. PICK f : f = [i \in I |-> feed[i]]
  OBVIOUS
<1>8. f \in Bijection(I, U)
  <2>1. \A i \in I : i \in 1..n /\ feed[i] \in U
    <3>1. \A x \in S : x \in Notes /\ note[x].to = u
      BY <1>1 DEF FeedRows
    <3> QED
      BY <1>3, <1>4, <1>5, <3>1
  <2>2. f \in [I -> U]
    BY <1>7, <2>1
  <2>3. \A i, j \in I : f[i] = f[j] => i = j
    BY <1>3, <1>7, <2>1
  <2>4. ASSUME NEW x \in U
        PROVE  \E i \in I : f[i] = x
    <3>1. x \in S
      BY <1>1, <1>5 DEF FeedRows, Stored
    <3>2. PICK i \in 1..n : feed[i] = x
      BY <1>3, <3>1
    <3>3. i \in I
      BY <1>4, <1>5, <3>2
    <3> QED
      BY <1>7, <3>2, <3>3
  <2> QED
    BY <2>2, <2>3, <2>4 DEF Bijection, Injection, Surjection, IsInjective
<1>9. Cardinality(U) = Cardinality(I)
  <2>1. 1 \in Int /\ n \in Int /\ I \in SUBSET (1..n)
    BY <1>3, <1>4
  <2>2. IsFiniteSet(1..n)
    BY <2>1, FS_Interval
  <2>3. IsFiniteSet(I) /\ ExistsBijection(I, U)
    BY <1>8, <2>1, <2>2, FS_Subset DEF ExistsBijection
  <2> QED
    BY <2>3, FS_Bijection
<1>10. UnreadCount(u) = Cardinality(U)
  BY <1>5 DEF UnreadCount
<1>11. PICK c : c = Cardinality(I)
  OBVIOUS
<1>12. \A i \in 1..n : note[feed[i]].row = "unread" <=> i <= c
  <2>1. c \in Nat /\ I = 1..c
    BY <1>6, <1>11
  <2>2. \A i \in 1..n : i \in 1..c <=> i <= c
    BY <2>1
  <2>3. \A i \in 1..n : i \in I <=> note[feed[i]].row = "unread"
    BY <1>4
  <2> QED
    BY <2>1, <2>2, <2>3
<1> QED
  BY <1>1, <1>6, <1>9, <1>10, <1>11, <1>12

\* Whatever page size a client asks for, the pages of a feed are the feed.
LEMMA FeedPages ==
  ASSUME NotificationsTypeOK, NEW u \in Users, NEW limit \in Int
  PROVE  Feed(u) = FlattenSeq([p \in 1..GetNotifications(u, 1, limit).totalPages
                                 |-> GetNotifications(u, p, limit).notifications])
<1>1. PICK S, feed : S = FeedRows(u) /\ feed = Feed(u)
  OBVIOUS
<1>2. feed \in Seq(S)
  BY <1>1, FeedListed, ListsOfSet
<1>3. FlattenSeq([p \in 1..TotalPages(Len(feed), limit) |-> PageRows(feed, p, limit)]) = feed
  BY <1>2, PagesFlatten
<1>4. \A p : GetNotifications(u, p, limit).notifications = PageRows(feed, p, limit)
  BY <1>1 DEF GetNotifications
<1>5. GetNotifications(u, 1, limit).totalPages = TotalPages(Len(feed), limit)
  BY <1>1 DEF GetNotifications
<1> QED
  BY <1>1, <1>3, <1>4, <1>5

\* However many rows are sent, read, and deleted in whatever order, the badge,
\* the head of the feed and its pages agree.
THEOREM FeedsAreConsistent == Spec => []FeedIsConsistent
<1>1. NotificationsTypeOK => FeedIsConsistent
  <2> SUFFICES ASSUME NotificationsTypeOK, NEW u \in Users
               PROVE  /\ \A i \in 1..Len(Feed(u)) :
                           note[Feed(u)[i]].row = "unread" <=> i <= UnreadCount(u)
                      /\ UnreadCount(u) <= Len(Feed(u))
                      /\ \A limit \in 0..2 :
                           Feed(u) = FlattenSeq(
                             [p \in 1..GetNotifications(u, 1, limit).totalPages
                                |-> GetNotifications(u, p, limit).notifications])
    BY Zenon DEF FeedIsConsistent
  <2>1. \A limit \in 0..2 : limit \in Int
    OBVIOUS
  <2> QED
    BY <2>1, UnreadHead, FeedPages, Zenon
<1> QED
  BY <1>1, NotificationsTyped, PTL
=============================================================================
