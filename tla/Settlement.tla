----------------------------- MODULE Settlement -----------------------------
(***************************************************************************)
(* What happens to a completed ride: RideCompletionProcessor records the   *)
(* payment and counts the ride for both users, and TrustScoreProcessor     *)
(* recalculates their scores.                                              *)
(*                                                                         *)
(* Each server process runs one worker per queue, and a worker one job at  *)
(* a time (BullMQ's default concurrency).  As in module Rides, an action   *)
(* is the code between two awaits, a job is tried once, and a job that was *)
(* running when its server died is handed out again.                       *)
(*                                                                         *)
(* Rides are seen from here as far as this code reads them: the status,    *)
(* which changes as module RideCompletion allows, and the two parties of a *)
(* ride once it is completed, who are constants because module Rides shows *)
(* that a completed ride has them and keeps them while it is completed.    *)
(* What is read of a ride later, whatever its status, is read for whoever  *)
(* the row may name by then (Seatings).                                    *)
(***************************************************************************)
EXTENDS RideRules, RideCompletion, TrustScore, FiniteSetsExt, Functions

CONSTANTS
  Party,      \* who drives and who travels when the ride is completed
  Fare,       \* what each ride costs
  Known,      \* users with a user_stats row from earlier rides
  Servers,    \* server processes
  NoRide,     \* ride of a worker without a job
  MaxStalls,  \* BullMQ's maxStalledCount
  Failures    \* TRUE: database and queue calls may throw, servers may die

ASSUME SettlementAssumption ==
  /\ IsFiniteSet(Users) /\ IsFiniteSet(Rides) /\ IsFiniteSet(Servers)
  /\ Party \in [Rides -> [Side -> Users]]
  /\ \A r \in Rides : Party[r]["rider"] # Party[r]["passenger"]
  /\ Fare \in [Rides -> Nat]
  /\ Known \subseteq Users
  /\ NoRide \notin Rides
  /\ MaxJobs \in Nat \ {0}
  /\ MaxStalls \in Nat
  /\ Overlap \in BOOLEAN
  /\ Failures \in BOOLEAN

VARIABLES
  payments,  \* table payments: rows per ride
  stats,     \* table user_stats
  trustJob,  \* queue trust-score: waiting jobs by user and stalls
  settler,   \* what each server's completion worker is at
  scorer     \* what each server's trust-score worker is at

settlementVars == <<status, job, payments, stats, trustJob, settler, scorer>>

Stalls == 0..MaxStalls
Job == [state  : {"none", "waiting", "active", "done", "skipped", "failed"},
        stalls : Stalls]

Settler == [step : {"idle", "findPayment", "createPayment", "count", "addTrust"},
            ride : Rides \cup {NoRide},
            no   : JobNo,
            left : SUBSET Side]  \* sides the current step has yet to serve
NoSettler == [step |-> "idle", ride |-> NoRide, no |-> 1, left |-> Side]

Scorer == [user : MaybeUser, stalls : Stalls, score : Int]
NoScorer == [user |-> NoUser, stalls |-> 0, score |-> 0]

\* A user who is known from earlier times has travelled once and has no ratings.
StatsBefore(u) ==
  IF u \in Known THEN [Counted(NoStats, 0) EXCEPT !.trust = 51] ELSE NoStats

SettlementInit ==
  /\ CompletionInit
  /\ payments = [r \in Rides |-> 0]
  /\ stats = [u \in Users |-> StatsBefore(u)]
  /\ trustJob = [w \in Users \X Stalls |-> 0]
  /\ settler = [s \in Servers |-> NoSettler]
  /\ scorer = [s \in Servers |-> NoScorer]

-----------------------------------------------------------------------------
(* Module Rides.                                                           *)

RideEnds(r) ==
  RideCompletes(r) /\ UNCHANGED <<payments, stats, trustJob, settler, scorer>>

-----------------------------------------------------------------------------
(* RideCompletionProcessor.                                                *)

JobState(r, n, state) ==
  job' = [job EXCEPT ![r][n].state = state]

\* The job is taken and the ride is read.
TakeCompletionJob(s, r, n) ==
  /\ settler[s] = NoSettler
  /\ job[r][n].state = "waiting"
  /\ IF status[r] = "COMPLETED"
     THEN /\ JobState(r, n, "active")
          /\ settler' = [settler EXCEPT ![s] =
               [NoSettler EXCEPT !.step = "findPayment", !.ride = r, !.no = n]]
     ELSE /\ JobState(r, n, "skipped")
          /\ UNCHANGED settler
  /\ UNCHANGED <<status, payments, stats, trustJob, scorer>>

SettlerAt(s, step) == settler[s].step = step
SettlerNext(s, step) == settler' = [settler EXCEPT ![s] = [@ EXCEPT !.step = step]]

AfterFindingSlip(n) == "createPayment"
AfterFindingStale(n) == IF n = 0 THEN "createPayment" ELSE "addTrust"
AfterFinding(n) == IF n = 0 THEN "createPayment" ELSE "count"

FindPayment(s) ==
  /\ SettlerAt(s, "findPayment")
  /\ SettlerNext(s, AfterFinding(payments[settler[s].ride]))
  /\ UNCHANGED <<status, job, payments, stats, trustJob, scorer>>

CreatePayment(s) ==
  /\ SettlerAt(s, "createPayment")
  /\ payments' = [payments EXCEPT ![settler[s].ride] = @ + 1]
  /\ SettlerNext(s, "count")
  /\ UNCHANGED <<status, job, stats, trustJob, scorer>>

EarningSlip(r, side) == Fare[r]
Earning(r, side) == IF side = "rider" THEN Fare[r] ELSE 0

\* One of the two upserts that are awaited together.
CountRide(s, side) ==
  LET w == settler[s]
      u == Party[w.ride][side]
  IN  /\ w.step = "count"
      /\ side \in w.left
      /\ stats' = [stats EXCEPT ![u] = Counted(@, Earning(w.ride, side))]
      /\ settler' = [settler EXCEPT ![s] =
           IF w.left = {side} THEN [w EXCEPT !.step = "addTrust", !.left = Side]
           ELSE [w EXCEPT !.left = @ \ {side}]]
      /\ UNCHANGED <<status, job, payments, trustJob, scorer>>

\* One of the two jobs that are added together; the last ends this job.
AddTrustJob(s, side) ==
  LET w == settler[s]
      u == Party[w.ride][side]
  IN  /\ w.step = "addTrust"
      /\ side \in w.left
      /\ trustJob' = [trustJob EXCEPT ![<<u, 0>>] = @ + 1]
      /\ IF w.left = {side}
         THEN /\ JobState(w.ride, w.no, "done")
              /\ settler' = [settler EXCEPT ![s] = NoSettler]
         ELSE /\ settler' = [settler EXCEPT ![s] = [w EXCEPT !.left = @ \ {side}]]
              /\ UNCHANGED job
      /\ UNCHANGED <<status, payments, stats, scorer>>

-----------------------------------------------------------------------------
(* TrustScoreProcessor.                                                    *)

\* The job is taken, the row is read and the score computed from it.
TakeTrustJob(s, u, k) ==
  /\ scorer[s] = NoScorer
  /\ trustJob[<<u, k>>] > 0
  /\ trustJob' = [trustJob EXCEPT ![<<u, k>>] = @ - 1]
  /\ scorer' = [scorer EXCEPT ![s] =
       IF stats[u].known
       THEN [user |-> u, stalls |-> k, score |-> Score(stats[u])]
       ELSE NoScorer]
  /\ UNCHANGED <<status, job, payments, stats, settler>>

WriteScore(s) ==
  /\ scorer[s] # NoScorer
  /\ stats' = [stats EXCEPT ![scorer[s].user] = Scored(@, scorer[s].score)]
  /\ scorer' = [scorer EXCEPT ![s] = NoScorer]
  /\ UNCHANGED <<status, job, payments, trustJob, settler>>

-----------------------------------------------------------------------------
(* Failures.                                                               *)

\* A call of the completion worker throws.  The two upserts, and the two jobs,
\* are started together: one that commits after the other has thrown is the
\* behaviour where it commits first.
CompletionJobFails(s) ==
  /\ Failures
  /\ settler[s] # NoSettler
  /\ JobState(settler[s].ride, settler[s].no, "failed")
  /\ settler' = [settler EXCEPT ![s] = NoSettler]
  /\ UNCHANGED <<status, payments, stats, trustJob, scorer>>

TrustJobFails(s) ==
  /\ Failures
  /\ scorer[s] # NoScorer
  /\ scorer' = [scorer EXCEPT ![s] = NoScorer]
  /\ UNCHANGED <<status, job, payments, stats, trustJob, settler>>

\* The jobs a dead server was running start over from the beginning, or fail
\* when they have stalled too often.
StalledCompletionSlip(j) == j
StalledCompletion(j) ==
  IF j.stalls < MaxStalls THEN [state |-> "waiting", stalls |-> j.stalls + 1]
  ELSE [j EXCEPT !.state = "failed"]

Crash(s) ==
  /\ Failures
  /\ job' = [r \in Rides |-> [n \in JobNo |->
               IF settler[s].ride = r /\ settler[s].no = n
               THEN StalledCompletion(job[r][n]) ELSE job[r][n]]]
  /\ trustJob' = [w \in Users \X Stalls |->
       IF w = <<scorer[s].user, scorer[s].stalls + 1>> THEN trustJob[w] + 1
       ELSE trustJob[w]]
  /\ settler' = [settler EXCEPT ![s] = NoSettler]
  /\ scorer' = [scorer EXCEPT ![s] = NoScorer]
  /\ UNCHANGED <<status, payments, stats>>

-----------------------------------------------------------------------------
Settle(s) ==
  \/ \E r \in Rides, n \in JobNo : TakeCompletionJob(s, r, n)
  \/ FindPayment(s)
  \/ CreatePayment(s)
  \/ \E side \in Side : CountRide(s, side) \/ AddTrustJob(s, side)

ScoreUser(s) ==
  \/ \E u \in Users, k \in Stalls : TakeTrustJob(s, u, k)
  \/ WriteScore(s)

Fail(s) == CompletionJobFails(s) \/ TrustJobFails(s) \/ Crash(s)

SettlementNext ==
  \/ \E r \in Rides : RideEnds(r)
  \/ \E s \in Servers : Settle(s) \/ ScoreUser(s) \/ Fail(s)

SettlementSpec == SettlementInit /\ [][SettlementNext]_settlementVars

\* The workers poll their queues; a client need never confirm.
SettlementFairness ==
  \A s \in Servers :
    WF_settlementVars(Settle(s)) /\ WF_settlementVars(ScoreUser(s))

FairSettlementSpec == SettlementSpec /\ SettlementFairness

-----------------------------------------------------------------------------
(* What holds however confirmations, workers and failures interleave.      *)

\* Values stay in their types, and a user_stats row that does not exist yet
\* has nothing in it.
SettlementTypeOK ==
  /\ status \in [Rides -> Status]
  /\ job \in [Rides -> [JobNo -> Job]]
  /\ payments \in [Rides -> Nat]
  /\ stats \in [Users -> UserStats]
  /\ \A u \in Users : stats[u].known \/ stats[u] = NoStats
  /\ trustJob \in [Users \X Stalls -> Nat]
  /\ settler \in [Servers -> Settler]
  /\ scorer \in [Servers -> Scorer]

DrivenBy(u) == {r \in Rides : Party[r]["rider"] = u}
RidesOf(u) == {r \in Rides : \E side \in Side : Party[r][side] = u}
Done(r) == \E n \in JobNo : job[r][n].state = "done"

\* Settlement loses nothing: a ride whose completion job is done has been paid
\* and is among the completed rides of both its users, whatever the other
\* jobs, stalled ones included, did to the same rows.
SettledRidesAreCounted ==
  /\ \A r \in Rides : Done(r) => payments[r] > 0
  /\ \A u \in Users : stats[u].rides >=
       StatsBefore(u).rides + Cardinality({r \in RidesOf(u) : Done(r)})

\* How often the processor has begun to work on job n of ride r.
Attempts(r, n) ==
  job[r][n].stalls
    + IF job[r][n].state \in {"active", "done", "failed"} THEN 1 ELSE 0

AllAttempts == [r \in Rides |-> SumFunction([n \in JobNo |-> Attempts(r, n)])]

\* ... and invents nothing: each attempt at a job counts the ride at most once
\* for each user and earns the driver its fare at most once.  With one job per
\* ride and no stalls this and SettledRidesAreCounted make the tally exact.
CountedOncePerAttempt ==
  \A u \in Users :
    /\ stats[u].rides <=
         StatsBefore(u).rides + SumFunctionOnSet(AllAttempts, RidesOf(u))
    /\ stats[u].earned <=
         SumFunctionOnSet([r \in Rides |-> Fare[r] * AllAttempts[r]], DrivenBy(u))

(* What users read of the payments.                                        *)

Taken == [r \in Rides |-> payments[r] * Fare[r]]

\* The users riderId and passengerId may name now: a write over the completed ride
\* may have been an acceptance that came late, with another counterpart.
Seatings ==
  {on \in [Rides -> [Side -> Users]] : \A r \in Rides :
     /\ on[r]["rider"] # on[r]["passenger"]
     /\ status[r] # "OVERWRITTEN" => on[r] = Party[r]}

\* getRiderEarnings, of all times: payments are joined with the rides as they are
\* now, whatever their status.
DrivenNow(on, u) == {r \in Rides : on[r]["rider"] = u}

RiderEarningsSlip(on, u) ==
  LET rides == {r \in Rides : \E side \in Side : on[r][side] = u}
  IN  [totalEarnings  |-> SumFunctionOnSet(Taken, rides),
       completedRides |-> SumFunctionOnSet(payments, rides)]
RiderEarnings(on, u) ==
  [totalEarnings  |-> SumFunctionOnSet(Taken, DrivenNow(on, u)),
   completedRides |-> SumFunctionOnSet(payments, DrivenNow(on, u))]

\* getPaymentByRide: whether the user gets an answer.
PaymentByRide(on, u, r) == (\E side \in Side : on[r][side] = u) /\ payments[r] > 0

\* countByPayer, which is how many rows getMyPayments pages through: the payer of a
\* payment is recorded in it.
PaymentsBy(u) ==
  SumFunctionOnSet(payments, {r \in Rides : Party[r]["passenger"] = u})

\* The books: as long as nothing overwrites the completed ride, its driver is shown
\* the fare once it is settled and both parties find the payment; whatever
\* overwrites it, nobody is shown a payment for a ride that was never completed,
\* and what drivers are shown to have been paid is what passengers are shown to
\* have paid.  (A late acceptance over a settled REQUEST shows the first driver's
\* fare to the second: the payment of a ride counts for the driver of today.)
BooksBalance ==
  \A on \in Seatings :
    /\ \A u \in Users :
         LET shown == RiderEarnings(on, u)
             settled == {r \in DrivenBy(u) : Done(r) /\ status[r] # "OVERWRITTEN"}
         IN  /\ Cardinality(settled) <= shown.completedRides
             /\ shown.completedRides
                  <= Cardinality({r \in DrivenNow(on, u) : status[r] # "IN_PROGRESS"})
             /\ SumFunctionOnSet(Fare, settled) <= shown.totalEarnings
    /\ \A r \in Rides, side \in Side :
         Done(r) /\ status[r] # "OVERWRITTEN" => PaymentByRide(on, Party[r][side], r)
    /\ SumFunction([u \in Users |-> RiderEarnings(on, u).completedRides])
         = SumFunction([u \in Users |-> PaymentsBy(u)])

\* GET /payments/ride/:rideId takes the first payment of a ride to be the only
\* one.  With a single server it is: findFirst and create are two awaits, but
\* the worker runs one job at a time and a job that starts over looks again.
OnePaymentPerRide == \A r \in Rides : payments[r] <= 1

-----------------------------------------------------------------------------
(* What must happen.                                                       *)

\* A completion job does not stay in the queue for ever, whatever crashes.
CompletionJobEnds ==
  \A r \in Rides, n \in JobNo :
    job[r][n].state = "waiting"
      ~> job[r][n].state \in {"done", "skipped", "failed"}

=============================================================================
