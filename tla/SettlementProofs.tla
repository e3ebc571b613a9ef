-------------------------- MODULE SettlementProofs --------------------------
(***************************************************************************)
(* Proofs about module Settlement, for any finite number of rides, users,  *)
(* servers and jobs: the tally of a user's rides lies between the rides    *)
(* whose settlement is done and the attempts that were made at settling    *)
(* them, and with a single server each ride is paid for once and the books *)
(* of drivers and passengers agree.                                        *)
(***************************************************************************)
EXTENDS Settlement, Counting

Busy(s) == settler[s].step # "idle"

\* A worker is at an active job of its own, of a ride that was completed; it
\* counts no ride before it is paid, and scores nobody without statistics.
SettlerOK(s) ==
  LET w == settler[s]
  IN  /\ w.step = "idle" => w = NoSettler
      /\ w.step # "idle" =>
           /\ w.ride \in Rides
           /\ job[w.ride][w.no].state = "active"
           /\ status[w.ride] # "IN_PROGRESS"
      /\ w.step \in {"findPayment", "createPayment"} => w.left = Side
      /\ w.step \in {"count", "addTrust"} => payments[w.ride] > 0

ScorerOK(s) == scorer[s].user \in Users => stats[scorer[s].user].known

OwnJobs ==
  \A s, t \in Servers :
    /\ Busy(s) /\ Busy(t)
    /\ settler[s].ride = settler[t].ride /\ settler[s].no = settler[t].no
    => s = t

WorkersOK ==
  /\ SettlementTypeOK
  /\ \A s \in Servers : SettlerOK(s) /\ ScorerOK(s)
  /\ OwnJobs
  /\ \A r \in Rides :
       /\ Done(r) => payments[r] > 0
       /\ payments[r] > 0 => status[r] # "IN_PROGRESS"

\* The worker of s has counted its ride for u, or has yet to.
HasCounted(s, u) ==
  LET w == settler[s]
  IN  \/ w.step = "addTrust" /\ w.ride \in RidesOf(u)
      \/ w.step = "count" /\ \E side \in Side \ w.left : Party[w.ride][side] = u
YetToCount(s, u) ==
  LET w == settler[s]
  IN  /\ w.step \in {"findPayment", "createPayment", "count"}
      /\ \E side \in w.left : Party[w.ride][side] = u

CountedFor(u) ==
  {r \in RidesOf(u) : Done(r) \/ \E s \in Servers : settler[s].ride = r /\ HasCounted(s, u)}

NoneLost ==
  \A u \in Users : stats[u].rides >= StatsBefore(u).rides + Cardinality(CountedFor(u))

\* What the workers have yet to add to the tally and to the earnings of u.
FareOf(s, u) ==
  IF /\ settler[s].step \in {"findPayment", "createPayment", "count"}
     /\ "rider" \in settler[s].left
     /\ Party[settler[s].ride]["rider"] = u
  THEN Fare[settler[s].ride] ELSE 0
RidesDue(u) == [s \in Servers |-> One(YetToCount(s, u))]
FareDue(u) == [s \in Servers |-> FareOf(s, u)]

FareAttempts == [r \in Rides |-> Fare[r] * AllAttempts[r]]

NoneInvented ==
  \A u \in Users :
    /\ stats[u].rides + SumFunctionOnSet(RidesDue(u), Servers)
         <= StatsBefore(u).rides + SumFunctionOnSet(AllAttempts, RidesOf(u))
    /\ stats[u].earned + SumFunctionOnSet(FareDue(u), Servers)
         <= SumFunctionOnSet(FareAttempts, DrivenBy(u))

\* With a single server.
PaidOnce ==
  /\ OnePaymentPerRide
  /\ \A s \in Servers : settler[s].step = "createPayment" => payments[settler[s].ride] = 0

-----------------------------------------------------------------------------
(* Types.                                                                  *)

\* A step of this module, or none.
Step ==
  \/ \E r \in Rides : RideEnds(r)
  \/ \E s \in Servers : Settle(s) \/ ScoreUser(s) \/ Fail(s)
  \/ UNCHANGED settlementVars

LEMMA StatsTypes ==
  ASSUME NEW st \in UserStats
  PROVE  /\ \A fare \in Nat : Counted(st, fare) \in UserStats /\ Counted(st, fare).known
         /\ \A n \in Nat, m \in Nat : Averaged(st, n, m) \in UserStats
         /\ \A score \in Int : Scored(st, score) \in UserStats
         /\ \A n, m : Averaged(st, n, m).known = st.known
         /\ \A score : Scored(st, score).known = st.known
         /\ Score(st) \in Int
  <1>1. Score(st) \in Int
    <2>1. RatingBonus(st) \in Int
      <3>1. CASE st.ratings = 0
        BY <3>1 DEF RatingBonus
      <3>2. CASE st.ratings # 0
        <4>1. st.ratings \in Nat \ {0} /\ st.stars \in Nat
          BY <3>2 DEF UserStats
        <4> DEFINE num == 10 * (st.stars - 3 * st.ratings)
        <4>2. num \in Int
          BY <4>1
        <4> HIDE DEF num
        <4>3. 2 * num + st.ratings \in Int /\ 2 * st.ratings \in Nat \ {0}
          BY <4>1, <4>2
        <4>4. (2 * num + st.ratings) \div (2 * st.ratings) \in Int
          BY <4>3
        <4> QED
          BY <3>2, <4>4 DEF RatingBonus, Round, num
      <3> QED
        BY <3>1, <3>2
    <2>2. RideBonus(st) \in Int /\ CancellationPenalty(st) \in Int
      BY DEF RideBonus, CancellationPenalty, AtMost, UserStats
    <2> QED
      BY <2>1, <2>2 DEF Score, AtMost, AtLeast
  <1>2. ASSUME NEW fare \in Nat
        PROVE  Counted(st, fare) \in UserStats /\ Counted(st, fare).known
    <2>1. Counted(st, fare) = [st EXCEPT !.known = TRUE, !.rides = st.rides + 1,
                                         !.earned = st.earned + fare]
      BY DEF Counted, UserStats
    <2>2. st.rides + 1 \in Nat /\ st.earned + fare \in Nat
      BY DEF UserStats
    <2>3. \A n \in Nat, m \in Nat :
            [st EXCEPT !.known = TRUE, !.rides = n, !.earned = m] \in UserStats
      BY DEF UserStats
    <2>4. Counted(st, fare).known
      BY DEF Counted, UserStats
    <2> QED
      BY <2>1, <2>2, <2>3, <2>4
  <1>3. ASSUME NEW n \in Nat, NEW m \in Nat
        PROVE  Averaged(st, n, m) \in UserStats
    BY DEF Averaged, UserStats
  <1>4. ASSUME NEW score \in Int
        PROVE  Scored(st, score) \in UserStats
    BY DEF Scored, UserStats
  <1>5. \A n, m : Averaged(st, n, m).known = st.known
    BY DEF Averaged, UserStats
  <1>6. \A score : Scored(st, score).known = st.known
    BY DEF Scored, UserStats
  <1> QED
    BY <1>1, <1>2, <1>3, <1>4, <1>5, <1>6

LEMMA StatsBeforeType ==
  ASSUME NEW u \in Users
  PROVE  /\ StatsBefore(u) \in UserStats
         /\ StatsBefore(u).known \/ StatsBefore(u) = NoStats
         /\ StatsBefore(u).earned = 0 /\ StatsBefore(u).ratings = 0 /\ StatsBefore(u).stars = 0
         /\ StatsBefore(u).rides \in Nat
         /\ StatsBefore(u).known <=> u \in Known
  <1>1. NoStats \in UserStats
    BY DEF NoStats, UserStats
  <1>2. CASE u \in Known
    <2> DEFINE st == Counted(NoStats, 0)
    <2>1. st \in UserStats /\ st.known
      BY <1>1, StatsTypes
    <2>2. st.earned = 0 /\ st.ratings = 0 /\ st.stars = 0
      BY DEF Counted, NoStats
    <2>3. StatsBefore(u) = [st EXCEPT !.trust = 51]
      BY <1>2 DEF StatsBefore
    <2> HIDE DEF st
    <2>4. /\ [st EXCEPT !.trust = 51] \in UserStats
          /\ [st EXCEPT !.trust = 51].known
      BY <2>1 DEF UserStats
    <2>5. LET new == [st EXCEPT !.trust = 51]
          IN  new.earned = 0 /\ new.ratings = 0 /\ new.stars = 0
      BY <2>1, <2>2 DEF UserStats
    <2> QED
      BY <1>2, <2>3, <2>4, <2>5 DEF UserStats
  <1>3. CASE u \notin Known
    BY <1>1, <1>3 DEF StatsBefore, NoStats
  <1> QED
    BY <1>2, <1>3

\* What the workers' steps take for granted of the types.
LEMMA WorkerTypes ==
  ASSUME WorkersOK, NEW s \in Servers
  PROVE  /\ settler[s] \in Settler
         /\ settler[s].left \subseteq Side
         /\ settler[s].no \in JobNo
         /\ settler[s].step # "idle" =>
              /\ settler[s].ride \in Rides
              /\ \A side \in Side : Party[settler[s].ride][side] \in Users
              /\ Fare[settler[s].ride] \in Nat
  BY SettlementAssumption DEF WorkersOK, SettlementTypeOK, SettlerOK, Settler

LEMMA SettlementTypes ==
  ASSUME SettlementTypeOK, \A s \in Servers : ScorerOK(s),
         \A s \in Servers : settler[s].step # "idle" => settler[s].ride \in Rides,
         Step
  PROVE  SettlementTypeOK'
  <1> USE SettlementAssumption
  <1>1. /\ status \in [Rides -> Status]
        /\ job \in [Rides -> [JobNo -> Job]]
        /\ payments \in [Rides -> Nat]
        /\ stats \in [Users -> UserStats]
        /\ \A u \in Users : stats[u].known \/ stats[u] = NoStats
        /\ trustJob \in [Users \X Stalls -> Nat]
        /\ settler \in [Servers -> Settler]
        /\ scorer \in [Servers -> Scorer]
    BY DEF SettlementTypeOK
  <1>2. 1 \in JobNo /\ 0 \in Stalls /\ NoSettler \in Settler /\ NoScorer \in Scorer
    BY DEF JobNo, Stalls, NoSettler, NoScorer, Settler, Scorer, MaybeUser
  <1>3. ASSUME NEW r \in Rides, NEW n \in JobNo,
               NEW state \in {"waiting", "active", "done", "skipped", "failed"}
        PROVE  [job EXCEPT ![r][n].state = state] \in [Rides -> [JobNo -> Job]]
    <2>1. job[r] \in [JobNo -> Job] /\ job[r][n] \in Job
      BY <1>1
    <2>2. [job[r][n] EXCEPT !.state = state] \in Job
      BY <2>1 DEF Job
    <2> QED
      BY <1>1, <2>1, <2>2
  <1>4. ASSUME NEW s \in Servers,
               NEW step \in {"findPayment", "createPayment", "count", "addTrust"},
               NEW left \in SUBSET Side
        PROVE  /\ [settler[s] EXCEPT !.step = step] \in Settler
               /\ [settler[s] EXCEPT !.left = left] \in Settler
               /\ [settler[s] EXCEPT !.step = step, !.left = left] \in Settler
    <2>1. settler[s] \in Settler
      BY <1>1
    <2>2. [settler[s] EXCEPT !.step = step] \in Settler
      BY <2>1 DEF Settler
    <2>3. [settler[s] EXCEPT !.left = left] \in Settler
      BY <2>1 DEF Settler
    <2>4. [settler[s] EXCEPT !.step = step, !.left = left] \in Settler
      BY <2>1 DEF Settler
    <2> QED
      BY <2>2, <2>3, <2>4
  <1>5. ASSUME NEW r \in Rides, RideEnds(r)
        PROVE  SettlementTypeOK'
    <2>1. CASE ConfirmRide(r) \/ OverwriteStatus(r)
      <3>1. status' \in [Rides -> Status]
        BY <1>1, <2>1 DEF ConfirmRide, OverwriteStatus, Status
      <3> QED
        BY <1>1, <1>5, <2>1, <3>1 DEF RideEnds, ConfirmRide, OverwriteStatus, SettlementTypeOK
    <2>2. CASE AddCompletionJob(r)
      <3>1. PICK n \in JobNo : job' = [job EXCEPT ![r][n].state = "waiting"]
        BY <2>2 DEF AddCompletionJob
      <3>2. job' \in [Rides -> [JobNo -> Job]]
        BY <1>3, <3>1
      <3> QED
        BY <1>1, <1>5, <2>2, <3>2 DEF RideEnds, AddCompletionJob, SettlementTypeOK
    <2> QED
      BY <1>5, <2>1, <2>2 DEF RideEnds, RideCompletes
  <1>6. ASSUME NEW s \in Servers, NEW r \in Rides, NEW n \in JobNo, TakeCompletionJob(s, r, n)
        PROVE  SettlementTypeOK'
    <2>1. job' \in [Rides -> [JobNo -> Job]]
      <3>1. PICK state \in {"active", "skipped"} : job' = [job EXCEPT ![r][n].state = state]
        BY <1>6 DEF TakeCompletionJob, JobState
      <3> QED
        BY <1>3, <3>1
    <2>2. [NoSettler EXCEPT !.step = "findPayment", !.ride = r, !.no = n] \in Settler
      BY <1>2 DEF Settler, NoSettler
    <2>3. settler' \in [Servers -> Settler]
      BY <1>1, <1>6, <2>2 DEF TakeCompletionJob
    <2> QED
      BY <1>1, <1>6, <2>1, <2>3 DEF TakeCompletionJob, SettlementTypeOK
  <1>7. ASSUME NEW s \in Servers, FindPayment(s)
        PROVE  SettlementTypeOK'
    <2>1. AfterFinding(payments[settler[s].ride]) \in {"count", "createPayment"}
      BY DEF AfterFinding
    <2>2. settler' \in [Servers -> Settler]
      BY <1>1, <1>4, <1>7, <2>1 DEF FindPayment, SettlerNext
    <2> QED
      BY <1>1, <1>7, <2>2 DEF FindPayment, SettlementTypeOK
  <1>8. ASSUME NEW s \in Servers, CreatePayment(s)
        PROVE  SettlementTypeOK'
    <2>1. settler' \in [Servers -> Settler]
      BY <1>1, <1>4, <1>8 DEF CreatePayment, SettlerNext
    <2>2. payments' \in [Rides -> Nat]
      <3>1. payments[settler[s].ride] + 1 \in Nat
        BY <1>1, <1>8 DEF CreatePayment, SettlerAt
      <3> QED
        BY <1>1, <1>8, <3>1 DEF CreatePayment
    <2> QED
      BY <1>1, <1>8, <2>1, <2>2 DEF CreatePayment, SettlementTypeOK
  <1>9. ASSUME NEW s \in Servers, NEW side \in Side, CountRide(s, side)
        PROVE  SettlementTypeOK'
    <2> DEFINE w == settler[s]
               u == Party[w.ride][side]
    <2>1. w.step = "count" /\ w.ride \in Rides /\ u \in Users
      BY <1>9 DEF CountRide
    <2>2. Earning(w.ride, side) \in Nat
      BY <2>1 DEF Earning
    <2>3. /\ Counted(stats[u], Earning(w.ride, side)) \in UserStats
          /\ Counted(stats[u], Earning(w.ride, side)).known
      BY <1>1, <2>1, <2>2, StatsTypes
    <2>4. /\ stats' \in [Users -> UserStats]
          /\ \A v \in Users : stats'[v].known \/ stats'[v] = NoStats
      BY <1>1, <1>9, <2>1, <2>3 DEF CountRide
    <2>5. w.left \ {side} \in SUBSET Side
      BY <1>1 DEF Settler
    <2>6. settler' \in [Servers -> Settler]
      BY <1>1, <1>4, <1>9, <2>5 DEF CountRide
    <2> QED
      BY <1>1, <1>9, <2>4, <2>6 DEF CountRide, SettlementTypeOK
  <1>10. ASSUME NEW s \in Servers, NEW side \in Side, AddTrustJob(s, side)
         PROVE  SettlementTypeOK'
    <2> DEFINE w == settler[s]
               u == Party[w.ride][side]
    <2>1. w.step = "addTrust" /\ w.ride \in Rides /\ w.no \in JobNo /\ u \in Users
      BY <1>1, <1>10 DEF AddTrustJob, Settler
    <2>2. trustJob' \in [Users \X Stalls -> Nat]
      BY <1>1, <1>2, <1>10, <2>1 DEF AddTrustJob
    <2>3. job' \in [Rides -> [JobNo -> Job]]
      <3>1. job' = [job EXCEPT ![w.ride][w.no].state = "done"] \/ job' = job
        BY <1>10 DEF AddTrustJob, JobState
      <3>2. [job EXCEPT ![w.ride][w.no].state = "done"] \in [Rides -> [JobNo -> Job]]
        BY <1>3, <2>1
      <3> QED
        BY <1>1, <3>1, <3>2
    <2>4. w.left \ {side} \in SUBSET Side
      BY <1>1 DEF Settler
    <2>5. settler' \in [Servers -> Settler]
      <3>1. \/ settler' = [settler EXCEPT ![s] = NoSettler]
            \/ settler' = [settler EXCEPT ![s] = [w EXCEPT !.left = @ \ {side}]]
        BY <1>10 DEF AddTrustJob
      <3>2. [w EXCEPT !.left = @ \ {side}] \in Settler
        BY <1>4, <2>4
      <3> QED
        BY <1>1, <1>2, <3>1, <3>2
    <2> QED
      BY <1>1, <1>10, <2>2, <2>3, <2>5 DEF AddTrustJob, SettlementTypeOK
  <1>11. ASSUME NEW s \in Servers, NEW u \in Users, NEW k \in Stalls, TakeTrustJob(s, u, k)
         PROVE  SettlementTypeOK'
    <2>1. trustJob' \in [Users \X Stalls -> Nat]
      BY <1>1, <1>11 DEF TakeTrustJob
    <2>2. [user |-> u, stalls |-> k, score |-> Score(stats[u])] \in Scorer
      BY <1>1, StatsTypes DEF Scorer, MaybeUser
    <2>3. scorer' \in [Servers -> Scorer]
      BY <1>1, <1>2, <1>11, <2>2 DEF TakeTrustJob
    <2> QED
      BY <1>1, <1>11, <2>1, <2>3 DEF TakeTrustJob, SettlementTypeOK
  <1>12. ASSUME NEW s \in Servers, WriteScore(s)
         PROVE  SettlementTypeOK'
    <2>1. scorer[s].score \in Int
      BY <1>1 DEF Scorer
    <2>2. scorer' \in [Servers -> Scorer]
      BY <1>1, <1>2, <1>12 DEF WriteScore
    <2>3. /\ stats' \in [Users -> UserStats]
          /\ \A v \in Users : stats'[v].known \/ stats'[v] = NoStats
      <3>1. CASE scorer[s].user \notin Users
        BY <1>1, <1>12, <3>1 DEF WriteScore
      <3>2. CASE scorer[s].user \in Users
        <4> DEFINE u == scorer[s].user
        <4>1. stats[u] \in UserStats /\ stats[u].known
          BY <1>1, <3>2 DEF ScorerOK
        <4>2. Scored(stats[u], scorer[s].score) \in UserStats /\ Scored(stats[u], scorer[s].score).known
          BY <2>1, <4>1, StatsTypes
        <4> QED
          BY <1>1, <1>12, <3>2, <4>2 DEF WriteScore
      <3> QED
        BY <3>1, <3>2
    <2> QED
      BY <1>1, <1>12, <2>2, <2>3 DEF WriteScore, SettlementTypeOK
  <1>13. ASSUME NEW s \in Servers, CompletionJobFails(s)
         PROVE  SettlementTypeOK'
    <2>1. job' \in [Rides -> [JobNo -> Job]]
      <3>1. CASE settler[s].ride \in Rides
        <4>1. settler[s].no \in JobNo
          BY <1>1 DEF Settler
        <4> QED
          BY <1>3, <1>13, <3>1, <4>1 DEF CompletionJobFails, JobState
      <3>2. CASE settler[s].ride \notin Rides
        BY <1>1, <1>13, <3>2 DEF CompletionJobFails, JobState
      <3> QED
        BY <3>1, <3>2
    <2> QED
      BY <1>1, <1>2, <1>13, <2>1 DEF CompletionJobFails, SettlementTypeOK
  <1>14. ASSUME NEW s \in Servers, TrustJobFails(s)
         PROVE  SettlementTypeOK'
    BY <1>1, <1>2, <1>14 DEF TrustJobFails, SettlementTypeOK
  <1>15. ASSUME NEW s \in Servers, Crash(s)
         PROVE  SettlementTypeOK'
    <2>1. ASSUME NEW j \in Job
          PROVE  StalledCompletion(j) \in Job
      BY DEF StalledCompletion, Job, Stalls
    <2>2. job' \in [Rides -> [JobNo -> Job]]
      BY <1>1, <1>15, <2>1 DEF Crash
    <2>3. trustJob' \in [Users \X Stalls -> Nat]
      BY <1>1, <1>15 DEF Crash
    <2> QED
      BY <1>1, <1>2, <1>15, <2>2, <2>3 DEF Crash, SettlementTypeOK
  <1>16. ASSUME UNCHANGED settlementVars
         PROVE  SettlementTypeOK'
    BY <1>16 DEF settlementVars, SettlementTypeOK
  <1> QED
    BY <1>5, <1>6, <1>7, <1>8, <1>9, <1>10, <1>11, <1>12, <1>13, <1>14, <1>15, <1>16
       DEF Step, Settle, ScoreUser, Fail

-----------------------------------------------------------------------------
(* The workers.                                                            *)

LEMMA WorkersInit ==
  SettlementInit => WorkersOK
  <1> SUFFICES ASSUME SettlementInit
               PROVE  WorkersOK
    OBVIOUS
  <1> USE SettlementAssumption
  <1>1. 1 \in JobNo /\ 0 \in Stalls
    BY DEF JobNo, Stalls
  <1>2. SettlementTypeOK
    <2>1. NoJob \in Job /\ NoSettler \in Settler /\ NoScorer \in Scorer
      BY <1>1 DEF NoJob, Job, NoSettler, Settler, NoScorer, Scorer, MaybeUser
    <2>2. /\ \A u \in Users : stats[u] \in UserStats
          /\ \A u \in Users : stats[u].known \/ stats[u] = NoStats
      BY StatsBeforeType DEF SettlementInit
    <2>3. stats \in [Users -> UserStats]
      BY <2>2 DEF SettlementInit
    <2>4. status \in [Rides -> Status]
      BY DEF SettlementInit, CompletionInit, Status
    <2> QED
      BY <2>1, <2>2, <2>3, <2>4 DEF SettlementInit, CompletionInit, SettlementTypeOK
  <1>3. \A s \in Servers : SettlerOK(s) /\ ~Busy(s)
    BY DEF SettlementInit, SettlerOK, NoSettler, Busy
  <1>4. \A s \in Servers : ScorerOK(s)
    BY NoUserAssumption DEF SettlementInit, ScorerOK, NoScorer
  <1>5. \A r \in Rides : ~Done(r) /\ ~(payments[r] > 0)
    BY DEF SettlementInit, CompletionInit, Done, NoJob
  <1> QED
    BY <1>2, <1>3, <1>4, <1>5 DEF WorkersOK, OwnJobs

\* What is left to show of a step of the workers of server s.
LEMMA OneWorker ==
  ASSUME WorkersOK, SettlementTypeOK', NEW s \in Servers,
         \A t \in Servers : t # s => settler'[t] = settler[t] /\ scorer'[t] = scorer[t],
         \A t \in Servers : t # s /\ Busy(t) =>
           job'[settler[t].ride][settler[t].no].state = "active",
         \A r \in Rides : payments[r] > 0 => payments'[r] > 0,
         \A r \in Rides : payments'[r] > 0 => payments[r] > 0 \/ status[r] # "IN_PROGRESS",
         UNCHANGED status,
         \A u \in Users : stats[u].known => stats'[u].known,
         \A r \in Rides : Done(r)' => Done(r) \/ payments'[r] > 0,
         SettlerOK(s)', ScorerOK(s)',
         \A t \in Servers : t # s /\ Busy(t) /\ Busy(s)' =>
           settler'[s].ride # settler[t].ride \/ settler'[s].no # settler[t].no
  PROVE  WorkersOK'
  <1>1. ASSUME NEW t \in Servers
        PROVE  SettlerOK(t)' /\ ScorerOK(t)'
    <2>1. CASE t = s
      BY <2>1
    <2>2. CASE t # s
      <3>1. SettlerOK(t) /\ ScorerOK(t) /\ settler'[t] = settler[t] /\ scorer'[t] = scorer[t]
        BY <2>2 DEF WorkersOK
      <3>2. SettlerOK(t)'
        BY <2>2, <3>1 DEF SettlerOK, Busy
      <3>3. ScorerOK(t)'
        BY <2>2, <3>1 DEF ScorerOK
      <3> QED
        BY <3>2, <3>3
    <2> QED
      BY <2>1, <2>2
  <1>2. OwnJobs'
    BY DEF WorkersOK, OwnJobs, Busy
  <1>3. \A r \in Rides : (Done(r)' => payments'[r] > 0) /\ (payments'[r] > 0 => status'[r] # "IN_PROGRESS")
    BY DEF WorkersOK
  <1> QED
    BY <1>1, <1>2, <1>3 DEF WorkersOK

\* ... when no row of a job, a payment or a user changes.
LEMMA QuietWorker ==
  ASSUME WorkersOK, SettlementTypeOK', NEW s \in Servers,
         \A t \in Servers : t # s => settler'[t] = settler[t] /\ scorer'[t] = scorer[t],
         UNCHANGED <<job, payments, status>>,
         \A u \in Users : stats[u].known => stats'[u].known,
         SettlerOK(s)', ScorerOK(s)',
         Busy(s)' => Busy(s) /\ settler'[s].ride = settler[s].ride /\ settler'[s].no = settler[s].no
  PROVE  WorkersOK'
  <1>1. \A t \in Servers : t # s /\ Busy(t) => job'[settler[t].ride][settler[t].no].state = "active"
    BY DEF WorkersOK, SettlerOK, Busy
  <1>2. \A r \in Rides : Done(r)' => Done(r) \/ payments'[r] > 0
    BY DEF Done
  <1>3. \A t \in Servers : t # s /\ Busy(t) /\ Busy(s)' =>
           settler'[s].ride # settler[t].ride \/ settler'[s].no # settler[t].no
    BY DEF WorkersOK, OwnJobs
  <1>4. /\ \A r \in Rides : payments[r] > 0 => payments'[r] > 0
        /\ \A r \in Rides : payments'[r] > 0 => payments[r] > 0 \/ status[r] # "IN_PROGRESS"
    OBVIOUS
  <1> QED
    BY <1>1, <1>2, <1>3, <1>4, OneWorker

LEMMA JobWritten ==
  ASSUME job \in [Rides -> [JobNo -> Job]], NEW r \in Rides, NEW n \in JobNo, NEW state,
         JobState(r, n, state)
  PROVE  /\ job'[r][n].state = state
         /\ job'[r][n].stalls = job[r][n].stalls
         /\ \A q \in Rides, m \in JobNo : q # r \/ m # n => job'[q][m] = job[q][m]
  <1>1. job[r][n] \in Job /\ job[r] \in [JobNo -> Job]
    OBVIOUS
  <1>2. job' = [job EXCEPT ![r][n].state = state]
    BY DEF JobState
  <1>3. job'[r][n] = [job[r][n] EXCEPT !.state = state]
    BY <1>1, <1>2
  <1>4. job'[r][n].state = state /\ job'[r][n].stalls = job[r][n].stalls
    BY <1>1, <1>3 DEF Job
  <1>5. \A q \in Rides, m \in JobNo : q # r \/ m # n => job'[q][m] = job[q][m]
    BY <1>1, <1>2
  <1> QED
    BY <1>4, <1>5

\* The steps of the handlers of Rides, and failures of the other queue, which
\* leave the settlement workers alone.
LEMMA WorkersStep ==
  ASSUME WorkersOK, Step
  PROVE  WorkersOK'
  <1> USE SettlementAssumption
  <1>1. /\ SettlementTypeOK /\ SettlementTypeOK'
        /\ job \in [Rides -> [JobNo -> Job]]
        /\ payments \in [Rides -> Nat]
        /\ stats \in [Users -> UserStats]
        /\ settler \in [Servers -> Settler]
        /\ scorer \in [Servers -> Scorer]
    <2>1. \A s \in Servers : settler[s].step # "idle" => settler[s].ride \in Rides
      BY DEF WorkersOK, SettlerOK
    <2>2. \A s \in Servers : ScorerOK(s)
      BY DEF WorkersOK
    <2>3. SettlementTypeOK'
      BY <2>1, <2>2, SettlementTypes DEF WorkersOK
    <2> QED
      BY <2>3 DEF WorkersOK, SettlementTypeOK
  <1>2. \A s \in Servers : SettlerOK(s) /\ ScorerOK(s) /\ settler[s] \in Settler
    BY <1>1 DEF WorkersOK
  <1>3. ASSUME UNCHANGED <<payments, stats, settler, scorer>>,
               \A r \in Rides : status[r] # "IN_PROGRESS" => status'[r] # "IN_PROGRESS",
               \A r \in Rides, n \in JobNo : job'[r][n] # job[r][n] =>
                 job[r][n].state = "none" /\ job'[r][n].state = "waiting"
        PROVE  WorkersOK'
    <2>1. ASSUME NEW s \in Servers
          PROVE  SettlerOK(s)' /\ ScorerOK(s)'
      <3>1. settler[s].no \in JobNo
        BY <1>2 DEF Settler
      <3>2. SettlerOK(s)'
        BY <1>2, <1>3, <3>1 DEF SettlerOK
      <3>3. ScorerOK(s)'
        BY <1>2, <1>3 DEF ScorerOK
      <3> QED
        BY <3>2, <3>3
    <2>2. \A r \in Rides : Done(r)' => Done(r)
      BY <1>3 DEF Done
    <2>3. OwnJobs'
      BY <1>3 DEF WorkersOK, OwnJobs, Busy
    <2> QED
      BY <1>1, <1>3, <2>1, <2>2, <2>3 DEF WorkersOK
  <1>4. ASSUME NEW r \in Rides, RideEnds(r)
        PROVE  WorkersOK'
    <2>1. CASE ConfirmRide(r) \/ OverwriteStatus(r)
      <3>1. \A q \in Rides : status[q] # "IN_PROGRESS" => status'[q] # "IN_PROGRESS"
        BY <1>1, <2>1 DEF ConfirmRide, OverwriteStatus, SettlementTypeOK
      <3> QED
        BY <1>3, <1>4, <2>1, <3>1 DEF RideEnds, ConfirmRide, OverwriteStatus
    <2>2. CASE AddCompletionJob(r)
      <3>1. PICK n \in JobNo : job[r][n].state = "none" /\ JobState(r, n, "waiting")
        BY <2>2 DEF AddCompletionJob, JobState
      <3>2. \A q \in Rides, m \in JobNo : job'[q][m] # job[q][m] =>
              job[q][m].state = "none" /\ job'[q][m].state = "waiting"
        BY <1>1, <3>1, JobWritten
      <3> QED
        BY <1>3, <1>4, <2>2, <3>2 DEF RideEnds, AddCompletionJob
    <2> QED
      BY <1>4, <2>1, <2>2 DEF RideEnds, RideCompletes
  <1>5. ASSUME NEW s \in Servers, NEW r \in Rides, NEW n \in JobNo, TakeCompletionJob(s, r, n)
        PROVE  WorkersOK'
    <2> DEFINE new == [NoSettler EXCEPT !.step = "findPayment", !.ride = r, !.no = n]
    <2>1. /\ settler[s] = NoSettler /\ job[r][n].state = "waiting"
          /\ UNCHANGED <<status, payments, stats, trustJob, scorer>>
      BY <1>5 DEF TakeCompletionJob
    <2>2. \A t \in Servers : Busy(t) =>
            /\ job[settler[t].ride][settler[t].no].state = "active"
            /\ settler[t].ride \in Rides /\ settler[t].no \in JobNo
            /\ settler[t].ride # r \/ settler[t].no # n
      BY <1>2, <2>1 DEF SettlerOK, Busy, Settler
    <2>3. PICK state \in {"active", "skipped"} : JobState(r, n, state)
      BY <1>5 DEF TakeCompletionJob
    <2>4. /\ job'[r][n].state = state
          /\ \A q \in Rides, m \in JobNo : q # r \/ m # n => job'[q][m] = job[q][m]
      BY <1>1, <2>3, JobWritten
    <2>5. \A q \in Rides : Done(q)' => Done(q)
      BY <2>3, <2>4 DEF Done
    <2>6. \A t \in Servers : t # s /\ Busy(t) =>
            job'[settler[t].ride][settler[t].no].state = "active"
      BY <2>2, <2>4
    <2>7. \A t \in Servers : t # s => settler'[t] = settler[t] /\ scorer'[t] = scorer[t]
      BY <1>1, <1>5 DEF TakeCompletionJob
    <2>8. new.step = "findPayment" /\ new.ride = r /\ new.no = n /\ new.left = Side
      BY DEF NoSettler
    <2> HIDE DEF new
    <2>9. \/ settler'[s] = settler[s]
          \/ settler'[s] = new /\ status[r] = "COMPLETED" /\ job'[r][n].state = "active"
      <3>1. CASE status[r] = "COMPLETED"
        <4>1. settler' = [settler EXCEPT ![s] = new] /\ JobState(r, n, "active")
          BY <1>5, <3>1 DEF TakeCompletionJob, new
        <4> QED
          BY <1>1, <3>1, <4>1, JobWritten
      <3>2. CASE status[r] # "COMPLETED"
        BY <1>5, <3>2 DEF TakeCompletionJob
      <3> QED
        BY <3>1, <3>2
    <2>10. SettlerOK(s)' /\ ScorerOK(s)'
      <3>1. CASE settler'[s] = settler[s]
        <4>1. settler'[s].step = "idle" /\ settler'[s] = NoSettler
          BY <2>1, <3>1 DEF NoSettler
        <4> QED
          BY <1>2, <2>1, <4>1 DEF SettlerOK, ScorerOK
      <3>2. CASE settler'[s] = new /\ status[r] = "COMPLETED" /\ job'[r][n].state = "active"
        <4>1. SettlerOK(s)'
          BY <2>1, <2>8, <3>2 DEF SettlerOK
        <4>2. ScorerOK(s)'
          BY <1>2, <2>1 DEF ScorerOK
        <4> QED
          BY <4>1, <4>2
      <3> QED
        BY <2>9, <3>1, <3>2
    <2>11. \A t \in Servers : t # s /\ Busy(t) /\ Busy(s)' =>
             settler'[s].ride # settler[t].ride \/ settler'[s].no # settler[t].no
      BY <2>1, <2>2, <2>8, <2>9 DEF Busy, NoSettler
    <2>12. /\ \A q \in Rides : payments[q] > 0 => payments'[q] > 0
           /\ \A q \in Rides : payments'[q] > 0 => payments[q] > 0 \/ status[q] # "IN_PROGRESS"
           /\ \A u \in Users : stats[u].known => stats'[u].known
           /\ \A q \in Rides : Done(q)' => Done(q) \/ payments'[q] > 0
           /\ UNCHANGED status
      BY <2>1, <2>5
    <2> QED
      BY <1>1, <2>6, <2>7, <2>10, <2>11, <2>12, OneWorker
  <1>6. ASSUME NEW s \in Servers, FindPayment(s)
        PROVE  WorkersOK'
    <2> DEFINE w == settler[s]
    <2>1. /\ w.step = "findPayment" /\ w.ride \in Rides /\ w.left = Side
          /\ UNCHANGED <<status, job, payments, stats, trustJob, scorer>>
      BY <1>2, <1>6 DEF FindPayment, SettlerAt, SettlerOK
    <2>2. settler' = [settler EXCEPT ![s] = [w EXCEPT !.step = AfterFinding(payments[w.ride])]]
      BY <1>6 DEF FindPayment, SettlerNext
    <2>3. /\ \A t \in Servers : t # s => settler'[t] = settler[t] /\ scorer'[t] = scorer[t]
          /\ settler'[s] = [w EXCEPT !.step = AfterFinding(payments[w.ride])]
      BY <1>1, <2>1, <2>2
    <2>4. /\ settler'[s].ride = w.ride /\ settler'[s].no = w.no /\ settler'[s].left = w.left
          /\ settler'[s].step = AfterFinding(payments[w.ride])
      BY <1>2, <2>3 DEF Settler
    <2>5. \/ settler'[s].step = "createPayment"
          \/ settler'[s].step = "count" /\ payments[w.ride] > 0
      BY <1>1, <2>1, <2>4 DEF AfterFinding
    <2>6. SettlerOK(s)'
      BY <1>2, <2>1, <2>4, <2>5 DEF SettlerOK
    <2>7. ScorerOK(s)' /\ \A u \in Users : stats[u].known => stats'[u].known
      BY <1>2, <2>1 DEF ScorerOK
    <2>8. Busy(s)
      BY <2>1 DEF Busy
    <2> QED
      BY <1>1, <2>1, <2>3, <2>4, <2>6, <2>7, <2>8, QuietWorker
  <1>7. ASSUME NEW s \in Servers, CreatePayment(s)
        PROVE  WorkersOK'
    <2> DEFINE w == settler[s]
    <2>1. /\ w.step = "createPayment" /\ w.ride \in Rides /\ w.left = Side
          /\ status[w.ride] # "IN_PROGRESS" /\ job[w.ride][w.no].state = "active"
          /\ UNCHANGED <<status, job, stats, trustJob, scorer>>
      BY <1>2, <1>7 DEF CreatePayment, SettlerAt, SettlerOK
    <2>2. /\ \A t \in Servers : t # s => settler'[t] = settler[t] /\ scorer'[t] = scorer[t]
          /\ settler'[s] = [w EXCEPT !.step = "count"]
      BY <1>1, <1>7, <2>1 DEF CreatePayment, SettlerNext
    <2>3. /\ settler'[s].ride = w.ride /\ settler'[s].no = w.no /\ settler'[s].left = w.left
          /\ settler'[s].step = "count"
      BY <1>2, <2>2 DEF Settler
    <2>4. /\ payments'[w.ride] = payments[w.ride] + 1
          /\ \A q \in Rides : q # w.ride => payments'[q] = payments[q]
      BY <1>1, <1>7, <2>1 DEF CreatePayment
    <2>5. /\ \A q \in Rides : payments[q] > 0 => payments'[q] > 0
          /\ \A q \in Rides : payments'[q] > 0 => payments[q] > 0 \/ status[q] # "IN_PROGRESS"
          /\ payments'[w.ride] > 0
      <3>1. payments[w.ride] \in Nat
        BY <1>1, <2>1
      <3>2. payments'[w.ride] > 0
        BY <2>4, <3>1
      <3>3. ASSUME NEW q \in Rides
            PROVE  /\ payments[q] > 0 => payments'[q] > 0
                   /\ payments'[q] > 0 => payments[q] > 0 \/ status[q] # "IN_PROGRESS"
        <4>1. CASE q = w.ride
          BY <2>1, <3>2, <4>1
        <4>2. CASE q # w.ride
          BY <2>4, <4>2
        <4> QED
          BY <4>1, <4>2
      <3> QED
        BY <3>2, <3>3
    <2>6. SettlerOK(s)'
      BY <2>1, <2>3, <2>5 DEF SettlerOK
    <2>7. ScorerOK(s)' /\ \A u \in Users : stats[u].known => stats'[u].known
      BY <1>2, <2>1 DEF ScorerOK
    <2>8. \A t \in Servers : t # s /\ Busy(t) => job'[settler[t].ride][settler[t].no].state = "active"
      BY <1>2, <2>1 DEF SettlerOK, Busy
    <2>9. \A q \in Rides : Done(q)' => Done(q) \/ payments'[q] > 0
      BY <2>1 DEF Done
    <2>10. \A t \in Servers : t # s /\ Busy(t) /\ Busy(s)' =>
             settler'[s].ride # settler[t].ride \/ settler'[s].no # settler[t].no
      BY <2>1, <2>3 DEF WorkersOK, OwnJobs, Busy
    <2> QED
      BY <1>1, <2>1, <2>2, <2>5, <2>6, <2>7, <2>8, <2>9, <2>10, OneWorker
  <1>8. ASSUME NEW s \in Servers, NEW side \in Side, CountRide(s, side)
        PROVE  WorkersOK'
    <2> DEFINE w == settler[s]
               u == Party[w.ride][side]
    <2>1. /\ w.step = "count" /\ w.ride \in Rides /\ u \in Users /\ payments[w.ride] > 0
          /\ UNCHANGED <<status, job, payments, trustJob, scorer>>
      BY <1>2, <1>8 DEF CountRide, SettlerOK
    <2>2. /\ \A t \in Servers : t # s => settler'[t] = settler[t] /\ scorer'[t] = scorer[t]
          /\ \/ settler'[s] = [w EXCEPT !.step = "addTrust", !.left = Side]
             \/ settler'[s] = [w EXCEPT !.left = @ \ {side}]
      BY <1>1, <1>8, <2>1 DEF CountRide
    <2>3. /\ settler'[s].ride = w.ride /\ settler'[s].no = w.no
          /\ settler'[s].step \in {"count", "addTrust"}
      BY <1>2, <2>1, <2>2 DEF Settler
    <2>4. \A v \in Users : stats[v].known => stats'[v].known
      <3>1. stats' = [stats EXCEPT ![u] = Counted(stats[u], Earning(w.ride, side))]
        BY <1>8 DEF CountRide
      <3>2. Earning(w.ride, side) \in Nat
        BY <2>1 DEF Earning
      <3>3. Counted(stats[u], Earning(w.ride, side)).known
        BY <1>1, <2>1, <3>2, StatsTypes
      <3> QED
        BY <1>1, <2>1, <3>1, <3>3
    <2>5. SettlerOK(s)'
      BY <1>2, <2>1, <2>3 DEF SettlerOK
    <2>6. ScorerOK(s)'
      BY <1>2, <2>1, <2>4 DEF ScorerOK
    <2>7. Busy(s)
      BY <2>1 DEF Busy
    <2> QED
      BY <1>1, <2>1, <2>2, <2>3, <2>4, <2>5, <2>6, <2>7, QuietWorker
  <1>9. ASSUME NEW s \in Servers,
               \A t \in Servers : t # s => settler'[t] = settler[t] /\ scorer'[t] = scorer[t],
               Busy(s), settler'[s] = NoSettler, scorer'[s] \in {scorer[s], NoScorer},
               \A q \in Rides, m \in JobNo : q # settler[s].ride \/ m # settler[s].no =>
                 job'[q][m] = job[q][m],
               job'[settler[s].ride][settler[s].no].state = "done" => payments[settler[s].ride] > 0,
               UNCHANGED <<status, payments, stats>>
        PROVE  WorkersOK'
    <2> DEFINE w == settler[s]
    <2>1. w.ride \in Rides /\ w.no \in JobNo /\ NoSettler.step = "idle"
      BY <1>2, <1>9 DEF Busy, SettlerOK, Settler, NoSettler
    <2>2. SettlerOK(s)' /\ ~(Busy(s)')
      BY <1>9, <2>1 DEF SettlerOK, Busy
    <2>3. ScorerOK(s)'
      <3>1. NoScorer.user \notin Users
        BY NoUserAssumption DEF NoScorer
      <3> QED
        BY <1>2, <1>9, <3>1 DEF ScorerOK
    <2>4. \A t \in Servers : t # s /\ Busy(t) =>
            job'[settler[t].ride][settler[t].no].state = "active"
      <3>1. ASSUME NEW t \in Servers, t # s, Busy(t)
            PROVE  job'[settler[t].ride][settler[t].no].state = "active"
        <4>1. /\ settler[t].ride \in Rides /\ settler[t].no \in JobNo
              /\ job[settler[t].ride][settler[t].no].state = "active"
          BY <1>2, <3>1 DEF Busy, SettlerOK, Settler
        <4>2. settler[t].ride # w.ride \/ settler[t].no # w.no
          BY <1>9, <3>1 DEF WorkersOK, OwnJobs
        <4> QED
          BY <1>9, <4>1, <4>2
      <3> QED
        BY <3>1
    <2>5. \A q \in Rides : Done(q)' => Done(q) \/ payments'[q] > 0
      BY <1>9, <2>1 DEF Done
    <2>6. /\ \A q \in Rides : payments[q] > 0 => payments'[q] > 0
          /\ \A q \in Rides : payments'[q] > 0 => payments[q] > 0 \/ status[q] # "IN_PROGRESS"
          /\ \A u \in Users : stats[u].known => stats'[u].known
          /\ UNCHANGED status
      BY <1>9
    <2> QED
      BY <1>1, <1>9, <2>2, <2>3, <2>4, <2>5, <2>6, OneWorker
  <1>10. ASSUME NEW s \in Servers, NEW side \in Side, AddTrustJob(s, side)
         PROVE  WorkersOK'
    <2> DEFINE w == settler[s]
    <2>1. /\ w.step = "addTrust" /\ w.ride \in Rides /\ payments[w.ride] > 0 /\ w.no \in JobNo
          /\ UNCHANGED <<status, payments, stats, scorer>>
      BY <1>2, <1>10 DEF AddTrustJob, SettlerOK, Settler
    <2>2. Busy(s)
      BY <2>1 DEF Busy
    <2>3. CASE w.left = {side}
      <3>1. JobState(w.ride, w.no, "done") /\ settler' = [settler EXCEPT ![s] = NoSettler]
        BY <1>10, <2>3 DEF AddTrustJob
      <3>2. \A q \in Rides, m \in JobNo : q # w.ride \/ m # w.no => job'[q][m] = job[q][m]
        BY <1>1, <2>1, <3>1, JobWritten
      <3>3. /\ \A t \in Servers : t # s => settler'[t] = settler[t] /\ scorer'[t] = scorer[t]
            /\ settler'[s] = NoSettler
        BY <1>1, <2>1, <3>1
      <3> QED
        BY <1>9, <2>1, <2>2, <3>2, <3>3
    <2>4. CASE w.left # {side}
      <3>1. settler' = [settler EXCEPT ![s] = [w EXCEPT !.left = @ \ {side}]] /\ UNCHANGED job
        BY <1>10, <2>4 DEF AddTrustJob
      <3>2. /\ \A t \in Servers : t # s => settler'[t] = settler[t] /\ scorer'[t] = scorer[t]
            /\ settler'[s] = [w EXCEPT !.left = @ \ {side}]
        BY <1>1, <2>1, <3>1
      <3>3. /\ settler'[s].ride = w.ride /\ settler'[s].no = w.no
            /\ settler'[s].step = "addTrust"
        BY <1>2, <2>1, <3>2 DEF Settler
      <3>4. SettlerOK(s)'
        BY <1>2, <2>1, <3>1, <3>3 DEF SettlerOK
      <3>5. ScorerOK(s)' /\ \A u \in Users : stats[u].known => stats'[u].known
        BY <1>2, <2>1 DEF ScorerOK
      <3> QED
        BY <1>1, <2>1, <2>2, <3>1, <3>2, <3>3, <3>4, <3>5, QuietWorker
    <2> QED
      BY <2>3, <2>4
  <1>11. ASSUME NEW s \in Servers, UNCHANGED <<status, job, payments, settler>>,
                \A t \in Servers : t # s => scorer'[t] = scorer[t],
                \A u \in Users : stats[u].known => stats'[u].known,
                ScorerOK(s)'
         PROVE  WorkersOK'
    <2>1. /\ \A t \in Servers : t # s => settler'[t] = settler[t] /\ scorer'[t] = scorer[t]
          /\ Busy(s)' => Busy(s) /\ settler'[s].ride = settler[s].ride /\ settler'[s].no = settler[s].no
      BY <1>11 DEF Busy
    <2>2. SettlerOK(s)'
      BY <1>2, <1>11 DEF SettlerOK
    <2> QED
      BY <1>1, <1>11, <2>1, <2>2, QuietWorker
  <1>12. ASSUME NEW s \in Servers, NEW u \in Users, NEW k \in Stalls, TakeTrustJob(s, u, k)
         PROVE  WorkersOK'
    <2>1. /\ UNCHANGED <<status, job, payments, stats, settler>>
          /\ \A t \in Servers : t # s => scorer'[t] = scorer[t]
      BY <1>1, <1>12 DEF TakeTrustJob
    <2>2. (stats[u].known /\ scorer'[s].user = u) \/ scorer'[s] = NoScorer
      BY <1>1, <1>12 DEF TakeTrustJob
    <2>3. ScorerOK(s)' /\ \A v \in Users : stats[v].known => stats'[v].known
      BY <2>1, <2>2, NoUserAssumption DEF ScorerOK, NoScorer
    <2> QED
      BY <1>11, <2>1, <2>3
  <1>13. ASSUME NEW s \in Servers, WriteScore(s)
         PROVE  WorkersOK'
    <2>1. /\ UNCHANGED <<status, job, payments, settler>>
          /\ \A t \in Servers : t # s => scorer'[t] = scorer[t]
          /\ scorer'[s] = NoScorer
      BY <1>1, <1>13 DEF WriteScore
    <2>2. \A v \in Users : stats[v].known => stats'[v].known
      <3>1. stats' = [stats EXCEPT ![scorer[s].user] = Scored(stats[scorer[s].user], scorer[s].score)]
        BY <1>13 DEF WriteScore
      <3>2. \A v \in Users : \A n : Scored(stats[v], n).known = stats[v].known
        BY <1>1, StatsTypes
      <3> QED
        BY <1>1, <3>1, <3>2
    <2>3. ScorerOK(s)'
      BY <2>1, NoUserAssumption DEF ScorerOK, NoScorer
    <2> QED
      BY <1>11, <2>1, <2>2, <2>3
  <1>14. ASSUME NEW s \in Servers, CompletionJobFails(s)
         PROVE  WorkersOK'
    <2> DEFINE w == settler[s]
    <2>1. Busy(s) /\ w.ride \in Rides /\ w.no \in JobNo
      BY <1>2, <1>14 DEF CompletionJobFails, SettlerOK, Busy, Settler
    <2>2. JobState(w.ride, w.no, "failed") /\ UNCHANGED <<status, payments, stats, scorer>>
      BY <1>14 DEF CompletionJobFails
    <2>3. /\ job'[w.ride][w.no].state = "failed"
          /\ \A q \in Rides, m \in JobNo : q # w.ride \/ m # w.no => job'[q][m] = job[q][m]
      BY <1>1, <2>1, <2>2, JobWritten
    <2>4. /\ \A t \in Servers : t # s => settler'[t] = settler[t] /\ scorer'[t] = scorer[t]
          /\ settler'[s] = NoSettler
      BY <1>1, <1>14, <2>2 DEF CompletionJobFails
    <2> QED
      BY <1>9, <2>1, <2>2, <2>3, <2>4
  <1>15. ASSUME NEW s \in Servers, TrustJobFails(s)
         PROVE  WorkersOK'
    <2>1. /\ UNCHANGED <<status, job, payments, stats, settler>>
          /\ \A t \in Servers : t # s => scorer'[t] = scorer[t]
          /\ scorer'[s] = NoScorer
      BY <1>1, <1>15 DEF TrustJobFails
    <2>2. ScorerOK(s)' /\ \A v \in Users : stats[v].known => stats'[v].known
      BY <2>1, NoUserAssumption DEF ScorerOK, NoScorer
    <2> QED
      BY <1>11, <2>1, <2>2
  <1>16. ASSUME NEW s \in Servers, Crash(s)
         PROVE  WorkersOK'
    <2> DEFINE w == settler[s]
    <2>1. /\ \A t \in Servers : t # s => settler'[t] = settler[t] /\ scorer'[t] = scorer[t]
          /\ settler'[s] = NoSettler /\ scorer'[s] = NoScorer
          /\ UNCHANGED <<status, payments, stats>>
      BY <1>1, <1>16 DEF Crash
    <2>2. \A q \in Rides, m \in JobNo : job'[q][m] =
            IF w.ride = q /\ w.no = m THEN StalledCompletion(job[q][m]) ELSE job[q][m]
      BY <1>16 DEF Crash
    <2>3. CASE Busy(s)
      <3>1. w.ride \in Rides /\ w.no \in JobNo /\ job[w.ride][w.no].state = "active"
        BY <1>2, <2>3 DEF SettlerOK, Busy, Settler
      <3>2. job[w.ride][w.no] \in Job
        BY <1>1, <3>1
      <3>3. StalledCompletion(job[w.ride][w.no]).state # "done"
        BY <3>1, <3>2 DEF StalledCompletion, Job
      <3>4. /\ job'[w.ride][w.no].state # "done"
            /\ \A q \in Rides, m \in JobNo : q # w.ride \/ m # w.no => job'[q][m] = job[q][m]
        BY <2>2, <3>1, <3>3
      <3> QED
        BY <1>9, <2>1, <2>3, <3>4
    <2>4. CASE ~Busy(s)
      <3>1. w = NoSettler /\ w.ride = NoRide
        BY <1>2, <2>4 DEF SettlerOK, Busy, NoSettler
      <3>2. \A q \in Rides, m \in JobNo : job'[q][m] = job[q][m]
        BY <2>2, <3>1
      <3>3. job' = job
        <4>1. job' \in [Rides -> [JobNo -> Job]]
          BY <1>1 DEF SettlementTypeOK
        <4>2. \A q \in Rides : job'[q] = job[q]
          BY <1>1, <3>2, <4>1
        <4> QED
          BY <1>1, <4>1, <4>2
      <3>4. settler' = settler
        <4>1. \A t \in Servers : settler'[t] = settler[t]
          BY <2>1, <3>1
        <4>2. settler' = [settler EXCEPT ![s] = NoSettler]
          BY <1>16 DEF Crash
        <4> QED
          BY <1>1, <3>1, <4>2
      <3>5. ScorerOK(s)' /\ \A v \in Users : stats[v].known => stats'[v].known
        BY <2>1, NoUserAssumption DEF ScorerOK, NoScorer
      <3> QED
        BY <1>11, <2>1, <3>3, <3>4, <3>5
    <2> QED
      BY <2>3, <2>4
  <1>17. ASSUME UNCHANGED settlementVars
         PROVE  WorkersOK'
    BY <1>3, <1>17 DEF settlementVars
  <1> QED
    BY <1>4, <1>5, <1>6, <1>7, <1>8, <1>10, <1>12, <1>13, <1>14, <1>15, <1>16, <1>17
       DEF Step, Settle, ScoreUser, Fail

-----------------------------------------------------------------------------
\* Worker s alone moves; no tally changes.
Alone(s) == \A t \in Servers : t # s => settler'[t] = settler[t]
SameTally ==
  \A u \in Users : stats'[u].rides = stats[u].rides /\ stats'[u].earned = stats[u].earned

\* No settlement begins, ends or goes on.
Calm ==
  /\ SameTally
  /\ UNCHANGED <<payments, settler>>
  /\ \A r \in Rides, n \in JobNo :
       /\ Attempts(r, n)' = Attempts(r, n)
       /\ job'[r][n].state = "done" => job[r][n].state = "done"

Takes(s, r, n) ==
  /\ Alone(s) /\ SameTally /\ UNCHANGED payments
  /\ settler[s] = NoSettler
  /\ settler'[s] = [NoSettler EXCEPT !.step = "findPayment", !.ride = r, !.no = n]
  /\ job[r][n].state = "waiting"
  /\ JobState(r, n, "active")

Serves(s) ==
  /\ Alone(s) /\ SameTally /\ UNCHANGED <<payments, job>>
  /\ settler[s].step = "addTrust" /\ settler'[s].step = "addTrust"
  /\ settler'[s].ride = settler[s].ride

Ends(s) ==
  /\ Alone(s) /\ SameTally /\ UNCHANGED payments
  /\ Busy(s) /\ settler'[s] = NoSettler
  /\ \A r \in Rides, n \in JobNo :
       /\ Attempts(r, n)' = Attempts(r, n)
       /\ job'[r][n].state = "done" =>
            \/ job[r][n].state = "done"
            \/ r = settler[s].ride /\ settler[s].step = "addTrust"

LEMMA TallyFields ==
  ASSUME NEW st \in UserStats
  PROVE  /\ \A fare \in Nat : /\ Counted(st, fare).rides = st.rides + 1
                              /\ Counted(st, fare).earned = st.earned + fare
         /\ \A n : /\ Scored(st, n).rides = st.rides
                   /\ Scored(st, n).earned = st.earned
         /\ \A n, m : /\ Averaged(st, n, m).rides = st.rides
                      /\ Averaged(st, n, m).earned = st.earned
  BY DEF UserStats, Counted, Scored, Averaged

LEMMA StepKinds ==
  ASSUME WorkersOK, Step
  PROVE  \/ Calm
         \/ \E s \in Servers :
              \/ \E r \in Rides, n \in JobNo : Takes(s, r, n)
              \/ FindPayment(s)
              \/ CreatePayment(s)
              \/ \E side \in Side : CountRide(s, side)
              \/ Serves(s)
              \/ Ends(s)
  <1> USE SettlementAssumption
  <1>1. /\ status \in [Rides -> Status]
        /\ job \in [Rides -> [JobNo -> Job]]
        /\ payments \in [Rides -> Nat]
        /\ stats \in [Users -> UserStats]
        /\ settler \in [Servers -> Settler]
        /\ scorer \in [Servers -> Scorer]
    BY DEF WorkersOK, SettlementTypeOK
  <1>2. \A s \in Servers : SettlerOK(s) /\ ScorerOK(s)
    BY DEF WorkersOK
  <1>3. ASSUME UNCHANGED <<job, payments, settler>>, SameTally
        PROVE  Calm
    BY <1>3 DEF Calm, Attempts
  <1>4. UNCHANGED stats => SameTally
    BY DEF SameTally
  <1>5. ASSUME NEW r \in Rides, NEW n \in JobNo, NEW state, JobState(r, n, state),
               job[r][n].state # "done", state # "done",
               job[r][n].state \in {"active", "done", "failed"}
                 <=> state \in {"active", "done", "failed"}
        PROVE  \A q \in Rides, m \in JobNo :
                 /\ Attempts(q, m)' = Attempts(q, m)
                 /\ job'[q][m].state = "done" => job[q][m].state = "done"
    <2>1. /\ job'[r][n].state = state
          /\ job'[r][n].stalls = job[r][n].stalls
          /\ \A q \in Rides, m \in JobNo : q # r \/ m # n => job'[q][m] = job[q][m]
      BY <1>1, <1>5, JobWritten
    <2>2. ASSUME NEW q \in Rides, NEW m \in JobNo
          PROVE  /\ Attempts(q, m)' = Attempts(q, m)
                 /\ job'[q][m].state = "done" => job[q][m].state = "done"
      <3>1. CASE q = r /\ m = n
        BY <1>5, <2>1, <3>1 DEF Attempts
      <3>2. CASE q # r \/ m # n
        BY <2>1, <3>2 DEF Attempts
      <3> QED
        BY <3>1, <3>2
    <2> QED
      BY <2>2
  <1>6. ASSUME NEW r \in Rides, RideEnds(r)
        PROVE  Calm
    <2>1. CASE ConfirmRide(r) \/ OverwriteStatus(r)
      BY <1>3, <1>4, <1>6, <2>1 DEF RideEnds, ConfirmRide, OverwriteStatus
    <2>2. CASE AddCompletionJob(r)
      <3>1. PICK n \in JobNo : job[r][n].state = "none" /\ JobState(r, n, "waiting")
        BY <2>2 DEF AddCompletionJob, JobState
      <3> QED
        BY <1>4, <1>5, <1>6, <2>2, <3>1 DEF RideEnds, AddCompletionJob, Calm
    <2> QED
      BY <1>6, <2>1, <2>2 DEF RideEnds, RideCompletes
  <1>7. ASSUME NEW s \in Servers, NEW r \in Rides, NEW n \in JobNo, TakeCompletionJob(s, r, n)
        PROVE  Calm \/ Takes(s, r, n)
    <2>1. CASE status[r] = "COMPLETED"
      BY <1>1, <1>4, <1>7, <2>1 DEF TakeCompletionJob, Takes, Alone
    <2>2. CASE status[r] # "COMPLETED"
      BY <1>4, <1>5, <1>7, <2>2 DEF TakeCompletionJob, Calm
    <2> QED
      BY <2>1, <2>2
  <1>8. ASSUME NEW s \in Servers, NEW side \in Side, AddTrustJob(s, side)
        PROVE  Serves(s) \/ Ends(s)
    <2> DEFINE w == settler[s]
    <2>1. /\ w.step = "addTrust" /\ w.ride \in Rides /\ w.no \in JobNo
          /\ job[w.ride][w.no].state = "active" /\ w \in Settler
          /\ UNCHANGED <<payments, stats>>
      BY <1>1, <1>2, <1>8 DEF AddTrustJob, SettlerOK, Settler
    <2>2. Alone(s) /\ SameTally
      BY <1>1, <1>4, <1>8, <2>1 DEF AddTrustJob, Alone
    <2>3. CASE w.left = {side}
      <3>1. JobState(w.ride, w.no, "done") /\ settler'[s] = NoSettler
        BY <1>1, <1>8, <2>3 DEF AddTrustJob
      <3>2. /\ job'[w.ride][w.no].state = "done"
            /\ job'[w.ride][w.no].stalls = job[w.ride][w.no].stalls
            /\ \A q \in Rides, m \in JobNo : q # w.ride \/ m # w.no => job'[q][m] = job[q][m]
        BY <1>1, <2>1, <3>1, JobWritten
      <3>3. ASSUME NEW q \in Rides, NEW m \in JobNo
            PROVE  /\ Attempts(q, m)' = Attempts(q, m)
                   /\ job'[q][m].state = "done" => job[q][m].state = "done" \/ q = w.ride
        <4>1. CASE q = w.ride /\ m = w.no
          BY <2>1, <3>2, <4>1 DEF Attempts
        <4>2. CASE q # w.ride \/ m # w.no
          BY <3>2, <4>2 DEF Attempts
        <4> QED
          BY <4>1, <4>2
      <3> QED
        BY <2>1, <2>2, <3>1, <3>3 DEF Ends, Busy
    <2>4. CASE w.left # {side}
      <3>1. settler'[s] = [w EXCEPT !.left = @ \ {side}] /\ UNCHANGED job
        BY <1>1, <1>8, <2>4 DEF AddTrustJob
      <3>2. settler'[s].step = "addTrust" /\ settler'[s].ride = w.ride
        BY <2>1, <3>1 DEF Settler
      <3> QED
        BY <2>1, <2>2, <3>1, <3>2 DEF Serves
    <2> QED
      BY <2>3, <2>4
  <1>9. ASSUME NEW s \in Servers, WriteScore(s)
        PROVE  Calm
    <2>1. SameTally
      <3>1. stats' = [stats EXCEPT ![scorer[s].user] = Scored(stats[scorer[s].user], scorer[s].score)]
        BY <1>9 DEF WriteScore
      <3> DEFINE new == Scored(stats[scorer[s].user], scorer[s].score)
      <3>2. \A v \in Users : v = scorer[s].user => new.rides = stats[v].rides /\ new.earned = stats[v].earned
        BY <1>1, TallyFields
      <3> HIDE DEF new
      <3>3. \A v \in Users : stats'[v] = IF v = scorer[s].user THEN new ELSE stats[v]
        BY <1>1, <3>1 DEF new
      <3> QED
        BY <3>2, <3>3 DEF SameTally
    <2> QED
      BY <1>3, <1>9, <2>1 DEF WriteScore
  <1>10. ASSUME NEW s \in Servers, CompletionJobFails(s)
         PROVE  Ends(s)
    <2> DEFINE w == settler[s]
    <2>1. Busy(s) /\ w.ride \in Rides /\ w.no \in JobNo /\ job[w.ride][w.no].state = "active"
      BY <1>1, <1>2, <1>10 DEF CompletionJobFails, SettlerOK, Busy, Settler
    <2>2. JobState(w.ride, w.no, "failed")
      BY <1>10 DEF CompletionJobFails
    <2>3. Alone(s) /\ SameTally /\ settler'[s] = NoSettler /\ UNCHANGED payments
      BY <1>1, <1>4, <1>10 DEF CompletionJobFails, Alone
    <2> QED
      BY <1>5, <2>1, <2>2, <2>3 DEF Ends
  <1>11. ASSUME NEW s \in Servers, Crash(s)
         PROVE  Calm \/ Ends(s)
    <2> DEFINE w == settler[s]
    <2>1. Alone(s) /\ SameTally /\ settler'[s] = NoSettler /\ UNCHANGED payments
      BY <1>1, <1>4, <1>11 DEF Crash, Alone
    <2>2. \A q \in Rides, m \in JobNo : job'[q][m] =
            IF w.ride = q /\ w.no = m THEN StalledCompletion(job[q][m]) ELSE job[q][m]
      BY <1>11 DEF Crash
    <2>3. CASE Busy(s)
      <3>1. w.ride \in Rides /\ w.no \in JobNo /\ job[w.ride][w.no].state = "active"
        BY <1>1, <1>2, <2>3 DEF SettlerOK, Busy, Settler
      <3>2. ASSUME NEW q \in Rides, NEW m \in JobNo
            PROVE  /\ Attempts(q, m)' = Attempts(q, m)
                   /\ job'[q][m].state = "done" => job[q][m].state = "done"
        <4>1. CASE w.ride = q /\ w.no = m
          <5>1. job[q][m] \in Job /\ job[q][m].state = "active" /\ job[q][m].stalls \in Nat
            BY <1>1, <3>1, <4>1 DEF Job, Stalls
          <5>2. job'[q][m] = StalledCompletion(job[q][m])
            BY <2>2, <4>1
          <5>3. CASE job[q][m].stalls < MaxStalls
            <6>1. job'[q][m] = [state |-> "waiting", stalls |-> job[q][m].stalls + 1]
              BY <5>2, <5>3 DEF StalledCompletion
            <6> QED
              BY <5>1, <6>1 DEF Attempts
          <5>4. CASE ~(job[q][m].stalls < MaxStalls)
            <6>1. job'[q][m] = [job[q][m] EXCEPT !.state = "failed"]
              BY <5>2, <5>4 DEF StalledCompletion
            <6>2. job'[q][m].state = "failed" /\ job'[q][m].stalls = job[q][m].stalls
              BY <5>1, <6>1 DEF Job
            <6> QED
              BY <5>1, <6>2 DEF Attempts
          <5> QED
            BY <5>3, <5>4
        <4>2. CASE ~(w.ride = q /\ w.no = m)
          BY <2>2, <4>2 DEF Attempts
        <4> QED
          BY <4>1, <4>2
      <3> QED
        BY <2>1, <2>3, <3>2 DEF Ends
    <2>4. CASE ~Busy(s)
      <3>1. w = NoSettler /\ w.ride = NoRide
        BY <1>2, <2>4 DEF SettlerOK, Busy, NoSettler
      <3>2. \A q \in Rides, m \in JobNo : job'[q][m] = job[q][m]
        BY <2>2, <3>1
      <3>3. settler' = settler
        BY <1>1, <1>11, <3>1 DEF Crash
      <3> QED
        BY <2>1, <3>2, <3>3 DEF Calm, Attempts
    <2> QED
      BY <2>3, <2>4
  <1>12. ASSUME NEW s \in Servers, TrustJobFails(s) \/ \E u \in Users, k \in Stalls : TakeTrustJob(s, u, k)
         PROVE  Calm
    BY <1>3, <1>4, <1>12 DEF TrustJobFails, TakeTrustJob
  <1>13. ASSUME UNCHANGED settlementVars
         PROVE  Calm
    BY <1>3, <1>4, <1>13 DEF settlementVars
  <1> QED
    BY <1>6, <1>7, <1>8, <1>9, <1>10, <1>11, <1>12, <1>13
       DEF Step, Settle, ScoreUser, Fail

-----------------------------------------------------------------------------
LEMMA NextIsStep ==
  [SettlementNext]_settlementVars => Step
  BY DEF SettlementNext, Step

\* However confirmations, workers and failures interleave, a worker is always at
\* an active job of its own, of a ride that was completed, no ride is counted
\* before it is paid, and nothing is paid that was not completed.
THEOREM WorkersInvariant ==
  SettlementSpec => []WorkersOK
  <1>1. WorkersOK /\ [SettlementNext]_settlementVars => WorkersOK'
    <2> SUFFICES ASSUME WorkersOK, [SettlementNext]_settlementVars
                 PROVE  WorkersOK'
      OBVIOUS
    <2>1. Step
      BY NextIsStep
    <2>2. /\ SettlementTypeOK /\ \A s \in Servers : ScorerOK(s)
          /\ \A s \in Servers : settler[s].step # "idle" => settler[s].ride \in Rides
      BY WorkerTypes DEF WorkersOK
    <2>3. SettlementTypeOK'
      BY <2>1, <2>2, SettlementTypes
    <2> QED
      BY <2>1, <2>3, WorkersStep
  <1> QED
    BY <1>1, WorkersInit, PTL DEF SettlementSpec

\* Every variable keeps its type, and a user without statistics has none.
THEOREM SettlementTypeCorrect ==
  SettlementSpec => []SettlementTypeOK
  <1>1. WorkersOK => SettlementTypeOK
    BY DEF WorkersOK
  <1> QED
    BY <1>1, WorkersInvariant, PTL

-----------------------------------------------------------------------------
(* Nothing is lost.                                                        *)

LEMMA CountedForBound ==
  ASSUME NEW u \in Users
  PROVE  /\ IsFiniteSet(RidesOf(u))
         /\ IsFiniteSet(CountedFor(u))
         /\ Cardinality(CountedFor(u)) \in Nat
  <1>1. RidesOf(u) \in SUBSET Rides /\ CountedFor(u) \in SUBSET Rides
    BY DEF RidesOf, CountedFor
  <1> QED
    BY <1>1, SettlementAssumption, FS_Subset, FS_CardinalityType

LEMMA NoneLostInit ==
  SettlementInit => NoneLost
  <1> SUFFICES ASSUME SettlementInit, NEW u \in Users
               PROVE  stats[u].rides >= StatsBefore(u).rides + Cardinality(CountedFor(u))
    BY DEF NoneLost
  <1>1. CountedFor(u) = {}
    <2>1. \A r \in Rides : ~Done(r)
      BY DEF SettlementInit, CompletionInit, Done, NoJob
    <2>2. \A s \in Servers : ~HasCounted(s, u)
      BY DEF SettlementInit, HasCounted, NoSettler
    <2> QED
      BY <2>1, <2>2 DEF CountedFor, RidesOf
  <1>2. Cardinality(CountedFor(u)) = 0
    BY <1>1, FS_EmptySet
  <1>3. StatsBefore(u).rides \in Nat /\ stats[u] = StatsBefore(u)
    BY StatsBeforeType DEF SettlementInit
  <1> QED
    BY <1>2, <1>3

LEMMA NoneLostStep ==
  ASSUME WorkersOK, WorkersOK', NoneLost, Step
  PROVE  NoneLost'
  <1> USE SettlementAssumption
  <1>1. /\ job \in [Rides -> [JobNo -> Job]]
        /\ stats \in [Users -> UserStats] /\ stats' \in [Users -> UserStats]
        /\ settler \in [Servers -> Settler]
    BY DEF WorkersOK, SettlementTypeOK
  <1>2. \A s \in Servers : SettlerOK(s)
    BY DEF WorkersOK
  <1>3. ASSUME NEW u \in Users, NEW r \in Rides,
               CountedFor(u)' \subseteq CountedFor(u) \cup {r},
               stats'[u].rides = stats[u].rides + 1
        PROVE  stats'[u].rides >= StatsBefore(u).rides + Cardinality(CountedFor(u)')
    <2> DEFINE C == CountedFor(u)
    <2>1. IsFiniteSet(C) /\ Cardinality(C) \in Nat
      BY CountedForBound
    <2>2. /\ IsFiniteSet(C \cup {r}) /\ Cardinality(C \cup {r}) \in Nat
          /\ Cardinality(C \cup {r}) <= Cardinality(C) + 1
      <3>1. Cardinality(C \cup {r}) = IF r \in C THEN Cardinality(C) ELSE Cardinality(C) + 1
        BY <2>1, FS_AddElement
      <3> QED
        BY <2>1, <3>1, FS_AddElement
    <2>3. Cardinality(CountedFor(u)') <= Cardinality(C \cup {r}) /\ Cardinality(CountedFor(u)') \in Nat
      BY <1>3, <2>2, FS_Subset, FS_CardinalityType
    <2>4. stats[u].rides >= StatsBefore(u).rides + Cardinality(C)
      BY DEF NoneLost
    <2>5. stats[u].rides \in Nat /\ StatsBefore(u).rides \in Nat
      BY <1>1, StatsBeforeType DEF UserStats
    <2> HIDE DEF C
    <2> QED
      BY <1>3, <2>1, <2>2, <2>3, <2>4, <2>5
  <1>4. ASSUME NEW u \in Users, CountedFor(u)' \subseteq CountedFor(u),
               stats'[u].rides = stats[u].rides
        PROVE  stats'[u].rides >= StatsBefore(u).rides + Cardinality(CountedFor(u)')
    <2> DEFINE C == CountedFor(u)
    <2>1. IsFiniteSet(C) /\ Cardinality(C) \in Nat
      BY CountedForBound
    <2>2. Cardinality(CountedFor(u)') <= Cardinality(C) /\ Cardinality(CountedFor(u)') \in Nat
      BY <1>4, <2>1, FS_Subset, FS_CardinalityType
    <2>3. stats[u].rides >= StatsBefore(u).rides + Cardinality(C)
      BY DEF NoneLost
    <2>4. stats[u].rides \in Nat /\ StatsBefore(u).rides \in Nat
      BY <1>1, StatsBeforeType DEF UserStats
    <2> HIDE DEF C
    <2> QED
      BY <1>4, <2>1, <2>2, <2>3, <2>4
  <1>5. ASSUME SameTally,
               \A r \in Rides, u \in Users : r \in RidesOf(u) /\ Done(r)' => r \in CountedFor(u),
               \A s \in Servers, u \in Users : settler'[s].ride \in RidesOf(u) /\ HasCounted(s, u)'
                 => settler'[s].ride \in CountedFor(u)
        PROVE  NoneLost'
    <2>1. ASSUME NEW u \in Users
          PROVE  CountedFor(u)' \subseteq CountedFor(u)
      <3> SUFFICES ASSUME NEW r \in CountedFor(u)'
                   PROVE  r \in CountedFor(u)
        OBVIOUS
      <3>1. r \in RidesOf(u) /\ r \in Rides
        BY DEF CountedFor, RidesOf
      <3>2. CASE Done(r)'
        BY <1>5, <3>1, <3>2
      <3>3. CASE \E s \in Servers : settler'[s].ride = r /\ HasCounted(s, u)'
        BY <1>5, <3>1, <3>3
      <3> QED
        BY <3>2, <3>3 DEF CountedFor
    <2> QED
      BY <1>4, <1>5, <2>1 DEF SameTally, NoneLost
  <1>6. \A r \in Rides, u \in Users : r \in RidesOf(u) /\ Done(r) => r \in CountedFor(u)
    BY DEF CountedFor
  <1>7. \A s \in Servers, u \in Users : settler[s].ride \in RidesOf(u) /\ HasCounted(s, u)
          => settler[s].ride \in CountedFor(u)
    BY DEF CountedFor
  <1>8. ASSUME NEW s \in Servers, Alone(s), SameTally,
               \A r \in Rides, u \in Users : r \in RidesOf(u) /\ Done(r)' => r \in CountedFor(u),
               \A u \in Users : HasCounted(s, u)' => HasCounted(s, u) /\ settler'[s].ride = settler[s].ride
        PROVE  NoneLost'
    <2>1. ASSUME NEW t \in Servers, NEW u \in Users,
                 settler'[t].ride \in RidesOf(u), HasCounted(t, u)'
          PROVE  settler'[t].ride \in CountedFor(u)
      <3>1. CASE t = s
        BY <1>7, <1>8, <2>1, <3>1
      <3>2. CASE t # s
        <4>1. settler'[t] = settler[t]
          BY <1>8, <3>2 DEF Alone
        <4>2. HasCounted(t, u)
          BY <2>1, <4>1 DEF HasCounted
        <4> QED
          BY <1>7, <2>1, <4>1, <4>2
      <3> QED
        BY <3>1, <3>2
    <2> QED
      BY <1>5, <1>8, <2>1
  <1>9. ASSUME Calm
        PROVE  NoneLost'
    <2>1. \A r \in Rides : Done(r)' => Done(r)
      BY <1>9 DEF Calm, Done
    <2>2. \A s \in Servers, u \in Users : HasCounted(s, u)' => HasCounted(s, u)
      BY <1>9 DEF Calm, HasCounted
    <2> QED
      BY <1>5, <1>6, <1>7, <1>9, <2>1, <2>2 DEF Calm
  <1>10. ASSUME NEW s \in Servers, NEW r \in Rides, NEW n \in JobNo, Takes(s, r, n)
         PROVE  NoneLost'
    <2>1. \A u \in Users : ~(HasCounted(s, u)')
      BY <1>10 DEF Takes, HasCounted, NoSettler
    <2>2. \A q \in Rides : Done(q)' => Done(q)
      <3>1. /\ job'[r][n].state = "active"
            /\ \A q \in Rides, m \in JobNo : q # r \/ m # n => job'[q][m] = job[q][m]
        BY <1>1, <1>10, JobWritten DEF Takes
      <3> QED
        BY <3>1 DEF Done
    <2> QED
      BY <1>6, <1>8, <1>10, <2>1, <2>2 DEF Takes
  <1>11. ASSUME NEW s \in Servers, FindPayment(s) \/ CreatePayment(s)
         PROVE  NoneLost'
    <2> DEFINE w == settler[s]
    <2>1. /\ w.left = Side /\ UNCHANGED <<job, stats>>
      BY <1>2, <1>11 DEF FindPayment, CreatePayment, SettlerAt, SettlerOK
    <2>2. /\ Alone(s) /\ SameTally
      BY <1>1, <1>11 DEF FindPayment, CreatePayment, SettlerNext, Alone, SameTally
    <2>3. settler'[s].left = Side /\ settler'[s].step \in {"createPayment", "count"}
      <3>1. PICK step \in {"createPayment", "count"} : settler'[s] = [w EXCEPT !.step = step]
        <4>1. AfterFinding(payments[w.ride]) \in {"createPayment", "count"}
          BY DEF AfterFinding
        <4> QED
          BY <1>1, <1>11, <4>1 DEF FindPayment, CreatePayment, SettlerNext
      <3>2. w \in Settler
        BY <1>1
      <3> QED
        BY <2>1, <3>1, <3>2 DEF Settler
    <2>4. \A u \in Users : ~(HasCounted(s, u)')
      BY <2>3 DEF HasCounted
    <2>5. \A q \in Rides : Done(q)' => Done(q)
      BY <2>1 DEF Done
    <2> QED
      BY <1>6, <1>8, <2>2, <2>4, <2>5
  <1>12. ASSUME NEW s \in Servers, NEW side \in Side, CountRide(s, side)
         PROVE  NoneLost'
    <2> DEFINE w == settler[s]
               u == Party[w.ride][side]
    <2>1. /\ w.step = "count" /\ w.ride \in Rides /\ u \in Users /\ w \in Settler
          /\ side \in w.left /\ UNCHANGED job
      BY <1>1, <1>2, <1>12 DEF CountRide, SettlerOK
    <2>2. Alone(s)
      BY <1>1, <1>12 DEF CountRide, Alone
    <2>3. /\ stats'[u].rides = stats[u].rides + 1
          /\ \A v \in Users : v # u => stats'[v].rides = stats[v].rides
      <3>1. stats' = [stats EXCEPT ![u] = Counted(stats[u], Earning(w.ride, side))]
        BY <1>12 DEF CountRide
      <3>2. Earning(w.ride, side) \in Nat
        BY <2>1 DEF Earning
      <3>3. Counted(stats[u], Earning(w.ride, side)).rides = stats[u].rides + 1
        BY <1>1, <2>1, <3>2, TallyFields
      <3> QED
        BY <1>1, <2>1, <3>1, <3>3
    <2>4. /\ settler'[s].ride = w.ride
          /\ \/ settler'[s].step = "addTrust" /\ w.left = {side}
             \/ settler'[s].step = "count" /\ settler'[s].left = w.left \ {side}
      <3>1. \/ settler'[s] = [w EXCEPT !.step = "addTrust", !.left = Side] /\ w.left = {side}
            \/ settler'[s] = [w EXCEPT !.left = w.left \ {side}]
        BY <1>1, <1>12 DEF CountRide
      <3> QED
        BY <2>1, <3>1 DEF Settler
    <2>5. ASSUME NEW v \in Users, w.ride \in RidesOf(v), HasCounted(s, v)'
          PROVE  v = u \/ HasCounted(s, v)
      <3>1. PICK other \in Side : Party[w.ride][other] = v /\ (other = side \/ other \notin w.left)
        <4>1. CASE settler'[s].step = "addTrust" /\ w.left = {side}
          BY <2>5, <4>1 DEF RidesOf
        <4>2. CASE settler'[s].step = "count" /\ settler'[s].left = w.left \ {side}
          BY <2>4, <2>5, <4>2 DEF HasCounted
        <4> QED
          BY <2>4, <4>1, <4>2
      <3> QED
        BY <2>1, <3>1 DEF HasCounted
    <2>6. ASSUME NEW v \in Users, NEW r \in CountedFor(v)'
          PROVE  r \in CountedFor(v) \/ (v = u /\ r = w.ride)
      <3>1. r \in RidesOf(v) /\ r \in Rides
        BY <2>6 DEF CountedFor, RidesOf
      <3>2. CASE Done(r)'
        <4>1. Done(r)
          BY <2>1, <3>2 DEF Done
        <4> QED
          BY <3>1, <4>1 DEF CountedFor
      <3>3. CASE \E t \in Servers : settler'[t].ride = r /\ HasCounted(t, v)'
        <4>1. PICK t \in Servers : settler'[t].ride = r /\ HasCounted(t, v)'
          BY <3>3
        <4>2. CASE t = s
          BY <1>7, <2>4, <2>5, <3>1, <4>1, <4>2
        <4>3. CASE t # s
          <5>1. settler'[t] = settler[t]
            BY <2>2, <4>3 DEF Alone
          <5>2. HasCounted(t, v)
            BY <4>1, <5>1 DEF HasCounted
          <5>3. settler[t].ride = r
            BY <4>1, <5>1
          <5> QED
            BY <3>1, <5>2, <5>3 DEF CountedFor
        <4> QED
          BY <4>2, <4>3
      <3> QED
        BY <2>6, <3>2, <3>3 DEF CountedFor
    <2>7. ASSUME NEW v \in Users
          PROVE  stats'[v].rides >= StatsBefore(v).rides + Cardinality(CountedFor(v)')
      <3>1. CASE v = u
        <4>1. CountedFor(v)' \subseteq CountedFor(v) \cup {w.ride}
          BY <2>6
        <4> QED
          BY <1>3, <2>1, <2>3, <3>1, <4>1
      <3>2. CASE v # u
        <4>1. CountedFor(v)' \subseteq CountedFor(v)
          BY <2>6, <3>2
        <4> QED
          BY <1>4, <2>3, <3>2, <4>1
      <3> QED
        BY <3>1, <3>2
    <2> QED
      BY <2>7 DEF NoneLost
  <1>13. ASSUME NEW s \in Servers, Serves(s)
         PROVE  NoneLost'
    <2>1. \A q \in Rides : Done(q)' => Done(q)
      BY <1>13 DEF Done, Serves
    <2>2. \A u \in Users : HasCounted(s, u)' => HasCounted(s, u)
      BY <1>13 DEF HasCounted, Serves
    <2> QED
      BY <1>6, <1>8, <1>13, <2>1, <2>2 DEF Serves
  <1>14. ASSUME NEW s \in Servers, Ends(s)
         PROVE  NoneLost'
    <2>1. \A u \in Users : ~(HasCounted(s, u)')
      BY <1>14 DEF Ends, HasCounted, NoSettler
    <2>2. ASSUME NEW q \in Rides, NEW u \in Users, q \in RidesOf(u), Done(q)'
          PROVE  q \in CountedFor(u)
      <3>1. PICK n \in JobNo : job'[q][n].state = "done"
        BY <2>2 DEF Done
      <3>2. \/ job[q][n].state = "done"
            \/ q = settler[s].ride /\ settler[s].step = "addTrust"
        BY <1>14, <3>1 DEF Ends
      <3>3. CASE job[q][n].state = "done"
        BY <1>6, <2>2, <3>3 DEF Done
      <3>4. CASE q = settler[s].ride /\ settler[s].step = "addTrust"
        BY <1>7, <2>2, <3>4 DEF HasCounted
      <3> QED
        BY <3>2, <3>3, <3>4
    <2> QED
      BY <1>8, <1>14, <2>1, <2>2 DEF Ends
  <1> QED
    BY <1>9, <1>10, <1>11, <1>12, <1>13, <1>14, StepKinds

\* Settlement loses nothing.
THEOREM NothingSettledIsLost ==
  SettlementSpec => []SettledRidesAreCounted
  <1>1. WorkersOK /\ WorkersOK' /\ NoneLost /\ [SettlementNext]_settlementVars => NoneLost'
    BY NoneLostStep, NextIsStep
  <1>2. WorkersOK /\ NoneLost => SettledRidesAreCounted
    <2> SUFFICES ASSUME WorkersOK, NoneLost, NEW u \in Users
                 PROVE  stats[u].rides >=
                          StatsBefore(u).rides + Cardinality({r \in RidesOf(u) : Done(r)})
      BY DEF WorkersOK, SettledRidesAreCounted
    <2> DEFINE D == {r \in RidesOf(u) : Done(r)}
               C == CountedFor(u)
    <2>1. D \subseteq C
      BY DEF CountedFor
    <2>2. IsFiniteSet(C) /\ Cardinality(C) \in Nat
      BY CountedForBound
    <2>3. Cardinality(D) <= Cardinality(C) /\ Cardinality(D) \in Nat
      BY <2>1, <2>2, FS_Subset, FS_CardinalityType
    <2>4. stats[u].rides >= StatsBefore(u).rides + Cardinality(C)
      BY DEF NoneLost
    <2>5. stats[u].rides \in Nat /\ StatsBefore(u).rides \in Nat
      BY StatsBeforeType DEF WorkersOK, SettlementTypeOK, UserStats
    <2> HIDE DEF C, D
    <2>6. stats[u].rides >= StatsBefore(u).rides + Cardinality(D)
      BY <2>2, <2>3, <2>4, <2>5
    <2> QED
      BY <2>6 DEF D
  <1> QED
    BY <1>1, <1>2, NoneLostInit, WorkersInvariant, PTL DEF SettlementSpec

-----------------------------------------------------------------------------
(* Nothing is invented.                                                    *)

LEMMA DueTypes ==
  ASSUME WorkersOK, NEW u \in Users
  PROVE  /\ RidesDue(u) \in [Servers -> Nat]
         /\ FareDue(u) \in [Servers -> Nat]
         /\ SumFunctionOnSet(RidesDue(u), Servers) \in Nat
         /\ SumFunctionOnSet(FareDue(u), Servers) \in Nat
         /\ \A s \in Servers : One(YetToCount(s, u)) \in Nat /\ FareOf(s, u) \in Nat
  <1>1. RidesDue(u) \in [Servers -> Nat]
    BY DEF RidesDue, One
  <1>2. \A s \in Servers : settler[s].step # "idle" => Fare[settler[s].ride] \in Nat
    BY WorkerTypes
  <1>3. FareDue(u) \in [Servers -> Nat]
    BY <1>2 DEF FareDue, FareOf
  <1>4. Servers \in SUBSET Servers /\ IsFiniteSet(Servers)
    BY SettlementAssumption
  <1>5. SumFunctionOnSet(RidesDue(u), Servers) \in Nat
    BY <1>1, <1>4, SumSubset, Zenon
  <1>6. SumFunctionOnSet(FareDue(u), Servers) \in Nat
    BY <1>3, <1>4, SumSubset, Zenon
  <1>7. \A s \in Servers : One(YetToCount(s, u)) \in Nat /\ FareOf(s, u) \in Nat
    BY <1>2 DEF One, FareOf
  <1> QED
    BY <1>1, <1>3, <1>5, <1>6, <1>7

LEMMA DueStep ==
  ASSUME WorkersOK, WorkersOK', NEW s \in Servers, Alone(s), NEW u \in Users
  PROVE  /\ SumFunctionOnSet(RidesDue(u)', Servers) =
              SumFunctionOnSet(RidesDue(u), Servers)
                + (One(YetToCount(s, u)') - One(YetToCount(s, u)))
         /\ SumFunctionOnSet(FareDue(u)', Servers) =
              SumFunctionOnSet(FareDue(u), Servers) + (FareOf(s, u)' - FareOf(s, u))
  <1>1. Servers \in SUBSET Servers /\ IsFiniteSet(Servers)
    BY SettlementAssumption
  <1>2. PICK f \in [Servers -> Int], g \in [Servers -> Int] :
          f = RidesDue(u) /\ g = RidesDue(u)'
    <2>1. RidesDue(u) \in [Servers -> Nat]
      BY DueTypes
    <2>2. RidesDue(u)' = [t \in Servers |-> One(YetToCount(t, u)')]
      BY DEF RidesDue
    <2>3. RidesDue(u)' \in [Servers -> Int]
      BY <2>2 DEF One
    <2> QED
      BY <2>1, <2>3
  <1>3. PICK p \in [Servers -> Int], q \in [Servers -> Int] :
          p = FareDue(u) /\ q = FareDue(u)'
    <2>1. FareDue(u) \in [Servers -> Nat]
      BY DueTypes
    <2>2. FareDue(u)' = [t \in Servers |-> FareOf(t, u)']
      BY DEF FareDue, FareOf
    <2>3. settler' \in [Servers -> Settler] /\ \A t \in Servers : SettlerOK(t)'
      BY DEF WorkersOK, SettlementTypeOK
    <2>4. \A t \in Servers : FareOf(t, u)' \in Nat
      BY <2>3, SettlementAssumption DEF FareOf, SettlerOK
    <2> QED
      BY <2>1, <2>2, <2>4
  <1>4. /\ \A t \in Servers : f[t] = One(YetToCount(t, u)) /\ g[t] = One(YetToCount(t, u)')
        /\ \A t \in Servers : p[t] = FareOf(t, u) /\ q[t] = FareOf(t, u)'
    <2>1. RidesDue(u)' = [t \in Servers |-> One(YetToCount(t, u)')]
      BY DEF RidesDue
    <2>2. FareDue(u)' = [t \in Servers |-> FareOf(t, u)']
      BY DEF FareDue, FareOf
    <2>3. RidesDue(u) = [t \in Servers |-> One(YetToCount(t, u))]
      BY DEF RidesDue
    <2>4. FareDue(u) = [t \in Servers |-> FareOf(t, u)]
      BY DEF FareDue, FareOf
    <2> QED
      BY <1>2, <1>3, <2>1, <2>2, <2>3, <2>4, Zenon
  <1>5. \A t \in Servers : t # s => g[t] = f[t] /\ q[t] = p[t]
    <2>1. \A t \in Servers : t # s =>
            /\ One(YetToCount(t, u)') = One(YetToCount(t, u))
            /\ FareOf(t, u)' = FareOf(t, u)
      BY DEF Alone, YetToCount, FareOf, One
    <2> QED
      BY <1>4, <2>1
  <1>6. SumFunctionOnSet(g, Servers) = SumFunctionOnSet(f, Servers) + (g[s] - f[s])
    <2>1. \A t \in Servers : t # s => g[t] = f[t]
      BY <1>5
    <2> QED
      BY <1>1, <2>1, SumStep
  <1>7. SumFunctionOnSet(q, Servers) = SumFunctionOnSet(p, Servers) + (q[s] - p[s])
    <2>1. \A t \in Servers : t # s => q[t] = p[t]
      BY <1>5
    <2> QED
      BY <1>1, <2>1, SumStep
  <1> QED
    BY <1>2, <1>3, <1>4, <1>6, <1>7

LEMMA AttemptsTypes ==
  ASSUME job \in [Rides -> [JobNo -> Job]]
  PROVE  /\ \A r \in Rides, n \in JobNo : Attempts(r, n) \in Nat
         /\ AllAttempts \in [Rides -> Nat]
         /\ FareAttempts \in [Rides -> Nat]
         /\ \A u \in Users : /\ SumFunctionOnSet(AllAttempts, RidesOf(u)) \in Nat
                             /\ SumFunctionOnSet(FareAttempts, DrivenBy(u)) \in Nat
  <1>1. \A r \in Rides, n \in JobNo : Attempts(r, n) \in Nat
    BY SettlementAssumption DEF Attempts, Job, Stalls
  <1>2. ASSUME NEW r \in Rides
        PROVE  AllAttempts[r] \in Nat
    <2> DEFINE f == [n \in JobNo |-> Attempts(r, n)]
    <2>1. f \in [JobNo -> Nat] /\ DOMAIN f = JobNo
      BY <1>1
    <2>2. AllAttempts[r] = SumFunctionOnSet(f, DOMAIN f)
      BY DEF AllAttempts, SumFunction
    <2>3. IsFiniteSet(JobNo) /\ JobNo \in SUBSET JobNo
      BY SettlementAssumption, FS_Interval DEF JobNo
    <2> HIDE DEF f
    <2> QED
      BY <2>1, <2>2, <2>3, SumSubset
  <1>3. AllAttempts \in [Rides -> Nat]
    BY <1>2 DEF AllAttempts
  <1>4. FareAttempts \in [Rides -> Nat]
    <2>1. \A r \in Rides : AllAttempts[r] \in Nat /\ Fare[r] \in Nat
      BY <1>2, SettlementAssumption
    <2>2. \A a, b \in Nat : a * b \in Nat
      OBVIOUS
    <2> QED
      BY <2>1, <2>2 DEF FareAttempts
  <1>5. \A u \in Users : /\ RidesOf(u) \in SUBSET Rides /\ DrivenBy(u) \in SUBSET Rides
                         /\ IsFiniteSet(RidesOf(u)) /\ IsFiniteSet(DrivenBy(u))
    BY SettlementAssumption, FS_Subset DEF RidesOf, DrivenBy
  <1>6. ASSUME NEW u \in Users
        PROVE  /\ SumFunctionOnSet(AllAttempts, RidesOf(u)) \in Nat
               /\ SumFunctionOnSet(FareAttempts, DrivenBy(u)) \in Nat
    BY <1>3, <1>4, <1>5, SumSubset
  <1> QED
    BY <1>1, <1>3, <1>4, <1>6

LEMMA AttemptsSame ==
  ASSUME \A r \in Rides, n \in JobNo : Attempts(r, n)' = Attempts(r, n)
  PROVE  AllAttempts' = AllAttempts /\ FareAttempts' = FareAttempts
  <1>1. \A q \in Rides : [m \in JobNo |-> Attempts(q, m)'] = [m \in JobNo |-> Attempts(q, m)]
    OBVIOUS
  <1>2. AllAttempts = [q \in Rides |-> SumFunctionOnSet([m \in JobNo |-> Attempts(q, m)], JobNo)]
    BY DEF AllAttempts, SumFunction
  <1>3. AllAttempts' = [q \in Rides |-> SumFunctionOnSet([m \in JobNo |-> Attempts(q, m)'], JobNo)]
    BY DEF AllAttempts, SumFunction
  <1>4. AllAttempts' = AllAttempts
    BY <1>1, <1>2, <1>3
  <1> QED
    BY <1>4 DEF FareAttempts

\* An attempt at a job of ride r begins, or d = 0 and none does.
LEMMA AttemptsStep ==
  ASSUME job \in [Rides -> [JobNo -> Job]], (job \in [Rides -> [JobNo -> Job]])',
         NEW r \in Rides, NEW n \in JobNo, NEW d \in {0, 1},
         Attempts(r, n)' = Attempts(r, n) + d,
         \A q \in Rides, m \in JobNo : q # r \/ m # n => Attempts(q, m)' = Attempts(q, m),
         NEW u \in Users
  PROVE  /\ SumFunctionOnSet(AllAttempts', RidesOf(u)) =
              SumFunctionOnSet(AllAttempts, RidesOf(u)) + (IF r \in RidesOf(u) THEN d ELSE 0)
         /\ SumFunctionOnSet(FareAttempts', DrivenBy(u)) =
              SumFunctionOnSet(FareAttempts, DrivenBy(u))
                + (IF r \in DrivenBy(u) /\ d = 1 THEN Fare[r] ELSE 0)
  <1>1. \A q \in Rides : \A m \in JobNo : Attempts(q, m) \in Nat /\ Attempts(q, m)' \in Nat
    <2>1. \A q \in Rides, m \in JobNo : Attempts(q, m) \in Nat
      BY AttemptsTypes
    <2>2. \A q \in Rides, m \in JobNo : Attempts(q, m)' \in Nat
      BY SettlementAssumption DEF Attempts, Job, Stalls
    <2> QED
      BY <2>1, <2>2
  <1>2. PICK F \in [Rides -> [JobNo -> Int]], G \in [Rides -> [JobNo -> Int]] :
          /\ F = [q \in Rides |-> [m \in JobNo |-> Attempts(q, m)]]
          /\ G = [q \in Rides |-> [m \in JobNo |-> Attempts(q, m)']]
    <2>1. \A q \in Rides : [m \in JobNo |-> Attempts(q, m)] \in [JobNo -> Int]
      BY <1>1
    <2>2. \A q \in Rides : [m \in JobNo |-> Attempts(q, m)'] \in [JobNo -> Int]
      BY <1>1
    <2> QED
      BY <2>1, <2>2
  <1>3. Changes2(F, G, Rides, JobNo, r, n, d)
    BY <1>2 DEF Changes2
  <1>4. IsFiniteSet(JobNo) /\ JobNo \in SUBSET JobNo
    BY SettlementAssumption, FS_Interval DEF JobNo
  <1>5. /\ AllAttempts = [q \in Rides |-> SumFunctionOnSet(F[q], JobNo)]
        /\ AllAttempts' = [q \in Rides |-> SumFunctionOnSet(G[q], JobNo)]
    <2>1. \A q \in Rides : F[q] = [m \in JobNo |-> Attempts(q, m)] /\ G[q] = [m \in JobNo |-> Attempts(q, m)']
      BY <1>2
    <2>2. AllAttempts = [q \in Rides |-> SumFunctionOnSet([m \in JobNo |-> Attempts(q, m)], JobNo)]
      BY DEF AllAttempts, SumFunction
    <2>3. AllAttempts' = [q \in Rides |-> SumFunctionOnSet([m \in JobNo |-> Attempts(q, m)'], JobNo)]
      BY DEF AllAttempts, SumFunction
    <2> QED
      BY <2>1, <2>2, <2>3, Zenon
  <1>6. PICK A \in [Rides -> Int], B \in [Rides -> Int] :
          /\ A = AllAttempts /\ B = AllAttempts'
          /\ \A q \in Rides : A[q] = SumFunctionOnSet(F[q], JobNo)
          /\ \A q \in Rides : B[q] = SumFunctionOnSet(G[q], JobNo)
    <2>1. \A q \in Rides : SumFunctionOnSet(F[q], JobNo) \in Int /\ SumFunctionOnSet(G[q], JobNo) \in Int
      BY <1>3, <1>4, Sum2Change
    <2>2. AllAttempts \in [Rides -> Int] /\ AllAttempts' \in [Rides -> Int]
      BY <1>5, <2>1
    <2>3. /\ \A q \in Rides : AllAttempts[q] = SumFunctionOnSet(F[q], JobNo)
          /\ \A q \in Rides : AllAttempts'[q] = SumFunctionOnSet(G[q], JobNo)
      BY <1>5, Zenon
    <2> QED
      BY <2>2, <2>3
  <1>7. /\ RidesOf(u) \in SUBSET Rides /\ IsFiniteSet(RidesOf(u))
        /\ DrivenBy(u) \in SUBSET Rides /\ IsFiniteSet(DrivenBy(u))
    BY SettlementAssumption, FS_Subset DEF RidesOf, DrivenBy
  <1>8. /\ \A q \in Rides : q # r => B[q] = A[q]
        /\ B[r] = A[r] + d
    BY <1>3, <1>4, <1>6, Sum2Change
  <1>9. SumFunctionOnSet(B, RidesOf(u)) =
          SumFunctionOnSet(A, RidesOf(u)) + (IF r \in RidesOf(u) THEN d ELSE 0)
    <2>1. Changes(A, B, Rides, r) /\ B[r] - A[r] = d
      BY <1>8 DEF Changes
    <2>2. SumFunctionOnSet(B, RidesOf(u)) =
            SumFunctionOnSet(A, RidesOf(u)) + (IF r \in RidesOf(u) THEN B[r] - A[r] ELSE 0)
      BY <1>7, <2>1, SumChange
    <2> QED
      BY <2>1, <2>2
  <1>10. PICK H \in [Rides -> Int], K \in [Rides -> Int] :
           /\ H = FareAttempts /\ K = FareAttempts'
           /\ \A q \in Rides : H[q] = Fare[q] * A[q] /\ K[q] = Fare[q] * B[q]
    <2>1. \A q \in Rides : Fare[q] \in Int /\ A[q] \in Int /\ B[q] \in Int
      BY SettlementAssumption
    <2>2. \A i, j \in Int : i * j \in Int
      OBVIOUS
    <2>3. FareAttempts = [q \in Rides |-> Fare[q] * A[q]]
      BY <1>6 DEF FareAttempts
    <2>4. FareAttempts' = [q \in Rides |-> Fare[q] * B[q]]
      BY <1>6 DEF FareAttempts
    <2>5. FareAttempts \in [Rides -> Int] /\ FareAttempts' \in [Rides -> Int]
      BY <2>1, <2>2, <2>3, <2>4
    <2>6. /\ \A q \in Rides : FareAttempts[q] = Fare[q] * A[q]
          /\ \A q \in Rides : FareAttempts'[q] = Fare[q] * B[q]
      BY <2>3, <2>4, Zenon
    <2> QED
      BY <2>5, <2>6
  <1>11. \A q \in Rides : q # r => K[q] = H[q]
    <2>1. ASSUME NEW q \in Rides, q # r
          PROVE  K[q] = H[q]
      <3>1. B[q] = A[q]
        BY <1>8, <2>1
      <3> QED
        BY <1>10, <3>1, Zenon
    <2> QED
      BY <2>1
  <1>12. K[r] - H[r] = IF d = 1 THEN Fare[r] ELSE 0
    <2>1. \A i, j \in Int : i * (j + 1) = i * j + i
      OBVIOUS
    <2>2. Fare[r] \in Int /\ A[r] \in Int /\ H[r] \in Int
      BY SettlementAssumption
    <2>3. CASE d = 0
      <3>1. B[r] = A[r]
        BY <1>8, <2>2, <2>3
      <3>2. K[r] = H[r]
        BY <1>10, <3>1, Zenon
      <3> QED
        BY <2>2, <2>3, <3>2
    <2>4. CASE d = 1
      <3>1. K[r] = Fare[r] * (A[r] + 1) /\ H[r] = Fare[r] * A[r]
        BY <1>8, <1>10, <2>4
      <3>2. K[r] = H[r] + Fare[r]
        BY <2>1, <2>2, <3>1
      <3> QED
        BY <2>2, <2>4, <3>2
    <2> QED
      BY <2>3, <2>4
  <1>13. SumFunctionOnSet(K, DrivenBy(u)) =
           SumFunctionOnSet(H, DrivenBy(u)) + (IF r \in DrivenBy(u) /\ d = 1 THEN Fare[r] ELSE 0)
    <2>1. Changes(H, K, Rides, r)
      BY <1>11 DEF Changes
    <2>2. SumFunctionOnSet(K, DrivenBy(u)) =
            SumFunctionOnSet(H, DrivenBy(u)) + (IF r \in DrivenBy(u) THEN K[r] - H[r] ELSE 0)
      BY <1>7, <2>1, SumChange
    <2>3. SumFunctionOnSet(H, DrivenBy(u)) \in Int
      BY <1>7, <2>1, SumChange
    <2> QED
      BY <1>12, <2>2, <2>3
  <1> QED
    BY <1>6, <1>9, <1>10, <1>13

-----------------------------------------------------------------------------
LEMMA NoneInventedInit ==
  SettlementInit => NoneInvented
  <1> SUFFICES ASSUME SettlementInit, NEW u \in Users
               PROVE  /\ stats[u].rides + SumFunctionOnSet(RidesDue(u), Servers)
                           <= StatsBefore(u).rides + SumFunctionOnSet(AllAttempts, RidesOf(u))
                      /\ stats[u].earned + SumFunctionOnSet(FareDue(u), Servers)
                           <= SumFunctionOnSet(FareAttempts, DrivenBy(u))
    BY DEF NoneInvented
  <1>1. WorkersOK
    BY WorkersInit
  <1>2. /\ SumFunctionOnSet(AllAttempts, RidesOf(u)) \in Nat
        /\ SumFunctionOnSet(FareAttempts, DrivenBy(u)) \in Nat
    BY <1>1, AttemptsTypes DEF WorkersOK, SettlementTypeOK
  <1>3. /\ SumFunctionOnSet(RidesDue(u), Servers) = 0
        /\ SumFunctionOnSet(FareDue(u), Servers) = 0
    <2> DEFINE Z == [s \in Servers |-> 0]
    <2>1. \A s \in Servers : ~YetToCount(s, u)
      BY DEF SettlementInit, YetToCount, NoSettler
    <2>2. RidesDue(u) = Z
      BY <2>1 DEF RidesDue, One
    <2>3. FareDue(u) = Z
      BY DEF FareDue, FareOf, SettlementInit, NoSettler
    <2>4. SumFunctionOnSet(Z, Servers) = 0
      BY SumZero, SettlementAssumption
    <2> QED
      BY <2>2, <2>3, <2>4
  <1>4. stats[u].rides = StatsBefore(u).rides /\ stats[u].earned = 0 /\ StatsBefore(u).rides \in Nat
    BY StatsBeforeType DEF SettlementInit
  <1> QED
    BY <1>2, <1>3, <1>4

LEMMA NoneInventedStep ==
  ASSUME WorkersOK, WorkersOK', NoneInvented, Step
  PROVE  NoneInvented'
  <1> USE SettlementAssumption
  <1>1. /\ job \in [Rides -> [JobNo -> Job]] /\ (job \in [Rides -> [JobNo -> Job]])'
        /\ stats \in [Users -> UserStats]
        /\ settler \in [Servers -> Settler]
    BY DEF WorkersOK, SettlementTypeOK
  <1>2. \A s \in Servers : SettlerOK(s)
    BY DEF WorkersOK
  \* The tally u has, what is due to it, and the attempts made for it.
  <1>3. ASSUME NEW u \in Users,
               NEW dr \in Int, NEW de \in Int, NEW yr \in Int, NEW ye \in Int,
               NEW ar \in Int, NEW ae \in Int,
               stats'[u].rides = stats[u].rides + dr,
               stats'[u].earned = stats[u].earned + de,
               SumFunctionOnSet(RidesDue(u)', Servers) = SumFunctionOnSet(RidesDue(u), Servers) + yr,
               SumFunctionOnSet(FareDue(u)', Servers) = SumFunctionOnSet(FareDue(u), Servers) + ye,
               SumFunctionOnSet(AllAttempts', RidesOf(u)) =
                 SumFunctionOnSet(AllAttempts, RidesOf(u)) + ar,
               SumFunctionOnSet(FareAttempts', DrivenBy(u)) =
                 SumFunctionOnSet(FareAttempts, DrivenBy(u)) + ae,
               dr + yr <= ar, de + ye <= ae
        PROVE  /\ stats'[u].rides + SumFunctionOnSet(RidesDue(u)', Servers)
                    <= StatsBefore(u).rides + SumFunctionOnSet(AllAttempts', RidesOf(u))
               /\ stats'[u].earned + SumFunctionOnSet(FareDue(u)', Servers)
                    <= SumFunctionOnSet(FareAttempts', DrivenBy(u))
    <2>1. /\ stats[u].rides + SumFunctionOnSet(RidesDue(u), Servers)
               <= StatsBefore(u).rides + SumFunctionOnSet(AllAttempts, RidesOf(u))
          /\ stats[u].earned + SumFunctionOnSet(FareDue(u), Servers)
               <= SumFunctionOnSet(FareAttempts, DrivenBy(u))
      BY DEF NoneInvented
    <2>2. /\ SumFunctionOnSet(RidesDue(u), Servers) \in Nat
          /\ SumFunctionOnSet(FareDue(u), Servers) \in Nat
          /\ SumFunctionOnSet(AllAttempts, RidesOf(u)) \in Nat
          /\ SumFunctionOnSet(FareAttempts, DrivenBy(u)) \in Nat
      BY <1>1, DueTypes, AttemptsTypes
    <2>3. stats[u].rides \in Nat /\ stats[u].earned \in Nat /\ StatsBefore(u).rides \in Nat
      BY <1>1, StatsBeforeType DEF UserStats
    <2> QED
      BY <1>3, <2>1, <2>2, <2>3
  <1>4. ASSUME SameTally, UNCHANGED settler,
               \A r \in Rides, n \in JobNo : Attempts(r, n)' = Attempts(r, n)
        PROVE  NoneInvented'
    <2>1. AllAttempts' = AllAttempts /\ FareAttempts' = FareAttempts
      BY <1>4, AttemptsSame
    <2>2. \A u \in Users : RidesDue(u)' = RidesDue(u) /\ FareDue(u)' = FareDue(u)
      BY <1>4 DEF RidesDue, FareDue, FareOf, YetToCount
    <2> QED
      BY <1>4, <2>1, <2>2 DEF SameTally, NoneInvented
  \* A worker moves and no attempt begins.
  <1>5. ASSUME NEW s \in Servers, Alone(s),
               \A r \in Rides, n \in JobNo : Attempts(r, n)' = Attempts(r, n),
               \A u \in Users :
                 \E dr \in Int, de \in Int :
                   /\ stats'[u].rides = stats[u].rides + dr
                   /\ stats'[u].earned = stats[u].earned + de
                   /\ dr + One(YetToCount(s, u)') <= One(YetToCount(s, u))
                   /\ de + FareOf(s, u)' <= FareOf(s, u)
        PROVE  NoneInvented'
    <2>1. AllAttempts' = AllAttempts /\ FareAttempts' = FareAttempts
      BY <1>5, AttemptsSame
    <2>2. ASSUME NEW u \in Users
          PROVE  /\ stats'[u].rides + SumFunctionOnSet(RidesDue(u)', Servers)
                      <= StatsBefore(u).rides + SumFunctionOnSet(AllAttempts', RidesOf(u))
                 /\ stats'[u].earned + SumFunctionOnSet(FareDue(u)', Servers)
                      <= SumFunctionOnSet(FareAttempts', DrivenBy(u))
      <3>1. PICK dr \in Int, de \in Int :
              /\ stats'[u].rides = stats[u].rides + dr
              /\ stats'[u].earned = stats[u].earned + de
              /\ dr + One(YetToCount(s, u)') <= One(YetToCount(s, u))
              /\ de + FareOf(s, u)' <= FareOf(s, u)
        BY <1>5
      <3>2. PICK y0 \in Int, y1 \in Int, f0 \in Int, f1 \in Int :
              /\ y0 = One(YetToCount(s, u)) /\ y1 = One(YetToCount(s, u)')
              /\ f0 = FareOf(s, u) /\ f1 = FareOf(s, u)'
        <4>1. One(YetToCount(s, u)) \in Nat /\ FareOf(s, u) \in Nat
          BY DueTypes
        <4>2. One(YetToCount(s, u)') \in Int
          BY DEF One
        <4>3. FareOf(s, u)' \in Int
          <5>1. settler' \in [Servers -> Settler] /\ \A t \in Servers : SettlerOK(t)'
            BY DEF WorkersOK, SettlementTypeOK
          <5> QED
            BY <5>1 DEF FareOf, SettlerOK
        <4> QED
          BY <4>1, <4>2, <4>3
      <3>3. /\ SumFunctionOnSet(RidesDue(u)', Servers) =
                 SumFunctionOnSet(RidesDue(u), Servers) + (y1 - y0)
            /\ SumFunctionOnSet(FareDue(u)', Servers) =
                 SumFunctionOnSet(FareDue(u), Servers) + (f1 - f0)
        BY <1>5, <3>2, DueStep
      <3>4. /\ SumFunctionOnSet(AllAttempts', RidesOf(u)) =
                 SumFunctionOnSet(AllAttempts, RidesOf(u)) + 0
            /\ SumFunctionOnSet(FareAttempts', DrivenBy(u)) =
                 SumFunctionOnSet(FareAttempts, DrivenBy(u)) + 0
        BY <1>1, <2>1, AttemptsTypes
      <3>5. PICK yr \in Int, ye \in Int :
              yr = y1 - y0 /\ ye = f1 - f0 /\ dr + yr <= 0 /\ de + ye <= 0
        BY <3>1, <3>2
      <3>6. /\ SumFunctionOnSet(RidesDue(u)', Servers) = SumFunctionOnSet(RidesDue(u), Servers) + yr
            /\ SumFunctionOnSet(FareDue(u)', Servers) = SumFunctionOnSet(FareDue(u), Servers) + ye
        BY <3>3, <3>5
      <3>7. /\ stats'[u].rides = stats[u].rides + dr
            /\ stats'[u].earned = stats[u].earned + de
        BY <3>1
      <3>8. dr + yr <= 0 /\ de + ye <= 0 /\ 0 \in Int
        BY <3>5
      <3> QED
        BY <1>3, <3>4, <3>6, <3>7, <3>8
    <2> QED
      BY <2>2 DEF NoneInvented
  \* ... and no tally changes.
  <1>6. ASSUME NEW s \in Servers, Alone(s), SameTally,
               \A r \in Rides, n \in JobNo : Attempts(r, n)' = Attempts(r, n),
               \A u \in Users : (YetToCount(s, u)' => YetToCount(s, u)) /\ FareOf(s, u)' \in {0, FareOf(s, u)}
        PROVE  NoneInvented'
    <2>1. ASSUME NEW u \in Users
          PROVE  \E dr \in Int, de \in Int :
                   /\ stats'[u].rides = stats[u].rides + dr
                   /\ stats'[u].earned = stats[u].earned + de
                   /\ dr + One(YetToCount(s, u)') <= One(YetToCount(s, u))
                   /\ de + FareOf(s, u)' <= FareOf(s, u)
      <3>1. /\ stats'[u].rides = stats[u].rides + 0
            /\ stats'[u].earned = stats[u].earned + 0
        BY <1>1, <1>6 DEF SameTally, UserStats
      <3>2. 0 + One(YetToCount(s, u)') <= One(YetToCount(s, u))
        BY <1>6 DEF One
      <3>3. 0 + FareOf(s, u)' <= FareOf(s, u)
        <4>1. FareOf(s, u) \in Nat
          BY DueTypes
        <4> QED
          BY <1>6, <4>1
      <3> QED
        BY <3>1, <3>2, <3>3
    <2> QED
      BY <1>5, <1>6, <2>1
  <1>7. ASSUME Calm
        PROVE  NoneInvented'
    BY <1>4, <1>7 DEF Calm
  <1>8. ASSUME NEW s \in Servers, NEW r \in Rides, NEW n \in JobNo, Takes(s, r, n)
        PROVE  NoneInvented'
    <2>1. /\ settler[s].step = "idle"
          /\ settler'[s].step = "findPayment" /\ settler'[s].ride = r /\ settler'[s].left = Side
      BY <1>8 DEF Takes, NoSettler
    <2>2. /\ Attempts(r, n)' = Attempts(r, n) + 1
          /\ \A q \in Rides, m \in JobNo : q # r \/ m # n => Attempts(q, m)' = Attempts(q, m)
      <3>1. /\ job'[r][n].state = "active"
            /\ job'[r][n].stalls = job[r][n].stalls
            /\ \A q \in Rides, m \in JobNo : q # r \/ m # n => job'[q][m] = job[q][m]
        BY <1>1, <1>8, JobWritten DEF Takes
      <3>2. job[r][n].stalls \in Nat /\ job[r][n].state = "waiting"
        BY <1>1, <1>8 DEF Job, Stalls, Takes
      <3> QED
        BY <3>1, <3>2 DEF Attempts
    <2>3. ASSUME NEW u \in Users
          PROVE  /\ stats'[u].rides + SumFunctionOnSet(RidesDue(u)', Servers)
                      <= StatsBefore(u).rides + SumFunctionOnSet(AllAttempts', RidesOf(u))
                 /\ stats'[u].earned + SumFunctionOnSet(FareDue(u)', Servers)
                      <= SumFunctionOnSet(FareAttempts', DrivenBy(u))
      <3> DEFINE ar == IF r \in RidesOf(u) THEN 1 ELSE 0
                 ae == IF r \in DrivenBy(u) /\ 1 = 1 THEN Fare[r] ELSE 0
      <3>1. /\ SumFunctionOnSet(AllAttempts', RidesOf(u)) =
                 SumFunctionOnSet(AllAttempts, RidesOf(u)) + ar
            /\ SumFunctionOnSet(FareAttempts', DrivenBy(u)) =
                 SumFunctionOnSet(FareAttempts, DrivenBy(u)) + ae
        BY <1>1, <2>2, AttemptsStep
      <3>2. One(YetToCount(s, u)) = 0 /\ FareOf(s, u) = 0
        BY <2>1 DEF YetToCount, FareOf, One
      <3>3. One(YetToCount(s, u)') = ar
        BY <2>1 DEF YetToCount, RidesOf, One
      <3>4. FareOf(s, u)' = ae
        BY <2>1 DEF FareOf, DrivenBy, Side
      <3>5. ar \in Int /\ ae \in Int
        OBVIOUS
      <3> HIDE DEF ar, ae
      <3>6. /\ SumFunctionOnSet(RidesDue(u)', Servers) =
                 SumFunctionOnSet(RidesDue(u), Servers) + (ar - 0)
            /\ SumFunctionOnSet(FareDue(u)', Servers) =
                 SumFunctionOnSet(FareDue(u), Servers) + (ae - 0)
        BY <1>8, <3>2, <3>3, <3>4, DueStep DEF Takes
      <3>7. ar - 0 = ar /\ ae - 0 = ae /\ 0 + ar <= ar /\ 0 + ae <= ae
        BY <3>5
      <3>8. stats'[u].rides = stats[u].rides + 0 /\ stats'[u].earned = stats[u].earned + 0
        BY <1>1, <1>8 DEF Takes, SameTally, UserStats
      <3> QED
        BY <1>3, <3>1, <3>5, <3>6, <3>7, <3>8
    <2> QED
      BY <2>3 DEF NoneInvented
  <1>9. ASSUME NEW s \in Servers, FindPayment(s) \/ CreatePayment(s)
        PROVE  NoneInvented'
    <2> DEFINE w == settler[s]
    <2>1. w.step \in {"findPayment", "createPayment"} /\ w \in Settler /\ UNCHANGED <<job, stats>>
      BY <1>1, <1>9 DEF FindPayment, CreatePayment, SettlerAt
    <2>2. Alone(s) /\ SameTally /\ \A r \in Rides, n \in JobNo : Attempts(r, n)' = Attempts(r, n)
      <3>1. Alone(s)
        BY <1>1, <1>9 DEF FindPayment, CreatePayment, SettlerNext, Alone
      <3> QED
        BY <2>1, <3>1 DEF SameTally, Attempts
    <2>3. /\ settler'[s].left = w.left /\ settler'[s].ride = w.ride
          /\ settler'[s].step \in {"createPayment", "count"}
      <3>1. PICK step \in {"createPayment", "count"} : settler'[s] = [w EXCEPT !.step = step]
        <4>1. AfterFinding(payments[w.ride]) \in {"createPayment", "count"}
          BY DEF AfterFinding
        <4> QED
          BY <1>1, <1>9, <4>1 DEF FindPayment, CreatePayment, SettlerNext
      <3> QED
        BY <2>1, <3>1 DEF Settler
    <2>4. \A u \in Users : YetToCount(s, u)' = YetToCount(s, u) /\ FareOf(s, u)' = FareOf(s, u)
      BY <2>1, <2>3 DEF YetToCount, FareOf
    <2> QED
      BY <1>6, <2>2, <2>4
  <1>10. ASSUME NEW s \in Servers, NEW side \in Side, CountRide(s, side)
         PROVE  NoneInvented'
    <2> DEFINE w == settler[s]
               u == Party[w.ride][side]
               fare == Earning(w.ride, side)
    <2>1. /\ w.step = "count" /\ w.ride \in Rides /\ u \in Users /\ w \in Settler
          /\ side \in w.left /\ UNCHANGED job
      BY <1>1, <1>2, <1>10 DEF CountRide, SettlerOK
    <2>2. Alone(s) /\ \A r \in Rides, n \in JobNo : Attempts(r, n)' = Attempts(r, n)
      BY <1>1, <1>10, <2>1 DEF CountRide, Alone, Attempts
    <2>3. fare \in Nat
      BY <2>1 DEF Earning
    <2>4. /\ stats'[u].rides = stats[u].rides + 1
          /\ stats'[u].earned = stats[u].earned + fare
          /\ \A v \in Users : v # u => stats'[v] = stats[v]
      <3>1. stats' = [stats EXCEPT ![u] = Counted(stats[u], fare)]
        BY <1>10 DEF CountRide
      <3>2. /\ Counted(stats[u], fare).rides = stats[u].rides + 1
            /\ Counted(stats[u], fare).earned = stats[u].earned + fare
        BY <1>1, <2>1, <2>3, TallyFields
      <3> QED
        BY <1>1, <2>1, <3>1, <3>2
    <2>5. /\ settler'[s].ride = w.ride
          /\ \/ settler'[s].step = "addTrust" /\ w.left = {side}
             \/ settler'[s].step = "count" /\ settler'[s].left = w.left \ {side}
      <3>1. \/ settler'[s] = [w EXCEPT !.step = "addTrust", !.left = Side] /\ w.left = {side}
            \/ settler'[s] = [w EXCEPT !.left = w.left \ {side}]
        BY <1>1, <1>10 DEF CountRide
      <3> QED
        BY <2>1, <3>1 DEF Settler
    <2>6. \A other \in Side : other # side => Party[w.ride][other] # u
      BY <2>1 DEF Side
    <2>7. \A v \in Users : FareOf(s, v) \in Nat
      BY DueTypes
    <2>8. ASSUME NEW v \in Users
          PROVE  \E dr \in Int, de \in Int :
                   /\ stats'[v].rides = stats[v].rides + dr
                   /\ stats'[v].earned = stats[v].earned + de
                   /\ dr + One(YetToCount(s, v)') <= One(YetToCount(s, v))
                   /\ de + FareOf(s, v)' <= FareOf(s, v)
      <3>1. CASE v = u
        <4>1. YetToCount(s, v)
          BY <2>1, <3>1 DEF YetToCount
        <4>2. ~(YetToCount(s, v)')
          <5>1. w.left \subseteq Side
            BY <2>1 DEF Settler
          <5> QED
            BY <2>5, <2>6, <3>1, <5>1 DEF YetToCount
        <4>3. 1 + One(YetToCount(s, v)') <= One(YetToCount(s, v))
          BY <4>1, <4>2 DEF One
        <4>4. fare + FareOf(s, v)' <= FareOf(s, v)
          <5>1. CASE side = "rider"
            <6>1. FareOf(s, v) = fare
              BY <2>1, <3>1, <5>1 DEF FareOf, Earning
            <6>2. FareOf(s, v)' = 0
              BY <2>5, <5>1 DEF FareOf
            <6> QED
              BY <2>3, <6>1, <6>2
          <5>2. CASE side # "rider"
            <6>1. fare = 0
              BY <5>2 DEF Earning
            <6>2. FareOf(s, v)' = 0
              BY <2>5, <2>6, <3>1, <5>2 DEF FareOf, Side
            <6> QED
              BY <2>7, <6>1, <6>2
          <5> QED
            BY <5>1, <5>2
        <4>5. stats'[v].rides = stats[v].rides + 1 /\ stats'[v].earned = stats[v].earned + fare
          BY <2>4, <3>1
        <4>6. fare \in Int /\ 1 \in Int
          BY <2>3
        <4> HIDE DEF fare
        <4> QED
          BY <4>3, <4>4, <4>5, <4>6
      <3>2. CASE v # u
        <4>1. stats'[v].rides = stats[v].rides + 0 /\ stats'[v].earned = stats[v].earned + 0
          BY <1>1, <2>4, <3>2 DEF UserStats
        <4>2. YetToCount(s, v)' => YetToCount(s, v)
          BY <2>1, <2>5 DEF YetToCount
        <4>3. FareOf(s, v)' \in {0, FareOf(s, v)}
          BY <2>1, <2>5 DEF FareOf
        <4>4. 0 + One(YetToCount(s, v)') <= One(YetToCount(s, v))
          BY <4>2 DEF One
        <4>5. 0 + FareOf(s, v)' <= FareOf(s, v)
          BY <2>7, <4>3
        <4> QED
          BY <4>1, <4>4, <4>5
      <3> QED
        BY <3>1, <3>2
    <2> QED
      BY <1>5, <2>2, <2>8
  <1>11. ASSUME NEW s \in Servers, Serves(s)
         PROVE  NoneInvented'
    <2>1. \A u \in Users : ~(YetToCount(s, u)') /\ FareOf(s, u)' = 0
      BY <1>11 DEF Serves, YetToCount, FareOf
    <2>2. \A r \in Rides, n \in JobNo : Attempts(r, n)' = Attempts(r, n)
      BY <1>11 DEF Serves, Attempts
    <2> QED
      BY <1>6, <1>11, <2>1, <2>2 DEF Serves
  <1>12. ASSUME NEW s \in Servers, Ends(s)
         PROVE  NoneInvented'
    <2>1. \A u \in Users : ~(YetToCount(s, u)') /\ FareOf(s, u)' = 0
      BY <1>12 DEF Ends, YetToCount, FareOf, NoSettler
    <2> QED
      BY <1>6, <1>12, <2>1 DEF Ends
  <1> QED
    BY <1>7, <1>8, <1>9, <1>10, <1>11, <1>12, StepKinds

\* Settlement invents nothing.
THEOREM NothingIsCountedTwicePerAttempt ==
  SettlementSpec => []CountedOncePerAttempt
  <1>1. WorkersOK /\ WorkersOK' /\ NoneInvented /\ [SettlementNext]_settlementVars => NoneInvented'
    BY NoneInventedStep, NextIsStep
  <1>2. WorkersOK /\ NoneInvented => CountedOncePerAttempt
    <2> SUFFICES ASSUME WorkersOK, NoneInvented, NEW u \in Users
                 PROVE  /\ stats[u].rides <=
                             StatsBefore(u).rides + SumFunctionOnSet(AllAttempts, RidesOf(u))
                        /\ stats[u].earned <= SumFunctionOnSet(FareAttempts, DrivenBy(u))
      BY DEF CountedOncePerAttempt, FareAttempts
    <2>1. job \in [Rides -> [JobNo -> Job]] /\ stats \in [Users -> UserStats]
      BY DEF WorkersOK, SettlementTypeOK
    <2>2. /\ SumFunctionOnSet(RidesDue(u), Servers) \in Nat
          /\ SumFunctionOnSet(FareDue(u), Servers) \in Nat
          /\ SumFunctionOnSet(AllAttempts, RidesOf(u)) \in Nat
          /\ SumFunctionOnSet(FareAttempts, DrivenBy(u)) \in Nat
      BY <2>1, DueTypes, AttemptsTypes
    <2>3. stats[u].rides \in Nat /\ stats[u].earned \in Nat /\ StatsBefore(u).rides \in Nat
      BY <2>1, StatsBeforeType DEF UserStats
    <2>4. /\ stats[u].rides + SumFunctionOnSet(RidesDue(u), Servers)
               <= StatsBefore(u).rides + SumFunctionOnSet(AllAttempts, RidesOf(u))
          /\ stats[u].earned + SumFunctionOnSet(FareDue(u), Servers)
               <= SumFunctionOnSet(FareAttempts, DrivenBy(u))
      BY DEF NoneInvented
    <2> QED
      BY <2>2, <2>3, <2>4
  <1> QED
    BY <1>1, <1>2, NoneInventedInit, WorkersInvariant, PTL DEF SettlementSpec

-----------------------------------------------------------------------------
(* Payments.                                                               *)

LEMMA PaidOnceInit ==
  SettlementInit => PaidOnce
  BY DEF SettlementInit, PaidOnce, OnePaymentPerRide, NoSettler

LEMMA PaidOnceStep ==
  ASSUME NEW only, Servers = {only}, WorkersOK, PaidOnce, Step
  PROVE  PaidOnce'
  <1>1. payments \in [Rides -> Nat] /\ settler \in [Servers -> Settler]
    BY DEF WorkersOK, SettlementTypeOK
  <1>2. \A s \in Servers : SettlerOK(s)
    BY DEF WorkersOK
  <1>3. (\A r \in Rides : payments[r] <= 1)
        /\ \A s \in Servers : settler[s].step = "createPayment" => payments[settler[s].ride] = 0
    BY DEF PaidOnce, OnePaymentPerRide
  <1>4. ASSUME UNCHANGED payments, NEW s \in Servers, settler'[s].step # "createPayment"
        PROVE  PaidOnce'
    BY <1>3, <1>4 DEF PaidOnce, OnePaymentPerRide
  <1>5. ASSUME Calm
        PROVE  PaidOnce'
    BY <1>3, <1>5 DEF Calm, PaidOnce, OnePaymentPerRide
  <1>6. ASSUME NEW s \in Servers, NEW r \in Rides, NEW n \in JobNo, Takes(s, r, n)
        PROVE  PaidOnce'
    BY <1>4, <1>6 DEF Takes, NoSettler
  <1>7. ASSUME NEW s \in Servers, FindPayment(s)
        PROVE  PaidOnce'
    <2> DEFINE w == settler[s]
    <2>1. w \in Settler /\ UNCHANGED payments /\ settler'[s] = [w EXCEPT !.step = AfterFinding(payments[w.ride])]
      BY <1>1, <1>7 DEF FindPayment, SettlerNext
    <2>2. settler'[s].step = AfterFinding(payments[w.ride]) /\ settler'[s].ride = w.ride
      BY <2>1 DEF Settler
    <2>3. CASE payments[w.ride] = 0
      <3>1. \A t \in Servers : payments'[settler'[t].ride] = 0
        BY <2>1, <2>2, <2>3
      <3> QED
        BY <1>3, <2>1, <3>1 DEF PaidOnce, OnePaymentPerRide
    <2>4. CASE payments[w.ride] # 0
      BY <1>4, <2>1, <2>2, <2>4 DEF AfterFinding
    <2> QED
      BY <2>3, <2>4
  <1>8. ASSUME NEW s \in Servers, CreatePayment(s)
        PROVE  PaidOnce'
    <2> DEFINE w == settler[s]
    <2>1. w \in Settler /\ w.step = "createPayment" /\ w.ride \in Rides
          /\ settler'[s] = [w EXCEPT !.step = "count"]
          /\ payments' = [payments EXCEPT ![w.ride] = payments[w.ride] + 1]
      BY <1>1, <1>2, <1>8 DEF CreatePayment, SettlerAt, SettlerNext, SettlerOK
    <2>2. settler'[s].step = "count"
      BY <2>1 DEF Settler
    <2>3. payments[w.ride] = 0
      BY <1>3, <2>1
    <2>4. \A q \in Rides : payments'[q] <= 1
      BY <1>1, <1>3, <2>1, <2>3
    <2>5. \A t \in Servers : settler'[t].step # "createPayment"
      BY <2>2
    <2> QED
      BY <2>4, <2>5 DEF PaidOnce, OnePaymentPerRide
  <1>9. ASSUME NEW s \in Servers, NEW side \in Side, CountRide(s, side)
        PROVE  PaidOnce'
    <2>1. settler[s] \in Settler /\ settler[s].step = "count" /\ UNCHANGED payments
      BY <1>1, <1>9 DEF CountRide
    <2>2. \/ settler'[s] = [settler[s] EXCEPT !.step = "addTrust", !.left = Side]
          \/ settler'[s] = [settler[s] EXCEPT !.left = settler[s].left \ {side}]
      BY <1>1, <1>9 DEF CountRide
    <2>3. settler'[s].step # "createPayment"
      BY <2>1, <2>2 DEF Settler
    <2> QED
      BY <1>4, <2>1, <2>3
  <1>10. ASSUME NEW s \in Servers, Serves(s) \/ Ends(s)
         PROVE  PaidOnce'
    BY <1>4, <1>10 DEF Serves, Ends, NoSettler
  <1> QED
    BY <1>5, <1>6, <1>7, <1>8, <1>9, <1>10, StepKinds

\* With a single server a ride has at most one payment.
THEOREM OneServerPaysOnce ==
  ASSUME NEW only, Servers = {only}
  PROVE  SettlementSpec => []OnePaymentPerRide
  <1>1. WorkersOK /\ PaidOnce /\ [SettlementNext]_settlementVars => PaidOnce'
    BY PaidOnceStep, NextIsStep
  <1>2. PaidOnce => OnePaymentPerRide
    BY DEF PaidOnce
  <1> QED
    BY <1>1, <1>2, PaidOnceInit, WorkersInvariant, PTL DEF SettlementSpec

\* What drivers are shown to have been paid for is what passengers are shown to
\* have paid for, whatever there is in the table.
LEMMA DriversAndPassengersAgree ==
  ASSUME payments \in [Rides -> Nat], NEW on \in Seatings
  PROVE  SumFunction([u \in Users |-> RiderEarnings(on, u).completedRides])
           = SumFunction([u \in Users |-> PaymentsBy(u)])
  <1> DEFINE own(side) == [r \in Rides |-> IF side = "rider" THEN on[r]["rider"]
                                          ELSE Party[r][side]]
             total(side) == SumFunctionOnSet(PerOwner(payments, own(side), Rides, Users), Users)
  <1>1. PICK p \in [Rides -> Int] : p = payments
    OBVIOUS
  <1>2. ASSUME NEW side \in Side
        PROVE  total(side) = SumFunctionOnSet(p, Rides)
    <2>1. \A r \in Rides : own(side)[r] \in Users
      BY SettlementAssumption DEF Seatings, Side
    <2>2. PICK o : o = own(side)
      OBVIOUS
    <2>3. \A r \in Rides : o[r] \in Users
      BY <2>1, <2>2
    <2>4. SumFunctionOnSet(PerOwner(p, o, Rides, Users), Users) = SumFunctionOnSet(p, Rides)
      <3>1. IsFiniteSet(Rides) /\ IsFiniteSet(Users)
        BY SettlementAssumption
      <3> QED
        BY <2>3, <3>1, SumByOwner
    <2> QED
      BY <1>1, <2>2, <2>4
  <1>3. "rider" \in Side /\ "passenger" \in Side
    BY DEF Side
  <1>4. \A u \in Users :
          /\ RiderEarnings(on, u).completedRides
               = SumFunctionOnSet(payments, {r \in Rides : own("rider")[r] = u})
          /\ PaymentsBy(u) = SumFunctionOnSet(payments, {r \in Rides : own("passenger")[r] = u})
    <2>1. ASSUME NEW u \in Users
          PROVE  /\ DrivenNow(on, u) = {r \in Rides : own("rider")[r] = u}
                 /\ {r \in Rides : Party[r]["passenger"] = u} = {r \in Rides : own("passenger")[r] = u}
      BY DEF DrivenNow
    <2> QED
      BY <2>1 DEF RiderEarnings, PaymentsBy
  <1>5. /\ SumFunction([u \in Users |-> RiderEarnings(on, u).completedRides]) = total("rider")
        /\ SumFunction([u \in Users |-> PaymentsBy(u)]) = total("passenger")
    <2> DEFINE A == [u \in Users |-> RiderEarnings(on, u).completedRides]
               B == [u \in Users |-> PaymentsBy(u)]
    <2>1. A = [u \in Users |-> SumFunctionOnSet(payments, {r \in Rides : own("rider")[r] = u})]
      BY <1>4
    <2>2. B = [u \in Users |-> SumFunctionOnSet(payments, {r \in Rides : own("passenger")[r] = u})]
      BY <1>4
    <2>3. SumFunction(A) = SumFunctionOnSet(A, Users) /\ SumFunction(B) = SumFunctionOnSet(B, Users)
      BY DEF SumFunction
    <2> HIDE DEF A, B
    <2>4. SumFunction(A) = total("rider") /\ SumFunction(B) = total("passenger")
      BY <2>1, <2>2, <2>3, Zenon DEF PerOwner
    <2> QED
      BY <2>4 DEF A, B
  <1> HIDE DEF total
  <1> QED
    BY <1>2, <1>3, <1>5

\* With a single server the books balance.
THEOREM OneServerBooksBalance ==
  ASSUME NEW only, Servers = {only}
  PROVE  SettlementSpec => []BooksBalance
  <1>1. WorkersOK /\ OnePaymentPerRide => BooksBalance
    <2> SUFFICES ASSUME WorkersOK, OnePaymentPerRide
                 PROVE  BooksBalance
      OBVIOUS
    <2>1. /\ payments \in [Rides -> Nat] /\ Fare \in [Rides -> Nat]
          /\ \A r \in Rides : Done(r) => payments[r] > 0
          /\ \A r \in Rides : payments[r] > 0 => status[r] # "IN_PROGRESS"
          /\ \A r \in Rides : payments[r] <= 1
      BY SettlementAssumption DEF WorkersOK, SettlementTypeOK, OnePaymentPerRide
    <2>2. Taken \in [Rides -> Nat] /\ \A r \in Rides : payments[r] > 0 => Taken[r] = Fare[r]
      <3>1. \A i, j \in Nat : i * j \in Nat
        OBVIOUS
      <3>2. \A r \in Rides : payments[r] \in Nat /\ Fare[r] \in Nat
        BY <2>1
      <3>3. Taken \in [Rides -> Nat]
        BY <3>1, <3>2 DEF Taken
      <3>4. ASSUME NEW r \in Rides, payments[r] > 0
            PROVE  Taken[r] = Fare[r]
        <4>1. payments[r] = 1
          BY <2>1, <3>2, <3>4
        <4>2. Taken[r] = 1 * Fare[r]
          BY <4>1 DEF Taken
        <4> QED
          BY <3>2, <4>2
      <3> QED
        BY <3>3, <3>4
    <2> SUFFICES ASSUME NEW on \in Seatings
                 PROVE  /\ \A u \in Users :
                             LET shown == RiderEarnings(on, u)
                                 settled == {r \in DrivenBy(u) : Done(r) /\ status[r] # "OVERWRITTEN"}
                             IN  /\ Cardinality(settled) <= shown.completedRides
                                 /\ shown.completedRides
                                      <= Cardinality({r \in DrivenNow(on, u) : status[r] # "IN_PROGRESS"})
                                 /\ SumFunctionOnSet(Fare, settled) <= shown.totalEarnings
                        /\ \A r \in Rides, side \in Side :
                             Done(r) /\ status[r] # "OVERWRITTEN" => PaymentByRide(on, Party[r][side], r)
                        /\ SumFunction([u \in Users |-> RiderEarnings(on, u).completedRides])
                             = SumFunction([u \in Users |-> PaymentsBy(u)])
      BY DEF BooksBalance
    <2>3. ASSUME NEW u \in Users
          PROVE  LET shown == RiderEarnings(on, u)
                     settled == {r \in DrivenBy(u) : Done(r) /\ status[r] # "OVERWRITTEN"}
                 IN  /\ Cardinality(settled) <= shown.completedRides
                     /\ shown.completedRides
                          <= Cardinality({r \in DrivenNow(on, u) : status[r] # "IN_PROGRESS"})
                     /\ SumFunctionOnSet(Fare, settled) <= shown.totalEarnings
      <3> DEFINE driven == DrivenNow(on, u)
                 settled == {r \in DrivenBy(u) : Done(r) /\ status[r] # "OVERWRITTEN"}
                 ended == {r \in driven : status[r] # "IN_PROGRESS"}
      <3>1. driven \in SUBSET Rides /\ IsFiniteSet(driven)
        BY SettlementAssumption, FS_Subset DEF DrivenNow
      <3>2. settled \in SUBSET driven /\ ended \in SUBSET driven
            /\ (\A r \in settled : payments[r] > 0)
            /\ \A r \in driven : payments[r] <= 1 /\ (payments[r] > 0 => r \in ended)
        <4>1. settled \in SUBSET driven
          BY DEF DrivenBy, DrivenNow, Seatings
        <4> QED
          BY <2>1, <3>1, <4>1 DEF DrivenBy
      <3>3. RiderEarnings(on, u).completedRides = SumFunctionOnSet(payments, driven)
            /\ RiderEarnings(on, u).totalEarnings = SumFunctionOnSet(Taken, driven)
        BY DEF RiderEarnings
      <3> HIDE DEF driven, settled, ended
      <3>4. Cardinality(settled) <= SumFunctionOnSet(payments, driven)
        BY <2>1, <3>1, <3>2, SumCounts
      <3>5. SumFunctionOnSet(payments, driven) <= Cardinality(ended)
        BY <2>1, <3>1, <3>2, SumCounts
      <3>6. SumFunctionOnSet(Fare, settled) <= SumFunctionOnSet(Taken, driven)
        <4>1. IsFiniteSet(settled) /\ settled \in SUBSET Rides
          BY <3>1, <3>2, FS_Subset
        <4>2. Fare \in [Rides -> Int] /\ Taken \in [Rides -> Int] /\ settled \in SUBSET (Rides \cap Rides)
          BY <2>1, <2>2, <4>1
        <4>3. \A r \in settled : Fare[r] <= Taken[r]
          BY <2>1, <2>2, <3>2, <4>1
        <4>4. SumFunctionOnSet(Fare, settled) <= SumFunctionOnSet(Taken, settled)
          BY <4>1, <4>2, <4>3, SumMonotone
        <4>5. /\ SumFunctionOnSet(Taken, settled) <= SumFunctionOnSet(Taken, driven)
              /\ SumFunctionOnSet(Taken, settled) \in Nat /\ SumFunctionOnSet(Taken, driven) \in Nat
          BY <2>2, <3>1, <3>2, SumSubset
        <4>6. SumFunctionOnSet(Fare, settled) \in Int
          BY <4>1, <4>2, SumElement
        <4> QED
          BY <4>4, <4>5, <4>6
      <3> QED
        BY <3>3, <3>4, <3>5, <3>6 DEF driven, settled, ended
    <2>4. ASSUME NEW r \in Rides, NEW side \in Side, Done(r), status[r] # "OVERWRITTEN"
          PROVE  PaymentByRide(on, Party[r][side], r)
      BY <2>1, <2>4 DEF PaymentByRide, Seatings
    <2>5. SumFunction([u \in Users |-> RiderEarnings(on, u).completedRides])
            = SumFunction([u \in Users |-> PaymentsBy(u)])
      BY <2>1, DriversAndPassengersAgree
    <2> QED
      BY <2>3, <2>4, <2>5
  <1> QED
    BY <1>1, OneServerPaysOnce, WorkersInvariant, PTL
=============================================================================
