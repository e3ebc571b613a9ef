---------------------------- MODULE RatingsProofs ----------------------------
(***************************************************************************)
(* Proofs about module Ratings, for any finite number of rides and users   *)
(* and any number of ratings being submitted at a time, while the rides    *)
(* are settled, handlers are cut off and servers die.                      *)
(***************************************************************************)
EXTENDS Ratings, Matching, SettlementProofs

\* What a call knows of the ratings of its ride.
CallOK(k) ==
  LET c == call[k]
  IN  /\ c.step = "idle" => c = Idle
      /\ c.step # "idle" => c.ride \in Rides /\ c.stars \in Scores
      /\ c.step \in {"findExisting", "create", "findOther", "reveal"} => c.whose = Other(c.by)
      /\ c.step \notin {"idle", "findExisting", "create"} =>
           rating[c.ride][c.by].stars = c.stars
      /\ c.step = "reveal" => Rated(c.ride, c.whose)

RatingsOK ==
  /\ WorkersOK
  /\ RatingsTypeOK
  /\ \A k \in Calls : CallOK(k)
  /\ RatingsStand
  /\ RevealIsMutual

\* The ratings behind an average are some of those on the list.
IsAverageOf(u, ratings, stars) ==
  \E T \in SUBSET Revealed(u) : ratings = Cardinality(T) /\ stars = StarsOf(T)

AveragesOK ==
  /\ \A u \in Users : IsAverageOf(u, stats[u].ratings, stats[u].stars)
  /\ \A k \in Calls : At(k, "updateStats") => IsAverageOf(User(k), call[k].count, call[k].sum)

\* The ratings of a ride that both have rated are revealed or about to be.
Comes(r) ==
  \/ \A side \in Side : rating[r][side].revealed
  \/ \E k \in Calls : call[k].ride = r /\ call[k].step \in {"findOther", "reveal"}
RevealComes == \A r \in Rides : (\A side \in Side : Rated(r, side)) => Comes(r)

\* A job for u waits, or will be added by a worker or a handler.
SettlerOwes(s, u) ==
  LET w == settler[s]
  IN  \/ w.step \in {"findPayment", "createPayment", "count"} /\ u \in Parties(w.ride)
      \/ w.step = "addTrust" /\ \E side \in w.left : Party[w.ride][side] = u
CallOwes(k, u) ==
  LET c == call[k]
  IN  \/ c.step \in {"aggregate", "updateStats"} /\ u \in Parties(c.ride)
      \/ c.step = "addTrust" /\ c.whose # c.by /\ u \in Parties(c.ride)
      \/ c.step = "addTrust" /\ u = Party[c.ride][c.by]
Owed(u) ==
  \/ \E k \in Stalls : trustJob[<<u, k>>] > 0
  \/ \E s \in Servers : SettlerOwes(s, u)
  \/ \E k \in Calls : CallOwes(k, u)

\* The score of u is up to date, about to be, or owed.
Tracked(u) ==
  stats[u].known =>
    \/ Owed(u)
    \/ \E s \in Servers : scorer[s].user = u /\ scorer[s].score = Score(stats[u])
    \/ stats[u].trust = Score(stats[u]) /\ \A s \in Servers : scorer[s].user # u

TrustOK ==
  /\ \A u \in Known : stats[u].known
  /\ \A u \in Users : Tracked(u)

-----------------------------------------------------------------------------
(* Types, blind reveal and the ratings that stand.                         *)

LEMMA Sides ==
  /\ \A side \in Side : Other(side) \in Side /\ Other(Other(side)) = side /\ Other(side) # side
  /\ \A side \in Side, one \in Side : side = one \/ side = Other(one)
  BY DEF Side, Other

LEMMA RatingsTypes ==
  ASSUME RatingsTypeOK
  PROVE  /\ rating \in [Rides -> [Side -> Rating]]
         /\ \A r \in Rides, side \in Side :
              /\ rating[r][side] \in Rating
              /\ rating[r][side].stars \in Nat
              /\ rating[r][side].revealed \in BOOLEAN
              /\ Rated(r, side) <=> rating[r][side].stars # 0
         /\ call \in [Calls -> Call]
         /\ \A k \in Calls : call[k] \in Call /\ call[k].by \in Side /\ call[k].whose \in Side
         /\ \A n \in Scores : n \in Nat /\ n > 0
         /\ \A u \in Users : stats[u] \in UserStats
  <1>1. rating \in [Rides -> [Side -> Rating]] /\ call \in [Calls -> Call]
    BY DEF RatingsTypeOK
  <1>2. \A n \in Scores : n \in Nat /\ n > 0
    BY RatingsAssumption
  <1>3. ASSUME NEW r \in Rides, NEW side \in Side
        PROVE  /\ rating[r][side] \in Rating
               /\ rating[r][side].stars \in Nat
               /\ rating[r][side].revealed \in BOOLEAN
               /\ Rated(r, side) <=> rating[r][side].stars # 0
    <2>1. rating[r][side] \in Rating
      BY <1>1
    <2>2. rating[r][side].stars \in Nat
      BY <1>2, <2>1 DEF Rating
    <2> QED
      BY <2>1, <2>2 DEF Rating, Rated
  <1>4. \A k \in Calls : call[k] \in Call /\ call[k].by \in Side /\ call[k].whose \in Side
    BY <1>1 DEF Call
  <1>5. \A u \in Users : stats[u] \in UserStats
    BY DEF RatingsTypeOK, SettlementTypeOK
  <1> QED
    BY <1>1, <1>2, <1>3, <1>4, <1>5

LEMMA CallWritten ==
  ASSUME call \in [Calls -> Call], NEW k \in Calls, NEW next, Continue(k, next)
  PROVE  /\ call'[k] = next
         /\ \A j \in Calls : j # k => call'[j] = call[j]
         /\ next \in Call => call' \in [Calls -> Call]
  BY DEF Continue

\* A step of a handler that changes no rating that exists.
LEMMA OneCall ==
  ASSUME RatingsOK, WorkersOK', RatingsTypeOK', NEW k \in Calls,
         \A j \in Calls : j # k => call'[j] = call[j],
         \A r \in Rides, side \in Side : Rated(r, side) =>
           rating'[r][side].stars = rating[r][side].stars,
         \/ told' = told
         \/ /\ call[k].step = "notify"
            /\ told' = told \cup {[to |-> Other(call[k].by), ride |-> call[k].ride,
                                  stars |-> call[k].stars]},
         RevealIsMutual', CallOK(k)'
  PROVE  RatingsOK'
  <1>1. \A r \in Rides, side \in Side : Rated(r, side) => Rated(r, side)'
    BY DEF Rated
  <1>2. ASSUME NEW r \in Rides, NEW side \in Side, NEW stars \in Scores, rating[r][side].stars = stars
        PROVE  rating'[r][side].stars = stars
    <2>1. Rated(r, side)
      BY <1>2, RatingsTypes DEF RatingsOK, Rated
    <2> QED
      BY <1>2, <2>1
  <1>3. ASSUME NEW j \in Calls
        PROVE  CallOK(j)'
    <2>1. CASE j = k
      BY <2>1
    <2>2. CASE j # k
      <3>1. CallOK(j) /\ call'[j] = call[j] /\ call[j].by \in Side /\ call[j].whose \in Side
        BY <2>2, RatingsTypes DEF RatingsOK
      <3>2. call[j].step # "idle" => call[j].ride \in Rides /\ call[j].stars \in Scores
        BY <3>1 DEF CallOK
      <3>3. call[j].step \notin {"idle", "findExisting", "create"} =>
              rating'[call[j].ride][call[j].by].stars = call[j].stars
        BY <1>2, <3>1, <3>2 DEF CallOK
      <3>4. call[j].step = "reveal" => Rated(call[j].ride, call[j].whose)'
        <4>1. PICK r, side : r = call[j].ride /\ side = call[j].whose
          OBVIOUS
        <4>2. call[j].step = "reveal" => Rated(r, side)'
          BY <1>1, <3>1, <3>2, <4>1 DEF CallOK
        <4>3. r = call'[j].ride /\ side = call'[j].whose
          BY <3>1, <4>1
        <4> QED
          BY <3>1, <4>1, <4>2, <4>3 DEF Rated
      <3> QED
        BY <3>1, <3>2, <3>3, <3>4 DEF CallOK, Rated
    <2> QED
      BY <2>1, <2>2
  <1>4. RatingsStand'
    <2> SUFFICES ASSUME NEW n \in told'
                 PROVE  rating'[n.ride][Other(n.to)].stars = n.stars
      BY DEF RatingsStand
    <2>1. n.to \in Side /\ n.ride \in Rides /\ n.stars \in Scores
      BY DEF RatingsTypeOK
    <2>2. rating[n.ride][Other(n.to)].stars = n.stars
      <3>1. CASE n \in told
        BY <3>1 DEF RatingsOK, RatingsStand
      <3>2. CASE n \notin told
        <4> DEFINE c == call[k]
        <4>1. c.step = "notify" /\ n = [to |-> Other(c.by), ride |-> c.ride, stars |-> c.stars]
          BY <3>2
        <4>2. rating[c.ride][c.by].stars = c.stars
          BY <4>1 DEF RatingsOK, CallOK
        <4>3. n.ride = c.ride /\ n.stars = c.stars /\ Other(n.to) = c.by
          BY <4>1, RatingsTypes, Sides DEF RatingsOK
        <4> QED
          BY <4>2, <4>3
      <3> QED
        BY <3>1, <3>2
    <2> QED
      BY <1>2, <2>1, <2>2, Sides
  <1> QED
    BY <1>3, <1>4 DEF RatingsOK

\* ... or leaves the table of ratings alone.
LEMMA QuietCall ==
  ASSUME RatingsOK, WorkersOK', RatingsTypeOK', NEW k \in Calls,
         \A j \in Calls : j # k => call'[j] = call[j],
         UNCHANGED <<rating, told>>, CallOK(k)'
  PROVE  RatingsOK'
  <1>1. RevealIsMutual'
    BY DEF RatingsOK, RevealIsMutual, RideRatings, Rated
  <1> QED
    BY <1>1, OneCall

\* A rating handler leaves the workers of the settlement where they are.
LEMMA WorkersRest ==
  ASSUME WorkersOK, SettlementTypeOK', UNCHANGED <<status, job, payments, settler, scorer>>,
         \A u \in Users : stats[u].known => stats'[u].known
  PROVE  WorkersOK'
  <1>1. \A s \in Servers : SettlerOK(s)'
    BY DEF WorkersOK, SettlerOK
  <1>2. \A s \in Servers : ScorerOK(s)'
    BY DEF WorkersOK, ScorerOK
  <1>3. OwnJobs'
    BY DEF WorkersOK, OwnJobs, Busy
  <1>4. \A r \in Rides : (Done(r)' => payments'[r] > 0) /\ (payments'[r] > 0 => status'[r] # "IN_PROGRESS")
    BY DEF WorkersOK, Done
  <1> QED
    BY <1>1, <1>2, <1>3, <1>4 DEF WorkersOK

LEMMA WorkersStay ==
  ASSUME WorkersOK, UNCHANGED settlementVars
  PROVE  WorkersOK' /\ SettlementTypeOK'
  <1>1. SettlementTypeOK'
    BY DEF WorkersOK, SettlementTypeOK, settlementVars
  <1> QED
    BY <1>1, WorkersRest DEF settlementVars

LEMMA RatingsInit1 ==
  Init => RatingsOK
  <1> SUFFICES ASSUME Init
               PROVE  RatingsOK
    OBVIOUS
  <1>1. WorkersOK
    BY WorkersInit DEF Init
  <1>2. NoRating \in Rating /\ Idle \in Call
    BY DEF NoRating, Rating, Idle, Call, Side
  <1>3. RatingsTypeOK
    BY <1>1, <1>2 DEF Init, RatingsInit, RatingsTypeOK, WorkersOK
  <1>4. \A k \in Calls : CallOK(k)
    BY DEF Init, RatingsInit, CallOK, Idle
  <1>5. RatingsStand
    BY DEF Init, RatingsInit, RatingsStand
  <1>6. RevealIsMutual
    BY DEF Init, RatingsInit, RevealIsMutual, RideRatings, NoRating
  <1> QED
    BY <1>1, <1>3, <1>4, <1>5, <1>6 DEF RatingsOK

LEMMA AggregatedTypes ==
  ASSUME RatingsTypeOK, NEW u \in Users
  PROVE  /\ Stars \in [Rides \X Side -> Nat]
         /\ Revealed(u) \in SUBSET (Rides \X Side)
         /\ IsFiniteSet(Rides \X Side)
         /\ IsFiniteSet(Revealed(u)) /\ Cardinality(Revealed(u)) \in Nat
         /\ StarsOf(Revealed(u)) \in Nat
  <1>1. Stars \in [Rides \X Side -> Nat]
    BY RatingsTypes DEF Stars
  <1>2. Revealed(u) \in SUBSET (Rides \X Side)
    BY DEF Revealed
  <1>3. IsFiniteSet(Rides \X Side)
    <2>1. IsFiniteSet(Side)
      <3>1. Side = {"rider"} \cup {"passenger"} /\ IsFiniteSet({"rider"})
        BY FS_Singleton DEF Side
      <3> QED
        BY <3>1, FS_AddElement
    <2> QED
      BY <2>1, SettlementAssumption, FS_Product
  <1>4. IsFiniteSet(Revealed(u)) /\ Cardinality(Revealed(u)) \in Nat
    BY <1>2, <1>3, FS_Subset, FS_CardinalityType
  <1>5. StarsOf(Revealed(u)) \in Nat
    BY <1>1, <1>2, <1>4, SumSubset DEF StarsOf
  <1> QED
    BY <1>1, <1>2, <1>3, <1>4, <1>5

LEMMA SettlingIsStep ==
  /\ Settling => Step /\ UNCHANGED ratingVars
  /\ \A s \in Servers : CrashServer(s) => Step /\ UNCHANGED <<rating, told>>
  BY DEF Settling, Step, CrashServer, Fail

LEMMA WorkersGoOn ==
  ASSUME WorkersOK, Step
  PROVE  WorkersOK' /\ SettlementTypeOK'
  <1>1. /\ SettlementTypeOK /\ \A s \in Servers : ScorerOK(s)
        /\ \A s \in Servers : settler[s].step # "idle" => settler[s].ride \in Rides
    BY WorkerTypes DEF WorkersOK
  <1>2. SettlementTypeOK'
    BY <1>1, SettlementTypes
  <1> QED
    BY <1>2, WorkersStep

LEMMA Returned ==
  ASSUME RatingsTypeOK, NEW k \in Calls, Return(k)
  PROVE  /\ call'[k] = Idle
         /\ \A j \in Calls : j # k => call'[j] = call[j]
         /\ call' \in [Calls -> Call]
  <1>1. Idle \in Call
    BY DEF Idle, Call, Side
  <1> QED
    BY <1>1, RatingsTypes, CallWritten DEF Return

LEMMA WentOn ==
  ASSUME RatingsTypeOK, NEW k \in Calls,
         NEW step \in {"create", "findOther", "reveal", "aggregate", "updateStats", "addTrust", "notify"},
         Goto(k, step)
  PROVE  /\ call'[k].step = step /\ call'[k].whose = call[k].whose
         /\ call'[k].ride = call[k].ride /\ call'[k].by = call[k].by
         /\ call'[k].stars = call[k].stars
         /\ \A j \in Calls : j # k => call'[j] = call[j]
         /\ call' \in [Calls -> Call]
  <1> DEFINE next == [call[k] EXCEPT !.step = step]
  <1>1. call[k] \in Call /\ call \in [Calls -> Call]
    BY RatingsTypes
  <1>2. next \in Call
    BY <1>1 DEF Call
  <1>3. Continue(k, next)
    BY DEF Goto
  <1>4. /\ next.step = step /\ next.whose = call[k].whose
        /\ next.ride = call[k].ride /\ next.by = call[k].by /\ next.stars = call[k].stars
    BY <1>1 DEF Call
  <1> HIDE DEF next
  <1>5. PICK n \in Call : n = next
    BY <1>2
  <1>6. Continue(k, n)
    BY <1>3, <1>5
  <1>7. /\ call'[k] = n
        /\ \A j \in Calls : j # k => call'[j] = call[j]
        /\ call' \in [Calls -> Call]
    BY <1>1, <1>6, CallWritten
  <1> QED
    BY <1>4, <1>5, <1>7

LEMMA WentFor ==
  ASSUME RatingsTypeOK, NEW k \in Calls,
         NEW step \in {"create", "findOther", "reveal", "aggregate", "updateStats", "addTrust", "notify"},
         NEW whose \in Side, Continue(k, [call[k] EXCEPT !.step = step, !.whose = whose])
  PROVE  /\ call'[k].step = step /\ call'[k].whose = whose
         /\ call'[k].ride = call[k].ride /\ call'[k].by = call[k].by
         /\ call'[k].stars = call[k].stars
         /\ \A j \in Calls : j # k => call'[j] = call[j]
         /\ call' \in [Calls -> Call]
  <1> DEFINE next == [call[k] EXCEPT !.step = step, !.whose = whose]
  <1>1. call[k] \in Call /\ call \in [Calls -> Call]
    BY RatingsTypes
  <1>2. next \in Call
    BY <1>1 DEF Call
  <1>3. Continue(k, next)
    BY DEF Continue
  <1>4. /\ next.step = step /\ next.whose = whose
        /\ next.ride = call[k].ride /\ next.by = call[k].by /\ next.stars = call[k].stars
    BY <1>1 DEF Call
  <1> HIDE DEF next
  <1>5. PICK n \in Call : n = next
    BY <1>2
  <1>6. Continue(k, n)
    BY <1>3, <1>5
  <1>7. /\ call'[k] = n
        /\ \A j \in Calls : j # k => call'[j] = call[j]
        /\ call' \in [Calls -> Call]
    BY <1>1, <1>6, CallWritten
  <1> QED
    BY <1>4, <1>5, <1>7

LEMMA CountedStats ==
  ASSUME RatingsTypeOK, NEW u \in Users, stats[u].known, NEW n \in Nat, NEW m \in Nat,
         stats' = [stats EXCEPT ![u] = Averaged(stats[u], n, m)]
  PROVE  /\ stats' \in [Users -> UserStats]
         /\ \A v \in Users : /\ stats'[v].known = stats[v].known
                             /\ stats'[v].known \/ stats'[v] = NoStats
                             /\ v # u => stats'[v] = stats[v]
         /\ stats'[u].ratings = n /\ stats'[u].stars = m
  <1>1. stats \in [Users -> UserStats] /\ \A v \in Users : stats[v].known \/ stats[v] = NoStats
    BY DEF RatingsTypeOK, SettlementTypeOK
  <1>2. /\ Averaged(stats[u], n, m) \in UserStats
        /\ Averaged(stats[u], n, m).known = stats[u].known
    BY <1>1, StatsTypes
  <1>3. Averaged(stats[u], n, m).ratings = n /\ Averaged(stats[u], n, m).stars = m
    BY <1>1 DEF Averaged, UserStats
  <1> QED
    BY <1>1, <1>2, <1>3

LEMMA CallTypesOnly ==
  ASSUME RatingsOK, UNCHANGED settlementVars, UNCHANGED <<rating, told>>,
         call' \in [Calls -> Call]
  PROVE  WorkersOK' /\ RatingsTypeOK'
  <1>1. WorkersOK' /\ SettlementTypeOK'
    BY WorkersStay DEF RatingsOK
  <1> QED
    BY <1>1 DEF RatingsOK, RatingsTypeOK

LEMMA UserOf ==
  ASSUME RatingsOK, NEW k \in Calls, call[k].step # "idle"
  PROVE  /\ call[k].ride \in Rides /\ call[k].by \in Side /\ call[k].whose \in Side
         /\ call[k].stars \in Scores
         /\ User(k) \in Users
         /\ Party[call[k].ride][call[k].by] \in Users
  <1>1. call[k].ride \in Rides /\ call[k].by \in Side /\ call[k].whose \in Side
        /\ call[k].stars \in Scores
    BY RatingsTypes DEF RatingsOK, CallOK
  <1> QED
    BY <1>1, SettlementAssumption DEF User

LEMMA RatingsOKStep ==
  ASSUME RatingsOK, [Next]_vars
  PROVE  RatingsOK'
  <1>1. WorkersOK /\ RatingsTypeOK /\ \A k \in Calls : CallOK(k)
    BY DEF RatingsOK
  <1>2. Idle.step = "idle"
    BY DEF Idle
  <1>3. ASSUME NEW k \in Calls, call'[k] = Idle
        PROVE  CallOK(k)'
    BY <1>2, <1>3 DEF CallOK
  <1>4. ASSUME UNCHANGED <<rating, told>>, WorkersOK', SettlementTypeOK',
               \A k \in Calls : call'[k] = call[k] \/ call'[k] = Idle, call' \in [Calls -> Call]
        PROVE  RatingsOK'
    <2>1. RatingsTypeOK'
      BY <1>1, <1>4 DEF RatingsTypeOK
    <2>2. ASSUME NEW k \in Calls
          PROVE  CallOK(k)'
      <3>1. CASE call'[k] = Idle
        BY <1>3, <3>1
      <3>2. CASE call'[k] = call[k]
        BY <1>1, <1>4, <3>2 DEF CallOK, Rated
      <3> QED
        BY <1>4, <3>1, <3>2
    <2>3. RatingsStand' /\ RevealIsMutual'
      BY <1>4 DEF RatingsOK, RatingsStand, RevealIsMutual, RideRatings, Rated
    <2> QED
      BY <1>4, <2>1, <2>2, <2>3 DEF RatingsOK
  <1>5. ASSUME Settling
        PROVE  RatingsOK'
    <2>1. WorkersOK' /\ SettlementTypeOK' /\ UNCHANGED ratingVars
      BY <1>1, <1>5, SettlingIsStep, WorkersGoOn
    <2>2. UNCHANGED <<rating, told>> /\ call' = call
      BY <2>1 DEF ratingVars
    <2> QED
      BY <1>1, <1>4, <2>1, <2>2 DEF RatingsTypeOK
  <1>6. ASSUME NEW s \in Servers, CrashServer(s)
        PROVE  RatingsOK'
    <2>1. WorkersOK' /\ SettlementTypeOK' /\ UNCHANGED <<rating, told>>
      BY <1>1, <1>6, SettlingIsStep, WorkersGoOn
    <2>2. call' = [k \in Calls |-> IF ServerOf[k] = s THEN Idle ELSE call[k]]
      BY <1>6 DEF CrashServer
    <2>3. Idle \in Call
      BY DEF Idle, Call, Side
    <2>4. call' \in [Calls -> Call] /\ \A k \in Calls : call'[k] = call[k] \/ call'[k] = Idle
      BY <1>1, <2>2, <2>3, RatingsTypes
    <2> QED
      BY <1>4, <2>1, <2>4
  <1>7. ASSUME NEW k \in Calls, NEW r \in Rides, NEW side \in Side, NEW stars \in Scores,
               SubmitRating(k, r, side, stars)
        PROVE  RatingsOK'
    <2> DEFINE new == [Idle EXCEPT !.step = "findExisting", !.ride = r, !.by = side,
                                   !.whose = Other(side), !.stars = stars]
    <2>1. new \in Call
      BY Sides DEF Idle, Call, Side
    <2>2. new.step = "findExisting" /\ new.ride = r /\ new.by = side
          /\ new.whose = Other(side) /\ new.stars = stars
      BY DEF Idle
    <2>3. Continue(k, new) /\ UNCHANGED <<settlementVars, rating, told>>
      BY <1>7 DEF SubmitRating
    <2> HIDE DEF new
    <2>4. /\ call'[k] = new /\ \A j \in Calls : j # k => call'[j] = call[j]
          /\ call' \in [Calls -> Call]
      BY <1>1, <2>1, <2>3, RatingsTypes, CallWritten
    <2>5. WorkersOK' /\ RatingsTypeOK'
      BY <2>3, <2>4, CallTypesOnly
    <2>6. CallOK(k)'
      BY <2>2, <2>4 DEF CallOK
    <2> QED
      BY <2>3, <2>4, <2>5, <2>6, QuietCall
  <1>8. ASSUME NEW k \in Calls, Return(k), UNCHANGED <<settlementVars, rating, told>>
        PROVE  RatingsOK'
    <2>1. /\ call'[k] = Idle
          /\ \A j \in Calls : j # k => call'[j] = call[j]
          /\ call' \in [Calls -> Call]
      BY <1>1, <1>8, Returned
    <2>2. WorkersOK' /\ RatingsTypeOK'
      BY <1>8, <2>1, CallTypesOnly
    <2> QED
      BY <1>3, <1>8, <2>1, <2>2, QuietCall
  <1>9. ASSUME NEW k \in Calls, FindExisting(k)
        PROVE  RatingsOK'
    <2>1. CASE Return(k)
      BY <1>8, <1>9, <2>1 DEF FindExisting
    <2>2. CASE ~Return(k)
      <3>1. Goto(k, "create") /\ call[k].step = "findExisting" /\ UNCHANGED <<settlementVars, rating, told>>
        BY <1>9, <2>2 DEF FindExisting, At
      <3>2. /\ call'[k].step = "create" /\ call'[k].whose = call[k].whose
            /\ call'[k].ride = call[k].ride /\ call'[k].by = call[k].by
            /\ call'[k].stars = call[k].stars
            /\ \A j \in Calls : j # k => call'[j] = call[j]
            /\ call' \in [Calls -> Call]
        BY <1>1, <3>1, WentOn
      <3>3. CallOK(k)'
        BY <1>1, <3>1, <3>2 DEF CallOK
      <3> QED
        BY <3>1, <3>2, <3>3, CallTypesOnly, QuietCall
    <2> QED
      BY <2>1, <2>2
  <1>10. ASSUME NEW k \in Calls, CreateRating(k)
         PROVE  RatingsOK'
    <2> DEFINE c == call[k]
    <2>1. /\ c.step = "create" /\ c.ride \in Rides /\ c.by \in Side /\ c.stars \in Scores
          /\ c.whose = Other(c.by) /\ UNCHANGED <<settlementVars, told>>
      BY <1>1, <1>10, UserOf DEF CreateRating, At, CallOK
    <2>2. CASE Rated(c.ride, c.by)
      BY <1>8, <1>10, <2>1, <2>2 DEF CreateRating
    <2>3. CASE ~Rated(c.ride, c.by)
      <3> DEFINE new == [stars |-> c.stars, revealed |-> FALSE]
      <3>1. /\ rating' = [rating EXCEPT ![c.ride][c.by] = new]
            /\ Goto(k, "findOther")
        BY <1>10, <2>3 DEF CreateRating
      <3>2. /\ call'[k].step = "findOther" /\ call'[k].whose = c.whose
            /\ call'[k].ride = c.ride /\ call'[k].by = c.by
            /\ call'[k].stars = c.stars
            /\ \A j \in Calls : j # k => call'[j] = call[j]
            /\ call' \in [Calls -> Call]
        BY <1>1, <3>1, WentOn
      <3>3. new \in Rating /\ new.stars = c.stars /\ new.revealed = FALSE
        BY <2>1 DEF Rating
      <3> HIDE DEF new
      <3>4. /\ rating'[c.ride][c.by] = new
            /\ \A r \in Rides, side \in Side : r # c.ride \/ side # c.by =>
                 rating'[r][side] = rating[r][side]
            /\ rating' \in [Rides -> [Side -> Rating]]
        <4>1. rating \in [Rides -> [Side -> Rating]]
          BY <1>1, RatingsTypes
        <4> QED
          BY <2>1, <3>1, <3>3, <4>1
      <3>5. WorkersOK' /\ SettlementTypeOK'
        BY <1>1, <2>1, WorkersStay
      <3>6. RatingsTypeOK'
        BY <1>1, <2>1, <3>2, <3>4, <3>5 DEF RatingsTypeOK
      <3>7. \A r \in Rides, side \in Side : Rated(r, side) =>
              rating'[r][side].stars = rating[r][side].stars
        BY <2>3, <3>4
      <3>8. RevealIsMutual'
        <4> SUFFICES ASSUME NEW r \in Rides, NEW one \in Side, rating'[r][one].revealed,
                            NEW side \in Side
                     PROVE  rating'[r][side].revealed /\ rating'[r][side].stars > 0
          BY DEF RevealIsMutual, RideRatings, Rated
        <4>1. r # c.ride \/ one # c.by
          BY <3>3, <3>4
        <4>2. rating[r][one].revealed
          BY <3>4, <4>1
        <4>3. \A other \in Side : Rated(r, other) /\ rating[r][other].revealed
          <5>1. RideRatings(r) # {}
            BY <4>2 DEF RideRatings
          <5>2. RideRatings(r) = Side /\ \A other \in Side : Rated(r, other)
            BY <5>1 DEF RatingsOK, RevealIsMutual
          <5> QED
            BY <5>2 DEF RideRatings
        <4>4. r # c.ride
          BY <2>1, <2>3, <4>3
        <4> QED
          BY <3>4, <4>3, <4>4 DEF Rated
      <3>9. CallOK(k)'
        BY <2>1, <3>2, <3>3, <3>4 DEF CallOK
      <3> QED
        BY <2>1, <3>2, <3>5, <3>6, <3>7, <3>8, <3>9, OneCall
    <2> QED
      BY <2>2, <2>3
  <1>11. ASSUME NEW k \in Calls, FindOther(k)
         PROVE  RatingsOK'
    <2> DEFINE c == call[k]
    <2>1. c.step = "findOther" /\ UNCHANGED <<settlementVars, rating, told>> /\ c.ride \in Rides
          /\ c.whose = Other(c.by) /\ rating[c.ride][c.by].stars = c.stars /\ c.stars \in Scores
      BY <1>1, <1>11 DEF FindOther, At, CallOK
    <2>2. PICK step \in {"reveal", "notify"} :
            Goto(k, step) /\ (step = "reveal" <=> Rated(c.ride, c.whose))
      BY <1>11 DEF FindOther
    <2>3. /\ call'[k].step = step /\ call'[k].whose = c.whose
          /\ call'[k].ride = c.ride /\ call'[k].by = c.by
          /\ call'[k].stars = c.stars
          /\ \A j \in Calls : j # k => call'[j] = call[j]
          /\ call' \in [Calls -> Call]
      BY <1>1, <2>2, WentOn
    <2>4. CallOK(k)'
      BY <2>1, <2>2, <2>3 DEF CallOK, Rated
    <2> QED
      BY <2>1, <2>3, <2>4, CallTypesOnly, QuietCall
  <1>12. ASSUME NEW k \in Calls, RevealRideRatings(k)
         PROVE  RatingsOK'
    <2> DEFINE c == call[k]
               r == c.ride
    <2>1. /\ c.step = "reveal" /\ UNCHANGED <<settlementVars, told>>
          /\ Goto(k, "aggregate")
          /\ rating' = [rating EXCEPT ![r] =
               [side \in Side |-> [rating[r][side] EXCEPT !.revealed = Rated(r, side)]]]
      BY <1>12 DEF RevealRideRatings, At
    <2>2. /\ r \in Rides /\ c.by \in Side /\ c.stars \in Scores
          /\ rating[r][c.by].stars = c.stars /\ c.whose = Other(c.by) /\ Rated(r, c.whose)
      BY <1>1, <2>1, UserOf DEF CallOK
    <2>3. \A side \in Side : Rated(r, side) /\ rating[r][side] \in Rating
      <3>1. Rated(r, c.by)
        BY <1>1, <2>2, RatingsTypes DEF Rated
      <3> QED
        BY <1>1, <2>2, <3>1, RatingsTypes, Sides
    <2>4. /\ \A side \in Side : rating'[r][side].revealed
          /\ \A side \in Side : rating'[r][side].stars = rating[r][side].stars
          /\ \A q \in Rides : q # r => rating'[q] = rating[q]
          /\ rating' \in [Rides -> [Side -> Rating]]
      <3>1. rating \in [Rides -> [Side -> Rating]]
        BY <1>1, RatingsTypes
      <3>2. \A side \in Side :
              /\ [rating[r][side] EXCEPT !.revealed = Rated(r, side)].revealed = Rated(r, side)
              /\ [rating[r][side] EXCEPT !.revealed = Rated(r, side)].stars = rating[r][side].stars
              /\ [rating[r][side] EXCEPT !.revealed = Rated(r, side)] \in Rating
        BY <2>3 DEF Rating, Rated
      <3> QED
        BY <2>1, <2>2, <2>3, <3>1, <3>2
    <2>5. /\ call'[k].step = "aggregate" /\ call'[k].whose = c.whose
          /\ call'[k].ride = r /\ call'[k].by = c.by
          /\ call'[k].stars = c.stars
          /\ \A j \in Calls : j # k => call'[j] = call[j]
          /\ call' \in [Calls -> Call]
      BY <1>1, <2>1, WentOn
    <2>6. WorkersOK' /\ SettlementTypeOK'
      BY <1>1, <2>1, WorkersStay
    <2>7. RatingsTypeOK'
      BY <1>1, <2>1, <2>4, <2>5, <2>6 DEF RatingsTypeOK
    <2>8. \A q \in Rides, side \in Side : rating'[q][side].stars = rating[q][side].stars
      BY <2>4
    <2>9. RevealIsMutual'
      <3> SUFFICES ASSUME NEW q \in Rides, NEW one \in Side, rating'[q][one].revealed,
                          NEW side \in Side
                   PROVE  rating'[q][side].revealed /\ rating'[q][side].stars > 0
        BY DEF RevealIsMutual, RideRatings, Rated
      <3>1. CASE q = r
        BY <2>3, <2>4, <3>1 DEF Rated
      <3>2. CASE q # r
        <4>1. rating[q][one].revealed
          BY <2>4, <3>2
        <4>2. RideRatings(q) # {}
          BY <4>1 DEF RideRatings
        <4>3. RideRatings(q) = Side /\ \A other \in Side : Rated(q, other)
          BY <4>2 DEF RatingsOK, RevealIsMutual
        <4> QED
          BY <2>4, <3>2, <4>3 DEF RideRatings, Rated
      <3> QED
        BY <3>1, <3>2
    <2>10. CallOK(k)'
      BY <2>2, <2>5, <2>8 DEF CallOK
    <2> QED
      BY <2>1, <2>5, <2>6, <2>7, <2>8, <2>9, <2>10, OneCall
  <1>13. ASSUME NEW k \in Calls, Aggregate(k)
         PROVE  RatingsOK'
    <2> DEFINE c == call[k]
               u == User(k)
    <2>1. /\ c.step = "aggregate" /\ UNCHANGED <<settlementVars, rating, told>>
          /\ Continue(k, [c EXCEPT !.step = "updateStats", !.count = Cardinality(Revealed(u)),
                                   !.sum = StarsOf(Revealed(u))])
      BY <1>13 DEF Aggregate, Aggregated, At
    <2>2. /\ c \in Call /\ c.ride \in Rides /\ c.by \in Side /\ c.stars \in Scores
          /\ rating[c.ride][c.by].stars = c.stars /\ u \in Users
      BY <1>1, <2>1, UserOf, RatingsTypes DEF CallOK
    <2>3. PICK n \in Nat, m \in Nat : n = Cardinality(Revealed(u)) /\ m = StarsOf(Revealed(u))
      BY <1>1, <2>2, AggregatedTypes
    <2> DEFINE next == [c EXCEPT !.step = "updateStats", !.count = n, !.sum = m]
    <2>4. next \in Call /\ next.step = "updateStats" /\ next.ride = c.ride /\ next.by = c.by
          /\ next.stars = c.stars
      BY <2>2 DEF Call
    <2>5. Continue(k, next)
      BY <2>1, <2>3
    <2> HIDE DEF next
    <2>6. /\ call'[k] = next /\ \A j \in Calls : j # k => call'[j] = call[j]
          /\ call' \in [Calls -> Call]
      BY <1>1, <2>4, <2>5, RatingsTypes, CallWritten
    <2>7. CallOK(k)'
      BY <2>1, <2>2, <2>4, <2>6 DEF CallOK
    <2> QED
      BY <2>1, <2>6, <2>7, CallTypesOnly, QuietCall
  <1>14. ASSUME NEW k \in Calls, UpdateUserStats(k)
         PROVE  RatingsOK'
    <2> DEFINE c == call[k]
               u == User(k)
    <2>1. /\ c.step = "updateStats"
          /\ UNCHANGED <<status, job, payments, trustJob, settler, scorer, rating, told>>
      BY <1>14 DEF UpdateUserStats, At
    <2>2. /\ c \in Call /\ c.ride \in Rides /\ c.by \in Side /\ c.stars \in Scores
          /\ rating[c.ride][c.by].stars = c.stars /\ u \in Users /\ c.count \in Nat /\ c.sum \in Nat
      <3>1. c \in Call
        BY <1>1, RatingsTypes
      <3> QED
        BY <1>1, <2>1, <3>1, UserOf DEF CallOK, Call
    <2>3. CASE ~stats[u].known
      BY <1>8, <1>14, <2>1, <2>3 DEF UpdateUserStats, settlementVars
    <2>4. CASE stats[u].known
      <3>1. /\ stats' = [stats EXCEPT ![u] = Averaged(stats[u], c.count, c.sum)]
            /\ \/ Continue(k, [c EXCEPT !.step = "aggregate", !.whose = c.by])
               \/ Continue(k, [c EXCEPT !.step = "addTrust", !.whose = Other(c.by)])
        BY <1>14, <2>4 DEF UpdateUserStats
      <3>2. /\ call'[k].step \in {"aggregate", "addTrust"}
            /\ call'[k].ride = c.ride /\ call'[k].by = c.by
            /\ call'[k].stars = c.stars
            /\ \A j \in Calls : j # k => call'[j] = call[j]
            /\ call' \in [Calls -> Call]
        <4>1. CASE Continue(k, [c EXCEPT !.step = "aggregate", !.whose = c.by])
          BY <1>1, <2>2, <4>1, WentFor
        <4>2. CASE Continue(k, [c EXCEPT !.step = "addTrust", !.whose = Other(c.by)])
          <5>1. PICK w \in Side : w = Other(c.by)
            BY <2>2, Sides
          <5>2. Continue(k, [c EXCEPT !.step = "addTrust", !.whose = w])
            BY <4>2, <5>1
          <5> QED
            BY <1>1, <5>2, WentFor
        <4> QED
          BY <3>1, <4>1, <4>2
      <3>3. /\ stats' \in [Users -> UserStats]
            /\ \A v \in Users : /\ stats'[v].known = stats[v].known
                                /\ stats'[v].known \/ stats'[v] = NoStats
        <4>1. PICK n \in Nat, m \in Nat : n = c.count /\ m = c.sum
          BY <2>2
        <4>2. PICK v \in Users : v = u
          BY <2>2
        <4>3. stats' = [stats EXCEPT ![v] = Averaged(stats[v], n, m)] /\ stats[v].known
          BY <2>4, <3>1, <4>1, <4>2
        <4> QED
          BY <1>1, <4>3, CountedStats
      <3>4. SettlementTypeOK'
        BY <1>1, <2>1, <3>3 DEF RatingsTypeOK, SettlementTypeOK
      <3>5. WorkersOK'
        BY <1>1, <2>1, <3>3, <3>4, WorkersRest
      <3>6. RatingsTypeOK'
        BY <1>1, <2>1, <3>2, <3>4 DEF RatingsTypeOK
      <3>7. CallOK(k)'
        BY <2>1, <2>2, <3>2 DEF CallOK
      <3> QED
        BY <2>1, <3>2, <3>5, <3>6, <3>7, QuietCall
    <2> QED
      BY <2>3, <2>4
  <1>15. ASSUME NEW k \in Calls, RecalculateTrust(k)
         PROVE  RatingsOK'
    <2> DEFINE c == call[k]
               u == User(k)
    <2>1. /\ c.step = "addTrust"
          /\ UNCHANGED <<status, job, payments, stats, settler, scorer, rating, told>>
          /\ trustJob' = [trustJob EXCEPT ![<<u, 0>>] = @ + 1]
          /\ Continue(k, [c EXCEPT !.whose = c.by]) \/ Goto(k, "notify")
      BY <1>15 DEF RecalculateTrust, At
    <2>2. /\ c \in Call /\ c.ride \in Rides /\ c.by \in Side /\ c.stars \in Scores
          /\ rating[c.ride][c.by].stars = c.stars /\ u \in Users
      BY <1>1, <2>1, UserOf, RatingsTypes DEF CallOK
    <2>3. /\ call'[k].step \in {"addTrust", "notify"}
          /\ call'[k].ride = c.ride /\ call'[k].by = c.by
          /\ call'[k].stars = c.stars
          /\ \A j \in Calls : j # k => call'[j] = call[j]
          /\ call' \in [Calls -> Call]
      <3>1. CASE Continue(k, [c EXCEPT !.whose = c.by])
        <4>1. [c EXCEPT !.whose = c.by] = [c EXCEPT !.step = "addTrust", !.whose = c.by]
          BY <2>1, <2>2 DEF Call
        <4>2. Continue(k, [c EXCEPT !.step = "addTrust", !.whose = c.by])
          BY <3>1, <4>1
        <4> QED
          BY <1>1, <2>2, <4>2, WentFor
      <3>2. CASE Goto(k, "notify")
        BY <1>1, <3>2, WentOn
      <3> QED
        BY <2>1, <3>1, <3>2
    <2>4. trustJob' \in [Users \X Stalls -> Nat]
      <3>1. trustJob \in [Users \X Stalls -> Nat] /\ 0 \in Stalls
        BY <1>1, SettlementAssumption DEF WorkersOK, SettlementTypeOK, Stalls
      <3> QED
        BY <2>1, <2>2, <3>1
    <2>5. SettlementTypeOK'
      BY <1>1, <2>1, <2>4 DEF RatingsTypeOK, SettlementTypeOK
    <2>6. WorkersOK'
      BY <1>1, <2>1, <2>5, WorkersRest
    <2>7. RatingsTypeOK'
      BY <1>1, <2>1, <2>3, <2>5 DEF RatingsTypeOK
    <2>8. CallOK(k)'
      BY <2>1, <2>2, <2>3 DEF CallOK
    <2> QED
      BY <2>1, <2>3, <2>6, <2>7, <2>8, QuietCall
  <1>16. ASSUME NEW k \in Calls, NotifyRatee(k)
         PROVE  RatingsOK'
    <2> DEFINE c == call[k]
               new == [to |-> Other(c.by), ride |-> c.ride, stars |-> c.stars]
    <2>1. c.step = "notify" /\ Return(k) /\ told' = told \cup {new} /\ UNCHANGED <<settlementVars, rating>>
      BY <1>16 DEF NotifyRatee, At
    <2>2. c.ride \in Rides /\ c.by \in Side /\ c.stars \in Scores /\ Other(c.by) \in Side
      BY <2>1, UserOf, Sides
    <2>3. /\ call'[k] = Idle
          /\ \A j \in Calls : j # k => call'[j] = call[j]
          /\ call' \in [Calls -> Call]
      BY <1>1, <2>1, Returned
    <2>4. WorkersOK' /\ SettlementTypeOK'
      BY <1>1, <2>1, WorkersStay
    <2>5. RatingsTypeOK'
      BY <1>1, <2>1, <2>2, <2>3, <2>4 DEF RatingsTypeOK
    <2>6. RevealIsMutual'
      BY <2>1 DEF RatingsOK, RevealIsMutual, RideRatings, Rated
    <2>7. CallOK(k)'
      BY <1>3, <2>3
    <2> QED
      BY <2>1, <2>3, <2>4, <2>5, <2>6, <2>7, OneCall
  <1>17. ASSUME NEW k \in Calls, Abort(k)
         PROVE  RatingsOK'
    BY <1>8, <1>17 DEF Abort
  <1>18. ASSUME UNCHANGED vars
         PROVE  RatingsOK'
    <2>1. UNCHANGED settlementVars /\ UNCHANGED <<rating, told>> /\ call' = call
      BY <1>18 DEF vars, ratingVars
    <2>2. WorkersOK' /\ SettlementTypeOK'
      BY <1>1, <2>1, WorkersStay
    <2> QED
      BY <1>1, <1>4, <2>1, <2>2 DEF RatingsTypeOK
  <1> QED
    BY <1>5, <1>6, <1>7, <1>9, <1>10, <1>11, <1>12, <1>13, <1>14, <1>15, <1>16, <1>17, <1>18
       DEF Next, Rate, Resume

\* A handler knows what it rates and finds its own rating where it left it, in every
\* state, together with the three properties below, none of which is inductive alone.
THEOREM RatingsInvariant ==
  Spec => []RatingsOK
  BY RatingsInit1, RatingsOKStep, PTL DEF Spec

\* Values stay in their types, and no rating writes statistics for a user who has none.
THEOREM RatingsTypeCorrect ==
  Spec => []RatingsTypeOK
  BY RatingsInvariant, PTL DEF RatingsOK

\* A rating stands as its ratee was told of it: no resubmission, however it races
\* with the first, changes its stars.
THEOREM ToldRatingsStand ==
  Spec => []RatingsStand
  BY RatingsInvariant, PTL DEF RatingsOK

\* Blind reveal: neither rating of a ride is shown before both exist, and then both
\* at once.
THEOREM RevealIsBlind ==
  Spec => []RevealIsMutual
  BY RatingsInvariant, PTL DEF RatingsOK

-----------------------------------------------------------------------------
(* Averages.                                                               *)

\* What is rated keeps its stars, and what is revealed stays revealed.
RatingsGrow ==
  \A r \in Rides, side \in Side :
    /\ Rated(r, side) => rating'[r][side].stars = rating[r][side].stars
    /\ rating[r][side].revealed => rating'[r][side].revealed

LEMMA RevealedAreRated ==
  ASSUME RatingsOK, NEW r \in Rides, NEW side \in Side, rating[r][side].revealed
  PROVE  \A one \in Side : Rated(r, one) /\ rating[r][one].revealed
  <1>1. RideRatings(r) # {}
    BY DEF RideRatings
  <1>2. RideRatings(r) = Side /\ \A one \in Side : Rated(r, one)
    BY <1>1 DEF RatingsOK, RevealIsMutual
  <1> QED
    BY <1>2 DEF RideRatings

LEMMA RatingsOnlyGrow ==
  ASSUME RatingsOK, [Next]_vars
  PROVE  RatingsGrow
  <1>1. RatingsTypeOK /\ \A k \in Calls : CallOK(k)
    BY DEF RatingsOK
  <1>2. rating \in [Rides -> [Side -> Rating]]
    BY <1>1, RatingsTypes
  <1>3. ASSUME UNCHANGED rating
        PROVE  RatingsGrow
    BY <1>3 DEF RatingsGrow
  <1>4. ASSUME NEW k \in Calls, CreateRating(k)
        PROVE  RatingsGrow
    <2> DEFINE c == call[k]
    <2>1. c.ride \in Rides /\ c.by \in Side
      BY <1>4, UserOf DEF CreateRating, At
    <2>2. CASE Rated(c.ride, c.by)
      BY <1>3, <1>4, <2>2 DEF CreateRating
    <2>3. CASE ~Rated(c.ride, c.by)
      <3>1. ~rating[c.ride][c.by].revealed
        BY <2>1, <2>3, RevealedAreRated
      <3>2. rating' = [rating EXCEPT ![c.ride][c.by] = [stars |-> c.stars, revealed |-> FALSE]]
        BY <1>4, <2>3 DEF CreateRating
      <3>3. \A r \in Rides, side \in Side : r # c.ride \/ side # c.by =>
              rating'[r][side] = rating[r][side]
        BY <1>2, <2>1, <3>2
      <3> QED
        BY <2>3, <3>1, <3>3 DEF RatingsGrow
    <2> QED
      BY <2>2, <2>3
  <1>5. ASSUME NEW k \in Calls, RevealRideRatings(k)
        PROVE  RatingsGrow
    <2> DEFINE q == call[k].ride
    <2>1. q \in Rides
      BY <1>5, UserOf DEF RevealRideRatings, At
    <2>2. rating' = [rating EXCEPT ![q] =
            [side \in Side |-> [rating[q][side] EXCEPT !.revealed = Rated(q, side)]]]
      BY <1>5 DEF RevealRideRatings
    <2>3. \A side \in Side :
            /\ [rating[q][side] EXCEPT !.revealed = Rated(q, side)].revealed = Rated(q, side)
            /\ [rating[q][side] EXCEPT !.revealed = Rated(q, side)].stars = rating[q][side].stars
      <3>1. \A side \in Side : rating[q][side] \in Rating
        BY <1>2, <2>1
      <3> QED
        BY <3>1 DEF Rating
    <2>4. \A side \in Side : /\ rating'[q][side].revealed = Rated(q, side)
                             /\ rating'[q][side].stars = rating[q][side].stars
      BY <1>2, <2>1, <2>2, <2>3
    <2>5. \A r \in Rides : r # q => rating'[r] = rating[r]
      BY <1>2, <2>2
    <2>6. \A side \in Side : rating[q][side].revealed => Rated(q, side)
      BY <2>1, RevealedAreRated
    <2> QED
      BY <2>4, <2>5, <2>6 DEF RatingsGrow
  <1>6. Settling \/ (\E s \in Servers : CrashServer(s)) => UNCHANGED rating
    BY DEF Settling, ratingVars, CrashServer
  <1>7. ASSUME NEW k \in Calls,
               \/ \E r \in Rides, side \in Side, stars \in Scores : SubmitRating(k, r, side, stars)
               \/ FindExisting(k) \/ FindOther(k) \/ Aggregate(k) \/ UpdateUserStats(k)
               \/ RecalculateTrust(k) \/ NotifyRatee(k) \/ Abort(k)
        PROVE  UNCHANGED rating
    BY <1>7 DEF SubmitRating, FindExisting, FindOther, Aggregate, UpdateUserStats,
                RecalculateTrust, NotifyRatee, Abort
  <1>8. UNCHANGED vars => UNCHANGED rating
    BY DEF vars, ratingVars
  <1> QED
    BY <1>3, <1>4, <1>5, <1>6, <1>7, <1>8 DEF Next, Rate, Resume

LEMMA AverageKept ==
  ASSUME RatingsOK, RatingsTypeOK', RatingsGrow,
         NEW u \in Users, NEW n, NEW m, IsAverageOf(u, n, m)
  PROVE  IsAverageOf(u, n, m)'
  <1> DEFINE D == Rides \X Side
  <1>1. PICK T \in SUBSET Revealed(u) : n = Cardinality(T) /\ m = StarsOf(T)
    BY DEF IsAverageOf
  <1>2. Stars \in [D -> Nat] /\ Revealed(u) \in SUBSET D /\ IsFiniteSet(D)
    BY AggregatedTypes DEF RatingsOK
  <1>3. Stars' \in [D -> Nat]
    <2>1. rating' \in [Rides -> [Side -> Rating]]
      BY DEF RatingsTypeOK
    <2>2. \A r \in Rides, side \in Side : rating'[r][side].stars \in Nat
      <3>1. \A one \in Rating : one.stars \in Nat
        <4>1. \A x \in Scores : x \in Nat
          BY RatingsAssumption
        <4> QED
          BY <4>1 DEF Rating
      <3> QED
        BY <2>1, <3>1
    <2> QED
      BY <2>2 DEF Stars
  <1>4. \A x \in Revealed(u) : x \in Revealed(u)' /\ Stars'[x] = Stars[x]
    <2> SUFFICES ASSUME NEW x \in Revealed(u)
                 PROVE  x \in Revealed(u)' /\ Stars'[x] = Stars[x]
      OBVIOUS
    <2>1. PICK r \in Rides, side \in Side : x = <<r, side>>
      BY DEF Revealed
    <2>2. rating[r][side].revealed /\ Party[r][Other(side)] = u
      BY <2>1 DEF Revealed
    <2>3. Rated(r, side)
      BY <2>2, RevealedAreRated
    <2>4. rating'[r][side].revealed /\ rating'[r][side].stars = rating[r][side].stars
      BY <2>2, <2>3 DEF RatingsGrow
    <2> QED
      BY <2>1, <2>2, <2>4 DEF Revealed, Stars
  <1>5. T \in SUBSET (Revealed(u)') /\ IsFiniteSet(T)
    BY <1>1, <1>2, <1>4, FS_Subset
  <1>6. StarsOf(T)' = StarsOf(T)
    <2>1. Stars \in [D -> Int] /\ Stars' \in [D -> Int]
      BY <1>2, <1>3
    <2>2. SumFunctionOnSet(Stars', T) = SumFunctionOnSet(Stars, T)
      BY <1>1, <1>2, <1>4, <1>5, <2>1, SumEqual
    <2> QED
      BY <2>2 DEF StarsOf
  <1> QED
    BY <1>1, <1>5, <1>6 DEF IsAverageOf

LEMMA StatsFieldsKept ==
  ASSUME WorkersOK, Step
  PROVE  /\ \A u \in Users : /\ stats'[u].ratings = stats[u].ratings
                             /\ stats'[u].stars = stats[u].stars
                             /\ stats[u].known => stats'[u].known
  <1>1. /\ stats \in [Users -> UserStats]
        /\ \A s \in Servers : SettlerOK(s) /\ ScorerOK(s)
    BY DEF WorkersOK, SettlementTypeOK
  <1>2. \A st \in UserStats :
          /\ \A fare : /\ Counted(st, fare).ratings = st.ratings
                       /\ Counted(st, fare).stars = st.stars
                       /\ Counted(st, fare).known
          /\ \A n : /\ Scored(st, n).ratings = st.ratings
                    /\ Scored(st, n).stars = st.stars
                    /\ Scored(st, n).known = st.known
    BY DEF UserStats, Counted, Scored
  <1>3. ASSUME NEW s \in Servers, NEW side \in Side, CountRide(s, side)
        PROVE  \A u \in Users : /\ stats'[u].ratings = stats[u].ratings
                                /\ stats'[u].stars = stats[u].stars
                                /\ stats[u].known => stats'[u].known
    BY <1>1, <1>2, <1>3 DEF CountRide
  <1>4. ASSUME NEW s \in Servers, WriteScore(s)
        PROVE  \A u \in Users : /\ stats'[u].ratings = stats[u].ratings
                                /\ stats'[u].stars = stats[u].stars
                                /\ stats[u].known => stats'[u].known
    BY <1>1, <1>2, <1>4 DEF WriteScore
  <1>5. ASSUME NEW s \in Servers,
               \/ \E r \in Rides, n \in JobNo : TakeCompletionJob(s, r, n)
               \/ FindPayment(s) \/ CreatePayment(s)
               \/ \E side \in Side : AddTrustJob(s, side)
               \/ \E u \in Users, k \in Stalls : TakeTrustJob(s, u, k)
               \/ Fail(s)
        PROVE  UNCHANGED stats
    BY <1>5 DEF TakeCompletionJob, FindPayment, CreatePayment, AddTrustJob, TakeTrustJob,
                Fail, CompletionJobFails, TrustJobFails, Crash
  <1>6. (\E r \in Rides : RideEnds(r)) => UNCHANGED stats
    BY DEF RideEnds, RideCompletes, ConfirmRide, AddCompletionJob, OverwriteStatus
  <1>7. UNCHANGED settlementVars => UNCHANGED stats
    BY DEF settlementVars
  <1> QED
    BY <1>3, <1>4, <1>5, <1>6, <1>7 DEF Step, Settle, ScoreUser

\* Steps that write no average, and bring no call there.
LEMMA AveragesRest ==
  ASSUME RatingsOK, RatingsTypeOK', RatingsGrow, AveragesOK,
         \A u \in Users : stats'[u].ratings = stats[u].ratings /\ stats'[u].stars = stats[u].stars,
         \A k \in Calls : call'[k] = call[k] \/ call'[k].step # "updateStats"
  PROVE  AveragesOK'
  <1>1. ASSUME NEW u \in Users
        PROVE  IsAverageOf(u, stats[u].ratings, stats[u].stars)'
    <2>1. PICK n, m : n = stats[u].ratings /\ m = stats[u].stars
      OBVIOUS
    <2>2. IsAverageOf(u, n, m)
      BY <2>1 DEF AveragesOK
    <2>3. IsAverageOf(u, n, m)'
      BY <2>2, AverageKept
    <2>4. n = stats'[u].ratings /\ m = stats'[u].stars
      BY <2>1
    <2> QED
      BY <2>3, <2>4 DEF IsAverageOf
  <1>2. ASSUME NEW k \in Calls, At(k, "updateStats")'
        PROVE  IsAverageOf(User(k), call[k].count, call[k].sum)'
    <2>1. call'[k] = call[k] /\ At(k, "updateStats")
      BY <1>2 DEF At
    <2>2. User(k) \in Users
      BY <2>1, UserOf DEF At
    <2>3. PICK u \in Users : u = User(k)
      BY <2>2
    <2>3a. PICK n, m : n = call[k].count /\ m = call[k].sum
      OBVIOUS
    <2>4. IsAverageOf(u, n, m)
      BY <2>1, <2>3, <2>3a DEF AveragesOK
    <2>5. IsAverageOf(u, n, m)'
      BY <2>4, AverageKept
    <2>6. u = User(k)' /\ n = call'[k].count /\ m = call'[k].sum
      BY <2>1, <2>3, <2>3a DEF User
    <2> QED
      BY <2>5, <2>6 DEF IsAverageOf
  <1> QED
    BY <1>1, <1>2 DEF AveragesOK

LEMMA AveragesInit ==
  Init => AveragesOK
  <1> SUFFICES ASSUME Init
               PROVE  AveragesOK
    OBVIOUS
  <1>1. ASSUME NEW u \in Users
        PROVE  IsAverageOf(u, stats[u].ratings, stats[u].stars)
    <2>1. stats[u].ratings = 0 /\ stats[u].stars = 0
      BY StatsBeforeType DEF Init, SettlementInit
    <2>2. StarsOf({}) = 0 /\ Cardinality({}) = 0
      BY SumEmpty, FS_EmptySet DEF StarsOf
    <2> QED
      BY <2>1, <2>2 DEF IsAverageOf
  <1>2. \A k \in Calls : ~At(k, "updateStats")
    BY DEF Init, RatingsInit, At, Idle
  <1> QED
    BY <1>1, <1>2 DEF AveragesOK

LEMMA AveragesStep ==
  ASSUME RatingsOK, RatingsOK', AveragesOK, [Next]_vars
  PROVE  AveragesOK'
  <1>1. WorkersOK /\ RatingsTypeOK /\ RatingsTypeOK' /\ RatingsGrow
    BY RatingsOnlyGrow DEF RatingsOK
  <1>2. stats \in [Users -> UserStats] /\ call \in [Calls -> Call]
    BY <1>1 DEF RatingsTypeOK, SettlementTypeOK
  <1>3. ASSUME UNCHANGED stats, \A k \in Calls : call'[k] = call[k] \/ call'[k].step # "updateStats"
        PROVE  AveragesOK'
    BY <1>1, <1>3, AveragesRest
  <1>4. Idle.step # "updateStats"
    BY DEF Idle
  <1>5. ASSUME Settling
        PROVE  AveragesOK'
    <2>1. Step /\ call' = call
      BY <1>5, SettlingIsStep DEF ratingVars
    <2>2. \A u \in Users : stats'[u].ratings = stats[u].ratings /\ stats'[u].stars = stats[u].stars
      BY <1>1, <2>1, StatsFieldsKept
    <2> QED
      BY <1>1, <2>1, <2>2, AveragesRest
  <1>6. ASSUME NEW s \in Servers, CrashServer(s)
        PROVE  AveragesOK'
    <2>1. UNCHANGED stats /\ call' = [k \in Calls |-> IF ServerOf[k] = s THEN Idle ELSE call[k]]
      BY <1>6 DEF CrashServer, Crash
    <2> QED
      BY <1>3, <1>4, <2>1
  <1>7. ASSUME NEW k \in Calls, NEW next, Continue(k, next), next.step # "updateStats", UNCHANGED stats
        PROVE  AveragesOK'
    <2>1. \A j \in Calls : call'[j] = call[j] \/ call'[j].step # "updateStats"
      BY <1>2, <1>7 DEF Continue
    <2> QED
      BY <1>3, <1>7, <2>1
  <1>8. ASSUME NEW k \in Calls, Return(k), UNCHANGED stats
        PROVE  AveragesOK'
    BY <1>4, <1>7, <1>8 DEF Return
  <1>9. ASSUME NEW k \in Calls, NEW step, Goto(k, step), step # "updateStats", UNCHANGED stats
        PROVE  AveragesOK'
    <2>1. [call[k] EXCEPT !.step = step].step # "updateStats"
      BY <1>2, <1>9 DEF Call
    <2> QED
      BY <1>7, <1>9, <2>1 DEF Goto
  <1>10. ASSUME NEW k \in Calls, NEW r \in Rides, NEW side \in Side, NEW stars \in Scores,
                SubmitRating(k, r, side, stars)
         PROVE  AveragesOK'
    <2> DEFINE new == [Idle EXCEPT !.step = "findExisting", !.ride = r, !.by = side,
                                   !.whose = Other(side), !.stars = stars]
    <2>1. new.step # "updateStats"
      BY DEF Idle
    <2>2. Continue(k, new) /\ UNCHANGED stats
      BY <1>10 DEF SubmitRating, settlementVars
    <2> QED
      BY <1>7, <2>1, <2>2
  <1>11. ASSUME NEW k \in Calls,
                \/ FindExisting(k) \/ CreateRating(k) \/ FindOther(k) \/ RevealRideRatings(k)
                \/ NotifyRatee(k) \/ Abort(k)
         PROVE  AveragesOK'
    <2>1. UNCHANGED stats
      BY <1>11 DEF FindExisting, CreateRating, FindOther, RevealRideRatings, NotifyRatee, Abort,
                   settlementVars
    <2>2. \/ Return(k) \/ Goto(k, "create") \/ Goto(k, "findOther") \/ Goto(k, "reveal")
          \/ Goto(k, "notify") \/ Goto(k, "aggregate")
      BY <1>11 DEF FindExisting, CreateRating, FindOther, RevealRideRatings, NotifyRatee, Abort
    <2> QED
      BY <1>8, <1>9, <2>1, <2>2
  <1>12. ASSUME NEW k \in Calls, RecalculateTrust(k)
         PROVE  AveragesOK'
    <2>1. UNCHANGED stats /\ call[k].step = "addTrust"
      BY <1>12 DEF RecalculateTrust, At
    <2>2. Continue(k, [call[k] EXCEPT !.whose = call[k].by]) \/ Goto(k, "notify")
      BY <1>12 DEF RecalculateTrust
    <2>3. [call[k] EXCEPT !.whose = call[k].by].step # "updateStats"
      BY <1>2, <2>1 DEF Call
    <2> QED
      BY <1>7, <1>9, <2>1, <2>2, <2>3
  <1>13. ASSUME NEW k \in Calls, Aggregate(k)
         PROVE  AveragesOK'
    <2> DEFINE c == call[k]
               u == User(k)
               next == [c EXCEPT !.step = "updateStats", !.count = Cardinality(Revealed(u)),
                                 !.sum = StarsOf(Revealed(u))]
    <2>1. /\ c.step = "aggregate" /\ UNCHANGED <<settlementVars, rating, told>>
          /\ Continue(k, next)
      BY <1>13 DEF Aggregate, Aggregated, At
    <2>2. /\ next.ride = c.ride /\ next.whose = c.whose
          /\ next.count = Cardinality(Revealed(u)) /\ next.sum = StarsOf(Revealed(u))
      BY <1>2 DEF Call
    <2> HIDE DEF next
    <2>3. call'[k] = next /\ \A j \in Calls : j # k => call'[j] = call[j]
      BY <1>2, <2>1 DEF Continue
    <2>4. u \in Users
      BY <2>1, UserOf
    <2>5. IsAverageOf(u, Cardinality(Revealed(u)), StarsOf(Revealed(u)))
      BY DEF IsAverageOf
    <2>5a. PICK v \in Users : v = u
      BY <2>4
    <2>6. PICK n, m : n = next.count /\ m = next.sum /\ IsAverageOf(v, n, m)
      BY <2>2, <2>5, <2>5a
    <2>7. IsAverageOf(v, n, m)'
      BY <1>1, <2>6, AverageKept
    <2>8. User(k)' = v /\ call'[k].count = n /\ call'[k].sum = m
      BY <2>2, <2>3, <2>5a, <2>6 DEF User
    <2>9. IsAverageOf(User(k), call[k].count, call[k].sum)'
      BY <2>7, <2>8 DEF IsAverageOf
    <2>10. ASSUME NEW w \in Users
           PROVE  IsAverageOf(w, stats[w].ratings, stats[w].stars)'
      <3>1. IsAverageOf(w, stats'[w].ratings, stats'[w].stars)
        BY <2>1 DEF AveragesOK, settlementVars
      <3> QED
        BY <2>1, <3>1 DEF IsAverageOf, Revealed, StarsOf, Stars
    <2>11. ASSUME NEW j \in Calls, j # k, At(j, "updateStats")'
           PROVE  IsAverageOf(User(j), call[j].count, call[j].sum)'
      <3>1. call'[j] = call[j] /\ At(j, "updateStats")
        BY <2>3, <2>11 DEF At
      <3>2. IsAverageOf(User(j), call[j].count, call[j].sum)
        BY <3>1 DEF AveragesOK
      <3> QED
        BY <2>1, <3>1, <3>2 DEF IsAverageOf, User, Revealed, StarsOf, Stars
    <2> QED
      BY <2>9, <2>10, <2>11 DEF AveragesOK
  <1>14. ASSUME NEW k \in Calls, UpdateUserStats(k)
         PROVE  AveragesOK'
    <2> DEFINE c == call[k]
               u == User(k)
    <2>1. c.step = "updateStats" /\ UNCHANGED <<rating, told>>
      BY <1>14 DEF UpdateUserStats, At
    <2>2. CASE ~stats[u].known
      BY <1>8, <1>14, <2>2 DEF UpdateUserStats
    <2>3. CASE stats[u].known
      <3>1. /\ stats' = [stats EXCEPT ![u] = Averaged(stats[u], c.count, c.sum)]
            /\ \/ Continue(k, [c EXCEPT !.step = "aggregate", !.whose = c.by])
               \/ Continue(k, [c EXCEPT !.step = "addTrust", !.whose = Other(c.by)])
        BY <1>14, <2>3 DEF UpdateUserStats
      <3>2. u \in Users
        BY <2>1, UserOf
      <3>3. \A j \in Calls : call'[j] = call[j] \/ call'[j].step # "updateStats"
        BY <1>2, <3>1 DEF Continue, Call
      <3>4. IsAverageOf(u, c.count, c.sum)
        BY <2>1 DEF AveragesOK, At
      <3>5. /\ stats'[u].ratings = c.count /\ stats'[u].stars = c.sum
            /\ \A v \in Users : v # u => stats'[v] = stats[v]
        BY <1>2, <3>1, <3>2 DEF Averaged, UserStats
      <3>6. ASSUME NEW v \in Users
            PROVE  IsAverageOf(v, stats[v].ratings, stats[v].stars)'
        <4>1. IsAverageOf(v, stats'[v].ratings, stats'[v].stars)
          <5>1. CASE v = u
            BY <3>4, <3>5, <5>1
          <5>2. CASE v # u
            BY <3>5, <5>2 DEF AveragesOK
          <5> QED
            BY <5>1, <5>2
        <4> QED
          BY <2>1, <4>1 DEF IsAverageOf, Revealed, StarsOf, Stars
      <3>7. ASSUME NEW j \in Calls, At(j, "updateStats")'
            PROVE  IsAverageOf(User(j), call[j].count, call[j].sum)'
        <4>1. call'[j] = call[j] /\ At(j, "updateStats")
          BY <3>3, <3>7 DEF At
        <4>2. IsAverageOf(User(j), call[j].count, call[j].sum)
          BY <4>1 DEF AveragesOK
        <4> QED
          BY <2>1, <4>1, <4>2 DEF IsAverageOf, User, Revealed, StarsOf, Stars
      <3> QED
        BY <3>6, <3>7 DEF AveragesOK
    <2> QED
      BY <2>2, <2>3
  <1>15. ASSUME UNCHANGED vars
         PROVE  AveragesOK'
    BY <1>3, <1>15 DEF vars, ratingVars, settlementVars
  <1> QED
    BY <1>5, <1>6, <1>10, <1>11, <1>12, <1>13, <1>14, <1>15 DEF Next, Rate, Resume

\* What users are shown as an average is the average of ratings on the list
\* beside it, however handlers interleave and wherever they are cut off.
THEOREM AveragesAreOfTheList ==
  Spec => []AverageIsOfTheList
  <1>1. ASSUME RatingsOK, AveragesOK
        PROVE  AverageIsOfTheList
    <2> SUFFICES ASSUME NEW u \in Users
                 PROVE  LET all == Revealed(u)
                        IN  /\ stats[u].ratings <= Cardinality(all)
                            /\ stats[u].stars <= StarsOf(all)
                            /\ stats[u].ratings = Cardinality(all) => stats[u].stars = StarsOf(all)
      BY DEF AverageIsOfTheList, GetUserRatings
    <2> DEFINE all == Revealed(u)
    <2>1. PICK T \in SUBSET all : stats[u].ratings = Cardinality(T) /\ stats[u].stars = StarsOf(T)
      BY <1>1 DEF AveragesOK, IsAverageOf
    <2>2. /\ Stars \in [Rides \X Side -> Nat] /\ all \in SUBSET (Rides \X Side)
          /\ IsFiniteSet(all)
      BY <1>1, AggregatedTypes DEF RatingsOK
    <2>3. Cardinality(T) <= Cardinality(all) /\ (Cardinality(T) = Cardinality(all) => T = all)
      BY <2>1, <2>2, FS_Subset
    <2>4. StarsOf(T) <= StarsOf(all)
      BY <2>1, <2>2, SumSubset DEF StarsOf
    <2> QED
      BY <2>1, <2>3, <2>4
  <1>2. RatingsOK /\ AveragesOK /\ [Next]_vars => RatingsOK' /\ AveragesOK'
    BY RatingsOKStep, AveragesStep
  <1>3. Init => RatingsOK /\ AveragesOK
    BY RatingsInit1, AveragesInit
  <1> QED
    BY <1>1, <1>2, <1>3, PTL DEF Spec

-----------------------------------------------------------------------------
(* Reveals, when nothing fails.                                            *)

LEMMA RevealComesStep ==
  ASSUME ~Failures, RatingsOK, RatingsOK', RevealComes, [Next]_vars
  PROVE  RevealComes'
  <1>1. RatingsTypeOK /\ RatingsTypeOK' /\ RatingsGrow /\ \A k \in Calls : CallOK(k)
    BY RatingsOnlyGrow DEF RatingsOK
  <1>2. rating \in [Rides -> [Side -> Rating]] /\ call \in [Calls -> Call]
    BY <1>1, RatingsTypes
  <1>3. SUFFICES ASSUME NEW r \in Rides, \A side \in Side : Rated(r, side)'
                 PROVE  Comes(r)'
    BY DEF RevealComes, Comes
  <1>4. ASSUME \A side \in Side : rating[r][side].revealed
        PROVE  Comes(r)'
    BY <1>1, <1>4 DEF RatingsGrow, Comes
  <1>5. (\A side \in Side : Rated(r, side)) => Comes(r)
    BY DEF RevealComes, Comes
  <1>6. ASSUME UNCHANGED rating,
               \A k \in Calls : call[k].step \in {"findOther", "reveal"} => call'[k] = call[k]
        PROVE  Comes(r)'
    <2>1. Comes(r)
      BY <1>3, <1>5, <1>6 DEF Rated
    <2> QED
      BY <1>6, <2>1 DEF Comes
  <1>7. ASSUME NEW k \in Calls, NEW next, Continue(k, next), UNCHANGED rating,
               call[k].step \notin {"findOther", "reveal"}
        PROVE  Comes(r)'
    <2>1. \A j \in Calls : j # k => call'[j] = call[j]
      BY <1>2, <1>7 DEF Continue
    <2> QED
      BY <1>6, <1>7, <2>1
  <1>8. ASSUME NEW k \in Calls, Return(k) \/ (\E step : Goto(k, step)), UNCHANGED rating,
               call[k].step \notin {"findOther", "reveal"}
        PROVE  Comes(r)'
    BY <1>7, <1>8 DEF Return, Goto
  <1>9. ASSUME Settling \/ UNCHANGED vars
        PROVE  Comes(r)'
    BY <1>6, <1>9 DEF Settling, vars, ratingVars
  <1>10. \A s \in Servers : ~CrashServer(s)
    BY DEF CrashServer, Crash
  <1>11. ASSUME NEW k \in Calls, NEW q \in Rides, NEW side \in Side, NEW stars \in Scores,
                SubmitRating(k, q, side, stars)
         PROVE  Comes(r)'
    <2>1. call[k].step = "idle" /\ UNCHANGED rating
      BY <1>11 DEF SubmitRating, Idle
    <2> QED
      BY <1>7, <1>11, <2>1 DEF SubmitRating
  <1>12. ASSUME NEW k \in Calls, FindExisting(k) \/ NotifyRatee(k)
         PROVE  Comes(r)'
    <2>1. call[k].step \in {"findExisting", "notify"} /\ UNCHANGED rating
      BY <1>12 DEF FindExisting, NotifyRatee, At
    <2>2. Return(k) \/ Goto(k, "create")
      BY <1>12 DEF FindExisting, NotifyRatee
    <2> QED
      BY <1>8, <2>1, <2>2
  <1>13. ASSUME NEW k \in Calls, Aggregate(k) \/ UpdateUserStats(k) \/ RecalculateTrust(k)
         PROVE  Comes(r)'
    <2>1. call[k].step \in {"aggregate", "updateStats", "addTrust"} /\ UNCHANGED rating
      BY <1>13 DEF Aggregate, UpdateUserStats, RecalculateTrust, At
    <2>2. Return(k) \/ (\E step : Goto(k, step)) \/ (\E next : Continue(k, next))
      BY <1>13 DEF Aggregate, UpdateUserStats, RecalculateTrust
    <2> QED
      BY <1>7, <1>8, <2>1, <2>2
  <1>14. \A k \in Calls : ~Abort(k)
    BY DEF Abort
  <1>15. ASSUME NEW k \in Calls, CreateRating(k)
         PROVE  Comes(r)'
    <2> DEFINE c == call[k]
    <2>1. c.step = "create" /\ c.ride \in Rides /\ c.by \in Side
      BY <1>15, UserOf DEF CreateRating, At
    <2>2. CASE Rated(c.ride, c.by)
      BY <1>8, <1>15, <2>1, <2>2 DEF CreateRating
    <2>3. CASE ~Rated(c.ride, c.by)
      <3>1. /\ rating' = [rating EXCEPT ![c.ride][c.by] = [stars |-> c.stars, revealed |-> FALSE]]
            /\ Goto(k, "findOther")
        BY <1>15, <2>3 DEF CreateRating
      <3>2. /\ call'[k].step = "findOther" /\ call'[k].ride = c.ride
            /\ \A j \in Calls : j # k => call'[j] = call[j]
        BY <1>1, <3>1, WentOn
      <3>3. CASE c.ride = r
        BY <3>2, <3>3 DEF Comes
      <3>4. CASE c.ride # r
        <4>1. rating'[r] = rating[r]
          BY <1>2, <3>1, <3>4
        <4>2. Comes(r)
          BY <1>3, <1>5, <4>1 DEF Rated
        <4>3. \A j \in Calls : call[j].step \in {"findOther", "reveal"} => call'[j] = call[j]
          BY <2>1, <3>2
        <4> QED
          BY <4>1, <4>2, <4>3 DEF Comes
      <3> QED
        BY <3>3, <3>4
    <2> QED
      BY <2>2, <2>3
  <1>16. ASSUME NEW k \in Calls, FindOther(k)
         PROVE  Comes(r)'
    <2> DEFINE c == call[k]
    <2>1. /\ c.step = "findOther" /\ UNCHANGED rating
          /\ Goto(k, IF Rated(c.ride, c.whose) THEN "reveal" ELSE "notify")
      BY <1>16 DEF FindOther, At
    <2>2. c.whose \in Side
      BY <1>1, RatingsTypes
    <2>3. CASE c.ride = r
      <3>1. Goto(k, "reveal")
        BY <1>3, <2>1, <2>2, <2>3 DEF Rated
      <3>2. call'[k].step = "reveal" /\ call'[k].ride = c.ride
        BY <1>1, <3>1, WentOn
      <3> QED
        BY <2>3, <3>2 DEF Comes
    <2>4. CASE c.ride # r
      <3>1. Comes(r)
        BY <1>3, <1>5, <2>1 DEF Rated
      <3>2. \A j \in Calls : j # k => call'[j] = call[j]
        BY <1>2, <2>1 DEF Goto, Continue
      <3> QED
        BY <2>1, <2>4, <3>1, <3>2 DEF Comes
    <2> QED
      BY <2>3, <2>4
  <1>17. ASSUME NEW k \in Calls, RevealRideRatings(k)
         PROVE  Comes(r)'
    <2> DEFINE q == call[k].ride
    <2>1. /\ call[k].step = "reveal" /\ q \in Rides
          /\ rating' = [rating EXCEPT ![q] =
               [side \in Side |-> [rating[q][side] EXCEPT !.revealed = Rated(q, side)]]]
      BY <1>17, UserOf DEF RevealRideRatings, At
    <2>2. \A j \in Calls : j # k => call'[j] = call[j]
      BY <1>2, <1>17 DEF RevealRideRatings, Goto, Continue
    <2>3. CASE q = r
      <3>1. \A side \in Side :
              /\ [rating[q][side] EXCEPT !.revealed = Rated(q, side)].revealed = Rated(q, side)
              /\ [rating[q][side] EXCEPT !.revealed = Rated(q, side)].stars = rating[q][side].stars
        <4>1. \A side \in Side : rating[q][side] \in Rating
          BY <1>2, <2>1
        <4> QED
          BY <4>1 DEF Rating
      <3>2. \A side \in Side : /\ rating'[q][side].revealed = Rated(q, side)
                               /\ rating'[q][side].stars = rating[q][side].stars
        BY <1>2, <2>1, <3>1
      <3> QED
        BY <1>3, <2>3, <3>2 DEF Comes, Rated
    <2>4. CASE q # r
      <3>1. rating'[r] = rating[r]
        BY <1>2, <2>1, <2>4
      <3>2. Comes(r)
        BY <1>3, <1>5, <3>1 DEF Rated
      <3> QED
        BY <2>2, <2>4, <3>1, <3>2 DEF Comes
    <2> QED
      BY <2>3, <2>4
  <1> QED
    BY <1>9, <1>10, <1>11, <1>12, <1>13, <1>14, <1>15, <1>16, <1>17 DEF Next, Rate, Resume

\* When nothing fails, no reveal is missed: once both have rated a ride and no
\* handler is at it, both ratings are shown, also when the two were submitted
\* at once.
THEOREM NoRevealIsMissed ==
  ASSUME ~Failures
  PROVE  Spec => []BothRatedAreRevealed
  <1>1. Init => RevealComes
    BY DEF Init, RatingsInit, RevealComes, Rated, NoRating, Side
  <1>2. RatingsOK /\ RevealComes /\ [Next]_vars => RatingsOK' /\ RevealComes'
    BY RatingsOKStep, RevealComesStep
  <1>3. RevealComes => BothRatedAreRevealed
    BY DEF RevealComes, Comes, BothRatedAreRevealed, BeingRated
  <1> QED
    BY <1>1, <1>2, <1>3, RatingsInit1, PTL DEF Spec

-----------------------------------------------------------------------------
(* Trust scores, with a single server and when nothing fails.              *)

LEMMA ScoreIgnoresTrust ==
  ASSUME NEW st \in UserStats, NEW n
  PROVE  Score(Scored(st, n)) = Score(st) /\ Scored(st, n).trust = n
  <1>1. LET new == Scored(st, n)
        IN  /\ new.rides = st.rides /\ new.cancelled = st.cancelled
            /\ new.ratings = st.ratings /\ new.stars = st.stars /\ new.trust = n
    BY DEF UserStats, Scored
  <1> QED
    BY <1>1 DEF Score, RideBonus, RatingBonus, CancellationPenalty

LEMMA TrustInit ==
  Init => TrustOK
  <1> SUFFICES ASSUME Init
               PROVE  TrustOK
    OBVIOUS
  <1>1. \A u \in Users : stats[u] = StatsBefore(u)
    BY DEF Init, SettlementInit
  <1>2. \A u \in Known : stats[u].known
    BY <1>1, StatsBeforeType, SettlementAssumption
  <1>3. \A s \in Servers : scorer[s].user \notin Users
    BY NoUserAssumption DEF Init, SettlementInit, NoScorer
  <1>4. ASSUME NEW u \in Users, stats[u].known
        PROVE  stats[u].trust = Score(stats[u])
    <2> DEFINE c == Counted(NoStats, 0)
               st == [c EXCEPT !.trust = 51]
    <2>1. u \in Known
      BY <1>1, <1>4, StatsBeforeType
    <2>2. NoStats \in UserStats /\ NoStats.rides = 0
      BY DEF NoStats, UserStats
    <2>3. c \in UserStats /\ c.rides = 1
      <3>1. 0 \in Nat
        OBVIOUS
      <3>2. c \in UserStats
        BY <2>2, <3>1, StatsTypes
      <3>3. c.rides = NoStats.rides + 1
        BY <2>2, <3>1, TallyFields
      <3> QED
        BY <2>2, <3>2, <3>3
    <2>4. c.cancelled = 0 /\ c.ratings = 0
      BY DEF Counted, NoStats
    <2> HIDE DEF c
    <2>5. /\ st.rides = 1 /\ st.cancelled = 0 /\ st.ratings = 0 /\ st.trust = 51
          /\ stats[u] = st
      BY <1>1, <2>1, <2>3, <2>4 DEF StatsBefore, UserStats, c
    <2> HIDE DEF st
    <2>6. RideBonus(st) = 1 /\ RatingBonus(st) = 0 /\ CancellationPenalty(st) = 0
      BY <2>5 DEF RideBonus, RatingBonus, CancellationPenalty, AtMost
    <2>7. Score(st) = 51
      BY <2>6 DEF Score, AtMost, AtLeast
    <2> QED
      BY <2>5, <2>7
  <1> QED
    BY <1>2, <1>3, <1>4 DEF TrustOK, Tracked

LEMMA OwedStays ==
  ASSUME NEW u,
         \A k \in Stalls : trustJob[<<u, k>>] > 0 => trustJob'[<<u, k>>] > 0,
         \A s \in Servers : SettlerOwes(s, u) => SettlerOwes(s, u)',
         \A k \in Calls : CallOwes(k, u) => CallOwes(k, u)',
         Owed(u)
  PROVE  Owed(u)'
  BY DEF Owed

LEMMA TrackedStays ==
  ASSUME NEW u, Tracked(u), Owed(u) => Owed(u)', stats'[u] = stats[u], UNCHANGED scorer
  PROVE  Tracked(u)'
  BY DEF Tracked

LEMMA CallsOweTheSame ==
  ASSUME UNCHANGED call, NEW u, NEW k \in Calls
  PROVE  CallOwes(k, u) => CallOwes(k, u)'
  BY DEF CallOwes

LEMMA SettlersOweTheSame ==
  ASSUME NEW u, NEW s \in Servers, settler'[s] = settler[s]
  PROVE  SettlerOwes(s, u) => SettlerOwes(s, u)'
  BY DEF SettlerOwes

\* A step of the settlement.
LEMMA TrackedWhileSettling ==
  ASSUME ~Failures, NEW only, Servers = {only},
         WorkersOK, Settling, NEW u \in Users, Tracked(u)
  PROVE  Tracked(u)'
  <1> USE SettlementAssumption
  <1>1. /\ stats \in [Users -> UserStats] /\ scorer \in [Servers -> Scorer]
        /\ settler \in [Servers -> Settler] /\ trustJob \in [Users \X Stalls -> Nat]
        /\ \A s \in Servers : SettlerOK(s)
        /\ UNCHANGED call /\ 0 \in Stalls
    BY DEF WorkersOK, SettlementTypeOK, Settling, ratingVars, Stalls
  <1>2. \A k \in Calls : CallOwes(k, u) => CallOwes(k, u)'
    BY <1>1, CallsOweTheSame
  <1>3. ASSUME UNCHANGED <<stats, scorer, trustJob>>,
               \A s \in Servers : SettlerOwes(s, u) => SettlerOwes(s, u)'
        PROVE  Tracked(u)'
    <2>1. Owed(u) => Owed(u)'
      BY <1>2, <1>3, OwedStays
    <2> QED
      BY <1>3, <2>1, TrackedStays
  <1>4. ASSUME NEW r \in Rides, RideEnds(r)
        PROVE  Tracked(u)'
    <2>1. UNCHANGED <<stats, scorer, trustJob, settler>>
      BY <1>4 DEF RideEnds, RideCompletes, ConfirmRide, AddCompletionJob, OverwriteStatus
    <2> QED
      BY <1>3, <2>1, SettlersOweTheSame
  <1>5. ASSUME NEW s \in Servers, NEW r \in Rides, NEW n \in JobNo, TakeCompletionJob(s, r, n)
        PROVE  Tracked(u)'
    <2>1. UNCHANGED <<stats, scorer, trustJob>> /\ settler[s] = NoSettler
          /\ \A t \in Servers : t # s => settler'[t] = settler[t]
      BY <1>1, <1>5 DEF TakeCompletionJob
    <2>2. ~SettlerOwes(s, u)
      BY <2>1 DEF SettlerOwes, NoSettler
    <2> QED
      BY <1>3, <2>1, <2>2, SettlersOweTheSame
  <1>6. ASSUME NEW s \in Servers, FindPayment(s) \/ CreatePayment(s)
        PROVE  Tracked(u)'
    <2>1. /\ UNCHANGED <<stats, scorer, trustJob>>
          /\ settler[s].step \in {"findPayment", "createPayment"}
      BY <1>6 DEF FindPayment, CreatePayment, SettlerAt
    <2>2. PICK step \in {"createPayment", "count"} : settler' = [settler EXCEPT ![s].step = step]
      BY <1>1, <1>6 DEF FindPayment, CreatePayment, SettlerNext, AfterFinding
    <2>3. settler[s] \in Settler
      BY <1>1
    <2>4. settler'[s].step = step /\ settler'[s].ride = settler[s].ride
          /\ \A t \in Servers : t # s => settler'[t] = settler[t]
      BY <1>1, <2>2, <2>3 DEF Settler
    <2>5. SettlerOwes(s, u) => SettlerOwes(s, u)'
      BY <2>1, <2>2, <2>4 DEF SettlerOwes
    <2> QED
      BY <1>3, <2>1, <2>4, <2>5, SettlersOweTheSame
  <1>7. ASSUME NEW s \in Servers, NEW side \in Side, CountRide(s, side)
        PROVE  Tracked(u)'
    <2> DEFINE w == settler[s]
    <2>1. /\ w.step = "count" /\ w.ride \in Rides /\ w \in Settler
          /\ UNCHANGED <<scorer, trustJob>>
      BY <1>1, <1>7 DEF CountRide, SettlerOK
    <2>2. /\ settler'[s].ride = w.ride
          /\ \/ settler'[s].step = "count"
             \/ settler'[s].step = "addTrust" /\ settler'[s].left = Side
          /\ \A t \in Servers : t # s => settler'[t] = settler[t]
      BY <1>1, <1>7, <2>1 DEF CountRide, Settler
    <2>3. u \in Parties(w.ride) => SettlerOwes(s, u)'
      BY <2>2 DEF SettlerOwes, Parties
    <2>4. SettlerOwes(s, u) => u \in Parties(w.ride)
      BY <2>1 DEF SettlerOwes
    <2>5. \A t \in Servers : SettlerOwes(t, u) => SettlerOwes(t, u)'
      BY <2>2, <2>3, <2>4, SettlersOweTheSame
    <2>6. CASE u = Party[w.ride][side]
      <3>1. Owed(u)'
        BY <2>3, <2>6 DEF Owed, Parties
      <3> QED
        BY <3>1 DEF Tracked
    <2>7. CASE u # Party[w.ride][side]
      <3>1. stats'[u] = stats[u]
        BY <1>1, <1>7, <2>7 DEF CountRide
      <3>2. Owed(u) => Owed(u)'
        BY <1>2, <2>1, <2>5, OwedStays
      <3> QED
        BY <2>1, <3>1, <3>2, TrackedStays
    <2> QED
      BY <2>6, <2>7
  <1>8. ASSUME NEW s \in Servers, NEW side \in Side, AddTrustJob(s, side)
        PROVE  Tracked(u)'
    <2> DEFINE w == settler[s]
               v == Party[w.ride][side]
    <2>1. /\ w.step = "addTrust" /\ w.ride \in Rides /\ w \in Settler /\ v \in Users
          /\ UNCHANGED <<stats, scorer>> /\ trustJob' = [trustJob EXCEPT ![<<v, 0>>] = @ + 1]
      BY <1>1, <1>8 DEF AddTrustJob, SettlerOK
    <2>2. \A k \in Stalls : trustJob[<<u, k>>] > 0 => trustJob'[<<u, k>>] > 0
      <3> SUFFICES ASSUME NEW k \in Stalls, trustJob[<<u, k>>] > 0
                   PROVE  trustJob'[<<u, k>>] > 0
        OBVIOUS
      <3>1. <<u, k>> \in Users \X Stalls /\ trustJob[<<u, k>>] \in Nat
        BY <1>1
      <3>2. trustJob'[<<u, k>>] = trustJob[<<u, k>>] \/ trustJob'[<<u, k>>] = trustJob[<<u, k>>] + 1
        BY <1>1, <2>1, <3>1
      <3> QED
        BY <3>1, <3>2
    <2>3. CASE u = v
      <3>1. trustJob'[<<u, 0>>] > 0
        <4>1. <<u, 0>> \in Users \X Stalls /\ trustJob[<<u, 0>>] \in Nat
          BY <1>1
        <4>2. trustJob'[<<u, 0>>] = trustJob[<<u, 0>>] + 1
          BY <1>1, <2>1, <2>3, <4>1
        <4> QED
          BY <4>1, <4>2
      <3> QED
        BY <1>1, <3>1 DEF Owed, Tracked
    <2>4. CASE u # v
      <3>1. \A t \in Servers : t # s => settler'[t] = settler[t]
        BY <1>1, <1>8 DEF AddTrustJob
      <3>2. SettlerOwes(s, u) => SettlerOwes(s, u)'
        <4> SUFFICES ASSUME SettlerOwes(s, u)
                     PROVE  SettlerOwes(s, u)'
          OBVIOUS
        <4>1. PICK one \in w.left : Party[w.ride][one] = u
          BY <2>1 DEF SettlerOwes
        <4>2. one # side /\ w.left # {side}
          BY <2>4, <4>1
        <4>3. settler' = [settler EXCEPT ![s] = [w EXCEPT !.left = w.left \ {side}]]
          BY <1>8, <4>2 DEF AddTrustJob
        <4>4. /\ settler'[s].step = "addTrust" /\ settler'[s].ride = w.ride
              /\ settler'[s].left = w.left \ {side}
          BY <1>1, <2>1, <4>3 DEF Settler
        <4> QED
          BY <4>1, <4>2, <4>4 DEF SettlerOwes
      <3>3. Owed(u) => Owed(u)'
        BY <1>2, <2>2, <3>1, <3>2, OwedStays, SettlersOweTheSame
      <3> QED
        BY <2>1, <3>3, TrackedStays
    <2> QED
      BY <2>3, <2>4
  <1>9. ASSUME NEW s \in Servers, NEW v \in Users, NEW k \in Stalls, TakeTrustJob(s, v, k)
        PROVE  Tracked(u)'
    <2>1. /\ UNCHANGED <<stats, settler>> /\ scorer[s] = NoScorer /\ Servers = {s}
          /\ trustJob' = [trustJob EXCEPT ![<<v, k>>] = @ - 1]
      BY <1>9 DEF TakeTrustJob
    <2>2. scorer'[s] = IF stats[v].known
                       THEN [user |-> v, stalls |-> k, score |-> Score(stats[v])] ELSE NoScorer
      BY <1>1, <1>9 DEF TakeTrustJob
    <2>3. CASE u = v
      BY <2>1, <2>2, <2>3 DEF Tracked
    <2>4. CASE u # v
      <3>1. scorer[s].user # u /\ scorer'[s].user # u
        BY <2>1, <2>2, <2>4, NoUserAssumption DEF NoScorer
      <3>2. \A j \in Stalls : trustJob'[<<u, j>>] = trustJob[<<u, j>>]
        <4>1. \A j \in Stalls : <<u, j>> \in Users \X Stalls /\ <<u, j>> # <<v, k>>
          BY <2>4
        <4> QED
          BY <1>1, <2>1, <4>1
      <3>3. Owed(u) => Owed(u)'
        BY <1>2, <2>1, <3>2, OwedStays, SettlersOweTheSame
      <3> QED
        BY <2>1, <3>1, <3>3 DEF Tracked
    <2> QED
      BY <2>3, <2>4
  <1>10. ASSUME NEW s \in Servers, WriteScore(s)
         PROVE  Tracked(u)'
    <2> DEFINE v == scorer[s].user
    <2>1. /\ UNCHANGED <<settler, trustJob>> /\ Servers = {s} /\ scorer'[s] = NoScorer
          /\ stats' = [stats EXCEPT ![v] = Scored(stats[v], scorer[s].score)]
      BY <1>1, <1>10 DEF WriteScore
    <2>2. Owed(u) => Owed(u)'
      BY <1>2, <2>1, OwedStays, SettlersOweTheSame
    <2>3. scorer'[s].user # u
      BY <2>1, NoUserAssumption DEF NoScorer
    <2>4. stats[u] \in UserStats
      BY <1>1
    <2>5. CASE u = v
      <3>1. stats'[u] = Scored(stats[u], scorer[s].score)
        BY <1>1, <2>1, <2>5
      <3>2. Score(stats'[u]) = Score(stats[u]) /\ stats'[u].trust = scorer[s].score
        BY <2>4, <3>1, ScoreIgnoresTrust
      <3>3. stats'[u].known = stats[u].known
        BY <2>4, <3>1, StatsTypes
      <3> QED
        BY <2>1, <2>2, <2>3, <2>5, <3>2, <3>3 DEF Tracked
    <2>6. CASE u # v
      <3>1. stats'[u] = stats[u]
        BY <1>1, <2>1, <2>6
      <3> QED
        BY <2>1, <2>2, <2>3, <2>6, <3>1 DEF Tracked
    <2> QED
      BY <2>5, <2>6
  <1>11. \A s \in Servers : ~CompletionJobFails(s) /\ ~TrustJobFails(s)
    BY DEF CompletionJobFails, TrustJobFails
  <1> QED
    BY <1>4, <1>5, <1>6, <1>7, <1>8, <1>9, <1>10, <1>11 DEF Settling, Settle, ScoreUser

LEMMA TrackedWhileRating ==
  ASSUME ~Failures, \A r \in Rides, side \in Side : Party[r][side] \in Known,
         RatingsOK, TrustOK, Rate, NEW u \in Users
  PROVE  Tracked(u)'
  <1> USE SettlementAssumption
  <1>1. /\ stats \in [Users -> UserStats] /\ trustJob \in [Users \X Stalls -> Nat]
        /\ RatingsTypeOK /\ \A k \in Calls : CallOK(k)
        /\ call \in [Calls -> Call] /\ 0 \in Stalls /\ Tracked(u)
    BY DEF RatingsOK, RatingsTypeOK, SettlementTypeOK, Stalls, TrustOK
  <1>2. UNCHANGED <<settler, scorer>>
    BY DEF Rate, Resume, SubmitRating, FindExisting, CreateRating, FindOther, RevealRideRatings,
           Aggregate, UpdateUserStats, RecalculateTrust, NotifyRatee, Abort, settlementVars
  <1>3. \A s \in Servers : SettlerOwes(s, u) => SettlerOwes(s, u)'
    BY <1>2, SettlersOweTheSame
  <1>4. ASSUME NEW k \in Calls, \A j \in Calls : j # k => call'[j] = call[j],
               CallOwes(k, u) => CallOwes(k, u)', UNCHANGED trustJob, stats'[u] = stats[u]
        PROVE  Tracked(u)'
    <2>1. \A j \in Calls : CallOwes(j, u) => CallOwes(j, u)'
      BY <1>4 DEF CallOwes
    <2>2. Owed(u) => Owed(u)'
      BY <1>3, <1>4, <2>1, OwedStays
    <2> QED
      BY <1>1, <1>2, <1>4, <2>2, TrackedStays
  <1>5. ASSUME NEW k \in Calls, NEW next, Continue(k, next), UNCHANGED settlementVars,
               call[k].step \notin {"aggregate", "updateStats", "addTrust"}
        PROVE  Tracked(u)'
    <2>1. ~CallOwes(k, u)
      BY <1>5 DEF CallOwes
    <2>2. \A j \in Calls : j # k => call'[j] = call[j]
      BY <1>1, <1>5 DEF Continue
    <2>3. UNCHANGED <<stats, trustJob>>
      BY <1>5 DEF settlementVars
    <2> QED
      BY <1>4, <2>1, <2>2, <2>3
  <1>6. ASSUME NEW k \in Calls,
               \/ \E r \in Rides, side \in Side, stars \in Scores : SubmitRating(k, r, side, stars)
               \/ FindExisting(k) \/ CreateRating(k) \/ FindOther(k) \/ RevealRideRatings(k)
               \/ NotifyRatee(k)
        PROVE  Tracked(u)'
    <2>1. /\ call[k].step \in {"idle", "findExisting", "create", "findOther", "reveal", "notify"}
          /\ UNCHANGED settlementVars
      <3>1. CASE \E r \in Rides, side \in Side, stars \in Scores : SubmitRating(k, r, side, stars)
        BY <3>1 DEF SubmitRating, Idle
      <3>2. CASE FindExisting(k) \/ FindOther(k) \/ NotifyRatee(k)
        BY <3>2 DEF FindExisting, FindOther, NotifyRatee, At
      <3>3. CASE CreateRating(k) \/ RevealRideRatings(k)
        BY <3>3 DEF CreateRating, RevealRideRatings, At
      <3> QED
        BY <1>6, <3>1, <3>2, <3>3
    <2>2. \E next : Continue(k, next)
      BY <1>6 DEF SubmitRating, FindExisting, CreateRating, FindOther, RevealRideRatings,
                  NotifyRatee, Return, Goto
    <2> QED
      BY <1>5, <2>1, <2>2
  <1>7. ASSUME NEW k \in Calls, Aggregate(k)
        PROVE  Tracked(u)'
    <2> DEFINE c == call[k]
    <2>1. c.step = "aggregate" /\ UNCHANGED <<stats, trustJob>> /\ c \in Call
      BY <1>1, <1>7 DEF Aggregate, At, settlementVars
    <2>2. PICK n, m : Continue(k, [c EXCEPT !.step = "updateStats", !.count = n, !.sum = m])
      BY <1>7 DEF Aggregate
    <2>3. /\ call'[k].step = "updateStats" /\ call'[k].ride = c.ride
          /\ \A j \in Calls : j # k => call'[j] = call[j]
      BY <1>1, <2>1, <2>2 DEF Continue, Call
    <2>4. CallOwes(k, u) => CallOwes(k, u)'
      BY <2>1, <2>3 DEF CallOwes
    <2> QED
      BY <1>4, <2>1, <2>3, <2>4
  <1>8. ASSUME NEW k \in Calls, UpdateUserStats(k)
        PROVE  Tracked(u)'
    <2> DEFINE c == call[k]
               v == User(k)
    <2>1. /\ c.step = "updateStats" /\ UNCHANGED trustJob /\ c.ride \in Rides /\ c.by \in Side
          /\ c.whose \in Side
      BY <1>8, UserOf DEF UpdateUserStats, At
    <2>2. v \in Known /\ v \in Users
      BY <2>1 DEF User
    <2>3. stats[v].known
      BY <2>2 DEF TrustOK
    <2>4. /\ stats' = [stats EXCEPT ![v] = Averaged(@, c.count, c.sum)]
          /\ IF c.whose # c.by
             THEN Continue(k, [c EXCEPT !.step = "aggregate", !.whose = c.by])
             ELSE Continue(k, [c EXCEPT !.step = "addTrust", !.whose = Other(c.by)])
      BY <1>8, <2>3 DEF UpdateUserStats
    <2>5. PICK w \in Side, step \in {"aggregate", "addTrust"} :
            /\ Continue(k, [c EXCEPT !.step = step, !.whose = w])
            /\ step = "addTrust" => w # c.by
      BY <2>1, <2>4, Sides
    <2>6. /\ call'[k].step = step /\ call'[k].whose = w
          /\ call'[k].ride = c.ride /\ call'[k].by = c.by
          /\ \A j \in Calls : j # k => call'[j] = call[j]
      BY <1>1, <2>5, WentFor
    <2>7. u \in Parties(c.ride) => CallOwes(k, u)'
      BY <2>5, <2>6 DEF CallOwes, Parties
    <2>8. CallOwes(k, u) => u \in Parties(c.ride)
      BY <2>1 DEF CallOwes
    <2>9. CASE u = v
      <3>1. u \in Parties(c.ride)
        BY <2>1, <2>9 DEF Parties, User
      <3> QED
        BY <2>7, <3>1 DEF Owed, Tracked
    <2>10. CASE u # v
      <3>1. stats'[u] = stats[u]
        BY <1>1, <2>4, <2>10
      <3> QED
        BY <1>4, <2>1, <2>6, <2>7, <2>8, <3>1
    <2> QED
      BY <2>9, <2>10
  <1>9. ASSUME NEW k \in Calls, RecalculateTrust(k)
        PROVE  Tracked(u)'
    <2> DEFINE c == call[k]
               v == User(k)
    <2>1. /\ c.step = "addTrust" /\ UNCHANGED stats /\ c.ride \in Rides /\ c.by \in Side
          /\ c.whose \in Side /\ v \in Users /\ c \in Call
          /\ trustJob' = [trustJob EXCEPT ![<<v, 0>>] = @ + 1]
      BY <1>1, <1>9, UserOf DEF RecalculateTrust, At
    <2>2. \A x \in Stalls : trustJob[<<u, x>>] > 0 => trustJob'[<<u, x>>] > 0
      <3> SUFFICES ASSUME NEW x \in Stalls, trustJob[<<u, x>>] > 0
                   PROVE  trustJob'[<<u, x>>] > 0
        OBVIOUS
      <3>1. <<u, x>> \in Users \X Stalls /\ trustJob[<<u, x>>] \in Nat
        BY <1>1
      <3>2. trustJob'[<<u, x>>] = trustJob[<<u, x>>] \/ trustJob'[<<u, x>>] = trustJob[<<u, x>>] + 1
        BY <1>1, <2>1, <3>1
      <3> QED
        BY <3>1, <3>2
    <2>3. CASE u = v
      <3>1. <<u, 0>> \in Users \X Stalls /\ trustJob[<<u, 0>>] \in Nat
        BY <1>1
      <3>2. trustJob'[<<u, 0>>] = trustJob[<<u, 0>>] + 1
        BY <1>1, <2>1, <2>3, <3>1
      <3>3. trustJob'[<<u, 0>>] > 0
        BY <3>1, <3>2
      <3> QED
        BY <1>1, <3>3 DEF Owed, Tracked
    <2>4. CASE u # v
      <3>1. \A j \in Calls : j # k => call'[j] = call[j]
        BY <1>1, <1>9 DEF RecalculateTrust, Goto, Continue
      <3>2. CallOwes(k, u) => CallOwes(k, u)'
        <4> SUFFICES ASSUME CallOwes(k, u)
                     PROVE  CallOwes(k, u)'
          OBVIOUS
        <4>1. c.whose # c.by
          BY <2>1, <2>4 DEF CallOwes, User
        <4>2. u = Party[c.ride][c.by]
          BY <2>1, <2>4, <4>1, Sides DEF CallOwes, User, Parties
        <4>3. Continue(k, [c EXCEPT !.whose = c.by])
          BY <1>9, <4>1 DEF RecalculateTrust
        <4>4. call'[k].step = "addTrust" /\ call'[k].ride = c.ride /\ call'[k].by = c.by
          BY <1>1, <2>1, <4>3 DEF Continue, Call
        <4> QED
          BY <4>2, <4>4 DEF CallOwes
      <3>3. \A j \in Calls : CallOwes(j, u) => CallOwes(j, u)'
        BY <3>1, <3>2 DEF CallOwes
      <3>4. Owed(u) => Owed(u)'
        BY <1>3, <2>2, <3>3, OwedStays
      <3> QED
        BY <1>1, <1>2, <2>1, <3>4, TrackedStays
    <2> QED
      BY <2>3, <2>4
  <1>10. \A k \in Calls : ~Abort(k)
    BY DEF Abort
  <1> QED
    BY <1>6, <1>7, <1>8, <1>9, <1>10 DEF Rate, Resume

LEMMA TrustStep ==
  ASSUME ~Failures, NEW only, Servers = {only},
         \A r \in Rides, side \in Side : Party[r][side] \in Known,
         RatingsOK, TrustOK, [Next]_vars
  PROVE  TrustOK'
  <1>1. WorkersOK /\ RatingsTypeOK /\ stats \in [Users -> UserStats]
    BY DEF RatingsOK, WorkersOK, SettlementTypeOK
  <1>2. CASE Settling
    <2>1. \A u \in Known : stats'[u].known
      BY <1>1, <1>2, SettlingIsStep, StatsFieldsKept, SettlementAssumption DEF TrustOK
    <2>2. \A u \in Users : Tracked(u)'
      BY <1>1, <1>2, TrackedWhileSettling DEF TrustOK
    <2> QED
      BY <2>1, <2>2 DEF TrustOK
  <1>3. CASE Rate
    <2>1. \A u \in Known : stats'[u].known
      <3>1. \/ UNCHANGED stats
            \/ \E k \in Calls : stats' = [stats EXCEPT ![User(k)] =
                                            Averaged(stats[User(k)], call[k].count, call[k].sum)]
        BY <1>3 DEF Rate, Resume, SubmitRating, FindExisting, CreateRating, FindOther,
                    RevealRideRatings, Aggregate, UpdateUserStats, RecalculateTrust, NotifyRatee,
                    Abort, settlementVars
      <3>2. \A u \in Users : stats'[u].known = stats[u].known
        <4> SUFFICES ASSUME NEW u \in Users, stats'[u] # stats[u]
                     PROVE  stats'[u].known = stats[u].known
          OBVIOUS
        <4>1. \E n, m : stats'[u] = Averaged(stats[u], n, m)
          BY <1>1, <3>1
        <4> QED
          BY <1>1, <4>1, StatsTypes
      <3> QED
        BY <3>2, SettlementAssumption DEF TrustOK
    <2>2. \A u \in Users : Tracked(u)'
      BY <1>3, TrackedWhileRating
    <2> QED
      BY <2>1, <2>2 DEF TrustOK
  <1>4. CASE UNCHANGED vars
    <2>1. /\ UNCHANGED <<stats, trustJob, settler, scorer, call>>
      BY <1>4 DEF vars, settlementVars, ratingVars
    <2>2. ASSUME NEW u \in Users
          PROVE  Tracked(u)'
      <3>1. Owed(u) => Owed(u)'
        BY <2>1, OwedStays, SettlersOweTheSame, CallsOweTheSame
      <3> QED
        BY <2>1, <3>1, TrackedStays DEF TrustOK
    <2> QED
      BY <2>1, <2>2 DEF TrustOK
  <1>5. \A s \in Servers : ~CrashServer(s)
    BY DEF CrashServer, Crash
  <1> QED
    BY <1>2, <1>3, <1>4, <1>5 DEF Next

\* With a single server, and when nothing fails, no trust score is left behind:
\* whatever order rides are settled and rated in, once no job and no handler is
\* left that would recalculate it, a score is that of the statistics as they are.
\* The parties must have statistics: without them UserStatsRepository.update throws
\* and the handler is cut off half way.
THEOREM TrustScoresFollow ==
  ASSUME ~Failures, NEW only, Servers = {only},
         \A r \in Rides, side \in Side : Party[r][side] \in Known
  PROVE  Spec => []TrustFollowsStats
  <1>1. ASSUME RatingsOK, TrustOK
        PROVE  TrustFollowsStats
    <2> SUFFICES ASSUME NEW u \in Users, stats[u].known, ~TrustPending(u)
                 PROVE  stats[u].trust = Score(stats[u])
      BY DEF TrustFollowsStats
    <2>1. \A k \in Stalls : ~(trustJob[<<u, k>>] > 0)
      BY DEF TrustPending
    <2>2. \A s \in Servers : ~SettlerOwes(s, u)
      <3> SUFFICES ASSUME NEW s \in Servers, SettlerOwes(s, u)
                   PROVE  FALSE
        OBVIOUS
      <3>1. settler[s].step # "idle"
        BY DEF SettlerOwes
      <3>2. settler[s].ride \in Rides /\ settler[s].left \subseteq Side
        BY <1>1, <3>1, WorkerTypes DEF RatingsOK
      <3>3. u \in Parties(settler[s].ride)
        BY <3>2 DEF SettlerOwes, Parties
      <3> QED
        BY <3>2, <3>3 DEF TrustPending
    <2>3. \A k \in Calls : ~CallOwes(k, u)
      <3> SUFFICES ASSUME NEW k \in Calls, CallOwes(k, u)
                   PROVE  FALSE
        OBVIOUS
      <3>1. call[k].step # "idle"
        BY DEF CallOwes
      <3>2. call[k].ride \in Rides /\ call[k].by \in Side
        BY <1>1, <3>1, UserOf
      <3>3. u \in Parties(call[k].ride)
        BY <3>2 DEF CallOwes, Parties
      <3> QED
        BY <3>2, <3>3 DEF TrustPending, BeingRated
    <2>4. \A s \in Servers : scorer[s].user # u
      BY DEF TrustPending
    <2> QED
      BY <1>1, <2>1, <2>2, <2>3, <2>4 DEF TrustOK, Tracked, Owed
  <1>2. RatingsOK /\ TrustOK /\ [Next]_vars => RatingsOK' /\ TrustOK'
    BY RatingsOKStep, TrustStep
  <1> QED
    BY <1>1, <1>2, RatingsInit1, TrustInit, PTL DEF Spec

-----------------------------------------------------------------------------
(* The trust score.                                                        *)

\* A fraction between two whole numbers is not rounded out of their range.
LEMMA RoundBetween ==
  ASSUME NEW num \in Int, NEW den \in Nat \ {0}, NEW lo \in Int, NEW hi \in Int,
         den * lo <= num, num <= den * hi
  PROVE  Round(num, den) \in lo..hi
<1> DEFINE n == 2 * num + den
           d == 2 * den
           q == n \div d
<1>1. n \in Int /\ d \in Nat \ {0}
  OBVIOUS
<1>2. q \in Int /\ d * q <= n /\ n < d * q + d
  BY <1>1, Division
<1> HIDE DEF q
<1>3. den * (2 * q) <= 2 * num + den /\ 2 * num + den < den * (2 * q) + 2 * den
  <2>1. d * q = den * (2 * q)
    BY <1>2
  <2> QED BY <1>2, <2>1
<1>4. lo <= q
  <2>1. den * (2 * lo) <= 2 * num
    OBVIOUS
  <2>2. den * (2 * lo) < den * (2 * q) + den
    BY <1>2, <1>3, <2>1
  <2>3. den * (2 * lo) < den * (2 * q + 1)
    BY <1>2, <2>2
  <2>4. 2 * lo < 2 * q + 1
    BY <1>2, <2>3, Cancel
  <2> QED BY <1>2, <2>4
<1>5. q <= hi
  <2>1. 2 * num <= den * (2 * hi)
    OBVIOUS
  <2>2. den * (2 * q) <= den * (2 * hi) + den
    BY <1>2, <1>3, <2>1
  <2>3. den * (2 * q) < den * (2 * hi + 2)
    BY <1>2, <2>2
  <2>4. 2 * q < 2 * hi + 2
    BY <1>2, <2>3, Cancel
  <2> QED BY <1>2, <2>4
<1> QED BY <1>2, <1>4, <1>5 DEF Round, q

\* An average of one to five stars is worth at most twenty points either way.
LEMMA RatingBonusBounds ==
  ASSUME NEW st \in UserStats,
         st.ratings <= st.stars, st.stars <= 5 * st.ratings
  PROVE  RatingBonus(st) \in -20..20
<1> DEFINE num == 10 * (st.stars - 3 * st.ratings)
<1>1. st.ratings \in Nat /\ st.stars \in Nat
  BY DEF UserStats
<1>2. CASE st.ratings = 0
  BY <1>2 DEF RatingBonus
<1>3. CASE st.ratings # 0
  <2>1. num \in Int /\ st.ratings * (-20) <= num /\ num <= st.ratings * 20
    BY <1>1
  <2> HIDE DEF num
  <2>2. st.ratings \in Nat \ {0} /\ -20 \in Int /\ 20 \in Int
    BY <1>1, <1>3
  <2>3. Round(num, st.ratings) \in -20..20
    BY <2>1, <2>2, RoundBetween, Zenon
  <2> QED BY <1>3, <2>3 DEF RatingBonus, num
<1> QED BY <1>2, <1>3

\* Whatever a user's record, TrustScoreProcessor computes a whole number from
\* 10 to 90: the clamp to 0..100 never binds, and nobody ever reaches 100.
THEOREM ScoreStaysInBounds ==
  ASSUME NEW st \in UserStats,
         st.ratings <= st.stars, st.stars <= 5 * st.ratings
  PROVE  Score(st) \in 10..90
<1>1. st.rides \in Nat /\ st.cancelled \in Nat
  BY DEF UserStats
<1>2. RideBonus(st) \in 0..20
  BY <1>1 DEF RideBonus, AtMost
<1>3. CancellationPenalty(st) \in 0..20
  BY <1>1 DEF CancellationPenalty, AtMost
<1>4. RatingBonus(st) \in -20..20
  BY RatingBonusBounds
<1> QED BY <1>2, <1>3, <1>4 DEF Score, AtMost, AtLeast

\* One more settled ride never lowers the score.
THEOREM RidesNeverHurt ==
  ASSUME NEW st \in UserStats, NEW fare \in Nat,
         st.ratings <= st.stars, st.stars <= 5 * st.ratings
  PROVE  Score(Counted(st, fare)) >= Score(st)
<1> DEFINE next == Counted(st, fare)
<1>1. st.rides \in Nat /\ st.cancelled \in Nat
  BY DEF UserStats
<1>2. /\ next.rides = st.rides + 1
      /\ next.cancelled = st.cancelled
      /\ next.ratings = st.ratings
      /\ next.stars = st.stars
  BY DEF Counted, UserStats
<1> HIDE DEF next
<1>3. RatingBonus(next) = RatingBonus(st)
  BY <1>2 DEF RatingBonus
<1>4. CancellationPenalty(next) = CancellationPenalty(st)
  BY <1>2 DEF CancellationPenalty
<1>5. RideBonus(next) \in Nat /\ RideBonus(st) \in Nat /\ RideBonus(next) >= RideBonus(st)
  BY <1>1, <1>2 DEF RideBonus, AtMost
<1>6. CancellationPenalty(st) \in Nat
  BY <1>1 DEF CancellationPenalty, AtMost
<1>7. RatingBonus(st) \in Int
  BY RatingBonusBounds
<1>8. Score(next) >= Score(st)
  BY <1>3, <1>4, <1>5, <1>6, <1>7 DEF Score, AtMost, AtLeast
<1> QED BY <1>8 DEF next

-----------------------------------------------------------------------------
(* The score of a match.                                                   *)

LEMMA NearBounds ==
  ASSUME NEW d \in Nat, NEW w \in {25, 35}
  PROVE  Near(d, w) \in 0..(100 * w)
<1>1. CASE w = 25
    BY <1>1 DEF Near, AtLeast
<1>2. CASE w = 35
    BY <1>2 DEF Near, AtLeast
<1> QED
    BY <1>1, <1>2

LEMMA RatingBounds ==
  ASSUME NEW st, RatedRow(st)
  PROVE  RatingPart(st) \in 0..500
<1> DEFINE num == 100 * st.stars
<1>1. st.ratings \in Nat /\ st.stars \in Nat
    BY DEF RatedRow, UserStats
<1>2. CASE ~st.known
    BY <1>2 DEF RatingPart
<1>3. CASE st.known /\ st.ratings = 0
    BY <1>3 DEF RatingPart
<1>4. CASE st.known /\ st.ratings # 0
    <2> DEFINE lo == 0
               hi == 500
    <2>1. num \in Int /\ st.ratings * lo <= num /\ num <= st.ratings * hi
        BY <1>1 DEF RatedRow
    <2>2. st.ratings \in Nat \ {0} /\ lo \in Int /\ hi \in Int
        BY <1>1, <1>4
    <2> HIDE DEF num, lo, hi
    <2>3. Round(num, st.ratings) \in lo..hi
        BY <2>1, <2>2, RoundBetween, Zenon
    <2> QED
        BY <1>4, <2>3 DEF RatingPart, num, lo, hi
<1> QED
    BY <1>2, <1>3, <1>4

LEMMA TrustBounds ==
  ASSUME NEW st, RatedRow(st)
  PROVE  TrustPart(st) \in 0..1000
<1>1. st.trust \in 0..100
    BY DEF RatedRow
<1>2. CASE st.known
    BY <1>1, <1>2 DEF TrustPart
<1>3. CASE ~st.known
    BY <1>3 DEF TrustPart
<1> QED
    BY <1>2, <1>3

\* A score is never negative and never above 75 points.
THEOREM MatchScoreStaysInBounds ==
  ASSUME NEW st, RatedRow(st), NEW origin \in Nat, NEW dest \in Nat
  PROVE  MatchScore(origin, dest, st) \in 0..7500
<1>1. Near(origin, 35) \in 0..3500 /\ Near(dest, 25) \in 0..2500
  <2>1. Near(origin, 35) \in 0..(100 * 35) /\ Near(dest, 25) \in 0..(100 * 25)
      BY NearBounds
  <2> QED
      BY <2>1
<1>2. TrustPart(st) \in 0..1000
    BY TrustBounds
<1>3. RatingPart(st) \in 0..500
    BY RatingBounds
<1> DEFINE o == Near(origin, 35)
           d == Near(dest, 25)
           t == TrustPart(st)
           r == RatingPart(st)
<1>4. MatchScore(origin, dest, st) = o + d + t + r
    BY DEF MatchScore
<1>5. o \in 0..3500 /\ d \in 0..2500 /\ t \in 0..1000 /\ r \in 0..500
    BY <1>1, <1>2, <1>3
<1> HIDE DEF o, d, t, r
<1>6. o + d + t + r \in 0..7500
    BY <1>5
<1> QED
    BY <1>4, <1>6

\* Whoever is nearer to both ends is never ranked lower.
THEOREM NearerIsNeverWorse ==
  ASSUME NEW st, RatedRow(st),
         NEW origin \in Nat, NEW dest \in Nat, NEW o \in 0..origin, NEW d \in 0..dest
  PROVE  MatchScore(origin, dest, st) <= MatchScore(o, d, st)
<1>1. Near(origin, 35) <= Near(o, 35) /\ Near(dest, 25) <= Near(d, 25)
    BY DEF Near, AtLeast
<1>2. /\ Near(origin, 35) \in Int /\ Near(o, 35) \in Int
      /\ Near(dest, 25) \in Int /\ Near(d, 25) \in Int
    BY DEF Near, AtLeast
<1>3. TrustPart(st) \in Int /\ RatingPart(st) \in Int
    BY RatingBounds, TrustBounds
<1> QED
    BY <1>1, <1>2, <1>3 DEF MatchScore

\* Two defaults that do not agree: a rider with settled rides whom nobody has
\* rated yet is ranked below one of whom nothing is known, at any distance and
\* however many the rides, because the first has an average of 0 and the second
\* is taken to have one of 3.
THEOREM NewcomersRankHigher ==
  ASSUME NEW st \in UserStats, st.known, st.ratings = 0, st.trust = Score(st),
         NEW origin \in Nat, NEW dest \in Nat
  PROVE  MatchScore(origin, dest, st) < MatchScore(origin, dest, NoStats)
<1>1. st.trust <= 70 /\ st.trust \in Int
    BY DEF Score, RideBonus, RatingBonus, CancellationPenalty, AtMost, AtLeast, UserStats
<1>2. Near(origin, 35) \in Int /\ Near(dest, 25) \in Int
    BY DEF Near, AtLeast
<1>3. TrustPart(st) <= 700 /\ TrustPart(st) \in Int /\ RatingPart(st) = 0
    BY <1>1 DEF TrustPart, RatingPart
<1>4. TrustPart(NoStats) = 500 /\ RatingPart(NoStats) = 300
    BY DEF TrustPart, RatingPart, NoStats
<1> QED
    BY <1>2, <1>3, <1>4 DEF MatchScore

-----------------------------------------------------------------------------
(* Scores, wherever things fail.                                           *)

\* Every row has averages of one to five stars, and every score, written or about
\* to be, is one that the formula can yield.
ScoreRange == 10..90
ScoresOK ==
  /\ \A u \in Users : stats[u].trust \in ScoreRange
  /\ \A s \in Servers : scorer[s].user \in Users => scorer[s].score \in ScoreRange
RowsInRange == \A u \in Users : RatedRow(stats[u]) /\ stats[u].trust \in ScoreRange

LEMMA RowsAreRated ==
  ASSUME RatingsOK, AveragesOK, NEW u \in Users
  PROVE  /\ stats[u].ratings <= stats[u].stars
         /\ stats[u].stars <= 5 * stats[u].ratings
         /\ Score(stats[u]) \in ScoreRange
  <1>1. stats[u] \in UserStats
    BY DEF RatingsOK, RatingsTypeOK, SettlementTypeOK
  <1>2. PICK T \in SUBSET Revealed(u) :
          stats[u].ratings = Cardinality(T) /\ stats[u].stars = StarsOf(T)
    BY DEF AveragesOK, IsAverageOf
  <1>3. /\ Stars \in [Rides \X Side -> Nat] /\ Revealed(u) \in SUBSET (Rides \X Side)
        /\ IsFiniteSet(Revealed(u))
    BY AggregatedTypes DEF RatingsOK
  <1>4. T \in SUBSET (Rides \X Side) /\ IsFiniteSet(T)
    BY <1>2, <1>3, FS_Subset
  <1>5. ASSUME NEW x \in T
        PROVE  1 <= Stars[x] /\ Stars[x] <= 5
    <2>1. PICK r \in Rides, side \in Side : x = <<r, side>>
      BY <1>4
    <2>2. rating[r][side].revealed
      BY <1>2, <2>1 DEF Revealed
    <2>3. Rated(r, side) /\ rating[r][side] \in Rating
      BY <2>2, RevealedAreRated, RatingsTypes DEF RatingsOK
    <2>4. rating[r][side].stars \in 1..5
      <3>1. rating[r][side].stars \in {0} \cup Scores /\ rating[r][side].stars # 0
        BY <2>3 DEF Rating, Rated
      <3> QED
        BY <3>1, RatingsAssumption
    <2> QED
      BY <2>1, <2>4 DEF Stars
  <1>6. Stars \in [Rides \X Side -> Int] /\ 1 \in Int /\ 5 \in Int
    BY <1>3
  <1>7. 1 * Cardinality(T) <= StarsOf(T) /\ StarsOf(T) <= 5 * Cardinality(T)
    BY <1>4, <1>5, <1>6, SumBetween DEF StarsOf
  <1>8. stats[u].ratings <= stats[u].stars /\ stats[u].stars <= 5 * stats[u].ratings
    <2>1. stats[u].ratings \in Nat /\ stats[u].stars \in Nat
      BY <1>1 DEF UserStats
    <2> QED
      BY <1>2, <1>7, <2>1
  <1> QED
    BY <1>1, <1>8, ScoreStaysInBounds DEF ScoreRange

LEMMA ScoresInit ==
  Init => ScoresOK
  <1> SUFFICES ASSUME Init
               PROVE  ScoresOK
    OBVIOUS
  <1>1. \A u \in Users : stats[u] = StatsBefore(u)
    BY DEF Init, SettlementInit
  <1>2. ASSUME NEW u \in Users
        PROVE  StatsBefore(u).trust \in ScoreRange
    <2>1. CASE u \in Known
      <3> DEFINE c == Counted(NoStats, 0)
      <3>1. c \in UserStats
        <4>1. NoStats \in UserStats /\ 0 \in Nat
          BY DEF NoStats, UserStats
        <4> QED
          BY <4>1, StatsTypes
      <3> HIDE DEF c
      <3>2. [c EXCEPT !.trust = 51].trust = 51
        BY <3>1 DEF UserStats
      <3>3. StatsBefore(u).trust = 51
        BY <2>1, <3>2 DEF StatsBefore, c
      <3> QED
        BY <3>3 DEF ScoreRange
    <2>2. CASE u \notin Known
      BY <2>2 DEF StatsBefore, NoStats, ScoreRange
    <2> QED
      BY <2>1, <2>2
  <1>3. \A s \in Servers : scorer[s].user \notin Users
    BY NoUserAssumption DEF Init, SettlementInit, NoScorer
  <1> QED
    BY <1>1, <1>2, <1>3 DEF ScoresOK

LEMMA ScoresStep ==
  ASSUME RatingsOK, AveragesOK, ScoresOK, [Next]_vars
  PROVE  ScoresOK'
  <1>1. /\ stats \in [Users -> UserStats] /\ scorer \in [Servers -> Scorer]
        /\ NoScorer.user \notin Users
    BY NoUserAssumption DEF RatingsOK, WorkersOK, SettlementTypeOK, NoScorer
  <1>2. \A st \in UserStats :
          /\ \A fare : Counted(st, fare).trust = st.trust
          /\ \A n, m : Averaged(st, n, m).trust = st.trust
          /\ \A n : Scored(st, n).trust = n
    BY DEF UserStats, Counted, Averaged, Scored
  <1>3. ASSUME \A u \in Users : stats'[u].trust = stats[u].trust, UNCHANGED scorer
        PROVE  ScoresOK'
    BY <1>3 DEF ScoresOK
  <1>4. ASSUME NEW s \in Servers, NEW side \in Side, CountRide(s, side)
        PROVE  ScoresOK'
    <2>1. \A u \in Users : stats'[u].trust = stats[u].trust
      BY <1>1, <1>2, <1>4 DEF CountRide
    <2> QED
      BY <1>3, <1>4, <2>1 DEF CountRide
  <1>5. ASSUME NEW s \in Servers, NEW u \in Users, NEW k \in Stalls, TakeTrustJob(s, u, k)
        PROVE  ScoresOK'
    <2>1. UNCHANGED stats
      BY <1>5 DEF TakeTrustJob
    <2>2. \A t \in Servers : t # s => scorer'[t] = scorer[t]
      BY <1>1, <1>5 DEF TakeTrustJob
    <2>3. scorer'[s].score = Score(stats[u]) \/ scorer'[s] = NoScorer
      BY <1>1, <1>5 DEF TakeTrustJob
    <2>4. scorer'[s].user \in Users => scorer'[s].score \in ScoreRange
      BY <1>1, <2>3, RowsAreRated
    <2> QED
      BY <2>1, <2>2, <2>4 DEF ScoresOK
  <1>6. ASSUME NEW s \in Servers, WriteScore(s)
        PROVE  ScoresOK'
    <2>1. stats' = [stats EXCEPT ![scorer[s].user] = Scored(stats[scorer[s].user], scorer[s].score)]
      BY <1>6 DEF WriteScore
    <2>2. \A u \in Users : stats'[u].trust \in ScoreRange
      <3> SUFFICES ASSUME NEW u \in Users
                   PROVE  stats'[u].trust \in ScoreRange
        OBVIOUS
      <3>1. CASE u = scorer[s].user
        <4>1. stats'[u].trust = scorer[s].score
          BY <1>1, <1>2, <2>1, <3>1
        <4> QED
          BY <3>1, <4>1 DEF ScoresOK
      <3>2. CASE u # scorer[s].user
        BY <1>1, <2>1, <3>2 DEF ScoresOK
      <3> QED
        BY <3>1, <3>2
    <2>3. \A t \in Servers : scorer'[t].user \in Users => scorer'[t] = scorer[t]
      BY <1>1, <1>6 DEF WriteScore
    <2> QED
      BY <2>2, <2>3 DEF ScoresOK
  <1>7. ASSUME NEW s \in Servers, Crash(s) \/ TrustJobFails(s)
        PROVE  ScoresOK'
    <2>1. UNCHANGED stats /\ scorer' = [scorer EXCEPT ![s] = NoScorer]
      BY <1>7 DEF Crash, TrustJobFails
    <2>2. \A t \in Servers : scorer'[t].user \in Users => scorer'[t] = scorer[t]
      BY <1>1, <2>1
    <2> QED
      BY <2>1, <2>2 DEF ScoresOK
  <1>8. ASSUME NEW s \in Servers,
               \/ \E r \in Rides, n \in JobNo : TakeCompletionJob(s, r, n)
               \/ FindPayment(s) \/ CreatePayment(s) \/ CompletionJobFails(s)
               \/ \E side \in Side : AddTrustJob(s, side)
        PROVE  ScoresOK'
    <2>1. UNCHANGED <<stats, scorer>>
      BY <1>8 DEF TakeCompletionJob, FindPayment, CreatePayment, CompletionJobFails, AddTrustJob
    <2> QED
      BY <1>3, <2>1
  <1>9. ASSUME NEW r \in Rides, RideEnds(r)
        PROVE  ScoresOK'
    <2>1. UNCHANGED <<stats, scorer>>
      BY <1>9 DEF RideEnds, RideCompletes, ConfirmRide, AddCompletionJob, OverwriteStatus
    <2> QED
      BY <1>3, <2>1
  <1>10. ASSUME NEW k \in Calls, UpdateUserStats(k)
         PROVE  ScoresOK'
    <2>1. \/ UNCHANGED stats
          \/ stats' = [stats EXCEPT ![User(k)] =
                         Averaged(stats[User(k)], call[k].count, call[k].sum)]
      BY <1>10 DEF UpdateUserStats
    <2>2. \A u \in Users : stats'[u].trust = stats[u].trust
      BY <1>1, <1>2, <2>1
    <2> QED
      BY <1>3, <1>10, <2>2 DEF UpdateUserStats
  <1>11. ASSUME NEW k \in Calls,
                \/ \E r \in Rides, side \in Side, stars \in Scores : SubmitRating(k, r, side, stars)
                \/ FindExisting(k) \/ CreateRating(k) \/ FindOther(k) \/ RevealRideRatings(k)
                \/ Aggregate(k) \/ NotifyRatee(k) \/ Abort(k) \/ RecalculateTrust(k)
         PROVE  ScoresOK'
    <2>1. UNCHANGED <<stats, scorer>>
      BY <1>11 DEF SubmitRating, FindExisting, CreateRating, FindOther, RevealRideRatings,
                   Aggregate, NotifyRatee, Abort, RecalculateTrust, settlementVars
    <2> QED
      BY <1>3, <2>1
  <1>12. UNCHANGED vars => UNCHANGED <<stats, scorer>>
    BY DEF vars, settlementVars
  <1> QED
    BY <1>3, <1>4, <1>5, <1>6, <1>7, <1>8, <1>9, <1>10, <1>11, <1>12
       DEF Next, Settling, Settle, ScoreUser, CrashServer, Rate, Resume

\* Every trust score that is ever stored lies between 10 and 90 and every average
\* between one and five stars, whatever fails: rows are what the theorems on the two
\* formulas ask of them.
THEOREM StoredScoresStayInBounds ==
  Spec => []RowsInRange
  <1>1. ASSUME RatingsOK, AveragesOK, ScoresOK
        PROVE  RowsInRange
    <2> SUFFICES ASSUME NEW u \in Users
                 PROVE  RatedRow(stats[u]) /\ stats[u].trust \in ScoreRange
      BY DEF RowsInRange
    <2>1. stats[u] \in UserStats
      BY <1>1 DEF RatingsOK, RatingsTypeOK, SettlementTypeOK
    <2>2. stats[u].trust \in ScoreRange
      BY <1>1 DEF ScoresOK
    <2>3. stats[u].trust \in 0..100
      BY <2>2 DEF ScoreRange
    <2> QED
      BY <1>1, <2>1, <2>2, <2>3, RowsAreRated DEF RatedRow
  <1>2. RatingsOK /\ AveragesOK /\ ScoresOK /\ [Next]_vars => RatingsOK' /\ AveragesOK' /\ ScoresOK'
    BY RatingsOKStep, AveragesStep, ScoresStep
  <1> QED
    BY <1>1, <1>2, RatingsInit1, AveragesInit, ScoresInit, PTL DEF Spec
=============================================================================
