------------------------------ MODULE Ratings ------------------------------
(***************************************************************************)
(* RatingsService.submitRating, together with the settlement of the rides  *)
(* that are rated: both write user_stats and feed the trust-score queue.   *)
(*                                                                         *)
(* A rating stays hidden until the other party has rated too.  The handler *)
(* inserts its rating, then looks for the other one, and whoever finds it  *)
(* reveals both and recalculates both averages.                            *)
(***************************************************************************)
EXTENDS Settlement

CONSTANTS
  Calls,     \* slots for handlers executing at the same time
  ServerOf,  \* the server that executes the handler in a slot
  Scores     \* numbers of stars

ASSUME RatingsAssumption ==
  /\ ServerOf \in [Calls -> Servers]
  /\ Scores \subseteq 1..5

VARIABLES
  rating,  \* table ratings: by ride and side of the rater
  call,    \* what each executing handler does next and remembers
  told     \* RATING_RECEIVED notifications handed to NotificationsService

ratingVars == <<rating, call, told>>
vars == <<settlementVars, ratingVars>>

\* stars = 0: no row.
Rating == [stars : {0} \cup Scores, revealed : BOOLEAN]
NoRating == [stars |-> 0, revealed |-> FALSE]

Call == [step  : {"idle", "findExisting", "create", "findOther", "reveal",
                  "aggregate", "updateStats", "addTrust", "notify"},
         ride  : Rides \cup {NoRide},
         by    : Side,           \* the rater
         whose : Side,           \* whose statistics are at hand
         stars : {0} \cup Scores,
         count : Nat,            \* what the aggregate returned
         sum   : Nat]
Idle == [step |-> "idle", ride |-> NoRide, by |-> "rider", whose |-> "rider",
         stars |-> 0, count |-> 0, sum |-> 0]

Other(side) == IF side = "rider" THEN "passenger" ELSE "rider"
Rated(r, side) == rating[r][side].stars > 0

RatingsInit ==
  /\ rating = [r \in Rides |-> [side \in Side |-> NoRating]]
  /\ call = [k \in Calls |-> Idle]
  /\ told = {}

Init == SettlementInit /\ RatingsInit

-----------------------------------------------------------------------------
At(k, step) == call[k].step = step
Continue(k, next) == call' = [call EXCEPT ![k] = next]
Goto(k, step) == Continue(k, [call[k] EXCEPT !.step = step])
Return(k) == Continue(k, Idle)

\* Whose statistics a call is at.
User(k) == Party[call[k].ride][call[k].whose]

\* The ride is read.
SubmitRating(k, r, side, stars) ==
  /\ call[k] = Idle
  /\ status[r] = "COMPLETED"
  /\ Continue(k, [Idle EXCEPT !.step = "findExisting", !.ride = r, !.by = side,
                              !.whose = Other(side), !.stars = stars])
  /\ UNCHANGED <<settlementVars, rating, told>>

FindExisting(k) ==
  /\ At(k, "findExisting")
  /\ IF Rated(call[k].ride, call[k].by) THEN Return(k) ELSE Goto(k, "create")
  /\ UNCHANGED <<settlementVars, rating, told>>

\* The unique key on ride and rater makes the INSERT throw where the same
\* rating was inserted since.
CreateRatingSlip(k) ==
  LET c == call[k]
  IN  /\ At(k, "create")
      /\ rating' = [rating EXCEPT ![c.ride][c.by] =
                      [stars |-> c.stars, revealed |-> FALSE]]
      /\ Goto(k, "findOther")
      /\ UNCHANGED <<settlementVars, told>>
CreateRating(k) ==
  LET c == call[k]
  IN  /\ At(k, "create")
      /\ IF Rated(c.ride, c.by)
         THEN Return(k) /\ UNCHANGED rating
         ELSE /\ rating' = [rating EXCEPT ![c.ride][c.by] =
                              [stars |-> c.stars, revealed |-> FALSE]]
              /\ Goto(k, "findOther")
      /\ UNCHANGED <<settlementVars, told>>

FindOtherSlip(k) ==
  /\ At(k, "findOther")
  /\ Goto(k, IF rating[call[k].ride][call[k].whose].revealed THEN "reveal"
             ELSE "notify")
  /\ UNCHANGED <<settlementVars, rating, told>>
FindOther(k) ==
  /\ At(k, "findOther")
  /\ Goto(k, IF Rated(call[k].ride, call[k].whose) THEN "reveal" ELSE "notify")
  /\ UNCHANGED <<settlementVars, rating, told>>

\* updateMany on the ratings of the ride.
RevealRideRatingsSlip(k) ==
  /\ At(k, "reveal")
  /\ rating' = [rating EXCEPT ![call[k].ride][call[k].whose].revealed = TRUE]
  /\ Goto(k, "aggregate")
  /\ UNCHANGED <<settlementVars, told>>
RevealRideRatings(k) ==
  /\ At(k, "reveal")
  /\ LET r == call[k].ride
     IN  rating' = [rating EXCEPT ![r] =
           [side \in Side |-> [rating[r][side] EXCEPT !.revealed = Rated(r, side)]]]
  /\ Goto(k, "aggregate")
  /\ UNCHANGED <<settlementVars, told>>

\* The ratings a user has received that are revealed (findByRatee).
Revealed(u) ==
  {x \in Rides \X Side :
     rating[x[1]][x[2]].revealed /\ Party[x[1]][Other(x[2])] = u}
Stars == [x \in Rides \X Side |-> rating[x[1]][x[2]].stars]
StarsOf(S) == SumFunctionOnSet(Stars, S)

\* Those the average is taken of: another query, with the same filter.
AggregatedSlip(u) ==
  {x \in Rides \X Side : rating[x[1]][x[2]].revealed /\ Party[x[1]][x[2]] = u}
Aggregated(u) == Revealed(u)

\* recalculateStats, for the ratee first and then for the rater.
Aggregate(k) ==
  /\ At(k, "aggregate")
  /\ LET seen == Aggregated(User(k))
     IN  Continue(k, [call[k] EXCEPT !.step = "updateStats",
                        !.count = Cardinality(seen), !.sum = StarsOf(seen)])
  /\ UNCHANGED <<settlementVars, rating, told>>

\* Prisma's update throws when the user has no statistics yet.
UpdateUserStatsBlind(k) ==
  LET c == call[k]
  IN  /\ At(k, "updateStats")
      /\ stats' = [stats EXCEPT ![User(k)] = Averaged(@, c.count, c.sum)]
      /\ IF c.whose # c.by
         THEN Continue(k, [c EXCEPT !.step = "aggregate", !.whose = c.by])
         ELSE Continue(k, [c EXCEPT !.step = "addTrust", !.whose = Other(c.by)])
      /\ UNCHANGED <<status, job, payments, trustJob, settler, scorer, rating, told>>
UpdateUserStats(k) ==
  LET c == call[k]
      u == User(k)
  IN  /\ At(k, "updateStats")
      /\ IF stats[u].known
         THEN /\ stats' = [stats EXCEPT ![u] = Averaged(@, c.count, c.sum)]
              /\ IF c.whose # c.by
                 THEN Continue(k, [c EXCEPT !.step = "aggregate", !.whose = c.by])
                 ELSE Continue(k, [c EXCEPT !.step = "addTrust", !.whose = Other(c.by)])
         ELSE Return(k) /\ UNCHANGED stats
      /\ UNCHANGED <<status, job, payments, trustJob, settler, scorer, rating, told>>

RecalculateTrustSlip(k) ==
  /\ At(k, "addTrust")
  /\ trustJob' = [trustJob EXCEPT ![<<User(k), 0>>] = @ + 1]
  /\ Goto(k, "notify")
  /\ UNCHANGED <<status, job, payments, stats, settler, scorer, rating, told>>
RecalculateTrust(k) ==
  LET c == call[k]
  IN  /\ At(k, "addTrust")
      /\ trustJob' = [trustJob EXCEPT ![<<User(k), 0>>] = @ + 1]
      /\ IF c.whose # c.by THEN Continue(k, [c EXCEPT !.whose = c.by])
         ELSE Goto(k, "notify")
      /\ UNCHANGED <<status, job, payments, stats, settler, scorer, rating, told>>

NotifyRatee(k) ==
  LET c == call[k]
  IN  /\ At(k, "notify")
      /\ told' = told \cup {[to |-> Other(c.by), ride |-> c.ride, stars |-> c.stars]}
      /\ Return(k)
      /\ UNCHANGED <<settlementVars, rating>>

\* A database or queue call throws.
Abort(k) ==
  /\ Failures
  /\ call[k] # Idle
  /\ Return(k)
  /\ UNCHANGED <<settlementVars, rating, told>>

-----------------------------------------------------------------------------
Resume(k) ==
  \/ FindExisting(k)
  \/ CreateRating(k)
  \/ FindOther(k)
  \/ RevealRideRatings(k)
  \/ Aggregate(k)
  \/ UpdateUserStats(k)
  \/ RecalculateTrust(k)
  \/ NotifyRatee(k)

\* A server that dies takes the handlers it was executing with it.
CrashServer(s) ==
  /\ Crash(s)
  /\ call' = [k \in Calls |-> IF ServerOf[k] = s THEN Idle ELSE call[k]]
  /\ UNCHANGED <<rating, told>>

Settling ==
  /\ \/ \E r \in Rides : RideEnds(r)
     \/ \E s \in Servers :
          Settle(s) \/ ScoreUser(s) \/ CompletionJobFails(s) \/ TrustJobFails(s)
  /\ UNCHANGED ratingVars

Rate ==
  \E k \in Calls :
    \/ \E r \in Rides, side \in Side, stars \in Scores :
         SubmitRating(k, r, side, stars)
    \/ Resume(k)
    \/ Abort(k)

Next == Settling \/ Rate \/ \E s \in Servers : CrashServer(s)

Spec == Init /\ [][Next]_vars

-----------------------------------------------------------------------------
(* What holds however ratings, settlement and failures interleave.         *)

\* Values stay in their types, those of the settlement included: ratings write
\* no statistics for a user who has no row yet.
RatingsTypeOK ==
  /\ SettlementTypeOK
  /\ rating \in [Rides -> [Side -> Rating]]
  /\ call \in [Calls -> Call]
  /\ told \subseteq [to : Side, ride : Rides, stars : Scores]

\* A rating stands as its ratee was told of it, also when the rater submits
\* another while the first is being handled.
RatingsStand ==
  \A n \in told : rating[n.ride][Other(n.to)].stars = n.stars

\* getReceivedRatings and getUserRatings, all their pages together.
GetUserRatings(u) == [ratings |-> Revealed(u), total |-> Cardinality(Revealed(u))]

\* What users are shown as their average never counts a rating that is not on the
\* list next to it, and where it counts as many it is the average of that list, also
\* while two handlers read and write it at once.  (It may lag behind the list.)
AverageIsOfTheList ==
  \A u \in Users :
    LET shown == GetUserRatings(u)
    IN  /\ stats[u].ratings <= shown.total
        /\ stats[u].stars <= StarsOf(shown.ratings)
        /\ stats[u].ratings = shown.total => stats[u].stars = StarsOf(shown.ratings)

\* getRideRatings, for a party of the ride.
RideRatings(r) == {side \in Side : rating[r][side].revealed}

\* Blind reveal: who asks for the ratings of a ride sees none of them before both
\* have rated, and then both at once, however the two submissions interleave.
RevealIsMutual ==
  \A r \in Rides :
    RideRatings(r) # {} => RideRatings(r) = Side /\ \A side \in Side : Rated(r, side)

-----------------------------------------------------------------------------
(* What holds when nothing fails.                                          *)

Parties(r) == {Party[r][side] : side \in Side}
BeingRated(r) == \E k \in Calls : call[k].ride = r

\* The later of two ratings finds the earlier one, also when both are being
\* submitted at once: each is inserted before its handler looks for the other.
BothRatedAreRevealed ==
  \A r \in Rides :
    (\A side \in Side : Rated(r, side)) /\ ~BeingRated(r) =>
      \A side \in Side : rating[r][side].revealed

\* Something is under way that will recalculate the score of u.
TrustPending(u) ==
  \/ \E k \in Stalls : trustJob[<<u, k>>] > 0
  \/ \E s \in Servers : scorer[s].user = u
  \/ \E r \in Rides : u \in Parties(r) /\
       (BeingRated(r) \/ \E s \in Servers : settler[s].ride = r)

\* A trust score is never left behind: when no job and no handler that would
\* recalculate it is under way, it is the score of the statistics as they are.
TrustFollowsStats ==
  \A u \in Users :
    stats[u].known /\ ~TrustPending(u) => stats[u].trust = Score(stats[u])
=============================================================================
