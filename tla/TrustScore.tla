----------------------------- MODULE TrustScore -----------------------------
(***************************************************************************)
(* A row of `user_stats', the writes made to it and the trust score that   *)
(* TrustScoreProcessor computes from it.                                   *)
(*                                                                         *)
(* averageRating and totalRatings come from one aggregate query and are    *)
(* kept as the number of ratings and the sum of their stars.  The code     *)
(* computes with doubles, the model with exact fractions; an average whose *)
(* bonus ends in exactly one half may round differently in the last point. *)
(***************************************************************************)
EXTENDS Integers

\* known: the row exists.  It is inserted when the user's first completed
\* ride is settled; register does not create it.
UserStats == [known     : BOOLEAN,
              rides     : Nat,    \* ridesCompleted
              cancelled : Nat,    \* ridesCancelled
              ratings   : Nat,    \* totalRatings
              stars     : Nat,    \* averageRating * totalRatings
              earned    : Nat,    \* totalEarnings
              trust     : Int]    \* trustScore

NoStats == [known |-> FALSE, rides |-> 0, cancelled |-> 0, ratings |-> 0,
            stars |-> 0, earned |-> 0, trust |-> 50]

AtMost(n, cap) == IF n <= cap THEN n ELSE cap
AtLeast(n, floor) == IF n >= floor THEN n ELSE floor

\* Math.round of a fraction: halves go up.
Round(num, den) == (2 * num + den) \div (2 * den)

RideBonus(st) == AtMost(st.rides, 20)

\* (averageRating - 3) * 10, rounded.  Everything else that is added to it is
\* whole, and so are the bounds it is clamped to: rounding it first or last is
\* the same.
RatingBonus(st) ==
  IF st.ratings = 0 THEN 0
  ELSE Round(10 * (st.stars - 3 * st.ratings), st.ratings)

CancellationPenalty(st) == 2 * AtMost(st.cancelled, 10)

Score(st) ==
  AtMost(AtLeast(50 + RideBonus(st) + RatingBonus(st)
                    - CancellationPenalty(st), 0), 100)

-----------------------------------------------------------------------------
(* Writes.                                                                 *)

\* The upsert for one side of a settled ride: increments, atomic in the
\* database, on a row that is created when it is missing.
Counted(st, fare) ==
  [st EXCEPT !.known = TRUE, !.rides = @ + 1, !.earned = @ + fare]

\* updateUserStats with the aggregate of the revealed ratings.
Averaged(st, ratings, stars) == [st EXCEPT !.ratings = ratings, !.stars = stars]

Scored(st, score) == [st EXCEPT !.trust = score]
=============================================================================
