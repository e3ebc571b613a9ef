------------------------------ MODULE Matching ------------------------------
(***************************************************************************)
(* MatchingService.score, by which a ride would be ranked for a user who   *)
(* searches (nothing calls it yet).                                        *)
(*                                                                         *)
(* Scores are in hundredths of a point, distances in whole kilometres and  *)
(* averages to a hundredth of a star: the score is linear in them between  *)
(* the bounds it cuts off.                                                 *)
(***************************************************************************)
EXTENDS TrustScore

\* What one end of the ride is worth: nothing from five kilometres on.
Near(distance, weight) == AtLeast(100 - 20 * distance, 0) * weight

TrustPart(st) == 10 * (IF st.known THEN st.trust ELSE 50)

\* A row without ratings has an average of 0; 3 is for a rider without a row.
RatingPart(st) ==
  IF ~st.known THEN 300
  ELSE IF st.ratings = 0 THEN 0 ELSE Round(100 * st.stars, st.ratings)

MatchScore(origin, dest, st) ==
  Near(origin, 35) + Near(dest, 25) + TrustPart(st) + RatingPart(st)

\* Rows as the workers leave them: ratings of one to five stars.
RatedRow(st) ==
  /\ st \in UserStats
  /\ st.ratings <= st.stars /\ st.stars <= 5 * st.ratings
  /\ st.trust \in 0..100
=============================================================================
