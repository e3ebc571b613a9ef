------------------------------- MODULE Paging -------------------------------
(***************************************************************************)
(* pagination.util.ts, by which every list of the API is cut into pages.   *)
(*                                                                         *)
(* A query that names no page or no limit is one for page 1 or limit 20.   *)
(***************************************************************************)
EXTENDS Integers, SequencesExt

\* Math.max(1, page) and Math.min(100, Math.max(1, limit)).
PageOf(page) == IF page < 1 THEN 1 ELSE page
LimitOf(limit) == IF limit < 1 THEN 1 ELSE IF limit > 100 THEN 100 ELSE limit

\* ORDER BY: the rows of a set, each once, in the order of a query.
Listed(S, Before(_, _)) ==
  CHOOSE list \in SetToSeqs(S) :
    \A i, j \in 1..Len(list) : i < j => Before(list[i], list[j])

SkipSlip(page, limit) == PageOf(page) * LimitOf(limit)
Skip(page, limit) == (PageOf(page) - 1) * LimitOf(limit)

\* Math.ceil(total / limit)
TotalPages(total, limit) == (total + LimitOf(limit) - 1) \div LimitOf(limit)

\* The rows of a page.
PageRows(list, page, limit) ==
  LET last == Skip(page, limit) + LimitOf(limit)
  IN  SubSeq(list, Skip(page, limit) + 1, IF last < Len(list) THEN last ELSE Len(list))

\* Whether row i of the list is among the `take' rows after the first `skip'.
OnPage(i, page, limit) ==
  Skip(page, limit) < i /\ i <= Skip(page, limit) + LimitOf(limit)

\* Each row is on exactly one of the pages that the answer says there are.
PagesPartition(total, limit) ==
  \A i \in 1..total :
    \E p \in 1..TotalPages(total, limit) :
      /\ OnPage(i, p, limit)
      /\ \A q \in 1..TotalPages(total, limit) : OnPage(i, q, limit) => q = p
=============================================================================
