----------------------------- MODULE ClaimOrder -----------------------------
(***************************************************************************)
(* Which rows a claim takes: the subquery of ClaimInboxEvents and of        *)
(* ClaimOutboxEvents orders them by created_at and cuts the list.  Ids are  *)
(* numbered in that order.                                                 *)
(***************************************************************************)
EXTENDS Naturals, FiniteSets

\* ORDER BY created_at LIMIT n, of the rows in S.
Oldest(S, n) == {e \in S : Cardinality({f \in S : f < e}) < n}

=============================================================================
