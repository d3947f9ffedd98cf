------------------------------- MODULE MCSums -------------------------------
(***************************************************************************)
(* Small instances of the sums service for TLC.                            *)
(***************************************************************************)
EXTENDS SumsService
CONSTANTS c1, c2, x, y

ClientsAndMain == Clients \cup {"main"}

Sum(id, a, b, c) == [id |-> id, a |-> a, b |-> b, c |-> c]

(* sums_service: two ids, right and wrong sums under the same id.          *)
PlainSums == { Sum(x, 1, 1, 2), Sum(x, 1, 1, 3), Sum(y, 0, -1, -1) }

(* sums_wrap: the largest number and one more.                             *)
WrappedSums == { Sum(x, Half - 1, 1, -Half), Sum(y, 1, 1, 2) }
=============================================================================
