-------------------------- MODULE MCCircuitBreaker --------------------------
(***************************************************************************)
(* Small instances of CircuitBreaker for TLC.  With Keep = Weight = 1 and   *)
(* Scale = 4 the estimate takes the values 0..3 and two failures in a row   *)
(* cross the threshold 2, so trips, near misses and decay all happen; with  *)
(* MinRequests = 3 the third result is the first that may trip.             *)
(***************************************************************************)
EXTENDS CircuitBreaker

CONSTANTS c1, c2

Two == {c1, c2}
\* A relay whose batch may hold nothing for a gateway.
First == {c1}
=============================================================================
