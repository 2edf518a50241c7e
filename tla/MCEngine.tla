------------------------------ MODULE MCEngine ------------------------------
(***************************************************************************)
(* A small instance of Engine for TLC: two builds that bring the schema up  *)
(* while two providers are registered, then one payment, two relays, one    *)
(* worker.  The inbox has room for the two rows such a refund can produce.  *)
(***************************************************************************)
EXTENDS Engine

CONSTANTS p1, p2, p3, r1, r2, w1, asaas, mercadopago

Pods == {p1, p2, p3}
TwoVersions == {1, 2}
\* The third pod is still the older build.
Builds == [p \in Pods |-> IF p = p3 THEN {1} ELSE {1, 2}]
Gateways == {asaas, mercadopago}
OnePayment == {1}
\* What the gateway account announces: the money's arrival and its return.
Money == {"RECEIVED", "REFUNDED"}
TwoRelays == {r1, r2}
OneWorker == {w1}
TwoRows == {1, 2}
=============================================================================
