-------------------------- MODULE MCWebhookIngress --------------------------
(***************************************************************************)
(* A small gateway for TLC: one payment that changes twice, two requests at *)
(* a time, two admins.                                                     *)
(***************************************************************************)
EXTENDS WebhookIngress

CONSTANTS p1, h1, h2, a1, a2

OnePayment == {p1}
TwoHandlers == {h1, h2}
TwoAdmins == {a1, a2}
=============================================================================
