-------------------------- MODULE MCPaymentService --------------------------
(***************************************************************************)
(* Small instances of PaymentService for TLC.                              *)
(***************************************************************************)
EXTENDS PaymentService

CONSTANTS w1, w2, t1, t2

TwoWorkers == {w1, w2}
OnePayment == {t1}
TwoPayments == {t1, t2}
SecondPayment == {t2}
NoPayment == {}

\* A confirmation, the other provider word for it, a failure, the refund and
\* both of its outcomes: every row of the state machine is exercised.
LifeCycle == {Pending, "PAID", "RECEIVED", "FAILED", "REFUND_PROCESSING",
              "REFUNDED", "REFUND_FAILED"}
\* The three notices: legal, repeated and illegal requests, and two steps in a row.
Paths == {"PAID", "FAILED", "REFUND_PROCESSING"}

=============================================================================
