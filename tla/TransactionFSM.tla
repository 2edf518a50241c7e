--------------------------- MODULE TransactionFSM ---------------------------
(***************************************************************************)
(* The payment state machine of domain/entity: the statuses of a           *)
(* Transaction, the transitions DefaultTransitionPolicy lets through, and   *)
(* the type of the notice TransitionTo produces for an accepted one.        *)
(***************************************************************************)

Pending == "PENDING"

\* Webhook statuses that mean the money arrived; the policy and the mapping of
\* notices treat the three alike.
Settled == {"PAID", "RECEIVED", "CONFIRMED"}

\* CANCELED, CHARGEBACK_PENDING and ANOMALY can be asked for, but no policy
\* rule leads to them.
Status ==
    Settled \cup
    {Pending, "FAILED", "CANCELED", "REFUNDED", "REFUND_PROCESSING",
     "REFUND_FAILED", "CHARGEBACK_PENDING", "ANOMALY"}

Notice ==
    {"PAYMENT_CONFIRMED", "PAYMENT_FAILED", "REFUND_STARTED", "PAYMENT_UPDATED"}

-----------------------------------------------------------------------------

Successors(current) ==
    CASE current = Pending             -> Settled \cup {"FAILED"}
      [] current \in Settled           -> {"REFUND_PROCESSING"}
      [] current = "REFUND_PROCESSING" -> {"REFUNDED", "REFUND_FAILED"}
      [] OTHER                         -> {}

\* DefaultTransitionPolicy.Evaluate: asking for the current status is allowed.
Evaluate(current, target) == target = current \/ target \in Successors(current)

\* Fault: the status used as the type of its notice.
EventType_Status(newState) == newState

\* The notice of a transition, chosen by its target alone.
EventType(newState) ==
    CASE newState \in Settled             -> "PAYMENT_CONFIRMED"
      [] newState = "FAILED"              -> "PAYMENT_FAILED"
      [] newState = "REFUND_PROCESSING"   -> "REFUND_STARTED"
      [] OTHER                            -> "PAYMENT_UPDATED"

\* The notices a payment has published on its way to status s.  The
\* machine has one path of notice types to each status, so the status
\* determines the whole history.
History(s) ==
    CASE s = Pending             -> <<>>
      [] s \in Settled           -> <<"PAYMENT_CONFIRMED">>
      [] s = "FAILED"            -> <<"PAYMENT_FAILED">>
      [] s = "REFUND_PROCESSING" -> <<"PAYMENT_CONFIRMED", "REFUND_STARTED">>
      [] OTHER                   -> <<"PAYMENT_CONFIRMED", "REFUND_STARTED",
                                      "PAYMENT_UPDATED">>

=============================================================================
