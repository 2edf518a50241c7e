----------------------------- MODULE Translator -----------------------------
(***************************************************************************)
(* internal/core/acl: how an inbox row's payload becomes the status the     *)
(* payment service is asked for.  A notice of the gateway goes through      *)
(* MapAsaasStatus, an event of the engine itself through                   *)
(* InternalSystemAdapter.                                                  *)
(***************************************************************************)
EXTENDS TransactionFSM

\* External: what a payment at Asaas goes through, as far as the engine is told.
RemoteStatus == {"PENDING", "OVERDUE", "RECEIVED", "REFUND_REQUESTED", "REFUNDED"}

\* Whatever it does not know is PENDING; a payment that is late has failed.
MapAsaasStatus(s) ==
    CASE s \in {"RECEIVED", "CONFIRMED"} -> "RECEIVED"
      [] s \in {"OVERDUE", "FAILED"}     -> "FAILED"
      [] s = "REFUNDED"                  -> "REFUNDED"
      [] OTHER                           -> Pending

\* Adapter.TranslatePayload on a notice about payment t, ToDomain included.
FromGateway(t, s) == [kind |-> "good", tx |-> t, target |-> MapAsaasStatus(s)]

\* InternalSystemAdapter.TranslatePayload: the compensation of payment t.
FromEngine(t) == [kind |-> "good", tx |-> t, target |-> "REFUND_FAILED"]

=============================================================================
