---------------------------- MODULE PaymentLedger ----------------------------
(***************************************************************************)
(* What the engine promises its host about payments: every payment walks    *)
(* the state machine one legal step at a time, and each step is published   *)
(* with its notice in the same instant, never without it and never twice.   *)
(*                                                                         *)
(* This is the abstract specification; PaymentService and InboxConsumer are *)
(* shown to implement it.                                                   *)
(***************************************************************************)
EXTENDS TransactionFSM, Sequences

CONSTANT Txs                    \* the payments

VARIABLES
    status,                     \* [Txs -> Status]
    notices                     \* [Txs -> Seq(Notice)], oldest first

vars == <<status, notices>>

Init ==
    /\ status = [t \in Txs |-> Pending]
    /\ notices = [t \in Txs |-> <<>>]

Advance(t, s) ==
    /\ s # status[t]
    /\ Evaluate(status[t], s)
    /\ status' = [status EXCEPT ![t] = s]
    /\ notices' = [notices EXCEPT ![t] = Append(@, EventType(s))]

Next == \E t \in Txs, s \in Status : Advance(t, s)

Spec == Init /\ [][Next]_vars

-----------------------------------------------------------------------------

Reachable == Status \ {"CANCELED", "CHARGEBACK_PENDING", "ANOMALY"}

\* The notices published for a payment are exactly the history of its status
\* (Transaction.TransitionTo with PaymentService.ProcessPaymentWithMetadata):
\* in particular a payment asks its gateway for at most one refund, and only
\* after its confirmation was published.
NoticesTellStatus ==
    \A t \in Txs : status[t] \in Reachable /\ notices[t] = History(status[t])

=============================================================================
