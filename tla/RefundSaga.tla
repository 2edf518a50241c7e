----------------------------- MODULE RefundSaga -----------------------------
(***************************************************************************)
(* A payment from the customer's money to its refund, through the inbox     *)
(* workers, the payment service, the outbox relays and the gateway:         *)
(*                                                                         *)
(*   gateway --notice--> inbox --InboxConsumer--> transactions              *)
(*   host --refund--> transactions + outbox --OutboxRelay--> gateway        *)
(*   gateway --rejection--> OutboxRelay --compensation--> inbox             *)
(*                                                                         *)
(* InboxConsumer and OutboxRelay keep their own state and share the bound   *)
(* on faults.  The way of a notice from the gateway into the inbox is one   *)
(* step here, at any time after the change and once per change: that is     *)
(* what WebhookIngress is about.  Of the outbox only REFUND_STARTED is      *)
(* followed; the relay does nothing with the other notices.  A refund is    *)
(* followed for less than the 48 hours after which its row is not claimed   *)
(* any more, and no process is shut down meanwhile: OutboxRelay has both.   *)
(* The provider is Asaas, whose notices say what they ask for and whose     *)
(* event ids are no payment's id; InboxConsumer and OutboxRelay also have   *)
(* the other kind.                                                         *)
(***************************************************************************)
EXTENDS Translator, Naturals, FiniteSets

CONSTANTS
    Payments,
    Announced,      \* the changes the gateway account sends webhooks about
    Workers,
    Relays,
    InboxIds,       \* rows the inbox has room for
    OutboxIds,
    MaxRetries,
    BatchSize,
    MaxFaults,
    None

VARIABLES
    remote,         \* the status of each payment at the gateway
    mail,           \* notices on their way to the inbox
    subject,        \* the payment each outbox event is about
    \* of InboxConsumer
    inbox, payload, transactions, working, worked, inLate, attempts, accepted, effects,
    \* of OutboxRelay
    outbox, kind, aged, answers, refunds, published, compensation, breaker,
    sending, sent, told, asking, turnedAway, outLate,
    faults

gateway == <<remote, mail, subject>>
inboxSide == <<inbox, payload, transactions, working, worked, inLate, attempts, accepted,
               effects>>
outboxSide == <<outbox, kind, aged, answers, refunds, published, compensation, breaker,
                sending, sent, told, asking, turnedAway, outLate>>
saga == <<gateway, inboxSide, outboxSide>>
sagaVars == <<saga, faults>>

Payloads ==
    {FromGateway(t, s) : t \in Payments, s \in RemoteStatus} \cup {FromEngine(t) : t \in Payments}

In == INSTANCE InboxConsumer WITH
    Events <- InboxIds, Txs <- Payments, held <- working, outcome <- worked,
    overrun <- inLate

Out == INSTANCE OutboxRelay WITH
    Events <- OutboxIds, Kinds <- {"refund"}, IdsInUse <- {},
    held <- sending, outcome <- sent, overrun <- outLate

ASSUME SagaConstants ==
    /\ Payments # {} /\ None \notin Payments
    /\ Announced \subseteq RemoteStatus
    /\ InboxIds \subseteq Nat /\ OutboxIds \subseteq Nat
    /\ MaxRetries \in Nat /\ BatchSize \in Nat \ {0} /\ MaxFaults \in Nat
    /\ None \notin In!EventRow /\ None \notin In!Outcome
    /\ None \notin Out!EventRow /\ None \notin Out!Outcome /\ None \notin OutboxIds

-----------------------------------------------------------------------------

\* SaveInboxEvent: the next row, with what its event says.
Insert(p) ==
    \E e \in InboxIds :
        /\ inbox[e] = None
        /\ \A f \in InboxIds : f < e => inbox[f] # None
        /\ inbox' = [inbox EXCEPT ![e] = In!Fresh]
        /\ payload' = [payload EXCEPT ![e] = p]
        /\ UNCHANGED <<transactions, working, worked, inLate, attempts, accepted, effects>>

\* External: a payment at the gateway changes, which is announced.
Moves(t, s) ==
    /\ remote' = [remote EXCEPT ![t] = s]
    /\ mail' = IF s \in Announced THEN mail \cup {<<t, s>>} ELSE mail

\* External: the customer is late or pays, an accepted refund is carried out.
GatewayChanges(t) ==
    /\ \/ remote[t] = "PENDING" /\ Moves(t, "OVERDUE")
       \/ remote[t] \in {"PENDING", "OVERDUE"} /\ Moves(t, "RECEIVED")
       \/ remote[t] = "REFUND_REQUESTED" /\ Moves(t, "REFUNDED")
    /\ UNCHANGED <<subject, inboxSide, outboxSide, faults>>

\* A notice reaches the inbox, in any order.
NoticeArrives(n) ==
    /\ n \in mail
    /\ mail' = mail \ {n}
    /\ Insert(FromGateway(n[1], n[2]))
    /\ UNCHANGED <<remote, subject, outboxSide, faults>>

\* The host asks for a refund: the new status and REFUND_STARTED commit together.
HostRefund(t) ==
    /\ In!HostRefund(t)
    /\ \E e \in OutboxIds :
          /\ Out!Publish(e)
          /\ subject' = [subject EXCEPT ![e] = t]
    /\ UNCHANGED <<remote, mail>>

\* The relay's call; the first time the gateway accepts, the payment there moves.
RefundRequest(r) ==
    \E c \in sending[r] :
        /\ Out!RefundTransaction(r, c)
        /\ IF refunds'[c.id] > refunds[c.id]
           THEN Moves(subject[c.id], "REFUND_REQUESTED")
           ELSE UNCHANGED <<remote, mail>>
        /\ UNCHANGED <<subject, inboxSide>>

\* The relay turns a rejection into an inbox event, unless that fails.
Compensate(r) ==
    /\ Out!SaveCompensation(r)
    /\ IF compensation' # compensation
       THEN Insert(FromEngine(subject[compensation']))
       ELSE UNCHANGED inboxSide
    /\ UNCHANGED gateway

\* Everything else a worker, a relay, time or an operator does.
InboxStep ==
    /\ \/ \E e \in InboxIds : In!LeaseExpires(e) \/ In!ReplayInboxDLQ(e)
       \/ \E w \in Workers :
             \/ In!ClaimInboxEvents(w) \/ In!Process(w) \/ In!PhaseC(w)
             \/ \E c \in working[w] : In!ServiceError(w, c)
             \/ In!FinaliseError(w) \/ In!Crash(w)
    /\ UNCHANGED <<gateway, outboxSide>>

OutboxStep ==
    /\ \/ \E e \in OutboxIds : Out!LeaseExpires(e) \/ Out!ReplayOutboxDLQ(e)
       \/ \E r \in Relays :
             \/ Out!Claims(r) \/ Out!AbortBatch(r) \/ Out!PhaseC(r)
             \/ Out!ClaimError(r) \/ Out!FinaliseError(r) \/ Out!Crash(r)
    /\ UNCHANGED <<gateway, inboxSide>>

SagaInit ==
    /\ remote = [t \in Payments |-> "PENDING"]
    /\ mail = {}
    /\ subject = [e \in OutboxIds |-> None]
    /\ inbox = [e \in InboxIds |-> None]
    /\ payload = [e \in InboxIds |-> CHOOSE p \in Payloads : TRUE]
    /\ transactions = [t \in Payments |-> Pending]
    /\ working = [w \in Workers |-> {}]
    /\ worked = [w \in Workers |-> None]
    /\ inLate = FALSE
    /\ attempts = [e \in InboxIds |-> 0]
    /\ accepted = {}
    /\ effects = [e \in InboxIds |-> 0]
    /\ Out!Init

\* Workers and relays run as their modules say, the gateway carries out what it
\* accepted and repeats a notice until it is stored.
SagaFairness ==
    /\ \A w \in Workers :
          /\ WF_sagaVars(In!ClaimInboxEvents(w) /\ UNCHANGED <<gateway, outboxSide>>)
          /\ WF_sagaVars(In!Process(w) /\ UNCHANGED <<gateway, outboxSide>>)
          /\ WF_sagaVars(In!PhaseC(w) /\ UNCHANGED <<gateway, outboxSide>>)
    /\ \A e \in InboxIds : WF_sagaVars(In!LeaseExpires(e) /\ UNCHANGED <<gateway, outboxSide>>)
    /\ \A r \in Relays :
          /\ WF_sagaVars(Out!Claims(r) /\ UNCHANGED <<gateway, inboxSide>>)
          /\ WF_sagaVars(\/ Out!AbortBatch(r) /\ UNCHANGED <<gateway, inboxSide>>
                         \/ RefundRequest(r)
                         \/ Compensate(r))
          /\ WF_sagaVars(Out!PhaseC(r) /\ UNCHANGED <<gateway, inboxSide>>)
    /\ \A e \in OutboxIds :
          WF_sagaVars(Out!LeaseExpires(e) /\ UNCHANGED <<gateway, inboxSide>>)
    /\ \A t \in Payments : WF_sagaVars(remote[t] = "REFUND_REQUESTED" /\ GatewayChanges(t))
    /\ WF_sagaVars(\E n \in mail : NoticeArrives(n))

-----------------------------------------------------------------------------
(***************************************************************************)
(* Properties                                                              *)
(***************************************************************************)

\* One of the payment's refund requests was refused before the gateway decided on it.
TurnedAway(t) == \E e \in turnedAway : subject[e] = t

\* What the engine says of a payment is true of its money: paid or being refunded
\* means the gateway has received it, REFUNDED that it has gone back, REFUND_FAILED
\* that it stays, unless a request was refused undecided; whatever order notices come
\* in, whichever answers, workers and relays are lost and whatever is replayed
\* (translator.go, the compensation branch of consumeBatch, InternalSystemAdapter).
SagaAgrees ==
    \A t \in Payments :
        /\ transactions[t] \in Settled \cup {"REFUND_PROCESSING", "REFUND_FAILED"} =>
              remote[t] \notin {"PENDING", "OVERDUE"}
        /\ transactions[t] = "REFUNDED" => remote[t] = "REFUNDED"
        /\ transactions[t] = "REFUND_FAILED" => remote[t] = "RECEIVED" \/ TurnedAway(t)

\* The row of an event that is still to be processed, waits for an operator, or is
\* processed again.
Waits(t, target) ==
    \E e \in InboxIds :
        /\ inbox[e] # None /\ inbox[e].status # "COMPLETED"
        /\ payload[e].tx = t /\ payload[e].target = target

\* A gateway that announces the money's arrival and return is never forgotten: whatever
\* crashes, expires, is lost or replayed, as long as a payment has not been told what
\* became of its money there is a notice, a row or a request somewhere that will tell
\* it, and a refund being processed is never without one (ServeHTTP's insert, Phase C
\* of consume and of consumeBatch, the compensation branch).
MoneyIsFollowedUp ==
    {"RECEIVED", "REFUNDED"} \subseteq Announced =>
        \A t \in Payments :
            /\ transactions[t] = Pending /\ remote[t] \notin {"PENDING", "OVERDUE"} =>
                  <<t, "RECEIVED">> \in mail \/ Waits(t, "RECEIVED")
            /\ transactions[t] = "REFUND_PROCESSING" =>
                  \/ \E e \in OutboxIds : subject[e] = t /\ outbox[e].status # "COMPLETED"
                  \/ remote[t] = "REFUND_REQUESTED"
                  \/ <<t, "REFUNDED">> \in mail
                  \/ Waits(t, "REFUNDED") \/ Waits(t, "REFUND_FAILED")

\* In the engine too, where rows come from other components, the inbox and the outbox
\* are the work queues of EventQueue.
ImplementQueues == In!ImplementsQueue /\ Out!ImplementsQueue

\* Where an operator finds a refund that did not end: in a DLQ.
GivenUp(t) ==
    \/ \E e \in InboxIds :
          inbox[e] # None /\ inbox[e].status = "DLQ" /\ payload[e].tx = t
    \/ \E e \in OutboxIds :
          outbox[e] # None /\ outbox[e].status = "DLQ" /\ subject[e] = t

\* A refund the host asked for ends, one way or the other, or an operator finds it,
\* while some process's breaker keeps leaving half-open.
RefundsEnd ==
    (\E r \in Relays : []<>(breaker[r] # "HALF_OPEN")) =>
        \A t \in Payments :
            transactions[t] = "REFUND_PROCESSING" ~>
                transactions[t] \in {"REFUNDED", "REFUND_FAILED"} \/ GivenUp(t)

=============================================================================
