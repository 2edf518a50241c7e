---------------------------- MODULE EngineProofs ----------------------------
(***************************************************************************)
(* Proofs about Engine for any number of pods, schema versions, providers,  *)
(* payments, workers, relays, retries and faults.                          *)
(*                                                                         *)
(* The migrations: a process applies the lowest file above a version that   *)
(* is there, so the versions below it are.  The registry: whoever is past   *)
(* Lock has the mutex, so its copy is still the map.  The refund: nothing   *)
(* says more of a payment than the gateway does.  A payment has one outbox  *)
(* row at most; if that row's money has not gone back, the payment is still *)
(* at the gateway as it was paid, and the gateway's rejection keeps it      *)
(* there.  A request that was refused undecided keeps nothing: turnedAway   *)
(* remembers for which rows there was one.                                 *)
(*                                                                         *)
(* What InboxConsumer and OutboxRelay keep true of themselves is proved     *)
(* with them; here it is taken for the instances the saga makes of them.    *)
(***************************************************************************)
EXTENDS Engine, WellFoundedInduction, TLAPS

IP == INSTANCE InboxConsumerProofs WITH
    Events <- InboxIds, Txs <- Payments, held <- working, outcome <- worked,
    overrun <- inLate

OP == INSTANCE OutboxRelayProofs WITH
    Events <- OutboxIds, Kinds <- {"refund"}, IdsInUse <- {},
    held <- sending, outcome <- sent, overrun <- outLate

\* What InboxConsumer and OutboxRelay keep true of themselves.
InInv == /\ IP!TypeOK /\ IP!ClaimsExist /\ IP!SuccessMeansAccepted /\ IP!CompletedMeansAccepted
         /\ IP!EffectInv /\ IP!LeaseInv
OutInv == OP!Inv /\ OP!LeaseInv

\* The customer has paid; the money is on its way back or there; it never will be.
Paid(t) == remote[t] \notin {"PENDING", "OVERDUE"}
Returned(t) == remote[t] \in {"REFUND_REQUESTED", "REFUNDED"}
Compensated(t) == compensation # None /\ subject[compensation] = t

\* What a status says of payment t is so at the gateway.
Backed(t, status) ==
    /\ status \in Settled \cup {"REFUND_PROCESSING", "REFUND_FAILED"} => Paid(t)
    /\ status = "REFUNDED" => remote[t] = "REFUNDED"
    /\ status = "REFUND_FAILED" =>
          Compensated(t) /\ (remote[t] = "RECEIVED" \/ TurnedAway(t))

SagaTypes ==
    /\ remote \in [Payments -> RemoteStatus]
    /\ mail \subseteq Payments \X RemoteStatus
    /\ subject \in [OutboxIds -> Payments \cup {None}]

\* Neither a notice on its way, nor an event in the inbox, nor a payment says what is
\* not so.
NothingInvented ==
    /\ \A n \in mail : Backed(n[1], MapAsaasStatus(n[2]))
    /\ \A e \in InboxIds : inbox[e] # None => Backed(payload[e].tx, payload[e].target)
    /\ \A t \in Payments : Backed(t, transactions[t])

Asked == {"REFUND_PROCESSING", "REFUNDED", "REFUND_FAILED"}

\* A payment has one outbox row at most, once a refund was asked for, and money goes
\* back for such a row only.
RefundsAreOwed ==
    /\ \A e \in OutboxIds : (outbox[e] = None) <=> (subject[e] = None)
    /\ \A e, f \in OutboxIds : subject[e] # None /\ subject[e] = subject[f] => e = f
    /\ \A e \in OutboxIds : subject[e] # None => transactions[subject[e]] \in Asked
    /\ \A t \in Payments :
          Returned(t) => \E e \in OutboxIds : subject[e] = t /\ refunds[e] > 0

\* The inbox has a row that tells payment t of a status.
Told(t, status) ==
    \E e \in InboxIds : inbox[e] # None /\ payload[e].tx = t /\ payload[e].target = status

\* The notice of a change is on its way or in the inbox.
Noted(t, status) == <<t, status>> \in mail \/ Told(t, status)

\* What happened to a payment's money is told, every refund the host asked for has a
\* row, and what its request did shows at the gateway.
PaidNoted ==
    "RECEIVED" \in Announced => \A t \in Payments : Paid(t) => Noted(t, "RECEIVED")
ReturnNoted ==
    "REFUNDED" \in Announced =>
        \A t \in Payments : remote[t] = "REFUNDED" => Noted(t, "REFUNDED")
CompensationTold ==
    \A e \in OutboxIds :
        compensation = e => \E t \in Payments : subject[e] = t /\ Told(t, "REFUND_FAILED")
RefundsHaveRows ==
    \A t \in Payments : transactions[t] \in Asked => \E e \in OutboxIds : subject[e] = t
RequestsShow ==
    \A e \in OutboxIds :
        refunds[e] > 0 => \E t \in Payments : subject[e] = t /\ Returned(t)

FollowedUp ==
    PaidNoted /\ ReturnNoted /\ CompensationTold /\ RefundsHaveRows /\ RequestsShow

SagaInv == SagaTypes /\ InInv /\ OutInv /\ NothingInvented /\ RefundsAreOwed /\ FollowedUp

-----------------------------------------------------------------------------
(* The engine as its parts see it.                                          *)

LEMMA InAssumptions ==
    /\ MaxRetries \in Nat
    /\ InboxIds \subseteq Nat
    /\ Payloads \subseteq
          [kind : {"good", "live", "malformed", "nil"}, tx : Payments, target : IP!Status]
    /\ BatchSize \in Nat \ {0}
    /\ MaxFaults \in Nat
    /\ None \notin IP!EventRow /\ None \notin IP!Outcome
  <1>1. ASSUME NEW s \in RemoteStatus PROVE MapAsaasStatus(s) \in IP!Status
    BY DEF MapAsaasStatus, RemoteStatus, Pending, IP!Status, IP!Settled, IP!Pending
  <1>2. ASSUME NEW t \in Payments, NEW s \in RemoteStatus
        PROVE  FromGateway(t, s) \in
                   [kind : {"good", "live", "malformed", "nil"}, tx : Payments, target : IP!Status]
    BY <1>1 DEF FromGateway
  <1>3. ASSUME NEW t \in Payments
        PROVE  FromEngine(t) \in
                   [kind : {"good", "live", "malformed", "nil"}, tx : Payments, target : IP!Status]
    BY DEF FromEngine, IP!Status, IP!Settled, IP!Pending
  <1>4. None \notin IP!EventRow /\ None \notin IP!Outcome
    BY SagaConstants
    DEF In!EventRow, IP!EventRow, In!RowStatus, IP!RowStatus, In!Retries, IP!Retries,
        In!Outcome, IP!Outcome, In!Claim, IP!Claim
  <1> QED
    BY <1>2, <1>3, <1>4, SagaConstants DEF Payloads

LEMMA OutAssumptions ==
    /\ MaxRetries \in Nat
    /\ OutboxIds \subseteq Nat
    /\ {"refund"} \subseteq {"refund", "notice", "unroutable"}
    /\ {} \subseteq OutboxIds
    /\ BatchSize \in Nat \ {0}
    /\ MaxFaults \in Nat
    /\ None \notin OP!EventRow /\ None \notin OP!Outcome /\ None \notin OutboxIds
  BY SagaConstants
  DEF Out!EventRow, OP!EventRow, Out!RowStatus, OP!RowStatus, Out!Retries, OP!Retries,
      Out!Outcome, OP!Outcome, Out!Claim, OP!Claim, Out!Results, OP!Results

\* What the saga's events ask for is in them.
LEMMA ReadAsSent ==
    \A p \in Payloads : p.kind = "good" /\ In!Reads(p) = {p.target}
  BY DEF Payloads, FromGateway, FromEngine, In!Reads

LEMMA InNext == ASSUME In!Next PROVE IP!Next
  BY DEF In!vars, IP!vars, In!histories, IP!histories, In!workers, IP!workers, In!Claim,
      IP!Claim, In!Outcome, IP!Outcome, In!Arrived, IP!Arrived, In!Idle, IP!Idle,
      In!Holds, IP!Holds, In!Oldest, IP!Oldest, In!Fault, IP!Fault, In!Ingest,
      IP!Ingest, In!ClaimInboxEvents, IP!ClaimInboxEvents, In!Processed, IP!Processed,
      In!LiveStatus, IP!LiveStatus, In!Reads, IP!Reads, In!Legal, IP!Legal,
       In!Transition, IP!Transition, In!Accept, IP!Accept, In!Refuse,
      IP!Refuse, In!ServiceError, IP!ServiceError, In!Panic, IP!Panic, In!Verdict,
      IP!Verdict, In!Finalise, IP!Finalise, In!MarkInboxCompleted,
      IP!MarkInboxCompleted, In!MarkInboxFailed, IP!MarkInboxFailed, In!MoveInboxToDLQ,
      IP!MoveInboxToDLQ, In!FinaliseError, IP!FinaliseError, In!Crash, IP!Crash,
      In!LeaseExpires, IP!LeaseExpires, In!ReplayInboxDLQ, IP!ReplayInboxDLQ,
      In!HostRefund, IP!HostRefund, In!Process, IP!Process, In!PhaseC, IP!PhaseC,
      In!Next, IP!Next, In!Cardinality, IP!Cardinality, In!Retries, IP!Retries,
      In!RowStatus, IP!RowStatus, In!EventRow, IP!EventRow, In!OneMore, IP!OneMore,
      In!Fresh, IP!Fresh, In!Claimable, IP!Claimable, In!Claimed, IP!Claimed,
      In!Completed, IP!Completed, In!Failed, IP!Failed, In!Dead, IP!Dead, In!Replayed,
      IP!Replayed, In!Pending, IP!Pending, In!Settled, IP!Settled, In!Status, IP!Status,
      In!Successors, IP!Successors, In!Evaluate, IP!Evaluate

LEMMA OutNext == ASSUME Out!Next PROVE OP!Next
  BY DEF Out!vars, OP!vars, Out!gateway, OP!gateway, Out!stops, OP!stops, Out!relays,
      OP!relays, Out!histories, OP!histories, Out!Claim, OP!Claim, Out!Results,
      OP!Results, Out!Outcome, OP!Outcome, Out!Arrived, OP!Arrived, Out!Holds, OP!Holds,
      Out!BetweenBatches, OP!BetweenBatches, Out!Oldest, OP!Oldest, Out!Cancelled,
      OP!Cancelled, Out!Fault, OP!Fault, Out!Fails, OP!Fails, Out!Publish, OP!Publish,
      Out!Due, OP!Due, Out!Allowed, OP!Allowed, Out!Batch, OP!Batch, Out!ClaimRows,
      OP!ClaimRows, Out!ClaimOutboxEvents, OP!ClaimOutboxEvents, Out!NothingToClaim,
      OP!NothingToClaim, Out!ClaimError, OP!ClaimError, Out!Sent, OP!Sent,
      Out!AbortBatch, OP!AbortBatch, Out!RecordResult, OP!RecordResult, Out!Key, OP!Key,
      Out!GatewayDecides, OP!GatewayDecides, Out!Answers, OP!Answers,
      Out!Undecided, OP!Undecided, Out!InboxTakes, OP!InboxTakes,
      Out!RefundTransaction, OP!RefundTransaction, Out!PublishNotice, OP!PublishNotice,
      Out!GatewayMissing, OP!GatewayMissing, Out!Absorbed, OP!Absorbed, Out!Terminal,
      OP!Terminal, Out!SaveCompensation, OP!SaveCompensation, Out!Verdict, OP!Verdict,
      Out!Finalise, OP!Finalise, Out!MarkOutboxCompleted, OP!MarkOutboxCompleted,
      Out!MarkOutboxFailed, OP!MarkOutboxFailed, Out!MoveOutboxToDLQ,
      OP!MoveOutboxToDLQ, Out!FinaliseError, OP!FinaliseError, Out!NewProcess,
      OP!NewProcess, Out!Crash, OP!Crash, Out!Shutdown, OP!Shutdown, Out!Ready,
      OP!Ready, Out!Return, OP!Return, Out!LeaseExpires, OP!LeaseExpires, Out!Ages,
      OP!Ages, Out!ReplayOutboxDLQ, OP!ReplayOutboxDLQ, Out!Claims, OP!Claims,
      Out!Sends, OP!Sends, Out!PhaseC, OP!PhaseC, Out!Next, OP!Next, Out!Cardinality,
      OP!Cardinality, Out!Retries, OP!Retries, Out!RowStatus, OP!RowStatus,
      Out!EventRow, OP!EventRow, Out!OneMore, OP!OneMore, Out!Fresh, OP!Fresh,
      Out!Claimable, OP!Claimable, Out!Claimed, OP!Claimed, Out!Completed, OP!Completed,
      Out!Failed, OP!Failed, Out!Dead, OP!Dead, Out!Replayed, OP!Replayed

LEMMA InKept == ASSUME InInv, [In!Next]_In!vars PROVE InInv'
  <1>1. [IP!Next]_IP!vars
    BY InNext DEF In!vars, IP!vars
  <1> QED
    BY <1>1, InAssumptions, IP!NextInv, IP!NextEffectInv, IP!NextLeaseInv
    DEF InInv, IP!Inv, IP!NextInv, IP!NextEffectInv, IP!NextLeaseInv

LEMMA OutKept == ASSUME OutInv, [Out!Next]_Out!vars PROVE OutInv'
  <1>1. [OP!Next]_OP!vars
    BY OutNext DEF Out!vars, OP!vars
  <1> QED
    BY <1>1, OutAssumptions, OP!NextInv, OP!NextLeaseInv
    DEF OutInv, OP!Inv, OP!NextInv, OP!NextLeaseInv

\* One side rests while faults are counted on the other.
LEMMA InRests == ASSUME InInv, UNCHANGED inboxSide, faults' \in 0 .. MaxFaults PROVE InInv'
  <1>1. /\ UNCHANGED <<inbox, payload, transactions, working, worked>>
        /\ UNCHANGED <<inLate, attempts, accepted, effects>>
    BY DEF inboxSide
  <1>2. IP!TypeOK' /\ IP!ClaimsExist'
    BY <1>1 DEF InInv, IP!TypeOK, IP!ClaimsExist, IP!Claims
  <1>3. IP!SuccessMeansAccepted' /\ IP!CompletedMeansAccepted' /\ IP!EffectInv'
    BY <1>1 DEF InInv, IP!SuccessMeansAccepted, IP!CompletedMeansAccepted, IP!Arrived,
                IP!EffectInv, IP!EffectOnce, IP!Passed, IP!ChangesAccepted, IP!LiveChanges
  <1>4. IP!LeaseInv'
    BY <1>1 DEF InInv, IP!LeaseInv, IP!ProcessedOnce, IP!LeaseKept, IP!Exact, IP!Exclusive,
                IP!RetriesCountAttempts, IP!Claims
  <1> QED
    BY <1>2, <1>3, <1>4 DEF InInv

LEMMA OutRests == ASSUME OutInv, UNCHANGED outboxSide, faults' \in 0 .. MaxFaults PROVE OutInv'
  <1> USE DEF OutInv, outboxSide
  <1>1. OP!Inv'
    BY DEF OP!Inv, OP!TypeOK, OP!ClaimsExist, OP!Holds, OP!Money,
           OP!GatewayMemory, OP!OutcomesTrue, OP!CompensationTrue, OP!Remembered, OP!Decided, OP!Refused,
           OP!CompletedMeansHandled, OP!Arrived, OP!Handled
  <1>2. OP!LeaseInv'
    BY DEF OP!LeaseInv, OP!HeldOnce, OP!LeaseKept, OP!Exact, OP!Exclusive, OP!Holds
  <1> QED
    BY <1>1, <1>2

\* A new row changes nothing for the workers and their claims.
LEMMA InsertKept ==
    ASSUME InInv, NEW p \in Payloads, Insert(p), faults' \in 0 .. MaxFaults
    PROVE  /\ InInv'
           /\ \E e \in InboxIds : /\ inbox[e] = None /\ inbox'[e] = In!Fresh /\ In!Fresh # None
                                  /\ payload' = [payload EXCEPT ![e] = p]
                                  /\ \A f \in InboxIds : f # e => inbox'[f] = inbox[f]
           /\ UNCHANGED <<transactions, accepted, inLate>>
  <1>1. PICK e \in InboxIds :
          /\ inbox[e] = None
          /\ inbox' = [inbox EXCEPT ![e] = In!Fresh]
          /\ payload' = [payload EXCEPT ![e] = p]
          /\ UNCHANGED <<transactions, working, worked, inLate, attempts, accepted, effects>>
    BY DEF Insert
  <1>2. In!Fresh \in IP!EventRow /\ In!Fresh # None
    <2>1. In!Fresh \in IP!EventRow
      BY SagaConstants DEF In!Fresh, IP!EventRow, IP!RowStatus, IP!Retries
    <2> QED
      BY <2>1, InAssumptions
  <1>3. IP!TypeOK'
    BY <1>1, <1>2 DEF InInv, IP!TypeOK
  <1>4. ASSUME NEW w \in Workers
        PROVE  /\ IP!Claims(w)' = IP!Claims(w)
               /\ \A c \in IP!Claims(w) : c.id \in InboxIds /\ c.id # e
    <2>1. IP!Claims(w)' = IP!Claims(w)
      BY <1>1 DEF IP!Claims
    <2>2. ASSUME NEW c \in IP!Claims(w) PROVE c.id \in InboxIds /\ c.id # e
      <3>1. inbox[c.id] # None
        BY DEF InInv, IP!ClaimsExist
      <3>2. c.id \in InboxIds
        BY InAssumptions, IP!ClaimIds DEF IP!ClaimIds, InInv
      <3> QED
        BY <1>1, <3>1, <3>2
    <2> QED
      BY <2>1, <2>2
  <1>5. /\ inbox'[e] = In!Fresh
        /\ \A f \in InboxIds : f # e => inbox'[f] = inbox[f] /\ payload'[f] = payload[f]
    BY <1>1 DEF InInv, IP!TypeOK
  <1>6. IP!ClaimsExist'
    BY <1>4, <1>5 DEF InInv, IP!ClaimsExist
  <1>7. e \notin accepted /\ accepted \subseteq InboxIds
    BY <1>1 DEF InInv, IP!TypeOK, IP!EffectInv, IP!Passed
  <1>8. IP!SuccessMeansAccepted' /\ IP!CompletedMeansAccepted'
    <2>1. In!Fresh.status = "PENDING"
      BY DEF In!Fresh
    <2> QED
      BY <1>1, <1>5, <2>1
      DEF InInv, IP!SuccessMeansAccepted, IP!CompletedMeansAccepted, IP!Arrived
  <1>9. IP!EffectInv'
    <2>1. IP!Passed'
      BY <1>1, <1>5, <1>7 DEF InInv, IP!EffectInv, IP!Passed
    <2>2. payload'[e].kind = "good"
      BY <1>1, ReadAsSent DEF InInv, IP!TypeOK
    <2>3. effects[e] = 0
      BY <1>7 DEF InInv, IP!TypeOK, IP!EffectInv, IP!ChangesAccepted
    <2>4. IP!EffectOnce' /\ IP!LiveChanges'
      BY <1>1, <1>5, <2>2, <2>3 DEF InInv, IP!EffectInv, IP!EffectOnce, IP!LiveChanges
    <2>5. IP!ChangesAccepted'
      BY <1>1 DEF InInv, IP!EffectInv, IP!ChangesAccepted
    <2> QED
      BY <2>1, <2>4, <2>5 DEF IP!EffectInv
  <1>10. IP!LeaseInv'
    <2>1. IP!ProcessedOnce'
      BY <1>1 DEF InInv, IP!LeaseInv, IP!ProcessedOnce
    <2>2. ASSUME ~inLate PROVE IP!Exact' /\ IP!Exclusive'
      BY <1>4, <1>5, <2>2 DEF InInv, IP!LeaseInv, IP!LeaseKept, IP!Exact, IP!Exclusive
    <2>3. ASSUME ~inLate PROVE IP!RetriesCountAttempts'
      <3>1. attempts[e] = 0
        BY <1>1, <2>3 DEF InInv, IP!LeaseInv, IP!LeaseKept, IP!RetriesCountAttempts, IP!Counted
      <3>2. IP!Counted(In!Fresh, 0)
        BY <1>2 DEF IP!Counted, In!Fresh
      <3> QED
        BY <1>1, <1>5, <2>3, <3>1, <3>2
        DEF InInv, IP!LeaseInv, IP!LeaseKept, IP!RetriesCountAttempts
    <2> QED
      BY <1>1, <2>1, <2>2, <2>3 DEF IP!LeaseInv, IP!LeaseKept
  <1> QED
    BY <1>1, <1>2, <1>3, <1>5, <1>6, <1>8, <1>9, <1>10 DEF InInv

-----------------------------------------------------------------------------
(* What the inbox's side does to payments.                                  *)

\* Rows and payloads are the inserting steps' alone.
LEMMA InRows ==
    ASSUME InInv, InboxStep \/ \E t \in Payments : In!HostRefund(t)
    PROVE  /\ payload' = payload
           /\ \A e \in InboxIds : inbox'[e] # None => inbox[e] # None
  <1>1. ASSUME NEW w \in Workers, In!PhaseC(w)
        PROVE  \A e \in InboxIds : inbox'[e] # None => inbox[e] # None
    <2>1. worked[w] # None /\ worked[w].claim \in IP!Claims(w)
      BY <1>1 DEF In!PhaseC, In!MarkInboxCompleted, In!MarkInboxFailed, In!MoveInboxToDLQ,
                  In!Finalise, IP!Claims
    <2>2. inbox[worked[w].claim.id] # None
      BY <2>1 DEF InInv, IP!ClaimsExist
    <2>3. \A e \in InboxIds : e # worked[w].claim.id => inbox'[e] = inbox[e]
      BY <1>1 DEF In!PhaseC, In!MarkInboxCompleted, In!MarkInboxFailed, In!MoveInboxToDLQ,
                  In!Finalise, InInv, IP!TypeOK
    <2> QED
      BY <2>2, <2>3
  <1>2. ASSUME NEW e \in InboxIds, In!LeaseExpires(e) \/ In!ReplayInboxDLQ(e)
        PROVE  \A f \in InboxIds : inbox'[f] # None => inbox[f] # None
    BY <1>2 DEF In!LeaseExpires, In!ReplayInboxDLQ, In!Arrived, InInv, IP!TypeOK
  <1>3. ASSUME NEW w \in Workers, In!ClaimInboxEvents(w)
        PROVE  \A e \in InboxIds : inbox'[e] # None => inbox[e] # None
    BY <1>3 DEF In!ClaimInboxEvents, In!Oldest, In!Arrived
  <1>4. ASSUME NEW w \in Workers,
               \/ In!Process(w) \/ In!FinaliseError(w) \/ In!Crash(w)
               \/ \E c \in working[w] : In!ServiceError(w, c)
        PROVE  inbox' = inbox
    BY <1>4 DEF In!Process, In!Accept, In!Refuse, In!Panic, In!FinaliseError, In!Crash,
                In!ServiceError
  <1>5. ASSUME NEW t \in Payments, In!HostRefund(t) PROVE inbox' = inbox
    BY <1>5 DEF In!HostRefund
  <1>6. \A e \in InboxIds : inbox'[e] # None => inbox[e] # None
    BY <1>1, <1>2, <1>3, <1>4, <1>5 DEF InboxStep
  <1>7. payload' = payload
    BY DEF InboxStep, In!LeaseExpires, In!ReplayInboxDLQ, In!ClaimInboxEvents, In!Process,
           In!Accept, In!Refuse, In!Panic, In!PhaseC, In!MarkInboxCompleted,
           In!MarkInboxFailed, In!MoveInboxToDLQ, In!Finalise, In!FinaliseError, In!Crash,
           In!ServiceError, In!HostRefund
  <1> QED
    BY <1>6, <1>7

\* A payment moves because of an event that has a row, and as the policies let it.
LEMMA InMoves ==
    ASSUME InInv, InboxStep
    PROVE  \/ transactions' = transactions
           \/ \E e \in InboxIds :
                 /\ inbox[e] # None
                 /\ In!Evaluate(transactions[payload[e].tx], payload[e].target)
                 /\ transactions' =
                       [transactions EXCEPT ![payload[e].tx] = payload[e].target]
  <1>1. ASSUME NEW w \in Workers, NEW c \in working[w], In!Transition(c.id, payload[c.id])
        PROVE  \E e \in InboxIds :
                  /\ inbox[e] # None
                  /\ In!Evaluate(transactions[payload[e].tx], payload[e].target)
                  /\ transactions' =
                        [transactions EXCEPT ![payload[e].tx] = payload[e].target]
    <2>1. c \in IP!Claims(w)
      BY DEF IP!Claims
    <2>2. c.id \in InboxIds /\ inbox[c.id] # None
      BY <2>1, InAssumptions, IP!ClaimIds DEF IP!ClaimIds, InInv, IP!ClaimsExist
    <2>3. In!Reads(payload[c.id]) = {payload[c.id].target}
      BY <2>2, ReadAsSent DEF InInv, IP!TypeOK
    <2> QED
      BY <1>1, <2>2, <2>3 DEF In!Transition, In!Legal
  <1>2. ASSUME NEW w \in Workers,
               \/ In!ClaimInboxEvents(w) \/ In!PhaseC(w) \/ In!FinaliseError(w) \/ In!Crash(w)
        PROVE  transactions' = transactions
    BY <1>2 DEF In!ClaimInboxEvents, In!PhaseC, In!MarkInboxCompleted, In!MarkInboxFailed,
                In!MoveInboxToDLQ, In!Finalise, In!FinaliseError, In!Crash
  <1>3. ASSUME NEW e \in InboxIds, In!LeaseExpires(e) \/ In!ReplayInboxDLQ(e)
        PROVE  transactions' = transactions
    BY <1>3 DEF In!LeaseExpires, In!ReplayInboxDLQ
  <1>4. ASSUME NEW w \in Workers, NEW c \in working[w],
               In!Accept(w, c) \/ In!Refuse(w, c) \/ In!Panic(w, c) \/ In!ServiceError(w, c)
        PROVE  transactions' = transactions \/ In!Transition(c.id, payload[c.id])
    BY <1>4 DEF In!Accept, In!Refuse, In!Panic, In!ServiceError
  <1> QED
    BY <1>1, <1>2, <1>3, <1>4 DEF InboxStep, In!Process

-----------------------------------------------------------------------------
(* What the outbox's side does to refunds.                                  *)

\* Rows are the publishing step's alone, money RefundRequest's and Compensate's.
LEMMA OutRows ==
    ASSUME OutInv, OutboxStep
    PROVE  /\ \A e \in OutboxIds : (outbox'[e] = None) <=> (outbox[e] = None)
           /\ UNCHANGED <<refunds, compensation, turnedAway>>
  <1>1. Out!Next
    BY DEF OutboxStep, Out!Next, Out!Sends
  <1>2. \A e \in OutboxIds : outbox[e] # None => outbox'[e] # None
    <2>1. [OP!Next]_OP!vars
      BY <1>1, OutNext
    <2> QED
      BY <2>1, OutAssumptions, OP!RowsRemain DEF OP!RowsRemain, OutInv, OP!Inv
  <1>3. ASSUME NEW e \in OutboxIds, Out!LeaseExpires(e) \/ Out!ReplayOutboxDLQ(e)
        PROVE  /\ \A f \in OutboxIds : outbox'[f] # None => outbox[f] # None
               /\ UNCHANGED <<refunds, compensation, turnedAway>>
    BY <1>3 DEF Out!LeaseExpires, Out!ReplayOutboxDLQ, Out!Arrived, Out!gateway, Out!histories, OutInv, OP!Inv,
                OP!TypeOK
  <1>4. ASSUME NEW limit, Out!ClaimRows(Out!Batch(limit))
        PROVE  \A f \in OutboxIds : outbox'[f] # None => outbox[f] # None
    BY <1>4 DEF Out!ClaimRows, Out!Batch, Out!Oldest, Out!Arrived
  <1>5. ASSUME NEW r \in Relays, Out!Claims(r) \/ Out!ClaimError(r)
        PROVE  /\ \A f \in OutboxIds : outbox'[f] # None => outbox[f] # None
               /\ UNCHANGED <<refunds, compensation, turnedAway>>
    BY <1>4, <1>5
    DEF Out!Claims, Out!ClaimOutboxEvents, Out!NothingToClaim, Out!ClaimError, Out!Return,
        Out!NewProcess, Out!gateway, Out!histories
  <1>6. ASSUME NEW r \in Relays, Out!AbortBatch(r) \/ Out!FinaliseError(r) \/ Out!Crash(r)
        PROVE  UNCHANGED <<outbox, refunds, compensation, turnedAway>>
    BY <1>6 DEF Out!AbortBatch, Out!FinaliseError, Out!Crash, Out!NewProcess, Out!gateway, Out!histories
  <1>7. ASSUME NEW r \in Relays,
               Out!MarkOutboxCompleted(r) \/ Out!MarkOutboxFailed(r) \/ Out!MoveOutboxToDLQ(r)
        PROVE  /\ \A f \in OutboxIds : outbox'[f] # None => outbox[f] # None
               /\ UNCHANGED <<refunds, compensation, turnedAway>>
    <2>1. sent[r] # None /\ sent[r].claim.id \in OP!Holds(r)
      BY <1>7 DEF Out!MarkOutboxCompleted, Out!MarkOutboxFailed, Out!MoveOutboxToDLQ,
                  Out!Finalise, OP!Holds
    <2>2. outbox[sent[r].claim.id] # None
      BY <2>1 DEF OutInv, OP!Inv, OP!ClaimsExist
    <2>3. /\ \A f \in OutboxIds : f # sent[r].claim.id => outbox'[f] = outbox[f]
          /\ UNCHANGED <<refunds, compensation, turnedAway>>
      BY <1>7 DEF Out!MarkOutboxCompleted, Out!MarkOutboxFailed, Out!MoveOutboxToDLQ,
                  Out!Finalise, Out!gateway, Out!histories, OutInv, OP!Inv, OP!TypeOK
    <2> QED
      BY <2>2, <2>3
  <1> QED
    BY <1>2, <1>3, <1>5, <1>6, <1>7 DEF OutboxStep, Out!PhaseC
-----------------------------------------------------------------------------
(* Steps of the saga.                                                       *)

\* Where the money is does not change, or only onwards.
Onwards(t) ==
    /\ Paid(t) => Paid(t)'
    /\ remote[t] = "REFUNDED" => remote'[t] = "REFUNDED"
    /\ Compensated(t) => Compensated(t)'
    /\ TurnedAway(t) => TurnedAway(t)'
    /\ remote[t] = "RECEIVED" /\ Compensated(t) =>
          remote'[t] = "RECEIVED" \/ TurnedAway(t)'

\* Rows keep their payments and their refused requests.
LEMMA StaysTurnedAway ==
    ASSUME turnedAway \subseteq turnedAway',
           \A e \in turnedAway : subject[e] \in Payments => subject'[e] = subject[e]
    PROVE  \A t \in Payments : TurnedAway(t) => TurnedAway(t)'
  BY DEF TurnedAway

LEMMA StaysBacked ==
    ASSUME \A t \in Payments : Onwards(t)
    PROVE  \A t \in Payments : \A status : Backed(t, status) => Backed(t, status)'
  BY DEF Onwards, Backed

LEMMA SameMoney ==
    ASSUME NEW t \in Payments, remote'[t] = remote[t], Compensated(t) => Compensated(t)',
           TurnedAway(t) => TurnedAway(t)'
    PROVE  Onwards(t)
  BY DEF Onwards, Paid

\* What was told stays told when rows stay and gain nothing but new ones.
RowsStay ==
    \A e \in InboxIds :
        inbox[e] # None => inbox'[e] # None /\ payload'[e] = payload[e]

LEMMA StaysTold ==
    ASSUME RowsStay
    PROVE  \A t, status : Told(t, status) => Told(t, status)'
  BY DEF RowsStay, Told

\* A step that neither moves money nor asks for a refund, and drops no notice.
LEMMA StaysFollowed ==
    ASSUME FollowedUp, RowsStay, mail \subseteq mail',
           UNCHANGED <<remote, subject, refunds, compensation>>,
           \A t \in Payments : transactions'[t] \in Asked => transactions[t] \in Asked
    PROVE  FollowedUp'
  <1>1. \A t, status : Noted(t, status) => Noted(t, status)'
    BY StaysTold DEF Noted
  <1>2. PaidNoted' /\ ReturnNoted'
    BY <1>1 DEF FollowedUp, PaidNoted, ReturnNoted, Paid
  <1>3. CompensationTold' /\ RequestsShow' /\ RefundsHaveRows'
    BY StaysTold DEF FollowedUp, CompensationTold, RequestsShow, RefundsHaveRows, Returned
  <1> QED
    BY <1>2, <1>3 DEF FollowedUp

LEMMA Targets ==
    ASSUME SagaInv
    PROVE  /\ \A n \in mail : n[1] \in Payments
           /\ \A e \in InboxIds : payload[e].tx \in Payments /\ payload[e].target \in IP!Status
           /\ faults \in 0 .. MaxFaults
  BY InAssumptions DEF SagaInv, SagaTypes, InInv, IP!TypeOK

\* External: a payment at the gateway changes.
LEMMA GatewayChangesInv ==
    ASSUME SagaInv, NEW t \in Payments, GatewayChanges(t)
    PROVE  SagaInv'
  <1>1. PICK s \in {"OVERDUE", "RECEIVED", "REFUNDED"} :
           /\ Moves(t, s)
           /\ \/ s = "OVERDUE" /\ remote[t] = "PENDING"
              \/ s = "RECEIVED" /\ remote[t] \in {"PENDING", "OVERDUE"}
              \/ s = "REFUNDED" /\ remote[t] = "REFUND_REQUESTED"
    BY DEF GatewayChanges
  <1>2. /\ UNCHANGED <<subject, inboxSide, outboxSide, faults>>
        /\ remote \in [Payments -> RemoteStatus]
    BY DEF GatewayChanges, SagaInv, SagaTypes
  <1>3. /\ remote'[t] = s
        /\ \A u \in Payments : u # t => remote'[u] = remote[u]
        /\ mail' \subseteq mail \cup {<<t, s>>}
    BY <1>1, <1>2 DEF Moves
  <1>4. SagaTypes'
    <2>1. s \in RemoteStatus
      BY DEF RemoteStatus
    <2> QED
      BY <1>1, <1>2, <1>3, <2>1 DEF Moves, SagaInv, SagaTypes
  <1>5. InInv' /\ OutInv'
    BY <1>2, Targets, InRests, OutRests DEF SagaInv
  <1>6. \A u \in Payments : Onwards(u)
    BY <1>1, <1>2, <1>3 DEF Onwards, Paid, Compensated, TurnedAway, outboxSide
  <1>7. NothingInvented'
    <2>1. Backed(t, MapAsaasStatus(s))'
      BY <1>1, <1>3 DEF Backed, MapAsaasStatus, Paid, Settled, Pending
    <2> QED
      BY <1>2, <1>3, <1>6, <2>1, StaysBacked, Targets DEF SagaInv, NothingInvented, inboxSide
  <1>8. RefundsAreOwed'
    <2>1. \A u \in Payments : Returned(u)' => Returned(u)
      BY <1>1, <1>3 DEF Returned
    <2> QED
      BY <1>2, <2>1 DEF SagaInv, RefundsAreOwed, inboxSide, outboxSide
  <1>9. FollowedUp'
    <2>1. /\ UNCHANGED <<inbox, payload, transactions, refunds, compensation, subject>>
          /\ RowsStay
      BY <1>2 DEF inboxSide, outboxSide, RowsStay
    <2>2. mail \subseteq mail' /\ (s \in Announced => <<t, s>> \in mail')
      BY <1>1 DEF Moves
    <2>3. \A u, status : Noted(u, status) => Noted(u, status)'
      BY <2>1, <2>2, StaysTold DEF Noted
    <2>4. s \in Announced => Noted(t, s)'
      BY <2>2 DEF Noted
    <2>5. PaidNoted'
      <3>1. \A u \in Payments : u # t /\ Paid(u)' => Paid(u)
        BY <1>3 DEF Paid
      <3>2. Paid(t)' => s = "RECEIVED" \/ Paid(t)
        BY <1>1, <1>3 DEF Paid
      <3> QED
        BY <2>3, <2>4, <3>1, <3>2 DEF SagaInv, FollowedUp, PaidNoted
    <2>6. ReturnNoted'
      BY <1>3, <2>3, <2>4 DEF SagaInv, FollowedUp, ReturnNoted
    <2>7. \A u \in Payments : Returned(u) => Returned(u)'
      BY <1>1, <1>3 DEF Returned
    <2>8. RequestsShow' /\ CompensationTold' /\ RefundsHaveRows'
      BY <2>1, <2>7, StaysTold
      DEF SagaInv, FollowedUp, RequestsShow, CompensationTold, RefundsHaveRows
    <2> QED
      BY <2>5, <2>6, <2>8 DEF FollowedUp
  <1> QED
    BY <1>4, <1>5, <1>7, <1>8, <1>9 DEF SagaInv

\* A notice reaches the inbox.
LEMMA NoticeArrivesInv ==
    ASSUME SagaInv, NEW n \in mail, NoticeArrives(n)
    PROVE  SagaInv'
  <1> DEFINE p == FromGateway(n[1], n[2])
  <1>1. Insert(p) /\ mail' \subseteq mail /\ UNCHANGED <<remote, subject, outboxSide, faults>>
    BY DEF NoticeArrives
  <1>2. p \in Payloads
    BY DEF SagaInv, SagaTypes, Payloads
  <1>3. SagaTypes' /\ OutInv'
    BY <1>1, Targets, OutRests DEF SagaInv, SagaTypes
  <1>4. InInv' /\ transactions' = transactions
    BY <1>1, <1>2, Targets, InsertKept DEF SagaInv
  <1>5. PICK e \in InboxIds : /\ inbox[e] = None /\ inbox'[e] # None
                              /\ payload' = [payload EXCEPT ![e] = p]
                              /\ \A f \in InboxIds : f # e => inbox'[f] = inbox[f]
    <2> HIDE DEF p
    <2> QED
      BY <1>1, <1>2, Targets, InsertKept DEF SagaInv
  <1>6. \A t \in Payments : Onwards(t)
    BY <1>1, SameMoney DEF Compensated, TurnedAway, outboxSide
  <1>7. NothingInvented'
    <2>1. p.tx \in Payments /\ Backed(p.tx, p.target)
      BY Targets DEF FromGateway, SagaInv, NothingInvented
    <2>2. payload'[e] = p /\ \A f \in InboxIds : f # e => payload'[f] = payload[f]
      BY <1>5 DEF SagaInv, InInv, IP!TypeOK
    <2> QED
      BY <1>1, <1>4, <1>5, <1>6, <2>1, <2>2, StaysBacked, Targets DEF SagaInv, NothingInvented
  <1>8. RefundsAreOwed'
    BY <1>1, <1>4 DEF SagaInv, RefundsAreOwed, Returned, outboxSide
  <1>9. FollowedUp'
    <2>1. /\ payload'[e] = p
          /\ \A f \in InboxIds : f # e => payload'[f] = payload[f]
      BY <1>5 DEF SagaInv, InInv, IP!TypeOK
    <2>2. RowsStay
      BY <1>5, <2>1 DEF RowsStay
    <2>3. n = <<n[1], n[2]>> /\ mail' = mail \ {n}
      BY DEF NoticeArrives, SagaInv, SagaTypes
    <2>4. Told(n[1], MapAsaasStatus(n[2]))'
      BY <1>5, <2>1 DEF Told, FromGateway
    <2>5. \A t : \A status \in {"RECEIVED", "REFUNDED"} : Noted(t, status) => Noted(t, status)'
      <3>1. MapAsaasStatus("RECEIVED") = "RECEIVED" /\ MapAsaasStatus("REFUNDED") = "REFUNDED"
        BY DEF MapAsaasStatus
      <3>2. ASSUME NEW t, NEW status \in {"RECEIVED", "REFUNDED"}, <<t, status>> = n
            PROVE  Told(t, status)'
        <4>1. n[1] = t /\ n[2] = status
          BY <3>2
        <4> QED
          BY <2>4, <3>1, <4>1
      <3> QED
        BY <2>2, <2>3, <3>2, StaysTold DEF Noted
    <2>6. UNCHANGED <<refunds, compensation>>
      BY <1>1 DEF outboxSide
    <2> QED
      <3>1. PaidNoted' /\ ReturnNoted'
        BY <1>1, <2>5 DEF SagaInv, FollowedUp, PaidNoted, ReturnNoted, Paid
      <3>2. CompensationTold' /\ RequestsShow' /\ RefundsHaveRows'
        BY <1>1, <1>4, <2>2, <2>6, StaysTold
        DEF SagaInv, FollowedUp, CompensationTold, RequestsShow, RefundsHaveRows, Returned
      <3> QED
        BY <3>1, <3>2 DEF FollowedUp
  <1> QED
    BY <1>3, <1>4, <1>7, <1>8, <1>9 DEF SagaInv

\* The host asks for a refund: the payment's first and only outbox row.
LEMMA HostRefundInv ==
    ASSUME SagaInv, NEW t \in Payments, HostRefund(t)
    PROVE  SagaInv'
  <1>1. PICK e \in OutboxIds : Out!Publish(e) /\ subject' = [subject EXCEPT ![e] = t]
    BY DEF HostRefund
  <1>2. In!HostRefund(t) /\ UNCHANGED <<remote, mail>>
    BY DEF HostRefund
  <1>3. /\ transactions[t] \in Settled
        /\ transactions' = [transactions EXCEPT ![t] = "REFUND_PROCESSING"]
        /\ UNCHANGED <<inbox, payload, faults>>
    BY <1>2 DEF In!HostRefund, In!Settled, Settled
  <1>4. /\ outbox[e] = None /\ outbox' = [outbox EXCEPT ![e] = Out!Fresh]
        /\ UNCHANGED <<refunds, compensation, turnedAway>>
    BY <1>1 DEF Out!Publish, Out!gateway, Out!histories
  <1>5. InInv'
    BY <1>2, InKept DEF In!Next, SagaInv
  <1>6. OutInv'
    BY <1>1, OutKept DEF Out!Next, SagaInv
  <1>7. SagaTypes'
    BY <1>1, <1>2 DEF SagaInv, SagaTypes
  <1>8. /\ subject[e] = None /\ subject'[e] = t /\ t # None
        /\ \A f \in OutboxIds : f # e => subject'[f] = subject[f]
    BY <1>1, <1>4, SagaConstants DEF SagaInv, SagaTypes, RefundsAreOwed
  <1>9. \A u \in Payments : Onwards(u)
    <2>1. compensation # None => compensation \in OutboxIds
      BY DEF SagaInv, OutInv, OP!Inv, OP!TypeOK
    <2>2. \A u \in Payments : Compensated(u) => Compensated(u)'
      BY <1>4, <1>8, <2>1, SagaConstants DEF Compensated
    <2>3. \A u \in Payments : TurnedAway(u) => TurnedAway(u)'
      <3>1. turnedAway \subseteq OutboxIds
        BY DEF SagaInv, OutInv, OP!Inv, OP!TypeOK
      <3> QED
        BY <1>4, <1>8, <3>1, SagaConstants, StaysTurnedAway
    <2> QED
      BY <1>2, <2>2, <2>3, SameMoney
  <1>10. transactions \in [Payments -> IP!Status]
    BY DEF SagaInv, InInv, IP!TypeOK
  <1>11. NothingInvented'
    <2>1. Backed(t, "REFUND_PROCESSING")'
      BY <1>2, <1>3 DEF SagaInv, NothingInvented, Backed, Paid
    <2>2. transactions'[t] = "REFUND_PROCESSING"
      BY <1>3, <1>10
    <2>3. \A u \in Payments : u # t => transactions'[u] = transactions[u]
      BY <1>3, <1>10
    <2> QED
      BY <1>2, <1>3, <1>9, <2>1, <2>2, <2>3, StaysBacked, Targets DEF SagaInv, NothingInvented
  <1>12. RefundsAreOwed'
    <2>1. \A f \in OutboxIds : subject[f] # t
      BY <1>3, SagaConstants DEF SagaInv, RefundsAreOwed, Asked, Settled
    <2>2. \A f \in OutboxIds : (outbox'[f] = None) <=> (subject'[f] = None)
      <3>1. Out!Fresh # None
        <4>1. Out!Fresh \in Out!EventRow
          BY SagaConstants DEF Out!Fresh, Out!EventRow, Out!RowStatus, Out!Retries
        <4> QED
          BY <4>1, SagaConstants
      <3>2. /\ outbox'[e] = Out!Fresh
            /\ \A f \in OutboxIds : f # e => outbox'[f] = outbox[f]
        BY <1>4 DEF SagaInv, OutInv, OP!Inv, OP!TypeOK
      <3> QED
        BY <1>8, <3>1, <3>2 DEF SagaInv, RefundsAreOwed
    <2>3. \A f, g \in OutboxIds : subject'[f] # None /\ subject'[f] = subject'[g] => f = g
      BY <1>8, <2>1 DEF SagaInv, RefundsAreOwed
    <2>4. \A f \in OutboxIds : subject'[f] # None => transactions'[subject'[f]] \in Asked
      BY <1>3, <1>8, <1>10, <2>1 DEF SagaInv, SagaTypes, RefundsAreOwed, Asked
    <2>5. \A u \in Payments :
             Returned(u)' => \E f \in OutboxIds : subject'[f] = u /\ refunds'[f] > 0
      BY <1>2, <1>4, <1>8, SagaConstants DEF SagaInv, RefundsAreOwed, Returned
    <2> QED
      BY <2>2, <2>3, <2>4, <2>5 DEF RefundsAreOwed
  <1>13. FollowedUp'
    <2>1. RowsStay
      BY <1>3 DEF RowsStay
    <2>2. \A u, status : Noted(u, status) => Noted(u, status)'
      BY <1>2, <2>1, StaysTold DEF Noted
    <2>3. PaidNoted' /\ ReturnNoted'
      BY <1>2, <2>2 DEF SagaInv, FollowedUp, PaidNoted, ReturnNoted, Paid
    <2>4. CompensationTold'
      BY <1>4, <1>8, <2>1, StaysTold, SagaConstants DEF SagaInv, FollowedUp, CompensationTold
    <2>5. RefundsHaveRows'
      <3>1. \A u \in Payments : u # t => transactions'[u] = transactions[u]
        BY <1>3, <1>10
      <3> QED
        BY <1>8, <3>1, SagaConstants DEF SagaInv, FollowedUp, RefundsHaveRows
    <2>6. RequestsShow'
      BY <1>2, <1>4, <1>8, SagaConstants DEF SagaInv, FollowedUp, RequestsShow, Returned
    <2> QED
      BY <2>3, <2>4, <2>5, <2>6 DEF FollowedUp
  <1> QED
    BY <1>5, <1>6, <1>7, <1>11, <1>12, <1>13 DEF SagaInv

\* A payment whose refund was asked for, and whose row's money has not gone back, is
\* at the gateway as the customer paid it.
LEMMA StillThere ==
    ASSUME SagaInv, NEW e \in OutboxIds, outbox[e] # None
    PROVE  /\ subject[e] \in Payments /\ Paid(subject[e])
           /\ ~(refunds[e] > 0) => remote[subject[e]] = "RECEIVED"
  <1>1. subject[e] \in Payments /\ transactions[subject[e]] \in Asked
    BY DEF SagaInv, SagaTypes, RefundsAreOwed
  <1>2. Paid(subject[e])
    BY <1>1 DEF SagaInv, NothingInvented, Backed, Asked, Paid
  <1>3. ~(refunds[e] > 0) => ~Returned(subject[e])
    BY <1>1, SagaConstants DEF SagaInv, RefundsAreOwed
  <1> QED
    BY <1>1, <1>2, <1>3 DEF SagaInv, SagaTypes, Paid, Returned, RemoteStatus

\* What the relay holds has a row.
LEMMA SentRows ==
    ASSUME SagaInv, NEW r \in Relays
    PROVE  /\ \A c \in sending[r] : c.id \in OutboxIds /\ outbox[c.id] # None
           /\ sent[r] # None =>
                 sent[r].claim.id \in OutboxIds /\ outbox[sent[r].claim.id] # None
  <1>1. /\ \A c \in sending[r] : c.id \in OP!Holds(r)
        /\ sent[r] # None => sent[r].claim.id \in OP!Holds(r)
    BY DEF OP!Holds
  <1>2. \A e \in OP!Holds(r) : e \in OutboxIds /\ outbox[e] # None
    BY OutAssumptions, OP!HeldEvents
    DEF OP!HeldEvents, SagaInv, OutInv, OP!Inv, OP!ClaimsExist
  <1> QED
    BY <1>1, <1>2

\* Money does not go back for a row whose compensation is in the inbox, unless one of
\* its requests was refused undecided.
LEMMA OneFateNext ==
    ASSUME OutInv', NEW e \in OutboxIds
    PROVE  refunds'[e] \in {0, 1} /\ (compensation' = e => refunds'[e] = 0 \/ e \in turnedAway')
  <1>1. /\ refunds'[e] = IF OP!Decided(e, "ok")' THEN 1 ELSE 0
        /\ ~(OP!Decided(e, "ok")' /\ OP!Decided(e, "rejected")')
    BY DEF OutInv, OP!Inv, OP!Money, OP!GatewayMemory
  <1>2. compensation' = e => OP!Decided(e, "rejected")' \/ e \in turnedAway'
    BY SagaConstants DEF OutInv, OP!Inv, OP!Money, OP!CompensationTrue, OP!Decided, OP!Refused
  <1> QED
    BY <1>1, <1>2

\* The relay's call; the payment at the gateway moves when it accepts.
LEMMA RefundRequestInv ==
    ASSUME SagaInv, NEW r \in Relays, RefundRequest(r)
    PROVE  SagaInv'
  <1>1. PICK c \in sending[r] :
           /\ Out!RefundTransaction(r, c)
           /\ IF refunds'[c.id] > refunds[c.id]
              THEN Moves(subject[c.id], "REFUND_REQUESTED")
              ELSE UNCHANGED <<remote, mail>>
           /\ UNCHANGED <<subject, inboxSide>>
    BY DEF RefundRequest
  <1> DEFINE e == c.id
  <1>2. e \in OutboxIds /\ outbox[e] # None
    BY SentRows
  <1>3. OutInv'
    BY <1>1, OutKept DEF Out!Next, Out!Sends, SagaInv
  <1>4. UNCHANGED <<outbox, compensation, faults>> /\ turnedAway \subseteq turnedAway'
    BY <1>1 DEF Out!RefundTransaction
  <1>5. /\ \A f \in OutboxIds : f # e => refunds'[f] = refunds[f]
        /\ refunds[e] > 0 => refunds'[e] > 0
    <2>1. refunds \in [OutboxIds -> 0 .. 2]
      BY DEF SagaInv, OutInv, OP!Inv, OP!TypeOK
    <2>2. refunds' = refunds \/ \E n \in {refunds[e], refunds[e] + 1} :
                                   refunds' = [refunds EXCEPT ![e] = n]
      BY <1>1 DEF Out!RefundTransaction, Out!GatewayDecides, Out!gateway
    <2> QED
      BY <1>2, <2>1, <2>2
  <1>6. InInv'
    BY <1>1, <1>4, Targets, InRests DEF SagaInv
  <1>7. CASE refunds'[e] > refunds[e]
    <2>1. /\ ~(refunds[e] > 0) /\ refunds'[e] > 0
          /\ compensation = e => e \in turnedAway'
      <3>1. refunds'[e] \in {0, 1} /\ (compensation = e => refunds'[e] = 0 \/ e \in turnedAway')
        BY <1>2, <1>3, <1>4, OneFateNext
      <3>2. refunds[e] \in 0 .. 2
        BY <1>2 DEF SagaInv, OutInv, OP!Inv, OP!TypeOK
      <3> QED
        BY <1>7, <3>1, <3>2
    <2>2. PICK t \in Payments : t = subject[e] /\ remote[t] = "RECEIVED"
      BY <1>2, <2>1, StillThere
    <2>3. Moves(t, "REFUND_REQUESTED") /\ remote \in [Payments -> RemoteStatus]
      BY <1>1, <1>7, <2>2 DEF SagaInv, SagaTypes
    <2>4. /\ remote'[t] = "REFUND_REQUESTED"
          /\ \A u \in Payments : u # t => remote'[u] = remote[u]
          /\ mail' \subseteq mail \cup {<<t, "REFUND_REQUESTED">>}
      BY <2>2, <2>3 DEF Moves
    <2>5. SagaTypes'
      BY <1>1, <2>2, <2>3, <2>4 DEF Moves, SagaInv, SagaTypes, RemoteStatus
    <2>6. /\ Compensated(t) => TurnedAway(t)'
          /\ \A u \in Payments : TurnedAway(u) => TurnedAway(u)'
      <3>1. compensation # None => compensation \in OutboxIds
        BY DEF SagaInv, OutInv, OP!Inv, OP!TypeOK
      <3> QED
        BY <1>1, <1>2, <1>4, <2>1, <2>2, <3>1, SagaConstants, StaysTurnedAway
        DEF Compensated, TurnedAway, SagaInv, RefundsAreOwed
    <2>7. \A u \in Payments : Onwards(u)
      BY <1>1, <1>4, <2>2, <2>4, <2>6 DEF Onwards, Paid, Compensated
    <2>8. NothingInvented'
      <3>1. Backed(t, MapAsaasStatus("REFUND_REQUESTED"))'
        BY DEF Backed, MapAsaasStatus, Settled, Pending
      <3> QED
        BY <1>1, <2>4, <2>7, <3>1, StaysBacked, Targets DEF SagaInv, NothingInvented, inboxSide
    <2>9. RefundsAreOwed'
      BY <1>1, <1>2, <1>4, <1>5, <2>1, <2>2, <2>4 DEF SagaInv, RefundsAreOwed, Returned, inboxSide
    <2>10. FollowedUp'
      <3>1. RowsStay /\ mail \subseteq mail' /\ UNCHANGED transactions
        BY <1>1, <2>3 DEF RowsStay, inboxSide, Moves
      <3>2. \A u, status : Noted(u, status) => Noted(u, status)'
        BY <3>1, StaysTold DEF Noted
      <3>3. \A u \in Payments : /\ Paid(u)' => Paid(u)
                                /\ remote'[u] = "REFUNDED" => remote[u] = "REFUNDED"
                                /\ Returned(u) => Returned(u)'
        BY <2>2, <2>4 DEF Paid, Returned
      <3>4. PaidNoted' /\ ReturnNoted'
        BY <3>2, <3>3 DEF SagaInv, FollowedUp, PaidNoted, ReturnNoted
      <3>5. CompensationTold' /\ RefundsHaveRows'
        BY <1>1, <1>4, <3>1, StaysTold DEF SagaInv, FollowedUp, CompensationTold, RefundsHaveRows
      <3>6. RequestsShow'
        <4> SUFFICES ASSUME NEW f \in OutboxIds, refunds'[f] > 0
                     PROVE  \E u \in Payments : subject'[f] = u /\ Returned(u)'
          BY DEF RequestsShow
        <4>1. CASE f = e
          BY <1>1, <2>2, <2>4, <4>1 DEF Returned
        <4>2. CASE f # e
          BY <1>1, <1>5, <3>3, <4>2 DEF SagaInv, FollowedUp, RequestsShow
        <4> QED
          BY <4>1, <4>2
      <3> QED
        BY <3>4, <3>5, <3>6 DEF FollowedUp
    <2> QED
      BY <1>3, <1>6, <2>5, <2>8, <2>9, <2>10 DEF SagaInv
  <1>8. CASE ~(refunds'[e] > refunds[e])
    <2>1. UNCHANGED <<remote, mail>>
      BY <1>1, <1>8
    <2>2. \A u \in Payments : Onwards(u)
      BY <1>1, <1>4, <2>1, SameMoney, StaysTurnedAway DEF Compensated
    <2>3. SagaTypes' /\ NothingInvented'
      BY <1>1, <2>1, <2>2, StaysBacked, Targets
      DEF SagaInv, SagaTypes, NothingInvented, inboxSide
    <2>4. RefundsAreOwed'
      BY <1>1, <1>2, <1>4, <1>5, <2>1 DEF SagaInv, RefundsAreOwed, Returned, inboxSide
    <2>5. \A f \in OutboxIds : refunds'[f] > 0 => refunds[f] > 0
      <3>1. refunds[e] \in 0 .. 2 /\ refunds'[e] \in {0, 1}
        BY <1>2, <1>3, OneFateNext DEF SagaInv, OutInv, OP!Inv, OP!TypeOK
      <3> QED
        BY <1>5, <1>8, <3>1
    <2>6. FollowedUp'
      <3>1. RowsStay /\ UNCHANGED <<transactions, inbox, payload>>
        BY <1>1 DEF RowsStay, inboxSide
      <3>2. \A u, status : (Noted(u, status) => Noted(u, status)') /\ (Told(u, status) => Told(u, status)')
        BY <2>1, <3>1, StaysTold DEF Noted
      <3> QED
        <4>1. PaidNoted' /\ ReturnNoted'
          BY <2>1, <3>2 DEF SagaInv, FollowedUp, PaidNoted, ReturnNoted, Paid
        <4>2. CompensationTold' /\ RequestsShow' /\ RefundsHaveRows'
          BY <1>1, <1>4, <2>1, <2>5, <3>1, <3>2
          DEF SagaInv, FollowedUp, CompensationTold, RequestsShow, RefundsHaveRows, Returned
        <4> QED
          BY <4>1, <4>2 DEF FollowedUp
    <2> QED
      BY <1>3, <1>6, <2>3, <2>4, <2>6 DEF SagaInv
  <1> QED
    BY <1>7, <1>8

\* A rejection becomes an event of the engine's own.
LEMMA CompensateInv ==
    ASSUME SagaInv, NEW r \in Relays, Compensate(r)
    PROVE  SagaInv'
  <1>1. /\ Out!SaveCompensation(r)
        /\ IF compensation' # compensation
           THEN Insert(FromEngine(subject[compensation']))
           ELSE UNCHANGED inboxSide
        /\ UNCHANGED <<remote, mail, subject>>
    BY DEF Compensate, gateway
  <1>2. OutInv'
    BY <1>1, OutKept DEF Out!Next, Out!Sends, SagaInv
  <1>3. /\ sent[r] # None
        /\ UNCHANGED <<outbox, refunds, turnedAway>>
        /\ \/ compensation' = compensation
           \/ compensation = None /\ compensation' = sent[r].claim.id
    BY <1>1 DEF Out!SaveCompensation, Out!InboxTakes, Out!gateway, Out!histories
  <1>4. PICK e \in OutboxIds : e = sent[r].claim.id /\ outbox[e] # None
    BY <1>3, SentRows
  <1>5. faults' \in 0 .. MaxFaults
    BY <1>2 DEF OutInv, OP!Inv, OP!TypeOK
  <1>6. SagaTypes'
    BY <1>1 DEF SagaInv, SagaTypes
  <1>7. \A u \in Payments : Onwards(u)
    BY <1>1, <1>3, SameMoney DEF Compensated, TurnedAway
  <1>8. CASE compensation' = compensation
    <2>1. InInv'
      BY <1>1, <1>5, <1>8, InRests DEF SagaInv
    <2>2. NothingInvented'
      BY <1>1, <1>7, <1>8, StaysBacked, Targets DEF SagaInv, NothingInvented, inboxSide
    <2>3. RefundsAreOwed'
      BY <1>1, <1>3, <1>8 DEF SagaInv, RefundsAreOwed, Returned, inboxSide
    <2>4. FollowedUp'
      <3>1. RowsStay /\ UNCHANGED transactions
        BY <1>1, <1>8 DEF RowsStay, inboxSide
      <3> QED
        BY <1>1, <1>3, <1>8, <3>1, StaysFollowed DEF SagaInv
    <2> QED
      BY <1>2, <1>6, <2>1, <2>2, <2>3, <2>4 DEF SagaInv
  <1>9. CASE compensation' # compensation
    <2>1. compensation' = e
      BY <1>3, <1>4, <1>9
    <2>2. PICK t \in Payments :
             t = subject[e] /\ Paid(t) /\ (remote[t] = "RECEIVED" \/ TurnedAway(t))
      <3>1. ~(refunds[e] > 0) \/ e \in turnedAway
        BY <1>2, <1>3, <1>4, <2>1, OneFateNext
      <3> QED
        BY <1>4, <3>1, StillThere DEF TurnedAway
    <2> DEFINE p == FromEngine(t)
    <2>3. Backed(t, "REFUND_FAILED")'
      BY <1>1, <1>3, <1>4, <2>1, <2>2, SagaConstants
      DEF Backed, Compensated, TurnedAway, Paid, Settled
    <2>4. /\ InInv' /\ transactions' = transactions
          /\ \E f \in InboxIds : /\ inbox[f] = None /\ inbox'[f] # None
                                 /\ payload' = [payload EXCEPT ![f] = p]
                                 /\ \A g \in InboxIds : g # f => inbox'[g] = inbox[g]
      <3>1. p \in Payloads
        BY DEF Payloads
      <3>2. Insert(p)
        BY <1>1, <1>9, <2>1, <2>2
      <3> HIDE DEF p
      <3> QED
        BY <1>5, <3>1, <3>2, InsertKept DEF SagaInv
    <2>5. PICK f \in InboxIds : /\ inbox[f] = None /\ inbox'[f] # None
                                /\ payload' = [payload EXCEPT ![f] = p]
                                /\ \A g \in InboxIds : g # f => inbox'[g] = inbox[g]
      BY <2>4
    <2>6. NothingInvented'
      <3>1. payload'[f] = p /\ \A g \in InboxIds : g # f => payload'[g] = payload[g]
        BY <2>5 DEF SagaInv, InInv, IP!TypeOK
      <3>2. p.tx = t /\ p.target = "REFUND_FAILED"
        BY DEF FromEngine
      <3> QED
        BY <1>1, <1>7, <2>3, <2>4, <2>5, <3>1, <3>2, StaysBacked, Targets
        DEF SagaInv, NothingInvented
    <2>7. RefundsAreOwed'
      BY <1>1, <1>3, <2>4 DEF SagaInv, RefundsAreOwed, Returned
    <2>8. FollowedUp'
      <3>1. payload'[f] = p /\ \A g \in InboxIds : g # f => payload'[g] = payload[g]
        BY <2>5 DEF SagaInv, InInv, IP!TypeOK
      <3>2. RowsStay
        BY <2>5, <3>1 DEF RowsStay
      <3>3. Told(t, "REFUND_FAILED")'
        BY <2>5, <3>1 DEF Told, FromEngine
      <3>4. \A u, status : Noted(u, status) => Noted(u, status)'
        BY <1>1, <3>2, StaysTold DEF Noted
      <3>5. PaidNoted' /\ ReturnNoted'
        BY <1>1, <3>4 DEF SagaInv, FollowedUp, PaidNoted, ReturnNoted, Paid
      <3>6. CompensationTold'
        BY <1>1, <2>1, <2>2, <3>3 DEF CompensationTold
      <3>7. RequestsShow' /\ RefundsHaveRows'
        BY <1>1, <1>3, <2>4 DEF SagaInv, FollowedUp, RequestsShow, RefundsHaveRows, Returned
      <3> QED
        BY <3>5, <3>6, <3>7 DEF FollowedUp
    <2> QED
      BY <1>2, <1>6, <2>4, <2>6, <2>7, <2>8 DEF SagaInv
  <1> QED
    BY <1>8, <1>9

\* A worker, a lease or an operator; a payment follows an event of the inbox.
LEMMA InboxStepInv ==
    ASSUME SagaInv, InboxStep
    PROVE  SagaInv'
  <1>1. UNCHANGED <<remote, mail, subject, outboxSide>>
    BY DEF InboxStep, gateway
  <1>2. In!Next
    BY DEF InboxStep, In!Next
  <1>3. InInv' /\ faults' \in 0 .. MaxFaults
    BY <1>2, InKept DEF SagaInv, InInv, IP!TypeOK
  <1>4. OutInv'
    BY <1>1, <1>3, OutRests DEF SagaInv
  <1>5. SagaTypes'
    BY <1>1 DEF SagaInv, SagaTypes
  <1>6. \A t \in Payments : Onwards(t)
    BY <1>1, SameMoney DEF Compensated, TurnedAway, outboxSide
  <1>7. payload' = payload /\ \A e \in InboxIds : inbox'[e] # None => inbox[e] # None
    BY InRows DEF SagaInv
  <1>8. \/ transactions' = transactions
        \/ \E e \in InboxIds :
              /\ inbox[e] # None
              /\ In!Evaluate(transactions[payload[e].tx], payload[e].target)
              /\ transactions' = [transactions EXCEPT ![payload[e].tx] = payload[e].target]
    BY InMoves DEF SagaInv
  <1>9. transactions \in [Payments -> IP!Status]
    BY DEF SagaInv, InInv, IP!TypeOK
  <1>10. \A t \in Payments : Backed(t, transactions'[t])
    BY <1>8, <1>9, Targets DEF SagaInv, NothingInvented
  <1>11. NothingInvented'
    BY <1>1, <1>6, <1>7, <1>10, StaysBacked, Targets DEF SagaInv, NothingInvented
  <1>12. \A t \in Payments : transactions[t] \in Asked => transactions'[t] \in Asked
    BY <1>8, <1>9, Targets
    DEF Asked, In!Evaluate, In!Successors, In!Settled, In!Pending
  <1>13. RefundsAreOwed'
    BY <1>1, <1>12 DEF SagaInv, SagaTypes, RefundsAreOwed, Returned, outboxSide
  <1>14. FollowedUp'
    <2>1. RowsStay
      <3>1. [IP!Next]_IP!vars
        BY <1>2, InNext
      <3>2. \A e \in InboxIds : inbox[e] # None => inbox'[e] # None
        BY <3>1, InAssumptions, IP!RowsRemain DEF IP!RowsRemain, SagaInv, InInv
      <3> QED
        BY <1>7, <3>2 DEF RowsStay
    <2>2. \A t \in Payments : transactions'[t] \in Asked => transactions[t] \in Asked
      <3>1. \A e \in InboxIds : payload[e].target # "REFUND_PROCESSING"
        <4>1. \A e \in InboxIds : payload[e] \in Payloads
          BY DEF SagaInv, InInv, IP!TypeOK
        <4>2. \A p \in Payloads : p.target # "REFUND_PROCESSING"
          BY DEF Payloads, FromGateway, FromEngine, MapAsaasStatus, Pending
        <4> QED
          BY <4>1, <4>2
      <3> QED
        BY <1>8, <1>9, <3>1, Targets DEF Asked, In!Evaluate, In!Successors, In!Settled, In!Pending
    <2>3. UNCHANGED <<refunds, compensation>>
      BY <1>1 DEF outboxSide
    <2> QED
      BY <1>1, <2>1, <2>2, <2>3, StaysFollowed DEF SagaInv
  <1> QED
    BY <1>3, <1>4, <1>5, <1>11, <1>13, <1>14 DEF SagaInv

\* A relay, a lease or an operator, no money involved.
LEMMA OutboxStepInv ==
    ASSUME SagaInv, OutboxStep
    PROVE  SagaInv'
  <1>1. UNCHANGED <<remote, mail, subject, inboxSide>>
    BY DEF OutboxStep, gateway
  <1>2. Out!Next
    BY DEF OutboxStep, Out!Next, Out!Sends
  <1>3. OutInv' /\ faults' \in 0 .. MaxFaults
    BY <1>2, OutKept DEF SagaInv, OutInv, OP!Inv, OP!TypeOK
  <1>4. InInv'
    BY <1>1, <1>3, InRests DEF SagaInv
  <1>5. /\ \A e \in OutboxIds : (outbox'[e] = None) <=> (outbox[e] = None)
        /\ UNCHANGED <<refunds, compensation, turnedAway>>
    BY OutRows DEF SagaInv
  <1>6. \A t \in Payments : Onwards(t)
    BY <1>1, <1>5, SameMoney DEF Compensated, TurnedAway
  <1>7. SagaTypes' /\ NothingInvented'
    BY <1>1, <1>6, StaysBacked, Targets DEF SagaInv, SagaTypes, NothingInvented, inboxSide
  <1>8. RefundsAreOwed'
    BY <1>1, <1>5 DEF SagaInv, RefundsAreOwed, Returned, inboxSide
  <1>9. FollowedUp'
    <2>1. RowsStay /\ UNCHANGED transactions
      BY <1>1 DEF RowsStay, inboxSide
    <2> QED
      BY <1>1, <1>5, <2>1, StaysFollowed DEF SagaInv
  <1> QED
    BY <1>3, <1>4, <1>7, <1>8, <1>9 DEF SagaInv

\* Nothing but a fault of another part.
LEMMA SagaRests ==
    ASSUME SagaInv, UNCHANGED saga, faults' \in 0 .. MaxFaults
    PROVE  SagaInv'
  <1>1. UNCHANGED <<remote, mail, subject, inboxSide, outboxSide>>
    BY DEF saga, gateway
  <1>2. InInv' /\ OutInv'
    BY <1>1, InRests, OutRests DEF SagaInv
  <1>3. SagaTypes' /\ RefundsAreOwed'
    BY <1>1 DEF SagaInv, SagaTypes, RefundsAreOwed, Returned, inboxSide, outboxSide
  <1>4. \A t \in Payments : Onwards(t)
    BY <1>1, SameMoney DEF Compensated, TurnedAway, outboxSide
  <1>5. NothingInvented'
    BY <1>1, <1>4, StaysBacked, Targets DEF SagaInv, NothingInvented, inboxSide
  <1>6. FollowedUp'
    <2>1. RowsStay /\ UNCHANGED <<transactions, refunds, compensation>>
      BY <1>1 DEF RowsStay, inboxSide, outboxSide
    <2> QED
      BY <1>1, <2>1, StaysFollowed DEF SagaInv
  <1> QED
    BY <1>2, <1>3, <1>5, <1>6 DEF SagaInv

LEMMA InitSagaInv == SagaInit => SagaInv
  <1> SUFFICES ASSUME SagaInit PROVE SagaInv
    OBVIOUS
  <1>1. Payloads # {}
    BY SagaConstants DEF Payloads
  <1>2. InInv
    <2>1. \A w \in Workers : IP!Claims(w) = {}
      BY DEF SagaInit, IP!Claims
    <2>2. faults = 0
      BY DEF SagaInit, Out!Init
    <2>3. transactions \in [Payments -> IP!Status]
      BY DEF SagaInit, Pending, IP!Status, IP!Pending
    <2>4. payload \in [InboxIds -> Payloads]
      BY <1>1 DEF SagaInit
    <2>5. attempts \in [InboxIds -> 0 .. MaxRetries + 1] /\ faults \in 0 .. MaxFaults
      BY <2>2, SagaConstants DEF SagaInit
    <2>6. IP!TypeOK
      <3>1. inbox \in [InboxIds -> IP!EventRow \cup {None}] /\ accepted \subseteq InboxIds
        BY DEF SagaInit
      <3>2. /\ working \in [Workers -> SUBSET IP!Claim]
            /\ worked \in [Workers -> IP!Outcome \cup {None}]
            /\ inLate \in BOOLEAN
        BY DEF SagaInit
      <3>3. effects \in [InboxIds -> 0 .. 3]
        BY DEF SagaInit
      <3> QED
        BY <2>3, <2>4, <2>5, <3>1, <3>2, <3>3 DEF IP!TypeOK
    <2>7. IP!ClaimsExist
      BY <2>1 DEF IP!ClaimsExist
    <2>8. IP!SuccessMeansAccepted /\ IP!CompletedMeansAccepted /\ IP!EffectInv
      BY DEF SagaInit, IP!SuccessMeansAccepted, IP!CompletedMeansAccepted, IP!Arrived,
             IP!EffectInv, IP!EffectOnce, IP!Passed, IP!ChangesAccepted, IP!LiveChanges,
             IP!Steps, Pending, IP!Pending
    <2>9. IP!LeaseInv
      BY <2>1 DEF SagaInit, IP!LeaseInv, IP!ProcessedOnce, IP!LeaseKept, IP!Exact,
                  IP!Exclusive, IP!RetriesCountAttempts, IP!Counted
    <2> QED
      BY <2>6, <2>7, <2>8, <2>9 DEF InInv
  <1>3. OutInv
    <2>1. OP!Init
      BY DEF SagaInit, Out!Init, OP!Init
    <2> QED
      BY <2>1, OutAssumptions, OP!InitInv, OP!InitLeaseInv
      DEF OP!InitInv, OP!InitLeaseInv, OutInv
  <1>4. SagaTypes
    BY DEF SagaInit, SagaTypes, RemoteStatus
  <1>5. NothingInvented
    BY DEF SagaInit, NothingInvented, Backed, Settled, Pending
  <1>6. RefundsAreOwed
    BY DEF SagaInit, Out!Init, RefundsAreOwed, Returned
  <1>7. FollowedUp
    BY SagaConstants
    DEF SagaInit, Out!Init, FollowedUp, PaidNoted, ReturnNoted, CompensationTold,
        RefundsHaveRows, RequestsShow, Paid, Asked, Pending
  <1> QED
    BY <1>2, <1>3, <1>4, <1>5, <1>6, <1>7 DEF SagaInv

-----------------------------------------------------------------------------
(* The registry.                                                            *)

RegistryInv ==
    /\ copy \in [Providers -> SUBSET (Providers \cup {Internal})]
    /\ step \in [Providers -> {"lock", "copy", "store", "unlock", "done"}]
    /\ registered \subseteq Providers \cup {Internal}
    /\ Internal \in registered
    \* Who is past Lock has the mutex, and a copy that is still the map.
    /\ \A p \in Providers : step[p] \in {"copy", "store", "unlock"} => mutex = p
    /\ \A p \in Providers : step[p] = "store" => copy[p] = registered \cup {p}
    /\ \A p \in Providers : step[p] \in {"unlock", "done"} => p \in registered

LEMMA RegisterInv ==
    ASSUME RegistryInv, NEW p \in Providers, R!Register(p)
    PROVE  RegistryInv'
  <1>1. p # Nobody
    BY EngineConstants DEF R!RegistryConstants
  <1>2. CASE R!Lock(p)
    BY <1>1, <1>2, EngineConstants DEF R!Lock, R!Acquire, RegistryInv, R!RegistryConstants
  <1>3. CASE R!CopyMap(p)
    BY <1>3 DEF R!CopyMap, RegistryInv
  <1>4. CASE R!Store(p)
    <2>1. registered' = registered \cup {p} /\ \A q \in Providers : q # p => step[q] # "store"
      BY <1>4 DEF R!Store, RegistryInv
    <2> QED
      BY <1>4, <2>1 DEF R!Store, RegistryInv
  <1>5. CASE R!Unlock(p)
    <2>1. \A q \in Providers : q # p => step[q] \notin {"copy", "store", "unlock"}
      BY <1>5 DEF R!Unlock, RegistryInv
    <2> QED
      BY <1>5, <2>1 DEF R!Unlock, R!Release, RegistryInv
  <1> QED
    BY <1>2, <1>3, <1>4, <1>5 DEF R!Register

-----------------------------------------------------------------------------
(* The schema.                                                              *)

\* The files below a version are there with it.
Closed(S) == \A v \in S : \A u \in Versions : u < v => u \in S

Newest(S) == \E m \in S : \A v \in S : v <= m

SchemaInv ==
    /\ schema = rows /\ rows \subseteq Versions
    /\ Closed(rows) /\ Newest(rows \cup {0})
    /\ pc \in [Processes -> {"start", "read", "next", "record", "commit", "done"}]
    /\ upTo \in [Processes -> rows \cup {0}]
    /\ \A p \in Processes : pc[p] \in {"record", "commit"} => M!Pending(p) # {}
    /\ \A p \in Processes : pc[p] = "done" => Files[p] \subseteq rows

\* Versions are numbers above what an empty table says.
LEMMA Numbers ==
    ASSUME SchemaInv, NEW p \in Processes
    PROVE  /\ Versions \subseteq Nat \ {0} /\ rows \subseteq Nat
           /\ Files[p] \subseteq Versions
           /\ upTo[p] \in Nat /\ (upTo[p] # 0 => upTo[p] \in rows)
  <1>1. Versions \subseteq Nat \ {0} /\ Files[p] \subseteq Versions
    BY EngineConstants DEF M!MigratorConstants
  <1>2. rows \subseteq Nat /\ upTo[p] \in rows \cup {0}
    BY <1>1 DEF SchemaInv
  <1>3. CASE upTo[p] = 0
    BY <1>1, <1>2, <1>3
  <1>4. CASE upTo[p] \in rows
    BY <1>1, <1>2, <1>4
  <1> QED
    BY <1>2, <1>3, <1>4

LEMMA LeastOf ==
    ASSUME NEW S \in SUBSET Nat, S # {}
    PROVE  M!Min(S) \in S /\ \A n \in S : M!Min(S) <= n
  <1>1. \E m \in S : \A n \in S : m <= n
    <2> DEFINE less == {pair \in Nat \X Nat : pair[1] < pair[2]}
    <2>1. IsWellFoundedOn(less, Nat)
      BY NatLessThanWellFounded DEF OpToRel
    <2> HIDE DEF less
    <2>2. PICK m \in S : \A n \in S : ~(<<n, m>> \in less)
      BY <2>1, WFMin
    <2>3. \A n \in S : ~(n < m)
      BY <2>2 DEF less
    <2> QED
      BY <2>3
  <1> QED
    BY <1>1 DEF M!Min

LEMMA GreatestOf ==
    ASSUME NEW S \in SUBSET Nat, Newest(S)
    PROVE  M!Max(S) \in S /\ \A n \in S : n <= M!Max(S)
  BY DEF Newest, M!Max

\* The next file is the lowest one above what the process has, so that what lies
\* below it is there.
LEMMA NextFile ==
    ASSUME SchemaInv, NEW p \in Processes, M!Pending(p) # {}
    PROVE  /\ M!Target(p) \in Versions
           /\ \A u \in Versions : u < M!Target(p) => u \in rows
           /\ Closed(rows \cup {M!Target(p)})
           /\ Newest(rows \cup {0, M!Target(p)})
  <1> DEFINE v == M!Target(p)
  <1>1. /\ Versions \subseteq Nat \ {0} /\ Files[p] \subseteq Versions
        /\ \A w \in Files[p] : \A u \in Versions : u < w => u \in Files[p]
    BY EngineConstants DEF M!MigratorConstants
  <1>2. v \in M!Pending(p) /\ \A w \in M!Pending(p) : v <= w
    BY <1>1, LeastOf DEF M!Target, M!Pending
  <1> HIDE DEF v
  <1>3. /\ v \in Files[p] /\ v \in Versions /\ v \in Nat /\ v > 0
        /\ v > upTo[p] /\ upTo[p] \in Nat /\ (upTo[p] # 0 => upTo[p] \in rows)
        /\ rows \subseteq Nat
    <2>1. v \in Files[p] /\ v > upTo[p]
      BY <1>2 DEF M!Pending
    <2>2. v \in Versions /\ v \in Nat /\ v # 0
      BY <1>1, <2>1
    <2>3. v > 0
      BY <2>2
    <2> QED
      BY <2>1, <2>2, <2>3, Numbers
  <1>4. \A u \in Nat : u \in M!Pending(p) => v <= u
    BY <1>2
  <1>5. ASSUME NEW u \in Versions, u < v PROVE u \in rows
    <2>1. u \in Nat /\ u > 0 /\ u \in Files[p]
      BY <1>1, <1>3, <1>5
    <2>2. u \notin M!Pending(p)
      BY <1>3, <1>4, <1>5, <2>1
    <2>3. ~(u > upTo[p])
      BY <2>1, <2>2 DEF M!Pending
    <2>4. upTo[p] # 0 /\ (u = upTo[p] \/ u < upTo[p])
      BY <1>3, <2>1, <2>3
    <2> QED
      BY <1>3, <2>4 DEF SchemaInv, Closed
  <1>6. Closed(rows \cup {v})
    BY <1>5 DEF Closed, SchemaInv
  <1>7. Newest(rows \cup {0, v})
    <2>1. PICK m \in rows \cup {0} : \A w \in rows \cup {0} : w <= m
      BY DEF SchemaInv, Newest
    <2>2. m \in Nat
      BY <1>3, <2>1
    <2>3. CASE v <= m
      BY <2>1, <2>3 DEF Newest
    <2>4. CASE ~(v <= m)
      <3>1. \A w \in rows \cup {0, v} : w <= v
        BY <1>3, <2>1, <2>2, <2>4
      <3> QED
        BY <3>1 DEF Newest
    <2> QED
      BY <2>3, <2>4
  <1> QED
    BY <1>3, <1>5, <1>6, <1>7 DEF v

LEMMA MigrateInv ==
    ASSUME SchemaInv, NEW p \in Processes, M!Step(p) \/ M!Fail(p)
    PROVE  SchemaInv'
  <1> DEFINE v == M!Target(p)
  <1>1. ASSUME NEW next \in {"start", "read", "next", "record", "commit", "done"},
               M!Goto(p, next),
               next \in {"record", "commit"} => M!Pending(p) # {},
               next = "done" => Files[p] \subseteq rows,
               UNCHANGED <<schema, rows>>,
               \/ UNCHANGED upTo
               \/ /\ next \notin {"record", "commit"}
                  /\ \E n \in rows \cup {0} : upTo' = [upTo EXCEPT ![p] = n]
        PROVE  SchemaInv'
    <2>1. \A q \in Processes : q # p => pc'[q] = pc[q] /\ upTo'[q] = upTo[q]
      BY <1>1 DEF M!Goto, SchemaInv
    <2>2. pc' = [pc EXCEPT ![p] = next] /\ upTo' \in [Processes -> rows \cup {0}]
      BY <1>1 DEF M!Goto, SchemaInv
    <2>3. \A q \in Processes : pc'[q] \in {"record", "commit"} => M!Pending(q)' # {}
      BY <1>1, <2>1, <2>2 DEF SchemaInv, M!Pending
    <2> QED
      BY <1>1, <2>1, <2>2, <2>3 DEF SchemaInv, Closed, Newest
  <1>2. ASSUME NEW next \in {"start", "next"}, M!Goto(p, next), M!Pending(p) # {}, M!Committed(p),
               \E n \in {0, v} : upTo' = [upTo EXCEPT ![p] = n]
        PROVE  SchemaInv'
    <2>1. schema' = rows' /\ rows' = rows \cup {v}
      BY <1>2 DEF M!Committed, SchemaInv
    <2>2. /\ v \in Versions /\ Closed(rows \cup {v}) /\ Newest(rows \cup {0, v})
      BY <1>2, NextFile
    <2> HIDE DEF v
    <2>3. \A q \in Processes : q # p => pc'[q] = pc[q] /\ upTo'[q] = upTo[q]
      BY <1>2 DEF M!Goto, SchemaInv
    <2>4. pc' = [pc EXCEPT ![p] = next] /\ upTo' \in [Processes -> rows' \cup {0}]
      BY <1>2, <2>1 DEF M!Goto, SchemaInv
    <2>5. Closed(rows') /\ Newest(rows' \cup {0})
      <3>1. rows' \cup {0} = rows \cup {0, v}
        BY <2>1
      <3> QED
        BY <2>1, <2>2, <3>1
    <2>6. \A q \in Processes : pc'[q] \in {"record", "commit"} => M!Pending(q)' # {}
      BY <1>2, <2>3, <2>4 DEF SchemaInv, M!Pending
    <2>7. \A q \in Processes : pc'[q] = "done" => Files[q] \subseteq rows'
      BY <1>2, <2>1, <2>3, <2>4 DEF SchemaInv
    <2>8. pc' \in [Processes -> {"start", "read", "next", "record", "commit", "done"}]
      BY <2>4 DEF SchemaInv
    <2> QED
      BY <2>1, <2>2, <2>4, <2>5, <2>6, <2>7, <2>8 DEF SchemaInv, Closed
  <1>3. CASE M!CreateControlTable(p)
    BY <1>1, <1>3 DEF M!CreateControlTable
  <1>4. CASE M!ReadVersion(p)
    <2>1. rows \cup {0} \in SUBSET Nat /\ Newest(rows \cup {0})
      BY EngineConstants DEF M!MigratorConstants, SchemaInv
    <2>2. M!Max(rows \cup {0}) \in rows \cup {0}
      BY <2>1, GreatestOf
    <2> QED
      BY <1>1, <1>4, <2>2 DEF M!ReadVersion
  <1>5. CASE M!Execute(p)
    BY <1>1, <1>5 DEF M!Execute, M!AfterDDL
  <1>6. CASE M!Record(p)
    BY <1>1, <1>6 DEF M!Record, SchemaInv
  <1>7. CASE M!AlreadyApplied(p)
    BY <1>1, <1>7 DEF M!AlreadyApplied, M!Return
  <1>8. CASE M!Commit(p)
    BY <1>2, <1>8 DEF M!Commit, SchemaInv
  <1>9. CASE M!Finish(p)
    <2>1. Files[p] \subseteq rows
      <3> SUFFICES ASSUME NEW w \in Files[p] PROVE w \in rows
        OBVIOUS
      <3>1. ~(w > upTo[p])
        BY <1>9 DEF M!Finish, M!Pending
      <3>2. w \in Versions /\ w \in Nat /\ w # 0
        BY Numbers
      <3>3. upTo[p] # 0 /\ (w = upTo[p] \/ w < upTo[p])
        BY <3>1, <3>2, Numbers
      <3> QED
        BY <3>2, <3>3, Numbers DEF SchemaInv, Closed
    <2> QED
      BY <1>1, <1>9, <2>1 DEF M!Finish, M!Return
  <1>10. CASE M!Fail(p)
    <2>1. CASE UNCHANGED <<schema, rows>>
      BY <1>1, <1>10, <2>1 DEF M!Fail, M!Return
    <2>2. CASE pc[p] = "commit" /\ M!Committed(p)
      BY <1>2, <1>10, <2>2 DEF M!Fail, M!Return, SchemaInv
    <2> QED
      BY <1>10, <2>1, <2>2 DEF M!Fail
  <1> QED
    BY <1>3, <1>4, <1>5, <1>6, <1>7, <1>8, <1>9, <1>10 DEF M!Step

-----------------------------------------------------------------------------
(* The engine.                                                              *)

EngineInv == SchemaInv /\ RegistryInv /\ SagaInv

LEMMA InitEngineInv == Init => EngineInv
  <1> SUFFICES ASSUME Init PROVE EngineInv
    OBVIOUS
  <1>1. SchemaInv
    <2>1. schema = rows /\ rows = {} /\ pc = [p \in Processes |-> "start"]
          /\ upTo = [p \in Processes |-> 0]
      BY DEF Init, M!Init
    <2>2. Newest(rows \cup {0})
      BY <2>1 DEF Newest
    <2> QED
      BY <2>1, <2>2 DEF SchemaInv, Closed
  <1>2. RegistryInv
    BY DEF Init, R!Init, RegistryInv
  <1>3. SagaInv
    BY InitSagaInv DEF Init
  <1> QED
    BY <1>1, <1>2, <1>3 DEF EngineInv

LEMMA SchemaRests == ASSUME SchemaInv, UNCHANGED migration PROVE SchemaInv'
  BY DEF SchemaInv, migration, Closed, Newest, M!Pending

LEMMA RegistryRests == ASSUME RegistryInv, UNCHANGED wiring PROVE RegistryInv'
  BY DEF RegistryInv, wiring

LEMMA NextEngineInv == EngineInv /\ [Next]_vars => EngineInv'
  <1> SUFFICES ASSUME EngineInv, [Next]_vars PROVE EngineInv'
    OBVIOUS
  <1> USE DEF EngineInv
  <1>1. ASSUME NEW p \in Processes, Migrate(p) \/ MigrationFails(p) PROVE EngineInv'
    <2>1. (M!Step(p) \/ M!Fail(p)) /\ UNCHANGED <<wiring, saga>>
      BY <1>1 DEF Migrate, MigrationFails
    <2>2. faults' \in 0 .. MaxFaults
      <3>1. faults' = faults \/ (faults < MaxFaults /\ faults' = faults + 1)
        BY <2>1 DEF M!Step, M!CreateControlTable, M!ReadVersion, M!Finish, M!Execute, M!Record,
                    M!AlreadyApplied, M!Commit, M!Fail, M!Fault
      <3> QED
        BY <3>1, Targets, SagaConstants
    <2> QED
      BY <2>1, <2>2, MigrateInv, RegistryRests, SagaRests
  <1>2. ASSUME NEW p \in Providers, Wire(p) PROVE EngineInv'
    <2>1. R!Register(p) /\ UNCHANGED <<migration, saga, faults>>
      BY <1>2 DEF Wire, sagaVars
    <2> QED
      BY <2>1, RegisterInv, SchemaRests, SagaRests, Targets
  <1>3. ASSUME Running, SagaInv' PROVE EngineInv'
    BY <1>3, SchemaRests, RegistryRests DEF Running
  <1>4. CASE UNCHANGED vars
    BY <1>4, SchemaRests, RegistryRests, SagaRests, Targets DEF vars, sagaVars
  <1> QED
    BY <1>1, <1>2, <1>3, <1>4, GatewayChangesInv, NoticeArrivesInv, HostRefundInv,
       RefundRequestInv, CompensateInv, InboxStepInv, OutboxStepInv
    DEF Next

LEMMA SpecInv == Spec => []EngineInv
  BY InitEngineInv, NextEngineInv, PTL DEF Spec

\* Whatever migrations race, fail and start anew, the version table tells the schema
\* (EnsureSchema's transaction per file).
THEOREM SchemaIsTold == Spec => []VersionsTellSchema
  <1>1. EngineInv => VersionsTellSchema
    BY DEF EngineInv, SchemaInv, Closed, VersionsTellSchema, M!VersionsTellSchema
  <1> QED
    BY <1>1, SpecInv, PTL

\* Whoever returns from EnsureSchema without an error finds all its files applied.
THEOREM MigrationIsComplete == Spec => []DoneMeansCurrent
  <1>1. EngineInv => DoneMeansCurrent
    BY DEF EngineInv, SchemaInv, DoneMeansCurrent, M!DoneMeansCurrent
  <1> QED
    BY <1>1, SpecInv, PTL

\* No registration is lost to another (ProviderRegistry.Register's copy on write).
THEOREM NoRegistrationLost == Spec => []RegistrationsKept
  <1>1. EngineInv => RegistrationsKept
    BY DEF EngineInv, RegistryInv, RegistrationsKept, R!RegistrationsKept, R!Known
  <1> QED
    BY <1>1, SpecInv, PTL

\* What the engine says of a payment is true of its money, REFUND_FAILED unless one of
\* the refund's requests was refused before the gateway decided on it, for any number of
\* payments, workers, relays, retries and faults (the compensation branch of
\* consumeBatch, the translators, the state machine).
THEOREM Agreement == Spec => []SagaAgrees
  <1>1. EngineInv => SagaAgrees
    BY DEF EngineInv, SagaInv, NothingInvented, Backed, Paid, SagaAgrees
  <1> QED
    BY <1>1, SpecInv, PTL

\* In the whole engine too, a COMPLETED refund was handled.
THEOREM Completion == Spec => []CompletedMeansHandled
  <1>1. EngineInv => CompletedMeansHandled
    BY DEF EngineInv, SagaInv, OutInv, OP!Inv, OP!CompletedMeansHandled, OP!Arrived, OP!Handled,
           CompletedMeansHandled, Out!CompletedMeansHandled, Out!Arrived, Out!Handled
  <1> QED
    BY <1>1, SpecInv, PTL

\* And its money went back at most once, next to a compensation only when one of its
\* requests had been refused before the gateway decided on it (consumeBatch,
\* RefundTransaction's mapping of answers).
THEOREM OneFate == Spec => []RefundOrCompensation
  <1>1. ASSUME OutInv, NEW e \in OutboxIds
        PROVE  refunds[e] <= 1 /\ (refunds[e] = 1 /\ compensation = e => e \in turnedAway)
    <2>1. /\ refunds[e] = IF OP!Decided(e, "ok") THEN 1 ELSE 0
          /\ ~(OP!Decided(e, "ok") /\ OP!Decided(e, "rejected"))
      BY <1>1 DEF OutInv, OP!Inv, OP!Money, OP!GatewayMemory
    <2>2. compensation = e => OP!Decided(e, "rejected") \/ e \in turnedAway
      BY <1>1, SagaConstants DEF OutInv, OP!Inv, OP!Money, OP!CompensationTrue, OP!Refused
    <2> QED
      BY <2>1, <2>2
  <1>2. EngineInv => RefundOrCompensation
    BY <1>1 DEF EngineInv, SagaInv, RefundOrCompensation, Out!RefundOrCompensation
  <1> QED
    BY <1>2, SpecInv, PTL

\* A row that told its payment is waiting still unless the payment heard it.
LEMMA ToldOrHeard ==
    ASSUME SagaInv, NEW t \in Payments, NEW status, Told(t, status)
    PROVE  Waits(t, status) \/ transactions[t] \in IP!Later(status)
  <1>1. PICK e \in InboxIds : inbox[e] # None /\ payload[e].tx = t /\ payload[e].target = status
    BY DEF Told
  <1>2. CASE inbox[e].status # "COMPLETED"
    BY <1>1, <1>2 DEF Waits
  <1>3. CASE inbox[e].status = "COMPLETED"
    <2>1. e \in accepted
      BY <1>1, <1>3 DEF SagaInv, InInv, IP!CompletedMeansAccepted, IP!Arrived
    <2>2. payload[e].kind = "good"
      BY ReadAsSent DEF SagaInv, InInv, IP!TypeOK
    <2> QED
      BY <1>1, <2>1, <2>2 DEF SagaInv, InInv, IP!EffectInv, IP!Passed
  <1> QED
    BY <1>2, <1>3

\* A payment is never forgotten: the notice of its money, or the row and the request of
\* its refund, is somewhere until the payment has heard of it (ServeHTTP's insert, Phase C
\* of consume and consumeBatch, the compensation branch).
THEOREM NothingForgotten == Spec => []MoneyIsFollowedUp
  <1>1. ASSUME SagaInv, {"RECEIVED", "REFUNDED"} \subseteq Announced, NEW t \in Payments
        PROVE  /\ transactions[t] = Pending /\ remote[t] \notin {"PENDING", "OVERDUE"} =>
                     <<t, "RECEIVED">> \in mail \/ Waits(t, "RECEIVED")
               /\ transactions[t] = "REFUND_PROCESSING" =>
                     \/ \E e \in OutboxIds : subject[e] = t /\ outbox[e].status # "COMPLETED"
                     \/ remote[t] = "REFUND_REQUESTED"
                     \/ <<t, "REFUNDED">> \in mail
                     \/ Waits(t, "REFUNDED") \/ Waits(t, "REFUND_FAILED")
    <2>1. /\ Pending \notin IP!Later("RECEIVED")
          /\ "REFUND_PROCESSING" \notin IP!Later("REFUNDED")
          /\ "REFUND_PROCESSING" \notin IP!Later("REFUND_FAILED")
      BY DEF IP!Later, IP!Settled, IP!Pending, Pending
    <2>2. ASSUME transactions[t] = Pending, Paid(t)
          PROVE  <<t, "RECEIVED">> \in mail \/ Waits(t, "RECEIVED")
      <3>1. Noted(t, "RECEIVED")
        BY <1>1, <2>2 DEF SagaInv, FollowedUp, PaidNoted
      <3> QED
        BY <1>1, <2>1, <2>2, <3>1, ToldOrHeard DEF Noted
    <2>3. ASSUME transactions[t] = "REFUND_PROCESSING"
          PROVE  \/ \E e \in OutboxIds : subject[e] = t /\ outbox[e].status # "COMPLETED"
                 \/ remote[t] = "REFUND_REQUESTED"
                 \/ <<t, "REFUNDED">> \in mail
                 \/ Waits(t, "REFUNDED") \/ Waits(t, "REFUND_FAILED")
      <3>1. PICK e \in OutboxIds : subject[e] = t
        BY <1>1, <2>3 DEF SagaInv, FollowedUp, RefundsHaveRows, Asked
      <3>2. outbox[e] # None
        BY <1>1, <3>1, SagaConstants DEF SagaInv, RefundsAreOwed
      <3>3. CASE outbox[e].status = "COMPLETED"
        <4>1. kind[e] = "refund"
          BY <1>1 DEF SagaInv, OutInv, OP!Inv, OP!TypeOK
        <4>2. refunds[e] > 0 \/ compensation = e
          BY <1>1, <3>2, <3>3, <4>1
          DEF SagaInv, OutInv, OP!Inv, OP!CompletedMeansHandled, OP!Arrived, OP!Handled
        <4>3. CASE refunds[e] > 0
          <5>1. Returned(t)
            BY <1>1, <3>1, <4>3 DEF SagaInv, FollowedUp, RequestsShow
          <5>2. CASE remote[t] = "REFUNDED"
            <6>1. Noted(t, "REFUNDED")
              BY <1>1, <5>2 DEF SagaInv, FollowedUp, ReturnNoted
            <6> QED
              BY <1>1, <2>1, <2>3, <6>1, ToldOrHeard DEF Noted
          <5> QED
            BY <5>1, <5>2 DEF Returned
        <4>4. CASE compensation = e
          <5>1. Told(t, "REFUND_FAILED")
            BY <1>1, <3>1, <4>4 DEF SagaInv, FollowedUp, CompensationTold
          <5> QED
            BY <1>1, <2>1, <2>3, <5>1, ToldOrHeard
        <4> QED
          BY <4>2, <4>3, <4>4
      <3> QED
        BY <3>1, <3>3
    <2> QED
      BY <2>2, <2>3 DEF Paid
  <1>2. EngineInv => MoneyIsFollowedUp
    BY <1>1 DEF EngineInv, MoneyIsFollowedUp
  <1> QED
    BY <1>2, SpecInv, PTL

\* Over all the rows a payment ever had, its money goes back at most once; and if the
\* payment is told that it could not, or is about to be, one of the requests was refused
\* undecided.
MoneyGoesBackOnce ==
    \A t \in Payments : \A e, f \in OutboxIds :
        subject[e] = t /\ subject[f] = t =>
            /\ e = f
            /\ refunds[e] <= 1
            /\ refunds[e] = 1 /\ (compensation = e \/ transactions[t] = "REFUND_FAILED") =>
                  e \in turnedAway

\* No payment is refunded twice, whatever the host, the relays and the gateway repeat
\* (TransitionTo's policy for the request, the idempotency key for its retries), and
\* only an undecided refusal makes the engine deny a refund that went through.
THEOREM RefundedOnce == Spec => []MoneyGoesBackOnce
  <1>1. ASSUME SagaInv, NEW t \in Payments, NEW e \in OutboxIds, NEW f \in OutboxIds,
               subject[e] = t, subject[f] = t
        PROVE  /\ e = f
               /\ refunds[e] <= 1
               /\ refunds[e] = 1 /\ (compensation = e \/ transactions[t] = "REFUND_FAILED") =>
                     e \in turnedAway
    <2>1. \A g \in OutboxIds : subject[g] = t => g = e
      BY <1>1, SagaConstants DEF SagaInv, RefundsAreOwed
    <2>2. /\ refunds[e] = IF OP!Decided(e, "ok") THEN 1 ELSE 0
          /\ compensation = e => ~OP!Decided(e, "ok") \/ e \in turnedAway
      BY <1>1, SagaConstants
      DEF SagaInv, OutInv, OP!Inv, OP!Money, OP!GatewayMemory, OP!CompensationTrue, OP!Refused
    <2>3. ASSUME refunds[e] = 1, transactions[t] = "REFUND_FAILED" PROVE e \in turnedAway
      <3>1. remote[t] # "RECEIVED"
        BY <1>1, <2>3 DEF SagaInv, FollowedUp, RequestsShow, Returned
      <3>2. TurnedAway(t)
        BY <1>1, <2>3, <3>1 DEF SagaInv, NothingInvented, Backed
      <3>3. turnedAway \subseteq OutboxIds
        BY <1>1 DEF SagaInv, OutInv, OP!Inv, OP!TypeOK
      <3> QED
        BY <2>1, <3>2, <3>3 DEF TurnedAway
    <2> QED
      BY <1>1, <2>1, <2>2, <2>3
  <1>2. EngineInv => MoneyGoesBackOnce
    BY <1>1 DEF EngineInv, MoneyGoesBackOnce
  <1> QED
    BY <1>2, SpecInv, PTL

-----------------------------------------------------------------------------
(* Both queues.                                                              *)

\* The inbox consumer's step, in the engine, is one of its work queue.
LEMMA InQueueStep ==
    ASSUME InInv, [In!Next]_In!vars PROVE [In!Queue!Next]_In!Queue!vars
  <1>1. [IP!Next]_IP!vars
    BY InNext DEF In!vars, IP!vars
  <1>2. [IP!Queue!Next]_IP!Queue!vars
    BY <1>1, InAssumptions, IP!StepImplements DEF IP!StepImplements, IP!Inv, InInv
  <1> QED
    BY <1>2
    DEF IP!Queue!Next, In!Queue!Next, IP!Queue!vars, In!Queue!vars, IP!Queue!Arrive,
        In!Queue!Arrive, IP!Queue!Apply, In!Queue!Apply, IP!Queue!Finish, In!Queue!Finish,
        IP!Queue!Retry, In!Queue!Retry, IP!Queue!Bury, In!Queue!Bury, IP!Queue!Replay,
        In!Queue!Replay, IP!Queue!Overrun, In!Queue!Overrun, IP!Queue!AtWork,
        In!Queue!AtWork, IP!Queue!MoveTo, In!Queue!MoveTo, IP!Phase, In!Phase

\* So is the relay's.
LEMMA OutQueueStep ==
    ASSUME OutInv, [Out!Next]_Out!vars PROVE [Out!Queue!Next]_Out!Queue!vars
  <1>1. [OP!Next]_OP!vars
    BY OutNext DEF Out!vars, OP!vars
  <1>2. [OP!Queue!Next]_OP!Queue!vars
    BY <1>1, OutAssumptions, OP!StepImplements DEF OP!StepImplements, OutInv
  <1> QED
    BY <1>2
    DEF OP!Queue!Next, Out!Queue!Next, OP!Queue!vars, Out!Queue!vars, OP!Queue!Arrive,
        Out!Queue!Arrive, OP!Queue!Apply, Out!Queue!Apply, OP!Queue!Finish,
        Out!Queue!Finish, OP!Queue!Retry, Out!Queue!Retry, OP!Queue!Bury, Out!Queue!Bury,
        OP!Queue!Replay, Out!Queue!Replay, OP!Queue!Overrun, Out!Queue!Overrun,
        OP!Queue!AtWork, Out!Queue!AtWork, OP!Queue!MoveTo, Out!Queue!MoveTo, OP!Phase,
        Out!Phase, OP!Handled, Out!Handled

\* A side that rests leaves its queue as it is.
LEMMA QueuesRest ==
    /\ UNCHANGED inboxSide => UNCHANGED In!Queue!vars
    /\ UNCHANGED outboxSide => UNCHANGED Out!Queue!vars
  <1>1. ASSUME UNCHANGED inboxSide PROVE UNCHANGED In!Queue!vars
    <2>1. inbox' = inbox /\ accepted' = accepted /\ inLate' = inLate
      BY <1>1 DEF inboxSide
    <2> QED
      BY <2>1 DEF In!Queue!vars, In!Phase
  <1>2. ASSUME UNCHANGED outboxSide PROVE UNCHANGED Out!Queue!vars
    <2>1. /\ outbox' = outbox /\ kind' = kind /\ answers' = answers /\ refunds' = refunds
          /\ published' = published /\ compensation' = compensation /\ outLate' = outLate
      BY <1>2 DEF outboxSide
    <2> QED
      BY <2>1 DEF Out!Queue!vars, Out!Phase, Out!Handled
  <1> QED
    BY <1>1, <1>2

\* A row another component inserts is an event that arrives.
LEMMA InsertArrives ==
    ASSUME InInv, NEW p \in Payloads, Insert(p), faults' \in 0 .. MaxFaults
    PROVE  In!Queue!Next
  <1>1. PICK e \in InboxIds : /\ inbox[e] = None /\ inbox'[e] = In!Fresh /\ In!Fresh # None
                              /\ \A f \in InboxIds : f # e => inbox'[f] = inbox[f]
    BY InsertKept
  <1>2. UNCHANGED <<accepted, inLate>>
    BY InsertKept
  <1>3. In!Phase(None) = "absent" /\ In!Phase(In!Fresh) = "waiting"
    BY <1>1 DEF In!Phase, In!Fresh
  <1>4. \A f \in InboxIds : f # e => In!Phase(inbox'[f]) = In!Phase(inbox[f])
    BY <1>1
  <1>5. In!Phase(inbox[e]) = "absent" /\ In!Phase(inbox'[e]) = "waiting"
    BY <1>1, <1>3
  <1>6. In!Queue!Arrive(e)
    BY <1>2, <1>4, <1>5 DEF In!Queue!Arrive, In!Queue!MoveTo
  <1> QED
    BY <1>6 DEF In!Queue!Next

\* Every step of the refund saga is a step of each queue or leaves it.
LEMMA SagaQueues ==
    ASSUME SagaInv,
           \/ \E t \in Payments : GatewayChanges(t) \/ HostRefund(t)
           \/ \E n \in mail : NoticeArrives(n)
           \/ \E r \in Relays : RefundRequest(r) \/ Compensate(r)
           \/ InboxStep \/ OutboxStep
    PROVE  [In!Queue!Next]_In!Queue!vars /\ [Out!Queue!Next]_Out!Queue!vars
  <1> USE DEF SagaInv
  <1>1. ASSUME NEW t \in Payments, GatewayChanges(t)
        PROVE  UNCHANGED In!Queue!vars /\ UNCHANGED Out!Queue!vars
    BY <1>1, QueuesRest DEF GatewayChanges
  <1>2. ASSUME NEW t \in Payments, HostRefund(t)
        PROVE  [In!Queue!Next]_In!Queue!vars /\ [Out!Queue!Next]_Out!Queue!vars
    <2>1. In!Next /\ Out!Next
      BY <1>2 DEF HostRefund, In!Next, Out!Next
    <2> QED
      BY <2>1, InQueueStep, OutQueueStep
  <1>3. ASSUME NEW n \in mail, NoticeArrives(n)
        PROVE  In!Queue!Next /\ UNCHANGED Out!Queue!vars
    <2>1. FromGateway(n[1], n[2]) \in Payloads
      BY DEF SagaTypes, Payloads
    <2>2. faults' \in 0 .. MaxFaults
      BY <1>3, Targets DEF NoticeArrives
    <2> QED
      BY <1>3, <2>1, <2>2, InsertArrives, QueuesRest DEF NoticeArrives
  <1>4. ASSUME NEW r \in Relays, RefundRequest(r)
        PROVE  UNCHANGED In!Queue!vars /\ [Out!Queue!Next]_Out!Queue!vars
    <2>1. Out!Next /\ UNCHANGED inboxSide
      BY <1>4 DEF RefundRequest, Out!Next, Out!Sends
    <2> QED
      BY <2>1, OutQueueStep, QueuesRest
  <1>5. ASSUME NEW r \in Relays, Compensate(r)
        PROVE  [In!Queue!Next]_In!Queue!vars /\ [Out!Queue!Next]_Out!Queue!vars
    <2>1. Out!Next
      BY <1>5 DEF Compensate, Out!Next, Out!Sends
    <2>2. OutInv' /\ faults' \in 0 .. MaxFaults
      BY <2>1, OutKept DEF OutInv, OP!Inv, OP!TypeOK
    <2>3. CASE UNCHANGED inboxSide
      BY <2>1, <2>3, OutQueueStep, QueuesRest
    <2>4. CASE ~UNCHANGED inboxSide
      <3>1. compensation' # compensation /\ Insert(FromEngine(subject[compensation']))
        BY <1>5, <2>4 DEF Compensate
      <3>2. FromEngine(subject[compensation']) \in Payloads
        <4>1. sent[r] # None /\ compensation' = sent[r].claim.id
          BY <1>5, <3>1 DEF Compensate, Out!SaveCompensation
        <4>2. PICK e \in OutboxIds : e = sent[r].claim.id /\ outbox[e] # None
          BY <4>1, SentRows
        <4>3. subject[e] \in Payments
          BY <4>2 DEF SagaTypes, RefundsAreOwed
        <4> QED
          BY <4>1, <4>2, <4>3 DEF Payloads
      <3> QED
        BY <2>1, <2>2, <3>1, <3>2, InsertArrives, OutQueueStep
    <2> QED
      BY <2>3, <2>4
  <1>6. ASSUME InboxStep PROVE [In!Queue!Next]_In!Queue!vars /\ UNCHANGED Out!Queue!vars
    <2>1. In!Next /\ UNCHANGED outboxSide
      BY <1>6 DEF InboxStep, In!Next
    <2> QED
      BY <2>1, InQueueStep, QueuesRest
  <1>7. ASSUME OutboxStep PROVE UNCHANGED In!Queue!vars /\ [Out!Queue!Next]_Out!Queue!vars
    <2>1. Out!Next /\ UNCHANGED inboxSide
      BY <1>7 DEF OutboxStep, Out!Next, Out!Sends
    <2> QED
      BY <2>1, OutQueueStep, QueuesRest
  <1> QED
    BY <1>1, <1>2, <1>3, <1>4, <1>5, <1>6, <1>7

\* The engine's inbox and outbox are work queues (EventQueue), whoever inserts into
\* them: a webhook, a relay's compensation or a host (SaveInboxEvent, Save).
THEOREM QueueRefinement == Spec => ImplementQueues
  <1>1. Init => In!Queue!Init /\ Out!Queue!Init
    <2> SUFFICES ASSUME SagaInit PROVE In!Queue!Init /\ Out!Queue!Init
      BY DEF Init
    <2>1. In!Queue!Init
      BY DEF SagaInit, In!Queue!Init, In!Phase
    <2>2. Out!Queue!Init
      <3>1. Out!Init
        BY DEF SagaInit
      <3> QED
        BY <3>1, SagaConstants DEF Out!Init, Out!Queue!Init, Out!Phase, Out!Handled
    <2> QED
      BY <2>1, <2>2
  <1>2. EngineInv /\ [Next]_vars =>
            [In!Queue!Next]_In!Queue!vars /\ [Out!Queue!Next]_Out!Queue!vars
    <2> SUFFICES ASSUME EngineInv, [Next]_vars
                 PROVE  [In!Queue!Next]_In!Queue!vars /\ [Out!Queue!Next]_Out!Queue!vars
      OBVIOUS
    <2>1. CASE UNCHANGED saga
      BY <2>1, QueuesRest DEF saga
    <2>2. CASE ~UNCHANGED saga
      <3>1. \/ \E t \in Payments : GatewayChanges(t) \/ HostRefund(t)
            \/ \E n \in mail : NoticeArrives(n)
            \/ \E r \in Relays : RefundRequest(r) \/ Compensate(r)
            \/ InboxStep \/ OutboxStep
        BY <2>2 DEF Next, Migrate, MigrationFails, Wire, vars, sagaVars
      <3> QED
        BY <3>1, SagaQueues DEF EngineInv
    <2> QED
      BY <2>1, <2>2
  <1> QED
    BY <1>1, <1>2, SpecInv, PTL
    DEF Spec, ImplementQueues, In!ImplementsQueue, Out!ImplementsQueue, In!Queue!Spec, Out!Queue!Spec

\* An event acts on its payment once in the whole engine, however often it is claimed,
\* replayed or raced by the host (consume's saved transaction; the saga's events say
\* themselves what they ask for).
THEOREM ActsOnce == Spec => []In!EffectOnce
  <1>1. EngineInv => In!EffectOnce
    BY DEF EngineInv, SagaInv, InInv, IP!EffectInv, IP!EffectOnce, In!EffectOnce
  <1> QED
    BY <1>1, SpecInv, PTL

\* Payments take the ledger's steps only, with the host's refund, the gateway's notices
\* and the relay's compensations at work together (PaymentLedger; TransitionTo).
THEOREM LedgerRefinement == Spec => IP!ImplementsLedger
  <1>1. Init => IP!Ledger!Init
    <2> SUFFICES ASSUME SagaInit PROVE IP!Ledger!Init
      BY DEF Init
    <2>1. \A t \in Payments : transactions[t] = Pending /\ IP!History(transactions[t]) = <<>>
      BY DEF SagaInit, IP!History, IP!Settled, Pending, IP!Pending
    <2> QED
      BY <2>1 DEF SagaInit, IP!Ledger!Init, Pending, IP!Ledger!Pending
  <1>2. ASSUME UNCHANGED transactions PROVE UNCHANGED IP!Ledger!vars
    BY <1>2 DEF IP!Ledger!vars
  <1>3. ASSUME SagaInv, In!Next PROVE [IP!Ledger!Next]_IP!Ledger!vars
    <2>1. [IP!Next]_IP!vars
      BY <1>3, InNext
    <2> QED
      BY <1>3, <2>1, InAssumptions, IP!StepKeepsLedger
      DEF IP!StepKeepsLedger, IP!Inv, SagaInv, InInv
  <1>4. ASSUME EngineInv, [Next]_vars PROVE [IP!Ledger!Next]_IP!Ledger!vars
    <2> USE DEF EngineInv
    <2>1. CASE UNCHANGED inboxSide
      BY <1>2, <2>1 DEF inboxSide
    <2>2. ASSUME NEW t \in Payments, HostRefund(t) PROVE In!Next
      BY <2>2 DEF HostRefund, In!Next
    <2>3. ASSUME InboxStep PROVE In!Next
      BY <2>3 DEF InboxStep, In!Next
    <2>4. ASSUME NEW p, Insert(p) PROVE UNCHANGED transactions
      BY <2>4 DEF Insert
    <2>5. CASE ~UNCHANGED inboxSide
      <3>1. \/ \E t \in Payments : HostRefund(t)
            \/ \E n \in mail : NoticeArrives(n)
            \/ \E r \in Relays : Compensate(r)
            \/ InboxStep
        BY <1>4, <2>5
        DEF Next, Migrate, MigrationFails, Wire, vars, sagaVars, saga, GatewayChanges,
            RefundRequest, OutboxStep
      <3> QED
        BY <1>2, <1>3, <1>4, <2>2, <2>3, <2>4, <2>5, <3>1 DEF NoticeArrives, Compensate
    <2> QED
      BY <2>1, <2>5
  <1> QED
    BY <1>1, <1>4, SpecInv, PTL DEF Spec, IP!ImplementsLedger, IP!Ledger!Spec

=============================================================================
