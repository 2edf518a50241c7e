------------------------ MODULE InboxConsumerProofs ------------------------
(***************************************************************************)
(* Proofs about InboxConsumer for any number of workers, events, payments,  *)
(* retries and faults, and any batch size.                                 *)
(*                                                                         *)
(* Two arguments.  Whatever happens to leases, a claim is about a row that  *)
(* exists and an outcome that worked is about an accepted event: that is    *)
(* enough for the queue.  While leases are kept, the claims of the workers  *)
(* partition the rows in processing and agree with them: that is what the   *)
(* count of attempts rests on.                                             *)
(***************************************************************************)
EXTENDS InboxConsumer, Lemmas

\* Rows are never deleted.
ClaimsExist == \A w \in Workers : \A c \in Claims(w) : inbox[c.id] # None

\* A worker remembers a success only of an event the service accepted.
SuccessMeansAccepted ==
    \A w \in Workers :
        outcome[w] # None /\ outcome[w].ok => outcome[w].claim.id \in accepted

\* A claim leaves the batch when it is processed.
ProcessedOnce == \A w \in Workers : outcome[w] # None => outcome[w].claim \notin held[w]

Verdicts == {"complete", "retry", "bury"}

Inv == TypeOK /\ ClaimsExist /\ SuccessMeansAccepted /\ CompletedMeansAccepted

\* While leases are kept, what workers claim is what the table says, and no two
\* claims are about the same row: the two halves of ClaimsAreExclusive.
Exact ==
    \A w \in Workers : \A c \in Claims(w) :
        inbox[c.id] = [status |-> "PROCESSING", retries |-> c.retries, orphan |-> FALSE]
Exclusive ==
    \A v, w \in Workers : \A c \in Claims(v), d \in Claims(w) : c.id = d.id => v = w /\ c = d

\* The retries of a row count its attempts.
Counted(row, n) ==
    IF row = None THEN n = 0
    ELSE /\ row.status = "PENDING" => n = row.retries
         /\ row.status = "PROCESSING" => n = row.retries + 1
         /\ row.status = "DLQ" => n = MaxRetries + 1

RetriesCountAttempts == \A e \in Events : Counted(inbox[e], attempts[e])

LeaseKept == Exact /\ Exclusive /\ RetriesCountAttempts
LeaseInv == ProcessedOnce /\ (~overrun => LeaseKept)

-----------------------------------------------------------------------------
(* The UPDATEs on a row.                                                    *)

LEMMA RowUpdates ==
    /\ Fresh \in EventRow
    /\ \A r \in EventRow : /\ Claimed(r) \in EventRow
                           /\ Completed(r) \in EventRow
                           /\ Failed(r) \in EventRow
                           /\ Dead(r) \in EventRow
                           /\ Replayed(r) \in EventRow
  <1> USE MaxRetriesOK
  <1>1. Fresh \in EventRow
    BY DEF Fresh, EventRow, RowStatus, Retries
  <1>2. ASSUME NEW n \in Retries PROVE OneMore(n) \in Retries
    BY DEF OneMore, Retries
  <1>3. ASSUME NEW r \in EventRow
        PROVE  /\ Claimed(r) \in EventRow
               /\ Completed(r) \in EventRow
               /\ Failed(r) \in EventRow
               /\ Dead(r) \in EventRow
    BY <1>2 DEF Claimed, Completed, Failed, Dead, EventRow, RowStatus
  <1>4. QED
    BY <1>1, <1>3 DEF Replayed

-----------------------------------------------------------------------------
(* What the actions have in common.                                         *)

\* Process and its failures hand the claim over to the outcome.
LEMMA ProcessedClaims ==
    ASSUME TypeOK, NEW w \in Workers, NEW c \in held[w], NEW ok \in BOOLEAN,
           Processed(w, c, ok)
    PROVE  /\ held' \in [Workers -> SUBSET Claim]
           /\ outcome' \in [Workers -> Outcome \cup {None}]
           /\ c \in Claim
           /\ outcome'[w] = [claim |-> c, ok |-> ok]
           /\ held'[w] = held[w] \ {c}
           /\ \A v \in Workers : v # w => outcome'[v] = outcome[v] /\ held'[v] = held[v]
           /\ \A v \in Workers : Claims(v)' = Claims(v)
  <1>1. c \in Claim
    BY DEF TypeOK
  <1>2. [claim |-> c, ok |-> ok] \in Outcome
    BY <1>1 DEF Outcome
  <1>3. /\ held' \in [Workers -> SUBSET Claim]
        /\ outcome' \in [Workers -> Outcome \cup {None}]
        /\ outcome'[w] = [claim |-> c, ok |-> ok]
        /\ held'[w] = held[w] \ {c}
        /\ \A v \in Workers : v # w => outcome'[v] = outcome[v] /\ held'[v] = held[v]
    BY <1>2 DEF TypeOK, Processed
  <1>4. ASSUME NEW v \in Workers PROVE Claims(v)' = Claims(v)
    <2>1. CASE v # w
      BY <2>1, <1>3 DEF Claims
    <2>2. CASE v = w
      <3>1. outcome[w] = None /\ outcome'[w] # None /\ outcome'[w].claim = c
        BY <1>2, <1>3, NoneOK DEF Processed
      <3>2. QED
        BY <2>2, <3>1, <1>3 DEF Claims
    <2>3. QED
      BY <2>1, <2>2
  <1>5. QED
    BY <1>1, <1>3, <1>4

\* Whatever the adapter reads is a status.
LEMMA ReadsAreStatuses ==
    ASSUME TypeOK, NEW e \in Events
    PROVE  /\ payload[e].tx \in Txs /\ payload[e].target \in Status
           /\ Reads(payload[e]) \subseteq Status
  <1>1. payload[e].tx \in Txs /\ payload[e].target \in Status
    BY InboxConstants DEF TypeOK
  <1>2. LiveStatus \subseteq Status
    BY DEF LiveStatus, Status, Settled
  <1> QED
    BY <1>1, <1>2 DEF Reads

\* The service moves the payment of an event it accepts.
LEMMA TransitionTypes ==
    ASSUME TypeOK, NEW e \in Events, Transition(e, payload[e])
    PROVE  /\ transactions' \in [Txs -> Status]
           /\ accepted' = accepted \cup {e}
           /\ effects' \in [Events -> 0 .. 3]
  <1>1. payload[e].tx \in Txs /\ Reads(payload[e]) \subseteq Status
    BY ReadsAreStatuses
  <1>2. QED
    BY <1>1 DEF TypeOK, Transition

\* Whatever a worker holds is the claim of some event.
LEMMA ClaimIds ==
    ASSUME TypeOK
    PROVE  \A w \in Workers : \A c \in Claims(w) : c \in Claim /\ c.id \in Events
  <1>1. ASSUME NEW w \in Workers, NEW c \in Claims(w) PROVE c \in Claim
    <2>1. CASE c \in held[w]
      BY <2>1 DEF TypeOK
    <2>2. CASE outcome[w] # None /\ c = outcome[w].claim
      BY <2>2 DEF TypeOK, Outcome
    <2>3. QED
      BY <1>1, <2>1, <2>2 DEF Claims
  <1>2. QED
    BY <1>1 DEF Claim

\* Finalising clears the outcome; the other claims stay.
LEMMA FinalisedClaims ==
    ASSUME TypeOK, NEW w \in Workers, outcome[w] # None,
           outcome' = [outcome EXCEPT ![w] = None], UNCHANGED held
    PROVE  /\ outcome' \in [Workers -> Outcome \cup {None}]
           /\ outcome[w] \in Outcome
           /\ outcome[w].claim \in Claims(w)
           /\ outcome[w].claim.id \in Events
           /\ Claims(w)' = held[w]
           /\ \A v \in Workers : v # w => outcome'[v] = outcome[v] /\ Claims(v)' = Claims(v)
  <1>1. /\ outcome' \in [Workers -> Outcome \cup {None}]
        /\ outcome'[w] = None
        /\ \A v \in Workers : v # w => outcome'[v] = outcome[v]
    BY DEF TypeOK
  <1>2. outcome[w] \in Outcome
    BY DEF TypeOK
  <1>3. outcome[w].claim.id \in Events
    BY <1>2 DEF Outcome, Claim
  <1>4. outcome[w].claim \in Claims(w) /\ Claims(w)' = held[w]
    BY <1>1 DEF Claims
  <1>5. ASSUME NEW v \in Workers, v # w PROVE Claims(v)' = Claims(v)
    BY <1>1, <1>5 DEF Claims
  <1>6. QED
    BY <1>1, <1>2, <1>3, <1>4, <1>5

\* Phase C writes a row.
LEMMA FinalisedRow ==
    ASSUME TypeOK, ClaimsExist, NEW w \in Workers, PhaseC(w)
    PROVE  \E verdict \in Verdicts, row \in EventRow : Finalise(w, verdict, row)
  <1> DEFINE id == outcome[w].claim.id
  <1>1. outcome[w] # None
    BY DEF PhaseC, MarkInboxCompleted, MarkInboxFailed, MoveInboxToDLQ, Finalise
  <1>2. outcome[w] \in Outcome /\ outcome[w].claim \in Claims(w)
    BY <1>1 DEF TypeOK, Claims
  <1>3. id \in Events
    BY <1>2 DEF Outcome, Claim
  <1>4. inbox[id] \in EventRow
    BY <1>2, <1>3 DEF TypeOK, ClaimsExist
  <1>5. CASE MarkInboxCompleted(w)
    BY <1>4, <1>5, RowUpdates DEF MarkInboxCompleted, Verdicts
  <1>6. CASE MarkInboxFailed(w)
    BY <1>4, <1>6, RowUpdates DEF MarkInboxFailed, Verdicts
  <1>7. CASE MoveInboxToDLQ(w)
    BY <1>4, <1>7, RowUpdates DEF MoveInboxToDLQ, Verdicts
  <1>8. QED
    BY <1>5, <1>6, <1>7 DEF PhaseC

\* A batch is made of claimable rows, and a worker that takes one had no claims.
LEMMA Batch ==
    ASSUME TypeOK, NEW w \in Workers, ClaimInboxEvents(w)
    PROVE  \E batch \in SUBSET {e \in Arrived : Claimable(inbox[e])} :
              /\ batch = Oldest({e \in Arrived : Claimable(inbox[e])}, BatchSize)
              /\ inbox' = [e \in Events |-> IF e \in batch THEN Claimed(inbox[e]) ELSE inbox[e]]
              /\ attempts' = [e \in Events |->
                                 IF e \in batch /\ attempts[e] <= MaxRetries
                                 THEN attempts[e] + 1 ELSE attempts[e]]
              /\ Claims(w) = {}
              /\ Claims(w)' = {[id |-> e, retries |-> inbox'[e].retries] : e \in batch}
              /\ \A v \in Workers : v # w => Claims(v)' = Claims(v)
  <1> DEFINE batch == Oldest({e \in Arrived : Claimable(inbox[e])}, BatchSize)
             claims == {[id |-> e, retries |-> inbox'[e].retries] : e \in batch}
  <1>1. batch \in SUBSET {e \in Arrived : Claimable(inbox[e])}
    BY DEF Oldest
  <1>2. /\ inbox' = [e \in Events |-> IF e \in batch THEN Claimed(inbox[e]) ELSE inbox[e]]
        /\ attempts' = [e \in Events |->
                           IF e \in batch /\ attempts[e] <= MaxRetries
                           THEN attempts[e] + 1 ELSE attempts[e]]
        /\ held' = [held EXCEPT ![w] = claims]
        /\ held[w] = {} /\ outcome[w] = None /\ UNCHANGED outcome
    BY DEF ClaimInboxEvents, Idle
  <1> HIDE DEF batch, claims
  <1>3. held'[w] = claims /\ \A v \in Workers : v # w => held'[v] = held[v]
    BY <1>2 DEF TypeOK
  <1>4. /\ Claims(w) = {} /\ Claims(w)' = claims
        /\ \A v \in Workers : v # w => Claims(v)' = Claims(v)
    BY <1>2, <1>3 DEF Claims
  <1>5. QED
    BY <1>1, <1>2, <1>4 DEF batch, claims

\* A claimed row keeps its type, and so does what the worker remembers of it.
LEMMA BatchTypes ==
    ASSUME TypeOK, NEW w \in Workers, ClaimInboxEvents(w)
    PROVE  /\ inbox' \in [Events -> EventRow \cup {None}]
           /\ held' \in [Workers -> SUBSET Claim]
           /\ attempts' \in [Events -> 0 .. MaxRetries + 1]
  <1> DEFINE batch == Oldest({e \in Arrived : Claimable(inbox[e])}, BatchSize)
  <1>1. \A e \in batch : e \in Events /\ inbox[e] \in EventRow
    BY DEF Oldest, Arrived, TypeOK
  <1>2. \A e \in batch : Claimed(inbox[e]) \in EventRow
    BY <1>1, RowUpdates
  <1>3. /\ inbox' = [e \in Events |-> IF e \in batch THEN Claimed(inbox[e]) ELSE inbox[e]]
        /\ held' = [held EXCEPT ![w] =
                       {[id |-> e, retries |-> inbox'[e].retries] : e \in batch}]
        /\ attempts' = [e \in Events |->
                           IF e \in batch /\ attempts[e] <= MaxRetries
                           THEN attempts[e] + 1 ELSE attempts[e]]
    BY DEF ClaimInboxEvents
  <1> HIDE DEF batch
  <1>4. inbox' \in [Events -> EventRow \cup {None}]
    BY <1>2, <1>3 DEF TypeOK
  <1>5. \A e \in batch : inbox'[e] \in EventRow
    BY <1>1, <1>2, <1>3
  <1>6. \A e \in batch : [id |-> e, retries |-> inbox'[e].retries] \in Claim
    BY <1>1, <1>5 DEF Claim, EventRow
  <1>7. held' \in [Workers -> SUBSET Claim]
    BY <1>3, <1>6 DEF TypeOK
  <1>8. attempts' \in [Events -> 0 .. MaxRetries + 1]
    BY <1>3, MaxRetriesOK DEF TypeOK
  <1>9. QED
    BY <1>4, <1>7, <1>8

-----------------------------------------------------------------------------
(* Types.                                                                   *)

LEMMA InitTypeOK == Init => TypeOK
  <1> SUFFICES ASSUME Init PROVE TypeOK
    OBVIOUS
  <1> USE InboxConstants, MaxRetriesOK DEF Init
  <1>1. Pending \in Status
    BY DEF Pending, Status
  <1>2. 0 \in 0 .. MaxFaults /\ 0 \in 0 .. MaxRetries + 1 /\ 0 \in 0 .. 3
    OBVIOUS
  <1>3. QED
    BY <1>1, <1>2 DEF TypeOK

\* Every step keeps the types.
LEMMA NextTypeOK == TypeOK /\ ClaimsExist /\ [Next]_vars => TypeOK'
  <1> SUFFICES ASSUME TypeOK, ClaimsExist, [Next]_vars PROVE TypeOK'
    OBVIOUS
  <1>0. Fault => faults' \in 0 .. MaxFaults
    BY InboxConstants DEF Fault, TypeOK
  <1>1. ASSUME NEW e \in Events, Ingest(e) PROVE TypeOK'
    BY <1>1, RowUpdates DEF Ingest, workers, histories, TypeOK
  <1>2. ASSUME NEW e \in Events, LeaseExpires(e) PROVE TypeOK'
    <2>1. inbox[e] \in EventRow
      BY <1>2 DEF LeaseExpires, Arrived, TypeOK
    <2>2. [inbox[e] EXCEPT !.orphan = TRUE] \in EventRow
      BY <2>1 DEF EventRow
    <2>3. inbox' \in [Events -> EventRow \cup {None}]
      BY <1>2, <2>2 DEF LeaseExpires, TypeOK
    <2>4. overrun' \in BOOLEAN
      BY <1>2 DEF LeaseExpires, TypeOK
    <2>5. QED
      BY <1>2, <2>3, <2>4 DEF LeaseExpires, workers, TypeOK
  <1>3. ASSUME NEW e \in Events, ReplayInboxDLQ(e) PROVE TypeOK'
    <2>1. Replayed(inbox[e]) \in EventRow
      BY RowUpdates DEF Replayed
    <2>2. 0 \in 0 .. MaxRetries + 1
      BY MaxRetriesOK
    <2>3. QED
      BY <1>0, <1>3, <2>1, <2>2 DEF ReplayInboxDLQ, workers, TypeOK
  <1>4. ASSUME NEW w \in Workers, ClaimInboxEvents(w) PROVE TypeOK'
    BY <1>4, BatchTypes DEF ClaimInboxEvents, TypeOK
  <1>5. ASSUME NEW w \in Workers, NEW c \in held[w], Accept(w, c) PROVE TypeOK'
    <2>1. Processed(w, c, TRUE) /\ Transition(c.id, payload[c.id])
      BY <1>5 DEF Accept
    <2>2. c.id \in Events
      BY <2>1, ProcessedClaims DEF Claim
    <2>3. held' \in [Workers -> SUBSET Claim] /\ outcome' \in [Workers -> Outcome \cup {None}]
      BY <2>1, ProcessedClaims
    <2>4. /\ transactions' \in [Txs -> Status]
          /\ accepted' = accepted \cup {c.id}
          /\ effects' \in [Events -> 0 .. 3]
      BY <2>1, <2>2, TransitionTypes
    <2>5. QED
      BY <1>5, <2>2, <2>3, <2>4 DEF Accept, TypeOK
  <1>6. ASSUME NEW w \in Workers, NEW c \in held[w], Refuse(w, c) PROVE TypeOK'
    BY <1>6, ProcessedClaims DEF Refuse, histories, TypeOK
  <1>7. ASSUME NEW w \in Workers, NEW c \in held[w], ServiceError(w, c) PROVE TypeOK'
    <2>1. Processed(w, c, FALSE)
      BY <1>7 DEF ServiceError
    <2>2. c.id \in Events
      BY <2>1, ProcessedClaims DEF Claim
    <2>3. held' \in [Workers -> SUBSET Claim] /\ outcome' \in [Workers -> Outcome \cup {None}]
      BY <2>1, ProcessedClaims
    <2>4. CASE UNCHANGED <<transactions, accepted, effects>>
      BY <1>0, <1>7, <2>3, <2>4 DEF ServiceError, TypeOK
    <2>5. CASE Transition(c.id, payload[c.id])
      <3>1. /\ transactions' \in [Txs -> Status]
            /\ accepted' = accepted \cup {c.id}
            /\ effects' \in [Events -> 0 .. 3]
        BY <2>2, <2>5, TransitionTypes
      <3>2. QED
        BY <1>0, <1>7, <2>2, <2>3, <3>1 DEF ServiceError, TypeOK
    <2>6. QED
      BY <1>7, <2>4, <2>5 DEF ServiceError
  <1>8. ASSUME NEW w \in Workers, NEW c \in held[w], Panic(w, c) PROVE TypeOK'
    BY <1>8 DEF Panic, histories, TypeOK
  <1>9. ASSUME NEW w \in Workers, PhaseC(w) PROVE TypeOK'
    <2>1. PICK verdict \in Verdicts, row \in EventRow : Finalise(w, verdict, row)
      BY <1>9, FinalisedRow
    <2>2. QED
      BY <2>1, FinalisedClaims DEF Finalise, histories, TypeOK
  <1>10. ASSUME NEW w \in Workers, FinaliseError(w) PROVE TypeOK'
    BY <1>0, <1>10 DEF FinaliseError, histories, TypeOK
  <1>11. ASSUME NEW w \in Workers, Crash(w) PROVE TypeOK'
    BY <1>0, <1>11 DEF Crash, histories, TypeOK
  <1>12. ASSUME NEW t \in Txs, HostRefund(t) PROVE TypeOK'
    <2>1. "REFUND_PROCESSING" \in Status
      BY DEF Status
    <2>2. QED
      BY <1>12, <2>1 DEF HostRefund, workers, histories, TypeOK
  <1>13. CASE UNCHANGED vars
    BY <1>13 DEF vars, TypeOK
  <1>14. QED
    BY <1>1, <1>2, <1>3, <1>4, <1>5, <1>6, <1>7, <1>8, <1>9, <1>10, <1>11, <1>12, <1>13
    DEF Next, Process

-----------------------------------------------------------------------------
(* Claims, rows and acceptances over a step.                                *)

\* Only ClaimInboxEvents gives a worker new claims.
LEMMA ClaimsShrink ==
    ASSUME TypeOK, [Next]_vars, \A w \in Workers : ~ClaimInboxEvents(w)
    PROVE  \A v \in Workers : Claims(v)' \subseteq Claims(v)
  <1>1. ASSUME UNCHANGED <<held, outcome>> PROVE \A v \in Workers : Claims(v)' \subseteq Claims(v)
    BY <1>1 DEF Claims
  <1>2. ASSUME NEW w \in Workers, NEW c \in held[w], NEW ok \in BOOLEAN, Processed(w, c, ok)
        PROVE  \A v \in Workers : Claims(v)' \subseteq Claims(v)
    BY <1>2, ProcessedClaims
  <1>3. ASSUME NEW w \in Workers, NEW c \in held[w], Panic(w, c)
        PROVE  \A v \in Workers : Claims(v)' \subseteq Claims(v)
    BY <1>3 DEF Panic, Claims, TypeOK
  <1>4. ASSUME NEW w \in Workers, Crash(w)
        PROVE  \A v \in Workers : Claims(v)' \subseteq Claims(v)
    BY <1>4 DEF Crash, Claims, TypeOK
  <1>5. ASSUME NEW w \in Workers, PhaseC(w) \/ FinaliseError(w)
        PROVE  \A v \in Workers : Claims(v)' \subseteq Claims(v)
    <2>1. outcome[w] # None /\ outcome' = [outcome EXCEPT ![w] = None] /\ UNCHANGED held
      BY <1>5 DEF PhaseC, MarkInboxCompleted, MarkInboxFailed, MoveInboxToDLQ, Finalise, FinaliseError
    <2>2. Claims(w)' = held[w] /\ \A v \in Workers : v # w => Claims(v)' = Claims(v)
      BY <2>1, FinalisedClaims
    <2>3. QED
      BY <2>2 DEF Claims
  <1>6. QED
    BY <1>1, <1>2, <1>3, <1>4, <1>5
    DEF Next, vars, workers, Process, Accept, Refuse, ServiceError, Ingest, LeaseExpires,
        ReplayInboxDLQ, HostRefund

\* No step deletes a row, and a row is only ever COMPLETED by an outcome that worked.
LEMMA RowsRemain ==
    ASSUME TypeOK, ClaimsExist, [Next]_vars, NEW e \in Events
    PROVE  /\ inbox[e] # None => inbox'[e] # None
           /\ inbox'[e] # None /\ inbox'[e].status = "COMPLETED" =>
                 \/ inbox[e] # None /\ inbox[e].status = "COMPLETED"
                 \/ \E w \in Workers :
                       outcome[w] # None /\ outcome[w].ok /\ outcome[w].claim.id = e
  <1> DEFINE Goal ==
        /\ inbox[e] # None => inbox'[e] # None
        /\ inbox'[e] # None /\ inbox'[e].status = "COMPLETED" =>
              \/ inbox[e] # None /\ inbox[e].status = "COMPLETED"
              \/ \E w \in Workers :
                    outcome[w] # None /\ outcome[w].ok /\ outcome[w].claim.id = e
  <1> SUFFICES Goal
    OBVIOUS
  <1>1. CASE UNCHANGED inbox
    BY <1>1
  <1>2. ASSUME NEW f \in Events, Ingest(f) PROVE Goal
    BY <1>2, RowUpdates, NoneOK DEF Ingest, Fresh, TypeOK
  <1>3. ASSUME NEW f \in Events, ReplayInboxDLQ(f) PROVE Goal
    BY <1>3, RowUpdates, NoneOK DEF ReplayInboxDLQ, Replayed, Fresh, TypeOK
  <1>4. ASSUME NEW f \in Events, LeaseExpires(f) PROVE Goal
    <2>1. inbox[f] \in EventRow /\ inbox[f].status = "PROCESSING"
      BY <1>4 DEF LeaseExpires, Arrived, TypeOK
    <2>2. LET row == [inbox[f] EXCEPT !.orphan = TRUE]
          IN  row \in EventRow /\ row.status = "PROCESSING"
      BY <2>1 DEF EventRow
    <2>3. QED
      BY <1>4, <2>2, NoneOK DEF LeaseExpires, TypeOK
  <1>5. ASSUME NEW w \in Workers, ClaimInboxEvents(w) PROVE Goal
    <2>1. PICK batch \in SUBSET Arrived :
             inbox' = [d \in Events |-> IF d \in batch THEN Claimed(inbox[d]) ELSE inbox[d]]
      BY <1>5 DEF ClaimInboxEvents, Oldest
    <2>2. CASE e \in batch
      <3>1. inbox[e] \in EventRow
        BY <2>2 DEF Arrived, TypeOK
      <3>2. Claimed(inbox[e]) \in EventRow /\ Claimed(inbox[e]).status = "PROCESSING"
        BY <3>1, RowUpdates DEF Claimed
      <3>3. QED
        BY <2>1, <2>2, <3>2, NoneOK
    <2>3. CASE e \notin batch
      BY <2>1, <2>3
    <2>4. QED
      BY <2>2, <2>3
  <1>6. ASSUME NEW w \in Workers, PhaseC(w) PROVE Goal
    <2>1. PICK verdict \in Verdicts, row \in EventRow : Finalise(w, verdict, row)
      BY <1>6, FinalisedRow
    <2>2. outcome[w] # None /\ outcome[w].claim.id \in Events
      BY <2>1, FinalisedClaims DEF Finalise
    <2>3. CASE outcome[w].claim.id # e
      BY <2>1, <2>3 DEF Finalise
    <2>4. CASE outcome[w].claim.id = e
      <3>1. inbox'[e] = row /\ row # None
        BY <2>1, <2>4, NoneOK DEF Finalise, TypeOK
      <3>2. CASE outcome[w].ok
        BY <2>2, <2>4, <3>1, <3>2
      <3>3. CASE ~outcome[w].ok
        <4>1. Verdict(outcome[w]) # "complete"
          BY <3>3 DEF Verdict
        <4>2. inbox'[e] \in {Failed(inbox[e]), Dead(inbox[e])}
          BY <1>6, <2>4, <4>1
          DEF PhaseC, MarkInboxCompleted, MarkInboxFailed, MoveInboxToDLQ, Finalise, TypeOK
        <4>3. outcome[w] \in Outcome /\ outcome[w].claim \in Claims(w)
          BY <2>2 DEF TypeOK, Claims
        <4>4. inbox[e] \in EventRow
          BY <2>4, <4>3 DEF TypeOK, ClaimsExist
        <4>5. Failed(inbox[e]).status = "PENDING" /\ Dead(inbox[e]).status = "DLQ"
          BY <4>4 DEF Failed, Dead, EventRow
        <4>6. QED
          BY <3>1, <4>2, <4>5
      <3>4. QED
        BY <3>2, <3>3
    <2>5. QED
      BY <2>3, <2>4
  <1>7. QED
    BY <1>1, <1>2, <1>3, <1>4, <1>5, <1>6
    DEF Next, vars, Process, Accept, Refuse, ServiceError, Panic, FinaliseError, Crash, HostRefund

\* Acceptances are for good.
LEMMA AcceptedGrows ==
    ASSUME TypeOK, [Next]_vars
    PROVE  accepted \subseteq accepted'
  <1>1. ASSUME NEW w \in Workers, NEW c \in held[w], Accept(w, c) \/ ServiceError(w, c)
        PROVE  accepted \subseteq accepted'
    BY <1>1 DEF Accept, ServiceError, Transition
  <1>2. QED
    BY <1>1
    DEF Next, vars, histories, Process, PhaseC, MarkInboxCompleted, MarkInboxFailed, MoveInboxToDLQ,
        Finalise, ClaimInboxEvents, Refuse, Panic, FinaliseError, Crash, HostRefund,
        Ingest, LeaseExpires, ReplayInboxDLQ

\* No step leaves a worker with a claim of a row that is not there.
LEMMA NextClaimsExist == TypeOK /\ ClaimsExist /\ [Next]_vars => ClaimsExist'
  <1> SUFFICES ASSUME TypeOK, ClaimsExist, [Next]_vars, NEW v \in Workers, NEW c \in Claims(v)'
               PROVE  inbox'[c.id] # None
    BY DEF ClaimsExist
  <1>1. ASSUME c \in Claims(v) PROVE inbox'[c.id] # None
    <2>1. c \in Claim
      BY <1>1 DEF Claims, TypeOK, Outcome
    <2>2. c.id \in Events /\ inbox[c.id] # None
      BY <1>1, <2>1 DEF Claim, ClaimsExist
    <2>3. QED
      BY <2>2, RowsRemain
  <1>2. ASSUME NEW w \in Workers, ClaimInboxEvents(w), c \notin Claims(v)
        PROVE  inbox'[c.id] # None
    <2>1. PICK batch \in SUBSET {e \in Arrived : Claimable(inbox[e])} :
             /\ Claims(w)' = {[id |-> e, retries |-> inbox'[e].retries] : e \in batch}
             /\ \A u \in Workers : u # w => Claims(u)' = Claims(u)
      BY <1>2, Batch
    <2>2. c.id \in batch
      BY <1>2, <2>1
    <2>3. QED
      BY <2>2, RowsRemain DEF Arrived
  <1>3. QED
    BY <1>1, <1>2, ClaimsShrink

\* No step lets a worker remember a success of an event the service refused.
LEMMA NextSuccessMeansAccepted ==
    TypeOK /\ SuccessMeansAccepted /\ [Next]_vars => SuccessMeansAccepted'
  <1> SUFFICES ASSUME TypeOK, SuccessMeansAccepted, [Next]_vars,
                      NEW v \in Workers, outcome'[v] # None, outcome'[v].ok
               PROVE  outcome'[v].claim.id \in accepted'
    BY DEF SuccessMeansAccepted
  <1>1. CASE outcome'[v] = outcome[v]
    BY <1>1, AcceptedGrows DEF SuccessMeansAccepted
  <1>2. ASSUME NEW w \in Workers, NEW c \in held[w], Accept(w, c)
        PROVE  outcome'[v].claim.id \in accepted' \/ outcome'[v] = outcome[v]
    <2>1. outcome'[w] = [claim |-> c, ok |-> TRUE]
      BY <1>2, ProcessedClaims DEF Accept
    <2>2. c.id \in accepted'
      BY <1>2 DEF Accept, Transition
    <2>3. QED
      BY <1>2, <2>1, <2>2 DEF Accept, Processed, TypeOK
  <1>3. ASSUME NEW w \in Workers, NEW c \in held[w], Refuse(w, c) \/ ServiceError(w, c)
        PROVE  outcome'[v] = outcome[v]
    <2>1. Processed(w, c, FALSE)
      BY <1>3 DEF Refuse, ServiceError
    <2>2. /\ outcome'[w] = [claim |-> c, ok |-> FALSE]
          /\ \A u \in Workers : u # w => outcome'[u] = outcome[u]
      BY <2>1, ProcessedClaims
    <2>3. QED
      BY <2>2
  <1>4. ASSUME NEW w \in Workers, PhaseC(w) \/ FinaliseError(w) \/ Crash(w)
        PROVE  outcome'[v] = outcome[v]
    BY <1>4
    DEF PhaseC, MarkInboxCompleted, MarkInboxFailed, MoveInboxToDLQ, Finalise, FinaliseError,
        Crash, TypeOK
  <1>5. QED
    BY <1>1, <1>2, <1>3, <1>4
    DEF Next, vars, workers, Process, Panic, ClaimInboxEvents, Ingest, LeaseExpires,
        ReplayInboxDLQ, HostRefund

\* The tables are empty and the workers idle: the first invariant holds.
LEMMA InitInv == Init => Inv
  <1> SUFFICES ASSUME Init PROVE Inv
    OBVIOUS
  <1>1. \A w \in Workers : Claims(w) = {} /\ outcome[w] = None
    BY DEF Init, Claims
  <1>2. Arrived = {}
    BY DEF Init, Arrived
  <1>3. QED
    BY <1>1, <1>2, InitTypeOK
    DEF Inv, ClaimsExist, SuccessMeansAccepted, CompletedMeansAccepted

\* The first invariant is kept by every step.
LEMMA NextInv == Inv /\ [Next]_vars => Inv'
  <1> SUFFICES ASSUME Inv, [Next]_vars PROVE Inv'
    OBVIOUS
  <1>1. TypeOK' /\ ClaimsExist' /\ SuccessMeansAccepted'
    BY NextTypeOK, NextClaimsExist, NextSuccessMeansAccepted DEF Inv
  <1>2. ASSUME NEW e \in Events, inbox'[e] # None, inbox'[e].status = "COMPLETED"
        PROVE  e \in accepted'
    <2>1. e \in accepted
      BY <1>2, RowsRemain DEF Inv, CompletedMeansAccepted, SuccessMeansAccepted, Arrived
    <2>2. QED
      BY <2>1, AcceptedGrows DEF Inv
  <1>3. CompletedMeansAccepted'
    BY <1>2 DEF CompletedMeansAccepted, Arrived
  <1>4. QED
    BY <1>1, <1>3 DEF Inv

\* Every reachable state is well-typed, for any number of workers and events.
THEOREM TypeCorrect == Spec => []TypeOK
  <1>1. Inv => TypeOK
    BY DEF Inv
  <1>2. QED
    BY <1>1, InitInv, NextInv, PTL DEF Spec

\* A COMPLETED row means the service has accepted the event, however many
\* workers outlive their leases.
THEOREM Completion == Spec => []CompletedMeansAccepted
  <1>1. Inv => CompletedMeansAccepted
    BY DEF Inv
  <1>2. QED
    BY <1>1, InitInv, NextInv, PTL DEF Spec

-----------------------------------------------------------------------------
(* While leases are kept.                                                   *)

\* A step that changes one row, which no worker claims after it.
LEMMA OneRow ==
    ASSUME TypeOK, LeaseKept, NEW f \in Events, NEW row \in EventRow,
           inbox' = [inbox EXCEPT ![f] = row],
           \A e \in Events : e # f => attempts'[e] = attempts[e],
           \A v \in Workers : Claims(v)' \subseteq Claims(v),
           \A v \in Workers : \A c \in Claims(v)' : c.id # f,
           Counted(row, attempts'[f])
    PROVE  LeaseKept'
  <1>1. inbox'[f] = row /\ \A e \in Events : e # f => inbox'[e] = inbox[e]
    BY DEF TypeOK
  <1>2. ASSUME NEW v \in Workers, NEW c \in Claims(v)'
        PROVE  c \in Claims(v) /\ c.id \in Events /\ inbox'[c.id] = inbox[c.id]
    <2>1. c \in Claims(v) /\ c.id # f
      BY <1>2
    <2>2. c.id \in Events
      BY <2>1, ClaimIds
    <2>3. QED
      BY <1>1, <2>1, <2>2
  <1>3. Exact'
    BY <1>2 DEF Exact, LeaseKept
  <1>4. Exclusive'
    BY <1>2 DEF Exclusive, LeaseKept
  <1>5. RetriesCountAttempts'
    BY <1>1 DEF LeaseKept, RetriesCountAttempts
  <1>6. QED
    BY <1>3, <1>4, <1>5 DEF LeaseKept

\* A claim leaves the batch before its outcome is known, and none comes back.
LEMMA NextProcessedOnce == TypeOK /\ ProcessedOnce /\ [Next]_vars => ProcessedOnce'
  <1> SUFFICES ASSUME TypeOK, ProcessedOnce, [Next]_vars PROVE ProcessedOnce'
    OBVIOUS
  <1>1. ASSUME NEW w \in Workers, NEW c \in held[w], NEW ok \in BOOLEAN, Processed(w, c, ok)
        PROVE  ProcessedOnce'
    <2>1. /\ outcome'[w] = [claim |-> c, ok |-> ok]
          /\ held'[w] = held[w] \ {c}
          /\ \A v \in Workers : v # w => outcome'[v] = outcome[v] /\ held'[v] = held[v]
      BY <1>1, ProcessedClaims
    <2>2. QED
      BY <2>1 DEF ProcessedOnce
  <1>2. ASSUME NEW w \in Workers, NEW c \in held[w], Panic(w, c) PROVE ProcessedOnce'
    BY <1>2 DEF Panic, ProcessedOnce, TypeOK
  <1>3. ASSUME NEW w \in Workers, PhaseC(w) \/ FinaliseError(w) \/ Crash(w) PROVE ProcessedOnce'
    BY <1>3
    DEF PhaseC, MarkInboxCompleted, MarkInboxFailed, MoveInboxToDLQ, Finalise, FinaliseError,
        Crash, ProcessedOnce, TypeOK
  <1>4. ASSUME NEW w \in Workers, ClaimInboxEvents(w) PROVE ProcessedOnce'
    <2>1. /\ outcome[w] = None /\ UNCHANGED outcome
          /\ \A v \in Workers : v # w => held'[v] = held[v]
      BY <1>4 DEF ClaimInboxEvents, Idle, TypeOK
    <2>2. QED
      BY <2>1 DEF ProcessedOnce
  <1>5. CASE UNCHANGED <<held, outcome>>
    BY <1>5 DEF ProcessedOnce
  <1>6. QED
    BY <1>1, <1>2, <1>3, <1>4, <1>5
    DEF Next, vars, workers, Process, Accept, Refuse, ServiceError, Ingest, LeaseExpires,
        ReplayInboxDLQ, HostRefund

\* SKIP LOCKED and the lease: no batch holds a row that is claimed already.
LEMMA BatchLease ==
    ASSUME TypeOK, LeaseKept, NEW w \in Workers, ClaimInboxEvents(w)
    PROVE  LeaseKept'
  <1>1. PICK batch \in SUBSET {e \in Arrived : Claimable(inbox[e])} :
           /\ inbox' = [e \in Events |-> IF e \in batch THEN Claimed(inbox[e]) ELSE inbox[e]]
           /\ attempts' = [e \in Events |->
                              IF e \in batch /\ attempts[e] <= MaxRetries
                              THEN attempts[e] + 1 ELSE attempts[e]]
           /\ Claims(w) = {}
           /\ Claims(w)' = {[id |-> e, retries |-> inbox'[e].retries] : e \in batch}
           /\ \A v \in Workers : v # w => Claims(v)' = Claims(v)
    BY Batch
  <1>2. \A e \in batch : e \in Events /\ inbox[e] \in EventRow /\ Claimable(inbox[e])
    BY DEF Arrived, TypeOK
  <1>3. ASSUME NEW v \in Workers, NEW c \in Claims(v)
        PROVE  c.id \in Events /\ c.id \notin batch
    <2>1. inbox[c.id] = [status |-> "PROCESSING", retries |-> c.retries, orphan |-> FALSE]
      BY <1>3 DEF LeaseKept, Exact
    <2>2. ~Claimable(inbox[c.id])
      BY <2>1 DEF Claimable
    <2>3. QED
      BY <1>2, <1>3, <2>2, ClaimIds
  <1>4. ASSUME NEW v \in Workers, v # w, NEW c \in Claims(v)'
        PROVE  c \in Claims(v) /\ inbox'[c.id] = inbox[c.id] /\ c.id \notin batch
    <2>1. c \in Claims(v)
      BY <1>1, <1>4
    <2>2. c.id \in Events /\ c.id \notin batch
      BY <1>3, <2>1
    <2>3. QED
      BY <1>1, <2>1, <2>2
  <1>5. ASSUME NEW c \in Claims(w)'
        PROVE  /\ c.id \in batch
               /\ inbox'[c.id] = [status |-> "PROCESSING", retries |-> c.retries, orphan |-> FALSE]
    <2>1. PICK e \in batch : c = [id |-> e, retries |-> inbox'[e].retries]
      BY <1>1, <1>5
    <2>2. inbox'[e] = Claimed(inbox[e])
      BY <1>1, <1>2
    <2>3. QED
      BY <2>1, <2>2 DEF Claimed
  <1>6. ASSUME NEW c \in Claims(w)', NEW d \in Claims(w)', c.id = d.id PROVE c = d
    BY <1>1, <1>6
  <1>7. Exact'
    <2> SUFFICES ASSUME NEW v \in Workers, NEW c \in Claims(v)'
                 PROVE  inbox'[c.id] = [status |-> "PROCESSING", retries |-> c.retries, orphan |-> FALSE]
      BY DEF Exact
    <2>1. CASE v = w
      BY <1>5, <2>1
    <2>2. CASE v # w
      BY <1>4, <2>2 DEF LeaseKept, Exact
    <2>3. QED
      BY <2>1, <2>2
  <1>8. Exclusive'
    <2> SUFFICES ASSUME NEW u \in Workers, NEW v \in Workers,
                        NEW c \in Claims(u)', NEW d \in Claims(v)', c.id = d.id
                 PROVE  u = v /\ c = d
      BY DEF Exclusive
    <2>1. CASE u = w /\ v = w
      BY <1>6, <2>1
    <2>2. CASE u # w /\ v # w
      BY <1>4, <2>2 DEF LeaseKept, Exclusive
    <2>3. CASE u = w /\ v # w
      BY <1>4, <1>5, <2>3
    <2>4. CASE u # w /\ v = w
      BY <1>4, <1>5, <2>4
    <2>5. QED
      BY <2>1, <2>2, <2>3, <2>4
  <1>9. ASSUME NEW e \in Events PROVE Counted(inbox'[e], attempts'[e])
    <2>1. CASE e \notin batch
      BY <1>1, <2>1 DEF LeaseKept, RetriesCountAttempts
    <2>2. CASE e \in batch
      <3>1. /\ inbox[e] \in EventRow /\ inbox[e].status \in {"PENDING", "PROCESSING"}
            /\ inbox[e].retries \in Retries
        BY <1>2, <2>2 DEF Claimable, EventRow
      <3>2. /\ inbox[e].status = "PENDING" => attempts[e] = inbox[e].retries
            /\ inbox[e].status = "PROCESSING" => attempts[e] = inbox[e].retries + 1
        BY <3>1, NoneOK DEF LeaseKept, RetriesCountAttempts, Counted
      <3>3. attempts'[e] = IF attempts[e] <= MaxRetries THEN attempts[e] + 1 ELSE attempts[e]
        BY <1>1, <2>2
      <3>4. inbox'[e] = Claimed(inbox[e])
        BY <1>1, <2>2
      <3>8. inbox'[e] # None
        BY <3>1, <3>4, RowUpdates, NoneOK
      <3>5. CASE inbox[e].status = "PENDING"
        BY <3>8, <3>1, <3>2, <3>3, <3>4, <3>5, MaxRetriesOK DEF Claimed, Counted, Retries
      <3>6. CASE inbox[e].status = "PROCESSING"
        BY <3>8, <3>1, <3>2, <3>3, <3>4, <3>6, MaxRetriesOK DEF Claimed, OneMore, Counted, Retries
      <3>7. QED
        BY <3>1, <3>5, <3>6
    <2>3. QED
      BY <2>1, <2>2
  <1>10. QED
    BY <1>7, <1>8, <1>9 DEF LeaseKept, RetriesCountAttempts

\* Phase C decides on the retry count the table still has.
LEMMA FinaliseLease ==
    ASSUME TypeOK, ClaimsExist, ProcessedOnce, LeaseKept, NEW w \in Workers, PhaseC(w)
    PROVE  LeaseKept'
  <1> DEFINE c == outcome[w].claim
             id == c.id
  <1>1. PICK verdict \in Verdicts, row \in EventRow : Finalise(w, verdict, row)
    BY FinalisedRow
  <1>2. /\ outcome[w] # None /\ outcome' = [outcome EXCEPT ![w] = None] /\ UNCHANGED held
        /\ inbox' = [inbox EXCEPT ![id] = row] /\ UNCHANGED attempts
    BY <1>1 DEF Finalise, histories
  <1>3. /\ id \in Events /\ c \in Claims(w) /\ outcome[w] \in Outcome
        /\ Claims(w)' = held[w]
        /\ \A v \in Workers : v # w => Claims(v)' = Claims(v)
    BY <1>2, FinalisedClaims
  <1>4. \A v \in Workers : Claims(v)' \subseteq Claims(v)
    BY <1>3 DEF Claims
  <1>5. ASSUME NEW v \in Workers, NEW d \in Claims(v)' PROVE d.id # id
    <2>1. CASE v # w
      <3>1. d \in Claims(v) /\ c \in Claims(w)
        BY <1>3, <1>5, <2>1
      <3>2. QED
        BY <2>1, <3>1 DEF LeaseKept, Exclusive
    <2>2. CASE v = w
      <3>1. d \in Claims(w) /\ d # c
        BY <1>2, <1>3, <1>5, <2>2 DEF ProcessedOnce, Claims
      <3>2. QED
        BY <1>3, <3>1 DEF LeaseKept, Exclusive
    <2>3. QED
      BY <2>1, <2>2
  <1>6. inbox[id] = [status |-> "PROCESSING", retries |-> c.retries, orphan |-> FALSE]
    BY <1>3 DEF LeaseKept, Exact
  <1>7. c.retries \in Retries
    BY <1>3 DEF Outcome, Claim
  <1>8. attempts[id] = c.retries + 1
    <2>1. inbox[id] # None
      BY <1>3 DEF ClaimsExist
    <2>2. QED
      BY <1>3, <1>6, <2>1 DEF LeaseKept, RetriesCountAttempts, Counted
  <1>9. inbox'[id] = row /\ row # None
    BY <1>2, <1>3, NoneOK DEF TypeOK
  <1>10. Counted(inbox'[id], attempts[id])
    <2>1. CASE MarkInboxCompleted(w)
      <3>1. inbox'[id] = Completed(inbox[id])
        BY <1>3, <2>1 DEF MarkInboxCompleted, Finalise, TypeOK
      <3>2. QED
        BY <1>6, <1>9, <3>1 DEF Completed, Counted
    <2>2. CASE MarkInboxFailed(w)
      <3>1. inbox'[id] = Failed(inbox[id])
        BY <1>3, <2>2 DEF MarkInboxFailed, Finalise, TypeOK
      <3>2. ~(c.retries >= MaxRetries)
        BY <1>3, <2>2 DEF MarkInboxFailed, Finalise, Verdict, Outcome
      <3>3. QED
        BY <1>6, <1>7, <1>8, <1>9, <3>1, <3>2, MaxRetriesOK DEF Failed, OneMore, Counted, Retries
    <2>3. CASE MoveInboxToDLQ(w)
      <3>1. inbox'[id] = Dead(inbox[id])
        BY <1>3, <2>3 DEF MoveInboxToDLQ, Finalise, TypeOK
      <3>2. c.retries >= MaxRetries
        BY <1>3, <2>3 DEF MoveInboxToDLQ, Finalise, Verdict, Outcome
      <3>3. QED
        BY <1>6, <1>7, <1>8, <1>9, <3>1, <3>2, MaxRetriesOK DEF Dead, Counted, Retries
    <2>4. QED
      BY <2>1, <2>2, <2>3 DEF PhaseC
  <1> HIDE DEF id, c
  <1>11. QED
    BY <1>2, <1>3, <1>4, <1>5, <1>9, <1>10, OneRow

\* What a lease buys is kept by every step.
LEMMA NextLeaseInv == TypeOK /\ ClaimsExist /\ LeaseInv /\ [Next]_vars => LeaseInv'
  <1> SUFFICES ASSUME TypeOK, ClaimsExist, LeaseInv, [Next]_vars PROVE LeaseInv'
    OBVIOUS
  <1>0. ProcessedOnce'
    BY NextProcessedOnce DEF LeaseInv
  <1>1. CASE overrun'
    BY <1>0, <1>1 DEF LeaseInv
  <1>2. ASSUME NEW w \in Workers, ClaimInboxEvents(w), LeaseKept PROVE LeaseKept'
    BY <1>2, BatchLease
  <1>3. ASSUME NEW w \in Workers, PhaseC(w), LeaseKept PROVE LeaseKept'
    BY <1>3, FinaliseLease DEF LeaseInv
  <1>4. ASSUME \A w \in Workers : ~ClaimInboxEvents(w), UNCHANGED <<inbox, attempts>>, LeaseKept
        PROVE  LeaseKept'
    <2>1. \A v \in Workers : Claims(v)' \subseteq Claims(v)
      BY <1>4, ClaimsShrink
    <2>2. Exact' /\ Exclusive'
      BY <1>4, <2>1 DEF LeaseKept, Exact, Exclusive
    <2>3. RetriesCountAttempts'
      BY <1>4 DEF LeaseKept, RetriesCountAttempts
    <2>4. QED
      BY <2>2, <2>3 DEF LeaseKept
  <1>5. ASSUME NEW e \in Events, Ingest(e), LeaseKept PROVE LeaseKept'
    <2>1. \A v \in Workers : Claims(v)' = Claims(v) /\ \A c \in Claims(v) : c.id # e
      BY <1>5 DEF Ingest, workers, Claims, ClaimsExist
    <2>2. inbox' = [inbox EXCEPT ![e] = Fresh] /\ UNCHANGED attempts
      BY <1>5 DEF Ingest, histories
    <2>3. Counted(Fresh, attempts'[e])
      BY <1>5, <2>2 DEF Ingest, LeaseKept, RetriesCountAttempts, Counted, Fresh
    <2>4. QED
      BY <1>5, <2>1, <2>2, <2>3, OneRow, RowUpdates
  <1>6. ASSUME NEW e \in Events, LeaseExpires(e), ~overrun', LeaseKept PROVE LeaseKept'
    <2> DEFINE row == [inbox[e] EXCEPT !.orphan = TRUE]
    <2>1. inbox[e] \in EventRow /\ row \in EventRow
      BY <1>6 DEF LeaseExpires, Arrived, TypeOK, EventRow
    <2>2. \A v \in Workers : Claims(v)' = Claims(v) /\ \A c \in Claims(v) : c.id # e
      BY <1>6 DEF LeaseExpires, workers, Claims, Holds
    <2>3. inbox' = [inbox EXCEPT ![e] = row] /\ UNCHANGED attempts
      BY <1>6 DEF LeaseExpires
    <2>4. /\ inbox[e].status = "PROCESSING" /\ inbox[e] # None
          /\ row.status = "PROCESSING" /\ row.retries = inbox[e].retries
      BY <1>6, <2>1 DEF LeaseExpires, Arrived, EventRow
    <2>5. Counted(row, attempts'[e])
      <3>1. attempts[e] = inbox[e].retries + 1
        BY <1>6, <2>4 DEF LeaseKept, RetriesCountAttempts, Counted
      <3>2. row # None
        BY <2>1, NoneOK
      <3> HIDE DEF row
      <3>3. QED
        BY <2>3, <2>4, <3>1, <3>2 DEF Counted
    <2> HIDE DEF row
    <2>6. QED
      BY <1>6, <2>1, <2>2, <2>3, <2>5, OneRow
  <1>7. ASSUME NEW e \in Events, ReplayInboxDLQ(e), LeaseKept PROVE LeaseKept'
    <2>1. ASSUME NEW v \in Workers, NEW c \in Claims(v) PROVE c.id # e
      <3>1. inbox[c.id] = [status |-> "PROCESSING", retries |-> c.retries, orphan |-> FALSE]
        BY <2>1, <1>7 DEF LeaseKept, Exact
      <3>2. QED
        BY <1>7, <3>1 DEF ReplayInboxDLQ
    <2>2. \A v \in Workers : Claims(v)' = Claims(v)
      BY <1>7 DEF ReplayInboxDLQ, workers, Claims
    <2>3. /\ inbox' = [inbox EXCEPT ![e] = Fresh]
          /\ attempts' = [attempts EXCEPT ![e] = 0]
      BY <1>7 DEF ReplayInboxDLQ, Replayed
    <2>4. attempts'[e] = 0 /\ \A f \in Events : f # e => attempts'[f] = attempts[f]
      BY <2>3 DEF TypeOK
    <2>5. Counted(Fresh, attempts'[e])
      BY <2>4 DEF Counted, Fresh
    <2>6. QED
      BY <1>7, <2>1, <2>2, <2>3, <2>4, <2>5, OneRow, RowUpdates
  <1>8. CASE ~overrun'
    <2>1. ~overrun
      BY <1>8
      DEF Next, vars, histories, Process, PhaseC, MarkInboxCompleted, MarkInboxFailed,
          MoveInboxToDLQ, Finalise, ClaimInboxEvents, Accept, Refuse, ServiceError, Panic,
          FinaliseError, Crash, HostRefund, Ingest, LeaseExpires, ReplayInboxDLQ
    <2>2. LeaseKept
      BY <2>1 DEF LeaseInv
    <2>3. LeaseKept'
      BY <1>2, <1>3, <1>4, <1>5, <1>6, <1>7, <1>8, <2>2
      DEF Next, vars, histories, Process, Accept, Refuse, ServiceError, Panic, FinaliseError,
          Crash, HostRefund
    <2>4. QED
      BY <1>0, <2>3 DEF LeaseInv
  <1>9. QED
    BY <1>1, <1>8

\* Nothing is claimed at the start.
LEMMA InitLeaseInv == Init => LeaseInv
  <1> SUFFICES ASSUME Init PROVE LeaseInv
    OBVIOUS
  <1>1. \A w \in Workers : Claims(w) = {} /\ outcome[w] = None
    BY DEF Init, Claims
  <1>2. RetriesCountAttempts
    BY DEF Init, RetriesCountAttempts, Counted
  <1>3. QED
    BY <1>1, <1>2 DEF LeaseInv, LeaseKept, ProcessedOnce, Exact, Exclusive

\* The second invariant, which leans on the first.
LEMMA SpecLeaseInv == Spec => []LeaseInv
  <1>1. Inv /\ LeaseInv /\ [Next]_vars => LeaseInv'
    BY NextLeaseInv DEF Inv
  <1>2. QED
    BY <1>1, InitInv, NextInv, InitLeaseInv, PTL DEF Spec

\* While every worker keeps its lease, a row has one owner at most, and what the
\* owner remembers of it is what the table says.
THEOREM Exclusion == Spec => []ClaimsAreExclusive
  <1>1. LeaseInv => ClaimsAreExclusive
    BY DEF LeaseInv, LeaseKept, Exact, Exclusive, ClaimsAreExclusive
  <1>2. QED
    BY <1>1, SpecLeaseInv, PTL

\* While every worker keeps its lease, an event dies only of maxRetries retries
\* of its own.
THEOREM Exhaustion == Spec => []DeadOnlyWhenExhausted
  <1>1. LeaseInv => DeadOnlyWhenExhausted
    BY DEF LeaseInv, LeaseKept, RetriesCountAttempts, Counted, DeadOnlyWhenExhausted, Arrived
  <1>2. QED
    BY <1>1, SpecLeaseInv, PTL

-----------------------------------------------------------------------------
(* The payments.                                                            *)

\* The payment of an accepted event is where the event took it or further, and only
\* accepted events have changed one.
Passed ==
    \A e \in accepted :
        /\ inbox[e] # None
        /\ payload[e].kind = "good" => transactions[payload[e].tx] \in Later(payload[e].target)
ChangesAccepted == \A e \in Events : effects[e] > 0 => e \in accepted

\* How often a status that is read from the gateway may have changed by s: the host's
\* own steps do not count.
Steps(s) ==
    CASE s = Pending                                           -> 0
      [] s \in Settled \cup {"FAILED", "REFUND_PROCESSING"} -> 1
      [] OTHER                                                 -> 2

\* An event that is read anew has changed its payment no oftener than that.
LiveChanges ==
    \A e \in Events :
        payload[e].kind = "live" => effects[e] <= Steps(transactions[payload[e].tx])

EffectInv == EffectOnce /\ Passed /\ ChangesAccepted /\ LiveChanges

\* The steps go up, and whatever a gateway reports goes up by one.
LEMMA StepsGoUp ==
    \A old, new \in Status :
        Evaluate(old, new) =>
            /\ Steps(old) \in 0 .. 2 /\ Steps(new) \in 0 .. 2
            /\ Steps(old) <= Steps(new)
            /\ new \in LiveStatus /\ new # old => Steps(old) < Steps(new)
  BY DEF Evaluate, Successors, Steps, LiveStatus, Status, Settled, Pending

\* What a step does to payments, if anything: the service accepts an event that a worker
\* holds, or the host asks for a refund.
LEMMA ServiceSteps ==
    ASSUME TypeOK, [Next]_vars
    PROVE  /\ payload' = payload
           /\ \/ UNCHANGED <<transactions, accepted, effects>>
              \/ \E w \in Workers : \E c \in held[w] :
                    c.id \in Events /\ Transition(c.id, payload[c.id])
              \/ \E t \in Txs : HostRefund(t)
  <1> USE DEF histories, workers
  <1>1. ASSUME NEW w \in Workers, NEW c \in held[w], Accept(w, c) \/ ServiceError(w, c)
        PROVE  /\ payload' = payload
               /\ \/ UNCHANGED <<transactions, accepted, effects>>
                  \/ c.id \in Events /\ Transition(c.id, payload[c.id])
    <2>1. c.id \in Events
      BY DEF TypeOK, Claim
    <2> QED
      BY <1>1, <2>1 DEF Accept, ServiceError
  <1>2. ASSUME NEW w \in Workers, NEW c \in held[w], Refuse(w, c) \/ Panic(w, c)
        PROVE  UNCHANGED <<payload, transactions, accepted, effects>>
    BY <1>2 DEF Refuse, Panic
  <1>3. ASSUME NEW w \in Workers,
               ClaimInboxEvents(w) \/ PhaseC(w) \/ FinaliseError(w) \/ Crash(w)
        PROVE  UNCHANGED <<payload, transactions, accepted, effects>>
    BY <1>3 DEF ClaimInboxEvents, PhaseC, MarkInboxCompleted, MarkInboxFailed, MoveInboxToDLQ,
                Finalise, FinaliseError, Crash
  <1>4. ASSUME NEW e \in Events, Ingest(e) \/ LeaseExpires(e) \/ ReplayInboxDLQ(e)
        PROVE  UNCHANGED <<payload, transactions, accepted, effects>>
    BY <1>4 DEF Ingest, LeaseExpires, ReplayInboxDLQ
  <1>5. ASSUME NEW t \in Txs, HostRefund(t) PROVE payload' = payload
    BY <1>5 DEF HostRefund
  <1>6. CASE UNCHANGED vars
    BY <1>6 DEF vars
  <1> QED
    BY <1>1, <1>2, <1>3, <1>4, <1>5, <1>6 DEF Next, Process

\* One payment moves at a time, as the policies let it.
LEMMA OnePaymentMoves ==
    ASSUME TypeOK, [Next]_vars
    PROVE  \/ transactions' = transactions
           \/ \E t \in Txs, s \in Status :
                 /\ Evaluate(transactions[t], s)
                 /\ transactions' = [transactions EXCEPT ![t] = s]
  <1>1. ASSUME NEW e \in Events, Transition(e, payload[e])
        PROVE  \E t \in Txs, s \in Status : /\ Evaluate(transactions[t], s)
                                            /\ transactions' = [transactions EXCEPT ![t] = s]
    <2>1. payload[e].tx \in Txs /\ Reads(payload[e]) \subseteq Status
      BY ReadsAreStatuses
    <2> QED
      BY <1>1, <2>1 DEF Transition, Legal
  <1>2. ASSUME NEW t \in Txs, HostRefund(t)
        PROVE  \E s \in Status : /\ Evaluate(transactions[t], s)
                                 /\ transactions' = [transactions EXCEPT ![t] = s]
    <2> DEFINE s == "REFUND_PROCESSING"
    <2>1. s \in Status /\ Evaluate(transactions[t], s)
      BY <1>2 DEF HostRefund, Status, Evaluate, Successors, Settled, Pending
    <2> QED
      BY <1>2, <2>1 DEF HostRefund
  <1> QED
    BY <1>1, <1>2, ServiceSteps

\* A payment goes on or stays.
LEMMA PaymentGoesOn ==
    ASSUME TypeOK, [Next]_vars, NEW t \in Txs
    PROVE  /\ transactions[t] \in Status
           /\ \/ transactions'[t] = transactions[t]
              \/ transactions'[t] \in Status /\ Evaluate(transactions[t], transactions'[t])
  BY OnePaymentMoves DEF TypeOK

\* An event that was passed once stays passed.
LEMMA StillPassed ==
    ASSUME TypeOK, ClaimsExist, EffectInv, [Next]_vars, NEW e \in accepted
    PROVE  /\ inbox'[e] # None
           /\ payload'[e].kind = "good" =>
                 transactions'[payload'[e].tx] \in Later(payload'[e].target)
  <1>1. e \in Events /\ inbox'[e] # None
    BY RowsRemain DEF EffectInv, Passed, TypeOK
  <1>2. payload[e].tx \in Txs /\ payload[e].target \in Status /\ payload' = payload
    BY <1>1, ReadsAreStatuses, ServiceSteps
  <1>3. payload[e].kind = "good" => transactions[payload[e].tx] \in Later(payload[e].target)
    BY DEF EffectInv, Passed
  <1> QED
    BY <1>1, <1>2, <1>3, PaymentGoesOn, NoWayBack

\* So does the count of what an event that is read anew has changed, if it stays.
LEMMA StillCounted ==
    ASSUME TypeOK, EffectInv, [Next]_vars, NEW e \in Events, effects'[e] = effects[e],
           payload'[e].kind = "live"
    PROVE  effects'[e] <= Steps(transactions'[payload'[e].tx])
  <1>1. payload[e].tx \in Txs /\ payload' = payload
    BY ReadsAreStatuses, ServiceSteps
  <1>2. effects[e] <= Steps(transactions[payload[e].tx]) /\ effects[e] \in 0 .. 3
    BY <1>1 DEF EffectInv, LiveChanges, TypeOK
  <1> DEFINE old == transactions[payload[e].tx]
             new == transactions'[payload[e].tx]
  <1>3. CASE new = old
    BY <1>1, <1>2, <1>3
  <1>4. CASE old \in Status /\ new \in Status /\ Evaluate(old, new)
    <2>1. Steps(old) \in 0 .. 2 /\ Steps(new) \in 0 .. 2 /\ Steps(old) <= Steps(new)
      BY <1>4, StepsGoUp
    <2> HIDE DEF old, new
    <2>2. effects[e] <= Steps(new)
      BY <1>2, <2>1 DEF old
    <2> QED
      BY <1>1, <2>2 DEF new
  <1> QED
    BY <1>1, <1>3, <1>4, PaymentGoesOn

\* An accepted event changes its payment only if it never has, or if it is read anew.
LEMMA TransitionOnce ==
    ASSUME TypeOK, ClaimsExist, EffectInv, [Next]_vars,
           NEW w \in Workers, NEW c \in held[w],
           c.id \in Events, Transition(c.id, payload[c.id])
    PROVE  EffectInv'
  <1> DEFINE e == c.id
             t == payload[e].tx
             old == transactions[t]
  <1>1. PICK s \in Reads(payload[e]) :
           /\ Evaluate(old, s)
           /\ transactions' = [transactions EXCEPT ![t] = s]
           /\ accepted' = accepted \cup {e}
           /\ effects' = [effects EXCEPT ![e] = IF old # s /\ @ < 3 THEN @ + 1 ELSE @]
    BY DEF Transition, Legal
  <1>2. t \in Txs /\ s \in Status /\ old \in Status /\ payload' = payload
    BY <1>1, ReadsAreStatuses, ServiceSteps DEF TypeOK
  <1>3. inbox'[e] # None
    <2>1. c \in Claims(w)
      BY DEF Claims
    <2> QED
      BY <2>1, RowsRemain DEF ClaimsExist
  <1>4. transactions'[t] = s
    BY <1>1, <1>2 DEF TypeOK
  <1>5. payload[e].kind \in {"good", "live"}
    BY <1>1 DEF Reads
  <1>6. payload[e].kind = "good" => s = payload[e].target
    BY <1>1 DEF Reads
  <1>7. Passed'
    <2>1. payload[e].kind = "good" => transactions'[payload'[e].tx] \in Later(payload'[e].target)
      BY <1>2, <1>4, <1>6, NoWayBack
    <2> SUFFICES ASSUME NEW f \in accepted'
                 PROVE  /\ inbox'[f] # None
                        /\ payload'[f].kind = "good" =>
                              transactions'[payload'[f].tx] \in Later(payload'[f].target)
      BY DEF Passed
    <2>2. CASE f = e
      BY <1>2, <1>3, <2>1, <2>2
    <2>3. CASE f \in accepted
      BY <2>3, StillPassed
    <2> QED
      BY <1>1, <2>2, <2>3
  <1>8. /\ \A f \in Events : f # e => effects'[f] = effects[f]
        /\ effects'[e] = IF old # s /\ effects[e] < 3 THEN effects[e] + 1 ELSE effects[e]
        /\ effects[e] \in 0 .. 3
    BY <1>1 DEF TypeOK
  <1>9. payload[e].kind = "good" => effects'[e] <= 1
    <2> SUFFICES ASSUME payload[e].kind = "good" PROVE effects'[e] <= 1
      OBVIOUS
    <2>1. effects[e] <= 1
      BY DEF EffectInv, EffectOnce
    <2>2. effects[e] > 0 => old = s
      BY <1>1, <1>2, <1>6, NoWayBack DEF EffectInv, Passed, ChangesAccepted
    <2> HIDE DEF e, old
    <2> QED
      BY <1>8, <2>1, <2>2
  <1>10. payload[e].kind = "live" =>
            /\ effects'[e] <= Steps(s)
            /\ effects'[e] <= 2
    <2> SUFFICES ASSUME payload[e].kind = "live"
                 PROVE  effects'[e] <= Steps(s) /\ effects'[e] <= 2
      OBVIOUS
    <2>1. s \in LiveStatus
      BY <1>1 DEF Reads
    <2>2. /\ Steps(old) \in 0 .. 2 /\ Steps(s) \in 0 .. 2 /\ Steps(old) <= Steps(s)
          /\ s # old => Steps(old) < Steps(s)
      BY <1>1, <1>2, <2>1, StepsGoUp
    <2>3. effects[e] <= Steps(old)
      BY DEF EffectInv, LiveChanges
    <2> HIDE DEF e, old
    <2> QED
      BY <1>8, <2>2, <2>3
  <1>11. ChangesAccepted'
    BY <1>1, <1>8 DEF EffectInv, ChangesAccepted
  <1>12. EffectOnce'
    <2>1. effects'[e] <= IF payload'[e].kind = "live" THEN 2 ELSE 1
      BY <1>2, <1>5, <1>9, <1>10
    <2> HIDE DEF e
    <2> QED
      BY <1>2, <1>8, <2>1 DEF EffectInv, EffectOnce
  <1>13. LiveChanges'
    <2> SUFFICES ASSUME NEW f \in Events, payload'[f].kind = "live"
                 PROVE  effects'[f] <= Steps(transactions'[payload'[f].tx])
      BY DEF LiveChanges
    <2>1. CASE f = e
      BY <1>2, <1>4, <1>10, <2>1
    <2>2. CASE f # e
      BY <1>8, <2>2, StillCounted
    <2> QED
      BY <2>1, <2>2
  <1> QED
    BY <1>7, <1>11, <1>12, <1>13 DEF EffectInv

LEMMA NextEffectInv == TypeOK /\ ClaimsExist /\ EffectInv /\ [Next]_vars => EffectInv'
  <1> SUFFICES ASSUME TypeOK, ClaimsExist, EffectInv, [Next]_vars PROVE EffectInv'
    OBVIOUS
  <1>1. CASE UNCHANGED <<accepted, effects>>
    <2>1. payload' = payload
      BY ServiceSteps
    <2>2. LiveChanges'
      BY <1>1, StillCounted DEF LiveChanges
    <2> QED
      BY <1>1, <2>1, <2>2, StillPassed DEF EffectInv, EffectOnce, Passed, ChangesAccepted
  <1>2. ASSUME NEW t \in Txs, HostRefund(t) PROVE UNCHANGED <<accepted, effects>>
    BY <1>2 DEF HostRefund, histories
  <1> QED
    BY <1>1, <1>2, ServiceSteps, TransitionOnce

LEMMA SpecEffectInv == Spec => [](Inv /\ EffectInv)
  <1>1. Init => EffectInv
    BY DEF Init, EffectInv, EffectOnce, Passed, ChangesAccepted, LiveChanges, Steps
  <1>2. Inv => TypeOK /\ ClaimsExist
    BY DEF Inv
  <1> QED
    BY <1>1, <1>2, InitInv, NextInv, NextEffectInv, PTL DEF Spec

\* An event changes its payment at most once, and at most twice if its status is read
\* anew at each attempt, for any number of workers, payments, crashes, rescues and
\* replays (TransitionTo's idempotence, no way back).
THEOREM AtMostOnce == Spec => []EffectOnce
  <1>1. EffectInv => EffectOnce
    BY DEF EffectInv
  <1> QED
    BY <1>1, SpecEffectInv, PTL

\* The payment of a COMPLETED event that carries its status stays where the event took
\* it or goes on from there, whatever late, repeated or replayed events come after it.
CompletedIsNotUndone ==
    \A e \in Arrived :
        inbox[e].status = "COMPLETED" /\ payload[e].kind = "good" =>
            transactions[payload[e].tx] \in Later(payload[e].target)

\* No event ever takes back what a completed one did to its payment
\* (DefaultTransitionPolicy under consume).
THEOREM NothingUndone == Spec => []CompletedIsNotUndone
  <1>1. Inv /\ EffectInv => CompletedIsNotUndone
    BY DEF Inv, CompletedMeansAccepted, EffectInv, Passed, CompletedIsNotUndone
  <1> QED
    BY <1>1, SpecEffectInv, PTL

-----------------------------------------------------------------------------
(* The payments implement PaymentLedger.  The consumer's model keeps no      *)
(* outbox: its payments' notices are those their statuses call for, which   *)
(* PaymentServiceProofs shows to be the published ones.                     *)

Ledger == INSTANCE PaymentLedger WITH
    status <- transactions,
    notices <- [t \in Txs |-> History(transactions[t])]

ImplementsLedger == Ledger!Spec

\* The ledger's machine is this one.
LEMMA SameMachine ==
    /\ Ledger!Status = Status
    /\ \A r, s \in Status : Ledger!Evaluate(r, s) <=> Evaluate(r, s)
    /\ \A s \in Status : Ledger!EventType(s) = EventType(s)
  <1> USE DEF Settled, Ledger!Settled, Pending, Ledger!Pending
  <1>1. Ledger!Status = Status
    BY DEF Ledger!Status, Status
  <1>2. \A r \in Status : Ledger!Successors(r) = Successors(r)
    BY DEF Ledger!Successors, Successors
  <1>3. \A s \in Status : Ledger!EventType(s) = EventType(s)
    BY DEF Ledger!EventType, EventType
  <1> QED
    BY <1>1, <1>2, <1>3 DEF Ledger!Evaluate, Evaluate

\* A payment that changes takes one step of the machine, with its notice.
LEMMA PaymentAdvances ==
    ASSUME TypeOK, NEW t \in Txs, NEW s \in Status, s # transactions[t],
           Evaluate(transactions[t], s), transactions' = [transactions EXCEPT ![t] = s]
    PROVE  Ledger!Next
  <1> DEFINE before == [p \in Txs |-> History(transactions[p])]
             after == [p \in Txs |-> History(transactions'[p])]
  <1>1. /\ transactions[t] \in Status
        /\ transactions'[t] = s /\ \A p \in Txs : p # t => transactions'[p] = transactions[p]
    BY DEF TypeOK
  <1>2. s \in Successors(transactions[t])
    BY DEF Evaluate
  <1>3. History(s) = Append(History(transactions[t]), EventType(s))
    BY <1>1, <1>2, HistoryGrows
  <1>4. DOMAIN before = Txs /\ DOMAIN after = Txs /\ after = [p \in Txs |-> after[p]]
        /\ before = [p \in Txs |-> before[p]]
    OBVIOUS
  <1>5. after[t] = Append(before[t], Ledger!EventType(s))
    BY <1>1, <1>3, SameMachine
  <1>6. \A p \in Txs : p # t => after[p] = before[p]
    BY <1>1
  <1> HIDE DEF before, after
  <1>7. after = [before EXCEPT ![t] = Append(@, Ledger!EventType(s))]
    BY <1>4, <1>5, <1>6
  <1> USE DEF before, after
  <1>8. Ledger!Evaluate(transactions[t], s) /\ s \in Ledger!Status
    BY <1>1, SameMachine
  <1>9. Ledger!Advance(t, s)
    BY <1>7, <1>8 DEF Ledger!Advance
  <1> QED
    BY <1>8, <1>9 DEF Ledger!Next

\* So does whatever a step does to a payment.
LEMMA StepKeepsLedger == Inv /\ [Next]_vars => [Ledger!Next]_Ledger!vars
  <1> SUFFICES ASSUME Inv, [Next]_vars PROVE [Ledger!Next]_Ledger!vars
    OBVIOUS
  <1>1. CASE transactions' = transactions
    BY <1>1 DEF Ledger!vars
  <1>2. ASSUME NEW t \in Txs, NEW s \in Status, Evaluate(transactions[t], s),
               transactions' = [transactions EXCEPT ![t] = s]
        PROVE  [Ledger!Next]_Ledger!vars
    <2>1. CASE s = transactions[t]
      <3>1. transactions' = transactions
        BY <1>2, <2>1 DEF Inv, TypeOK
      <3> QED
        BY <1>1, <3>1
    <2> QED
      BY <1>2, <2>1, PaymentAdvances DEF Inv
  <1> QED
    BY <1>1, <1>2, OnePaymentMoves DEF Inv

\* Whatever workers, hosts and operators do, and whoever crashes, payments only ever
\* take the ledger's steps (ProcessPaymentWithMetadata called by consume and by hosts).
THEOREM LedgerRefinement == Spec => ImplementsLedger
  <1>1. ASSUME Init PROVE Ledger!Init
    <2>1. \A t \in Txs : transactions[t] = Pending /\ History(transactions[t]) = <<>>
      BY <1>1 DEF Init, History, Settled, Pending
    <2> QED
      BY <1>1, <2>1 DEF Init, Ledger!Init, Pending, Ledger!Pending
  <1>2. Spec => []Inv
    BY InitInv, NextInv, PTL DEF Spec
  <1> QED
    BY <1>1, <1>2, StepKeepsLedger, PTL DEF Spec, ImplementsLedger, Ledger!Spec

-----------------------------------------------------------------------------
(* The claims: their size and their order.                                  *)

\* Only finitely many events have arrived, so a batch can be counted.
FewClaims ==
    /\ IsFiniteSet(Arrived)
    /\ \A w \in Workers : IsFiniteSet(Claims(w)) /\ Cardinality(Claims(w)) <= BatchSize

LEMMA NextFewClaims == TypeOK /\ FewClaims /\ [Next]_vars => FewClaims'
  <1> SUFFICES ASSUME TypeOK, FewClaims, [Next]_vars PROVE FewClaims'
    OBVIOUS
  <1>1. IsFiniteSet(Arrived')
    <2>1. ASSUME NEW e \in Events, Ingest(e) PROVE Arrived' \subseteq Arrived \cup {e}
      BY <2>1 DEF Ingest, Arrived, TypeOK
    <2>2. ASSUME NEW e \in Events, LeaseExpires(e) \/ ReplayInboxDLQ(e)
          PROVE  Arrived' \subseteq Arrived
      BY <2>2 DEF LeaseExpires, ReplayInboxDLQ, Arrived, TypeOK
    <2>3. ASSUME NEW w \in Workers, ClaimInboxEvents(w) PROVE Arrived' \subseteq Arrived
      <3>1. PICK batch \in SUBSET {e \in Arrived : Claimable(inbox[e])} :
               inbox' = [e \in Events |-> IF e \in batch THEN Claimed(inbox[e]) ELSE inbox[e]]
        BY <2>3, Batch
      <3> QED
        BY <3>1 DEF Arrived
    <2>4. ASSUME NEW w \in Workers, PhaseC(w)
          PROVE  Arrived' \subseteq Arrived \cup {outcome[w].claim.id}
      <3>1. PICK row : inbox' = [inbox EXCEPT ![outcome[w].claim.id] = row]
        BY <2>4 DEF PhaseC, MarkInboxCompleted, MarkInboxFailed, MoveInboxToDLQ, Finalise
      <3> QED
        BY <3>1 DEF Arrived, TypeOK
    <2>5. ASSUME inbox' = inbox PROVE Arrived' \subseteq Arrived
      BY <2>5 DEF Arrived
    <2>6. \A e : IsFiniteSet(Arrived \cup {e})
      BY FS_AddElement DEF FewClaims
    <2> QED
      BY <2>1, <2>2, <2>3, <2>4, <2>5, <2>6, FS_Subset
         DEF FewClaims, Next, vars, Process, Accept, Refuse, Panic, ServiceError, FinaliseError,
             Crash, HostRefund
  <1>2. ASSUME NEW w \in Workers, ClaimInboxEvents(w)
        PROVE  /\ IsFiniteSet(Claims(w)') /\ Cardinality(Claims(w)') <= BatchSize
               /\ \A v \in Workers : v # w => Claims(v)' = Claims(v)
    <2> DEFINE due == {e \in Arrived : Claimable(inbox[e])}
               batch == Oldest(due, BatchSize)
               claim == [e \in batch |-> [id |-> e, retries |-> inbox'[e].retries]]
    <2>1. /\ Claims(w)' = {[id |-> e, retries |-> inbox'[e].retries] : e \in batch}
          /\ \A v \in Workers : v # w => Claims(v)' = Claims(v)
      BY <1>2, Batch
    <2>2. Claims(w)' = {claim[e] : e \in batch}
      BY <2>1
    <2>3. due \in SUBSET Nat /\ due \in SUBSET Arrived
      BY InboxConstants DEF Arrived
    <2>4. IsFiniteSet(due)
      BY <2>3, FS_Subset DEF FewClaims
    <2>5. IsFiniteSet(batch) /\ Cardinality(batch) <= BatchSize /\ Cardinality(batch) \in Nat
      <3> HIDE DEF due
      <3> QED
        BY <2>3, <2>4, OldestAreFew, FS_CardinalityType, InboxConstants
    <2>6. IsFiniteSet(Claims(w)') /\ Cardinality(Claims(w)') <= Cardinality(batch)
      <3> HIDE DEF batch, claim
      <3> QED
        BY <2>2, <2>5, ImageIsFew
    <2>7. Cardinality(Claims(w)') \in Nat
      BY <2>6, FS_CardinalityType
    <2> HIDE DEF batch
    <2> QED
      BY <2>1, <2>5, <2>6, <2>7, InboxConstants
  <1>3. ASSUME NEW v \in Workers, Claims(v)' \subseteq Claims(v)
        PROVE  IsFiniteSet(Claims(v)') /\ Cardinality(Claims(v)') <= BatchSize
    <2>1. IsFiniteSet(Claims(v)') /\ Cardinality(Claims(v)') <= Cardinality(Claims(v))
      BY <1>3, FS_Subset DEF FewClaims
    <2>2. Cardinality(Claims(v)') \in Nat /\ Cardinality(Claims(v)) \in Nat
      BY <2>1, FS_CardinalityType DEF FewClaims
    <2> QED
      BY <2>1, <2>2, InboxConstants DEF FewClaims
  <1>4. \A v \in Workers : IsFiniteSet(Claims(v)') /\ Cardinality(Claims(v)') <= BatchSize
    BY <1>2, <1>3, ClaimsShrink DEF FewClaims
  <1> QED
    BY <1>1, <1>4 DEF FewClaims

LEMMA SpecFewClaims == Spec => [](Inv /\ FewClaims)
  <1>1. ASSUME Init PROVE FewClaims
    <2>1. Arrived = {} /\ \A w \in Workers : Claims(w) = {}
      BY <1>1 DEF Init, Arrived, Claims
    <2> QED
      BY <2>1, FS_EmptySet, InboxConstants DEF FewClaims
  <1>2. Inv => TypeOK
    BY DEF Inv
  <1> QED
    BY <1>1, <1>2, InitInv, NextInv, NextFewClaims, PTL DEF Spec

\* A worker is never responsible for more rows than one claim may take: it claims again
\* only when its batch is finalised, lost or abandoned (Start, processBatch).
BatchesAreBounded ==
    \A w \in Workers : IsFiniteSet(Claims(w)) /\ Cardinality(Claims(w)) <= BatchSize

\* However rows come back, a worker holds one batch at most.
THEOREM BoundedBatches == Spec => []BatchesAreBounded
  <1>1. FewClaims => BatchesAreBounded
    BY DEF FewClaims, BatchesAreBounded
  <1> QED
    BY <1>1, SpecFewClaims, PTL

\* A claim is the only way a row gets a new lease.
Leased(e) ==
    /\ Claimable(inbox[e])
    /\ inbox'[e].status = "PROCESSING" /\ ~inbox'[e].orphan

LEMMA NewLease ==
    ASSUME TypeOK, ClaimsExist, [Next]_vars, NEW e \in Events, inbox[e] \in EventRow, Leased(e)
    PROVE  \E w \in Workers : ClaimInboxEvents(w)
  <1>1. inbox'[e] # inbox[e]
    BY DEF Leased, Claimable
  <1>2. ASSUME NEW f \in Events, Ingest(f) \/ ReplayInboxDLQ(f) PROVE FALSE
    BY <1>1, <1>2, NoneOK DEF Ingest, ReplayInboxDLQ, Replayed, Fresh, Leased, TypeOK
  <1>3. ASSUME NEW f \in Events, LeaseExpires(f) PROVE FALSE
    BY <1>1, <1>3 DEF LeaseExpires, Leased, Arrived, TypeOK, EventRow
  <1>4. ASSUME NEW w \in Workers, PhaseC(w) PROVE FALSE
    <2>1. inbox'[e] \in {Completed(inbox[e]), Failed(inbox[e]), Dead(inbox[e])}
      BY <1>1, <1>4
      DEF PhaseC, MarkInboxCompleted, MarkInboxFailed, MoveInboxToDLQ, Finalise, TypeOK
    <2>2. /\ Completed(inbox[e]).status = "COMPLETED"
          /\ Failed(inbox[e]).status = "PENDING" /\ Dead(inbox[e]).status = "DLQ"
      BY DEF Completed, Failed, Dead, EventRow
    <2> QED
      BY <2>1, <2>2 DEF Leased
  <1> QED
    BY <1>1, <1>2, <1>3, <1>4
    DEF Next, vars, Process, Accept, Refuse, ServiceError, Panic, FinaliseError, Crash, HostRefund

\* No claim passes over an older row that is due, new, returned or rescued, to take a
\* younger one: a worker cannot starve an event by taking younger ones
\* (ORDER BY created_at, LIMIT).
OldestFirst ==
    [][ \A e, f \in Arrived :
          Leased(e) /\ f < e /\ Claimable(inbox[f]) => Leased(f) ]_vars

\* Claims respect the order of arrival.
THEOREM ClaimsInOrder == Spec => OldestFirst
  <1> DEFINE InOrder == \A e, f \in Arrived :
                           Leased(e) /\ f < e /\ Claimable(inbox[f]) => Leased(f)
  <1>1. ASSUME Inv, FewClaims, [Next]_vars PROVE InOrder
    <2>1. SUFFICES ASSUME NEW e \in Arrived, NEW f \in Arrived,
                          Leased(e), f < e, Claimable(inbox[f])
                   PROVE  Leased(f)
      OBVIOUS
    <2>2. inbox[e] \in EventRow /\ inbox[f] \in EventRow /\ e \in Events /\ f \in Events
      BY <1>1 DEF Arrived, Inv, TypeOK
    <2>3. PICK w \in Workers : ClaimInboxEvents(w)
      BY <1>1, <2>1, <2>2, NewLease DEF Inv
    <2> DEFINE due == {d \in Arrived : Claimable(inbox[d])}
    <2>4. PICK batch \in SUBSET due :
             /\ batch = Oldest(due, BatchSize)
             /\ inbox' = [d \in Events |-> IF d \in batch THEN Claimed(inbox[d]) ELSE inbox[d]]
      BY <1>1, <2>3, Batch DEF Inv
    <2>5. e \in batch
      <3>1. inbox'[e] # inbox[e]
        BY <2>1, <2>2 DEF Leased, Claimable
      <3> QED
        BY <2>2, <2>4, <3>1
    <2>6. f \in batch
      <3>1. due \in SUBSET Nat /\ due \in SUBSET Arrived
        BY InboxConstants DEF Arrived
      <3>2. IsFiniteSet(due)
        BY <1>1, <3>1, FS_Subset DEF FewClaims
      <3>3. f \in due /\ e \in Oldest(due, BatchSize) /\ f < e
        BY <2>1, <2>4, <2>5
      <3> HIDE DEF due
      <3> QED
        BY <2>4, <3>1, <3>2, <3>3, OldestComeFirst, InboxConstants
    <2>7. inbox'[f] = Claimed(inbox[f])
      BY <2>2, <2>4, <2>6
    <2> QED
      BY <2>1, <2>7 DEF Leased, Claimed
  <1>2. QED
    BY <1>1, SpecFewClaims, PTL DEF OldestFirst, Spec

-----------------------------------------------------------------------------
(* The refinement.                                                          *)

LEMMA PhaseOfRows ==
    /\ Phase(None) = "absent"
    /\ \A r \in EventRow : /\ Phase(r) \in {"waiting", "done", "dead"}
                           /\ Phase(Claimed(r)) = "waiting"
                           /\ Phase(Completed(r)) = "done"
                           /\ Phase(Failed(r)) = "waiting"
                           /\ Phase(Dead(r)) = "dead"
                           /\ r.status \in {"PENDING", "PROCESSING"} => Phase(r) = "waiting"
                           /\ r.status = "DLQ" => Phase(r) = "dead"
    /\ Phase(Fresh) = "waiting"
  <1>1. Phase(None) = "absent"
    BY DEF Phase
  <1>2. ASSUME NEW r \in EventRow
        PROVE  /\ Phase(r) \in {"waiting", "done", "dead"}
               /\ r.status \in {"PENDING", "PROCESSING"} => Phase(r) = "waiting"
               /\ r.status = "DLQ" => Phase(r) = "dead"
               /\ r.status = "COMPLETED" => Phase(r) = "done"
    BY NoneOK DEF Phase, EventRow, RowStatus
  <1>3. ASSUME NEW r \in EventRow
        PROVE  /\ Claimed(r).status = "PROCESSING" /\ Completed(r).status = "COMPLETED"
               /\ Failed(r).status = "PENDING" /\ Dead(r).status = "DLQ"
    BY DEF Claimed, Completed, Failed, Dead, EventRow
  <1>4. Fresh.status = "PENDING"
    BY DEF Fresh
  <1>5. QED
    BY <1>1, <1>2, <1>3, <1>4, RowUpdates

\* An UPDATE of one row moves one event.
LEMMA OneEventMoves ==
    ASSUME TypeOK, NEW e \in Events, NEW row \in EventRow, NEW next, Phase(row) = next,
           inbox' = [inbox EXCEPT ![e] = row], UNCHANGED <<accepted, overrun>>
    PROVE  Queue!MoveTo(e, next)
  <1> DEFINE before == [f \in Events |-> Phase(inbox[f])]
             after == [f \in Events |-> Phase(inbox'[f])]
  <1>1. inbox'[e] = row /\ \A f \in Events : f # e => inbox'[f] = inbox[f]
    BY DEF TypeOK
  <1>2. /\ before = [f \in Events |-> before[f]] /\ after = [f \in Events |-> after[f]]
        /\ DOMAIN before = Events /\ DOMAIN after = Events
    OBVIOUS
  <1>3. after[e] = next
    BY <1>1
  <1>4. ASSUME NEW f \in Events, f # e PROVE after[f] = before[f]
    BY <1>1, <1>4
  <1> HIDE DEF before, after
  <1>5. after = [before EXCEPT ![e] = next]
    BY <1>2, <1>3, <1>4
  <1>6. QED
    BY <1>5 DEF Queue!MoveTo, before, after

\* Whoever has a claim may work on the event.
LEMMA ClaimsAreAtWork ==
    ASSUME TypeOK, ClaimsExist, LeaseInv, NEW w \in Workers, NEW c \in Claims(w)
    PROVE  c.id \in Events /\ inbox[c.id] \in EventRow /\ Queue!AtWork(c.id)
  <1>1. c.id \in Events /\ inbox[c.id] \in EventRow
    BY ClaimIds DEF ClaimsExist, TypeOK
  <1>2. CASE overrun
    BY <1>1, <1>2, PhaseOfRows DEF Queue!AtWork
  <1>3. CASE ~overrun
    <2>1. inbox[c.id] = [status |-> "PROCESSING", retries |-> c.retries, orphan |-> FALSE]
      BY <1>3 DEF LeaseInv, LeaseKept, Exact
    <2>2. Phase(inbox[c.id]) = "waiting"
      BY <1>1, <2>1, PhaseOfRows
    <2>3. QED
      BY <1>1, <2>2 DEF Queue!AtWork
  <1>4. QED
    BY <1>1, <1>2, <1>3

\* A step that moves no event and accepts none.
LEMMA NothingMoves ==
    ASSUME \A e \in Events : Phase(inbox'[e]) = Phase(inbox[e]), UNCHANGED <<accepted, overrun>>
    PROVE  UNCHANGED Queue!vars
  BY DEF Queue!vars

\* Phase C is the end of the work on an event, one way or another.
LEMMA FinaliseMoves ==
    ASSUME Inv, LeaseInv, NEW w \in Workers, PhaseC(w)
    PROVE  Queue!Next
  <1> DEFINE id == outcome[w].claim.id
  <1>1. PICK verdict \in Verdicts, row \in EventRow : Finalise(w, verdict, row)
    BY FinalisedRow DEF Inv
  <1>2. outcome[w] # None /\ outcome[w] \in Outcome /\ outcome[w].claim \in Claims(w)
    BY <1>1 DEF Finalise, Inv, TypeOK, Claims
  <1>3. id \in Events /\ inbox[id] \in EventRow /\ Queue!AtWork(id)
    BY <1>2, ClaimsAreAtWork DEF Inv
  <1>4. UNCHANGED <<accepted, overrun>>
    BY <1>1 DEF Finalise, histories
  <1>5. CASE MarkInboxCompleted(w)
    <2>1. outcome[w].ok
      BY <1>5 DEF MarkInboxCompleted, Finalise, Verdict
    <2>2. id \in accepted
      BY <1>2, <2>1 DEF Inv, SuccessMeansAccepted
    <2>3. Queue!MoveTo(id, "done")
      <3>1. inbox' = [inbox EXCEPT ![id] = Completed(inbox[id])]
        BY <1>5 DEF MarkInboxCompleted, Finalise
      <3>2. Completed(inbox[id]) \in EventRow /\ Phase(Completed(inbox[id])) = "done"
        BY <1>3, RowUpdates, PhaseOfRows
      <3>3. QED
        BY <1>3, <1>4, <3>1, <3>2, OneEventMoves DEF Inv
    <2>4. QED
      BY <1>3, <2>2, <2>3 DEF Queue!Next, Queue!Finish
  <1>6. CASE MarkInboxFailed(w)
    <2>1. Queue!MoveTo(id, "waiting")
      <3>1. inbox' = [inbox EXCEPT ![id] = Failed(inbox[id])]
        BY <1>6 DEF MarkInboxFailed, Finalise
      <3>2. Failed(inbox[id]) \in EventRow /\ Phase(Failed(inbox[id])) = "waiting"
        BY <1>3, RowUpdates, PhaseOfRows
      <3>3. QED
        BY <1>3, <1>4, <3>1, <3>2, OneEventMoves DEF Inv
    <2>2. QED
      BY <1>3, <2>1 DEF Queue!Next, Queue!Retry
  <1>7. CASE MoveInboxToDLQ(w)
    <2>1. Queue!MoveTo(id, "dead")
      <3>1. inbox' = [inbox EXCEPT ![id] = Dead(inbox[id])]
        BY <1>7 DEF MoveInboxToDLQ, Finalise
      <3>2. Dead(inbox[id]) \in EventRow /\ Phase(Dead(inbox[id])) = "dead"
        BY <1>3, RowUpdates, PhaseOfRows
      <3>3. QED
        BY <1>3, <1>4, <3>1, <3>2, OneEventMoves DEF Inv
    <2>2. QED
      BY <1>3, <2>1 DEF Queue!Next, Queue!Bury
  <1>8. QED
    BY <1>5, <1>6, <1>7 DEF PhaseC

\* An acceptance is the work on an event, applied.
LEMMA TransitionApplies ==
    ASSUME Inv, LeaseInv, NEW w \in Workers, NEW c \in held[w],
           Transition(c.id, payload[c.id]), UNCHANGED <<inbox, overrun>>
    PROVE  Queue!Next
  <1>1. c \in Claims(w)
    BY DEF Claims
  <1>2. c.id \in Events /\ Queue!AtWork(c.id)
    BY <1>1, ClaimsAreAtWork DEF Inv
  <1>3. accepted' = accepted \cup {c.id}
    BY DEF Transition
  <1>4. Queue!Apply(c.id)
    BY <1>2, <1>3 DEF Queue!Apply
  <1>5. QED
    BY <1>2, <1>4 DEF Queue!Next

\* Every step of the consumer is a step of the queue or leaves it alone.
LEMMA StepImplements == Inv /\ LeaseInv /\ [Next]_vars => [Queue!Next]_Queue!vars
  <1> SUFFICES ASSUME Inv, LeaseInv, [Next]_vars PROVE Queue!Next \/ UNCHANGED Queue!vars
    OBVIOUS
  <1> USE DEF Inv
  <1>1. ASSUME NEW e \in Events, Ingest(e) PROVE Queue!Next
    <2>1. Queue!MoveTo(e, "waiting")
      <3>1. inbox' = [inbox EXCEPT ![e] = Fresh] /\ UNCHANGED <<accepted, overrun>>
        BY <1>1 DEF Ingest, histories
      <3>2. Fresh \in EventRow /\ Phase(Fresh) = "waiting"
        BY RowUpdates, PhaseOfRows
      <3>3. QED
        BY <3>1, <3>2, OneEventMoves
    <2>2. QED
      BY <1>1, <2>1, PhaseOfRows DEF Ingest, Queue!Next, Queue!Arrive
  <1>2. ASSUME NEW e \in Events, LeaseExpires(e) PROVE Queue!Next \/ UNCHANGED Queue!vars
    <2> DEFINE row == [inbox[e] EXCEPT !.orphan = TRUE]
    <2>1. inbox[e] \in EventRow /\ inbox[e].status = "PROCESSING"
      BY <1>2 DEF LeaseExpires, Arrived, TypeOK
    <2>2. row \in EventRow /\ row.status = "PROCESSING"
      BY <2>1 DEF EventRow
    <2> HIDE DEF row
    <2>3. Phase(row) = Phase(inbox[e])
      BY <2>1, <2>2, PhaseOfRows
    <2> USE DEF row
    <2>4. inbox' = [inbox EXCEPT ![e] = row] /\ UNCHANGED accepted
      BY <1>2 DEF LeaseExpires
    <2> HIDE DEF row
    <2>5. \A f \in Events : Phase(inbox'[f]) = Phase(inbox[f])
      BY <2>3, <2>4 DEF TypeOK
    <2>6. CASE overrun' = overrun
      BY <2>4, <2>5, <2>6, NothingMoves
    <2>7. CASE overrun' = TRUE
      BY <2>4, <2>5, <2>7 DEF Queue!Next, Queue!Overrun
    <2>8. QED
      BY <1>2, <2>6, <2>7 DEF LeaseExpires, TypeOK
  <1>3. ASSUME NEW e \in Events, ReplayInboxDLQ(e) PROVE Queue!Next
    <2>1. inbox[e] \in EventRow /\ inbox[e].status = "DLQ"
      BY <1>3 DEF ReplayInboxDLQ, Arrived, TypeOK
    <2>2. Phase(inbox[e]) = "dead"
      BY <2>1, PhaseOfRows
    <2>3. Queue!MoveTo(e, "waiting")
      <3>1. inbox' = [inbox EXCEPT ![e] = Fresh] /\ UNCHANGED <<accepted, overrun>>
        BY <1>3 DEF ReplayInboxDLQ, Replayed
      <3>2. Fresh \in EventRow /\ Phase(Fresh) = "waiting"
        BY RowUpdates, PhaseOfRows
      <3>3. QED
        BY <3>1, <3>2, OneEventMoves
    <2>4. QED
      BY <2>2, <2>3 DEF Queue!Next, Queue!Replay
  <1>4. ASSUME NEW w \in Workers, ClaimInboxEvents(w) PROVE UNCHANGED Queue!vars
    <2>1. PICK batch \in SUBSET {e \in Arrived : Claimable(inbox[e])} :
             inbox' = [e \in Events |-> IF e \in batch THEN Claimed(inbox[e]) ELSE inbox[e]]
      BY <1>4, Batch
    <2>2. ASSUME NEW e \in batch PROVE Phase(inbox[e]) = "waiting" /\ Phase(Claimed(inbox[e])) = "waiting"
      <3>1. inbox[e] \in EventRow /\ inbox[e].status \in {"PENDING", "PROCESSING"}
        BY <2>1, <2>2 DEF Arrived, Claimable, TypeOK
      <3>2. QED
        BY <3>1, PhaseOfRows
    <2>3. \A e \in Events : Phase(inbox'[e]) = Phase(inbox[e])
      BY <2>1, <2>2
    <2>4. QED
      BY <1>4, <2>3, NothingMoves DEF ClaimInboxEvents
  <1>5. ASSUME NEW w \in Workers, NEW c \in held[w], Accept(w, c) PROVE Queue!Next
    BY <1>5, TransitionApplies DEF Accept
  <1>6. ASSUME NEW w \in Workers, NEW c \in held[w], ServiceError(w, c)
        PROVE  Queue!Next \/ UNCHANGED Queue!vars
    <2>1. CASE UNCHANGED accepted
      BY <1>6, <2>1, NothingMoves DEF ServiceError
    <2>2. CASE Transition(c.id, payload[c.id])
      BY <1>6, <2>2, TransitionApplies DEF ServiceError
    <2>3. QED
      BY <1>6, <2>1, <2>2 DEF ServiceError
  <1>7. ASSUME NEW w \in Workers, PhaseC(w) PROVE Queue!Next
    BY <1>7, FinaliseMoves
  <1>8. CASE UNCHANGED <<inbox, accepted, overrun>>
    BY <1>8, NothingMoves
  <1>9. QED
    BY <1>1, <1>2, <1>3, <1>4, <1>5, <1>6, <1>7, <1>8
    DEF Next, vars, histories, Process, Refuse, Panic, FinaliseError, Crash, HostRefund

\* The inbox is the work queue of EventQueue for any number of workers and events.
THEOREM QueueRefinement == Spec => ImplementsQueue
  <1>1. Init => Queue!Init
    BY DEF Init, Queue!Init, Phase
  <1>2. Spec => []Inv
    BY InitInv, NextInv, PTL DEF Spec
  <1>3. QED
    BY <1>1, <1>2, SpecLeaseInv, StepImplements, PTL DEF Spec, ImplementsQueue, Queue!Spec

=============================================================================
