------------------------- MODULE OutboxRelayProofs -------------------------
(***************************************************************************)
(* Proofs about OutboxRelay for any number of relays, events, retries and   *)
(* faults, and any batch size.                                             *)
(*                                                                         *)
(* Three arguments.  The gateway's memory has one verdict per event, and    *)
(* what relays remember and what the inbox got agrees with it or with a     *)
(* refusal before the gateway decided: so money does not both go back and   *)
(* stay without such a refusal.  A success is only remembered of an         *)
(* event that was handled: so COMPLETED means handled, whoever writes it.   *)
(* While leases are kept, a row in a relay's hands is in processing and in  *)
(* no other relay's: so the outbox is a queue.                             *)
(***************************************************************************)
EXTENDS OutboxRelay, Lemmas

Verdicts == {"complete", "retry", "bury"}

\* Rows are never deleted.
ClaimsExist == \A r \in Relays : \A e \in Holds(r) : outbox[e] # None

Decided(e, verdict) == <<<<e>>, verdict>> \in answers

\* The gateway has one verdict per event and sent the money of the accepted ones back.
GatewayMemory ==
    /\ \A e \in Events : ~(Decided(e, "ok") /\ Decided(e, "rejected"))
    /\ \A e \in Events : refunds[e] = IF Decided(e, "ok") THEN 1 ELSE 0

\* The gateway rejected the refund, or one of its requests did not get that far.
Refused(e) == Decided(e, "rejected") \/ e \in turnedAway

\* Relays and inbox remember nothing they were not answered.
Remembered(o) ==
    /\ o.result = "ok" => Handled(o.claim.id)
    /\ o.result = "rejected" => Refused(o.claim.id) /\ kind[o.claim.id] = "refund"

OutcomesTrue == \A r \in Relays : outcome[r] # None => Remembered(outcome[r])
CompensationTrue == compensation # None => Refused(compensation)

Money == GatewayMemory /\ OutcomesTrue /\ CompensationTrue

Inv == TypeOK /\ ClaimsExist /\ Money /\ CompletedMeansHandled

\* What a relay has claimed it holds once.
HeldOnce ==
    \A r \in Relays :
        /\ \A c, d \in held[r] : c.id = d.id => c = d
        /\ outcome[r] # None => \A c \in held[r] : c.id # outcome[r].claim.id

\* While leases are kept, rows in somebody's hands are in processing, and in nobody
\* else's.
Exact == \A r \in Relays : \A e \in Holds(r) : outbox[e].status = "PROCESSING" /\ ~outbox[e].orphan
Exclusive == \A q, r \in Relays : \A e \in Holds(q) : e \in Holds(r) => q = r

LeaseKept == Exact /\ Exclusive
LeaseInv == HeldOnce /\ (~overrun => LeaseKept)

-----------------------------------------------------------------------------
(* The UPDATEs on a row.                                                    *)

LEMMA RowUpdates ==
    /\ Fresh \in EventRow
    /\ \A row \in EventRow : /\ Claimed(row) \in EventRow
                             /\ Completed(row) \in EventRow
                             /\ Failed(row) \in EventRow
                             /\ Dead(row) \in EventRow
                             /\ Replayed(row) \in EventRow
  <1> USE MaxRetriesOK
  <1>1. Fresh \in EventRow
    BY DEF Fresh, EventRow, RowStatus, Retries
  <1>2. ASSUME NEW n \in Retries PROVE OneMore(n) \in Retries
    BY DEF OneMore, Retries
  <1>3. ASSUME NEW row \in EventRow
        PROVE  /\ Claimed(row) \in EventRow
               /\ Completed(row) \in EventRow
               /\ Failed(row) \in EventRow
               /\ Dead(row) \in EventRow
    BY <1>2 DEF Claimed, Completed, Failed, Dead, EventRow, RowStatus
  <1>4. QED
    BY <1>1, <1>3 DEF Replayed

\* And the status each leaves.
LEMMA RowPhases ==
    ASSUME NEW row \in EventRow
    PROVE  /\ Claimed(row).status = "PROCESSING" /\ ~Claimed(row).orphan
           /\ Completed(row).status = "COMPLETED"
           /\ Failed(row).status = "PENDING"
           /\ Dead(row).status = "DLQ"
  BY DEF Claimed, Completed, Failed, Dead, EventRow

-----------------------------------------------------------------------------
(* What the actions have in common.                                         *)

\* Whatever a relay holds is an event.
LEMMA HeldEvents ==
    ASSUME TypeOK
    PROVE  \A r \in Relays : \A e \in Holds(r) : e \in Events
  BY DEF TypeOK, Holds, Claim, Outcome

\* An event of the batch is handed over to the outcome.
LEMMA SentClaims ==
    ASSUME TypeOK, NEW r \in Relays, NEW c \in held[r], NEW result \in Results,
           Sent(r, c, result)
    PROVE  /\ held' \in [Relays -> SUBSET Claim]
           /\ outcome' \in [Relays -> Outcome \cup {None}]
           /\ c \in Claim /\ c.id \in Events /\ c.id \in Holds(r)
           /\ outcome[r] = None
           /\ outcome'[r] = [claim |-> c, result |-> result]
           /\ outcome'[r] # None
           /\ held'[r] = held[r] \ {c}
           /\ \A q \in Relays : q # r => outcome'[q] = outcome[q] /\ held'[q] = held[q]
           /\ \A q \in Relays : Holds(q)' \subseteq Holds(q)
  <1>1. c \in Claim /\ c.id \in Events
    BY DEF TypeOK, Claim
  <1>2. [claim |-> c, result |-> result] \in Outcome
    BY <1>1 DEF Outcome
  <1>3. [claim |-> c, result |-> result] # None
    BY <1>2, NoneOK
  <1>4. /\ held' \in [Relays -> SUBSET Claim]
        /\ outcome' \in [Relays -> Outcome \cup {None}]
        /\ outcome[r] = None
        /\ outcome'[r] = [claim |-> c, result |-> result]
        /\ held'[r] = held[r] \ {c}
        /\ \A q \in Relays : q # r => outcome'[q] = outcome[q] /\ held'[q] = held[q]
    BY <1>2 DEF TypeOK, Sent
  <1>5. c.id \in Holds(r)
    BY DEF Holds
  <1>6. ASSUME NEW q \in Relays PROVE Holds(q)' \subseteq Holds(q)
    <2>1. CASE q # r
      BY <1>4, <2>1 DEF Holds
    <2>2. CASE q = r
      <3>1. Holds(q)' = {d.id : d \in held[r] \ {c}} \cup {c.id}
        BY <1>3, <1>4, <2>2 DEF Holds
      <3>2. Holds(q) = {d.id : d \in held[r]}
        BY <1>4, <2>2 DEF Holds
      <3> QED
        BY <3>1, <3>2
    <2> QED
      BY <2>1, <2>2
  <1> QED
    BY <1>1, <1>3, <1>4, <1>5, <1>6

\* Finalising clears the outcome; what else is held stays.
LEMMA ClearedOutcome ==
    ASSUME TypeOK, NEW r \in Relays, outcome[r] # None,
           outcome' = [outcome EXCEPT ![r] = None], UNCHANGED held
    PROVE  /\ outcome' \in [Relays -> Outcome \cup {None}]
           /\ outcome'[r] = None
           /\ outcome[r] \in Outcome
           /\ outcome[r].claim.id \in Events
           /\ outcome[r].claim.id \in Holds(r)
           /\ Holds(r)' = {c.id : c \in held[r]}
           /\ \A q \in Relays : q # r => outcome'[q] = outcome[q] /\ Holds(q)' = Holds(q)
           /\ \A q \in Relays : Holds(q)' \subseteq Holds(q)
  <1>1. /\ outcome' \in [Relays -> Outcome \cup {None}]
        /\ outcome'[r] = None
        /\ \A q \in Relays : q # r => outcome'[q] = outcome[q]
    BY DEF TypeOK
  <1>2. outcome[r] \in Outcome /\ outcome[r].claim.id \in Events
    BY DEF TypeOK, Outcome, Claim
  <1>3. outcome[r].claim.id \in Holds(r) /\ Holds(r)' = {c.id : c \in held[r]}
    BY <1>1 DEF Holds
  <1>4. ASSUME NEW q \in Relays, q # r PROVE Holds(q)' = Holds(q)
    BY <1>1, <1>4 DEF Holds
  <1>5. Holds(r)' \subseteq Holds(r)
    BY <1>3 DEF Holds
  <1> QED
    BY <1>1, <1>2, <1>3, <1>4, <1>5

\* A process that takes another one's place holds nothing.
LEMMA FreshProcess ==
    ASSUME TypeOK, NEW r \in Relays, NewProcess(r)
    PROVE  /\ held' \in [Relays -> SUBSET Claim]
           /\ outcome' \in [Relays -> Outcome \cup {None}]
           /\ held'[r] = {} /\ outcome'[r] = None
           /\ \A q \in Relays : q # r => outcome'[q] = outcome[q] /\ held'[q] = held[q]
           /\ \A q \in Relays : Holds(q)' \subseteq Holds(q)
           /\ told' \in [Relays -> {"no", "quit", "cancelled"}]
           /\ breaker' \in [Relays -> {"CLOSED", "OPEN", "HALF_OPEN"}]
           /\ asking' \subseteq Relays
  <1>1. /\ held' \in [Relays -> SUBSET Claim]
        /\ outcome' \in [Relays -> Outcome \cup {None}]
        /\ held'[r] = {} /\ outcome'[r] = None
        /\ \A q \in Relays : q # r => outcome'[q] = outcome[q] /\ held'[q] = held[q]
    BY DEF NewProcess, TypeOK
  <1>2. \A q \in Relays : Holds(q)' \subseteq Holds(q)
    BY <1>1 DEF Holds
  <1>3. /\ told' \in [Relays -> {"no", "quit", "cancelled"}]
        /\ breaker' \in [Relays -> {"CLOSED", "OPEN", "HALF_OPEN"}]
        /\ asking' \subseteq Relays
    BY DEF NewProcess, TypeOK
  <1> QED
    BY <1>1, <1>2, <1>3

-----------------------------------------------------------------------------
(* Types.                                                                   *)

\* The batch of a claim: rows that are due keep their type, and so does what a relay
\* may remember of them.
LEMMA ClaimedRows ==
    ASSUME TypeOK, NEW limit \in 1 .. BatchSize, ClaimRows(Batch(limit))
    PROVE  /\ outbox' \in [Events -> EventRow \cup {None}]
           /\ \A e \in Events : e \notin Batch(limit) => outbox'[e] = outbox[e]
           /\ \A e \in Batch(limit) : /\ e \in Events
                                      /\ outbox[e] \in EventRow /\ Claimable(outbox[e])
                                      /\ outbox'[e] = Claimed(outbox[e])
                                      /\ outbox'[e] \in EventRow
  <1> DEFINE batch == Batch(limit)
  <1>1. \A e \in batch : e \in Events /\ outbox[e] \in EventRow /\ Claimable(outbox[e])
    BY DEF Batch, Oldest, Arrived, Due, TypeOK
  <1>2. outbox' = [e \in Events |-> IF e \in batch THEN Claimed(outbox[e]) ELSE outbox[e]]
    BY DEF ClaimRows
  <1> HIDE DEF batch
  <1>3. \A e \in batch : outbox'[e] = Claimed(outbox[e]) /\ outbox'[e] \in EventRow
    BY <1>1, <1>2, RowUpdates
  <1>4. \A e \in Events : e \notin batch => outbox'[e] = outbox[e]
    BY <1>2
  <1>5. outbox' \in [Events -> EventRow \cup {None}]
    BY <1>1, <1>2, RowUpdates DEF TypeOK
  <1> QED
    BY <1>1, <1>3, <1>4, <1>5 DEF batch

LEMMA AllowedTypes ==
    ASSUME TypeOK, NEW r \in Relays, Allowed(r)
    PROVE  /\ breaker' \in [Relays -> {"CLOSED", "OPEN", "HALF_OPEN"}]
           /\ asking' \subseteq Relays
           /\ UNCHANGED told
           /\ Holds(r) = {} /\ held[r] = {} /\ outcome[r] = None
  BY DEF Allowed, TypeOK, BetweenBatches, Holds

LEMMA FaultTypes ==
    ASSUME TypeOK
    PROVE  /\ Fault => faults' \in 0 .. MaxFaults
           /\ \A r \in Relays : Fails(r) => faults' \in 0 .. MaxFaults
  BY OutboxConstants DEF Fault, Fails, TypeOK

\* The gateway answers within its types, and remembers.
LEMMA GatewayTypes ==
    ASSUME TypeOK, NEW c \in Claim, NEW verdict \in {"ok", "rejected"},
           GatewayDecides(c, verdict)
    PROVE  /\ answers' \subseteq {<<e>> : e \in Events} \X {"ok", "rejected"}
           /\ refunds' \in [Events -> 0 .. 2]
  <1>1. c.id \in Events
    BY DEF Claim
  <1>2. <<<<c.id>>, verdict>> \in {<<e>> : e \in Events} \X {"ok", "rejected"}
    BY <1>1
  <1> QED
    BY <1>1, <1>2 DEF GatewayDecides, Key, TypeOK

\* Phase C writes a row of its type.
LEMMA FinalisedRow ==
    ASSUME TypeOK, ClaimsExist, NEW r \in Relays,
           MarkOutboxCompleted(r) \/ MarkOutboxFailed(r) \/ MoveOutboxToDLQ(r)
    PROVE  LET id == outcome[r].claim.id
               row == outbox[id]
           IN  /\ outcome[r] # None /\ id \in Events /\ row \in EventRow
               /\ \/ Finalise(r, "complete", Completed(row))
                  \/ Finalise(r, "retry", Failed(row))
                  \/ Finalise(r, "bury", Dead(row))
  <1>1. outcome[r] # None
    BY DEF MarkOutboxCompleted, MarkOutboxFailed, MoveOutboxToDLQ, Finalise
  <1>2. outcome[r] \in Outcome /\ outcome[r].claim.id \in Holds(r)
    BY <1>1 DEF TypeOK, Holds
  <1>3. outcome[r].claim.id \in Events
    BY <1>2 DEF Outcome, Claim
  <1>4. outbox[outcome[r].claim.id] \in EventRow
    BY <1>2, <1>3 DEF TypeOK, ClaimsExist
  <1> QED
    BY <1>1, <1>3, <1>4 DEF MarkOutboxCompleted, MarkOutboxFailed, MoveOutboxToDLQ

LEMMA InitTypeOK == Init => TypeOK
  <1> SUFFICES ASSUME Init PROVE TypeOK
    OBVIOUS
  <1>1. 0 \in 0 .. MaxFaults /\ 0 \in 0 .. 2
    BY OutboxConstants
  <1> QED
    BY <1>1 DEF Init, TypeOK

\* Every step keeps the types.
LEMMA NextTypeOK == TypeOK /\ ClaimsExist /\ [Next]_vars => TypeOK'
  <1> SUFFICES ASSUME TypeOK, ClaimsExist, [Next]_vars PROVE TypeOK'
    OBVIOUS
  <1> USE DEF gateway, stops, relays, histories
  <1>1. ASSUME NEW e \in Events, Publish(e) PROVE TypeOK'
    BY <1>1, RowUpdates DEF Publish, TypeOK
  <1>2. ASSUME NEW e \in Events, LeaseExpires(e) PROVE TypeOK'
    <2>1. outbox[e] \in EventRow
      BY <1>2 DEF LeaseExpires, Arrived, TypeOK
    <2>2. [outbox[e] EXCEPT !.orphan = TRUE] \in EventRow
      BY <2>1 DEF EventRow
    <2>3. outbox' \in [Events -> EventRow \cup {None}]
      BY <1>2, <2>2 DEF LeaseExpires, TypeOK
    <2>4. overrun' \in BOOLEAN
      BY <1>2 DEF LeaseExpires, TypeOK
    <2> QED
      BY <1>2, <2>3, <2>4 DEF LeaseExpires, TypeOK
  <1>3. ASSUME NEW e \in Events, Ages(e) PROVE TypeOK'
    BY <1>3 DEF Ages, TypeOK
  <1>4. ASSUME NEW e \in Events, ReplayOutboxDLQ(e) PROVE TypeOK'
    <2>1. Replayed(outbox[e]) \in EventRow
      BY RowUpdates DEF Replayed
    <2> QED
      BY <1>4, <2>1, FaultTypes DEF ReplayOutboxDLQ, TypeOK
  <1>5. ASSUME NEW r \in Relays, ClaimOutboxEvents(r) PROVE TypeOK'
    <2>1. PICK limit \in 1 .. BatchSize :
             /\ Allowed(r) /\ ClaimRows(Batch(limit))
             /\ held' = [held EXCEPT ![r] =
                            {[id |-> e, retries |-> outbox'[e].retries] : e \in Batch(limit)}]
             /\ UNCHANGED <<kind, aged, gateway, published, compensation, outcome, histories,
                            faults>>
      BY <1>5 DEF ClaimOutboxEvents
    <2>2. /\ outbox' \in [Events -> EventRow \cup {None}]
          /\ \A e \in Batch(limit) : e \in Events /\ outbox'[e] \in EventRow
      BY <2>1, ClaimedRows
    <2>3. \A e \in Batch(limit) : [id |-> e, retries |-> outbox'[e].retries] \in Claim
      BY <2>2 DEF Claim, EventRow
    <2>4. held' \in [Relays -> SUBSET Claim]
      BY <2>1, <2>3 DEF TypeOK
    <2>5. /\ breaker' \in [Relays -> {"CLOSED", "OPEN", "HALF_OPEN"}]
          /\ asking' \subseteq Relays
          /\ UNCHANGED told
      BY <2>1, AllowedTypes
    <2> QED
      BY <2>1, <2>2, <2>4, <2>5 DEF TypeOK
  <1>6. ASSUME NEW r \in Relays, NothingToClaim(r) PROVE TypeOK'
    <2>1. /\ breaker' \in [Relays -> {"CLOSED", "OPEN", "HALF_OPEN"}]
          /\ asking' \subseteq Relays
          /\ UNCHANGED told
      BY <1>6, AllowedTypes DEF NothingToClaim
    <2> QED
      BY <1>6, <2>1 DEF NothingToClaim, TypeOK
  <1>7. ASSUME NEW r \in Relays, ClaimError(r) PROVE TypeOK'
    <2>1. /\ breaker' \in [Relays -> {"CLOSED", "OPEN", "HALF_OPEN"}]
          /\ asking' \subseteq Relays
          /\ UNCHANGED told
      BY <1>7, AllowedTypes DEF ClaimError
    <2>2. outbox' \in [Events -> EventRow \cup {None}]
      BY <1>7, ClaimedRows DEF ClaimError, TypeOK
    <2>3. faults' \in 0 .. MaxFaults
      BY <1>7, FaultTypes DEF ClaimError
    <2> QED
      BY <1>7, <2>1, <2>2, <2>3 DEF ClaimError, TypeOK
  <1>8. ASSUME NEW r \in Relays, AbortBatch(r) PROVE TypeOK'
    BY <1>8 DEF AbortBatch, TypeOK
  <1>9. ASSUME NEW r \in Relays, NEW c \in held[r], RefundTransaction(r, c) PROVE TypeOK'
    <2>1. PICK result \in Results :
             /\ Sent(r, c, result) /\ RecordResult(r, result)
             /\ \/ UNCHANGED gateway
                \/ \E verdict \in {"ok", "rejected"} : GatewayDecides(c, verdict)
             /\ turnedAway' \subseteq turnedAway \cup {c.id}
      BY <1>9 DEF RefundTransaction
    <2>2. /\ held' \in [Relays -> SUBSET Claim]
          /\ outcome' \in [Relays -> Outcome \cup {None}]
          /\ c \in Claim
      BY <2>1, SentClaims
    <2>3. breaker' \in [Relays -> {"CLOSED", "OPEN", "HALF_OPEN"}]
      BY <2>1 DEF RecordResult, TypeOK
    <2>4. /\ answers' \subseteq {<<e>> : e \in Events} \X {"ok", "rejected"}
          /\ refunds' \in [Events -> 0 .. 2]
      BY <2>1, <2>2, GatewayTypes DEF TypeOK
    <2>5. turnedAway' \subseteq Events
      BY <2>1, <2>2 DEF Claim, TypeOK
    <2> QED
      BY <1>9, <2>2, <2>3, <2>4, <2>5 DEF RefundTransaction, TypeOK
  <1>10. ASSUME NEW r \in Relays, NEW c \in held[r], PublishNotice(r, c) PROVE TypeOK'
    <2>1. Sent(r, c, "ok") /\ "ok" \in Results
      BY <1>10 DEF PublishNotice, Results
    <2>2. /\ held' \in [Relays -> SUBSET Claim]
          /\ outcome' \in [Relays -> Outcome \cup {None}]
          /\ c.id \in Events
      BY <2>1, SentClaims
    <2> QED
      BY <1>10, <2>2 DEF PublishNotice, TypeOK
  <1>11. ASSUME NEW r \in Relays, NEW c \in held[r], GatewayMissing(r, c) PROVE TypeOK'
    <2>1. Sent(r, c, "error") /\ "error" \in Results
      BY <1>11 DEF GatewayMissing, Results
    <2>2. /\ held' \in [Relays -> SUBSET Claim]
          /\ outcome' \in [Relays -> Outcome \cup {None}]
      BY <2>1, SentClaims
    <2> QED
      BY <1>11, <2>2 DEF GatewayMissing, TypeOK
  <1>12. ASSUME NEW r \in Relays, SaveCompensation(r) PROVE TypeOK'
    <2>1. outcome[r] \in Outcome /\ outcome[r].claim.id \in Events
      BY <1>12 DEF SaveCompensation, TypeOK, Outcome, Claim
    <2>2. PICK inboxErr \in BOOLEAN :
             outcome' = [outcome EXCEPT ![r].result = Absorbed(inboxErr)]
      BY <1>12 DEF SaveCompensation
    <2>3. [outcome[r] EXCEPT !.result = Absorbed(inboxErr)] \in Outcome
      BY <2>1 DEF Outcome, Absorbed, Results
    <2>4. outcome' \in [Relays -> Outcome \cup {None}]
      BY <2>2, <2>3 DEF TypeOK
    <2>5. compensation' \in Events \cup {None}
      BY <1>12, <2>1 DEF SaveCompensation, TypeOK
    <2>6. faults' \in 0 .. MaxFaults
      BY <1>12, FaultTypes DEF SaveCompensation, TypeOK
    <2> QED
      BY <1>12, <2>4, <2>5, <2>6 DEF SaveCompensation, TypeOK
  <1>13. ASSUME NEW r \in Relays, PhaseC(r) PROVE TypeOK'
    <2>1. CASE MarkOutboxCompleted(r) \/ MarkOutboxFailed(r) \/ MoveOutboxToDLQ(r)
      <3>1. PICK row \in EventRow, verdict \in Verdicts : Finalise(r, verdict, row)
        BY <2>1, FinalisedRow, RowUpdates DEF Verdicts
      <3>2. outcome' \in [Relays -> Outcome \cup {None}]
        BY <3>1, ClearedOutcome DEF Finalise
      <3> QED
        BY <3>1, <3>2 DEF Finalise, TypeOK
    <2>2. CASE FinaliseError(r)
      BY <2>2, FaultTypes DEF FinaliseError, TypeOK
    <2> QED
      BY <1>13, <2>1, <2>2 DEF PhaseC
  <1>14. ASSUME NEW r \in Relays, FinaliseError(r) PROVE TypeOK'
    BY <1>14, FaultTypes DEF FinaliseError, TypeOK
  <1>15. ASSUME NEW r \in Relays, Crash(r) \/ Return(r) PROVE TypeOK'
    <2>1. NewProcess(r) /\ faults' \in 0 .. MaxFaults
      BY <1>15, FaultTypes DEF Crash, Return, TypeOK
    <2> QED
      BY <2>1, FreshProcess DEF NewProcess, TypeOK
  <1>16. ASSUME NEW r \in Relays, NEW how \in {"quit", "cancelled"}, Shutdown(r, how)
         PROVE  TypeOK'
    BY <1>16, FaultTypes DEF Shutdown, TypeOK
  <1>17. CASE UNCHANGED vars
    BY <1>17 DEF vars, TypeOK
  <1> QED
    BY <1>1, <1>2, <1>3, <1>4, <1>5, <1>6, <1>7, <1>8, <1>9, <1>10, <1>11, <1>12, <1>13,
       <1>14, <1>15, <1>16, <1>17 DEF Next, Claims, Sends

-----------------------------------------------------------------------------
(* Claims and rows over a step.                                             *)

\* Only ClaimOutboxEvents gives a relay new claims.
LEMMA HoldsShrink ==
    ASSUME TypeOK, ClaimsExist, [Next]_vars, \A r \in Relays : ~ClaimOutboxEvents(r)
    PROVE  \A q \in Relays : Holds(q)' \subseteq Holds(q)
  <1> DEFINE Goal == \A q \in Relays : Holds(q)' \subseteq Holds(q)
  <1> USE DEF gateway, stops, relays
  <1>1. ASSUME UNCHANGED <<held, outcome>> PROVE Goal
    BY <1>1 DEF Holds
  <1>2. ASSUME NEW r \in Relays, NEW c \in held[r], NEW result \in Results, Sent(r, c, result)
        PROVE  Goal
    BY <1>2, SentClaims
  <1>3. ASSUME NEW r \in Relays, AbortBatch(r) PROVE Goal
    BY <1>3 DEF AbortBatch, Holds, TypeOK
  <1>4. ASSUME NEW r \in Relays, NewProcess(r) PROVE Goal
    BY <1>4, FreshProcess
  <1>5. ASSUME NEW r \in Relays, PhaseC(r) \/ FinaliseError(r) PROVE Goal
    <2>1. outcome[r] # None /\ outcome' = [outcome EXCEPT ![r] = None] /\ UNCHANGED held
      BY <1>5
      DEF PhaseC, MarkOutboxCompleted, MarkOutboxFailed, MoveOutboxToDLQ, Finalise, FinaliseError
    <2> QED
      BY <2>1, ClearedOutcome
  <1>6. ASSUME NEW r \in Relays, SaveCompensation(r) PROVE Goal
    <2>1. PICK inboxErr \in BOOLEAN :
             outcome' = [outcome EXCEPT ![r].result = Absorbed(inboxErr)]
      BY <1>6 DEF SaveCompensation
    <2>2. outcome[r] \in Outcome /\ UNCHANGED held
      BY <1>6 DEF SaveCompensation, TypeOK
    <2>3. /\ outcome'[r].claim = outcome[r].claim
          /\ \A q \in Relays : q # r => outcome'[q] = outcome[q]
      BY <2>1, <2>2 DEF Outcome, TypeOK
    <2>4. outcome[r] # None
      BY <1>6 DEF SaveCompensation
    <2> QED
      BY <2>2, <2>3, <2>4 DEF Holds
  <1>7. ASSUME NEW r \in Relays, Sends(r) PROVE Goal
    <2>1. ASSUME NEW c \in held[r], RefundTransaction(r, c) PROVE Goal
      BY <1>2, <2>1 DEF RefundTransaction
    <2>2. ASSUME NEW c \in held[r], PublishNotice(r, c) PROVE Goal
      BY <1>2, <2>2 DEF PublishNotice, Results
    <2>3. ASSUME NEW c \in held[r], GatewayMissing(r, c) PROVE Goal
      BY <1>2, <2>3 DEF GatewayMissing, Results
    <2> QED
      BY <1>3, <1>6, <1>7, <2>1, <2>2, <2>3 DEF Sends
  <1>8. ASSUME NEW r \in Relays, Claims(r) PROVE Goal
    BY <1>1, <1>4, <1>8 DEF Claims, NothingToClaim, ClaimError, Return
  <1>9. ASSUME NEW r \in Relays, ClaimError(r) PROVE Goal
    BY <1>1, <1>9 DEF ClaimError
  <1>10. ASSUME NEW r \in Relays, Crash(r) PROVE Goal
    BY <1>4, <1>10 DEF Crash
  <1>11. ASSUME NEW r \in Relays, NEW how \in {"quit", "cancelled"}, Shutdown(r, how) PROVE Goal
    BY <1>1, <1>11 DEF Shutdown
  <1>12. ASSUME NEW e \in Events, Publish(e) \/ LeaseExpires(e) \/ Ages(e) \/ ReplayOutboxDLQ(e)
         PROVE  Goal
    BY <1>1, <1>12 DEF Publish, LeaseExpires, Ages, ReplayOutboxDLQ
  <1>13. CASE UNCHANGED vars
    BY <1>1, <1>13 DEF vars
  <1> QED
    BY <1>5, <1>7, <1>8, <1>9, <1>10, <1>11, <1>12, <1>13 DEF Next

\* What a claim gives a relay that held nothing.
LEMMA ClaimedHolds ==
    ASSUME TypeOK, NEW r \in Relays, ClaimOutboxEvents(r)
    PROVE  \E limit \in 1 .. BatchSize :
              /\ ClaimRows(Batch(limit))
              /\ Holds(r) = {} /\ outcome[r] = None /\ UNCHANGED outcome
              /\ held'[r] = {[id |-> e, retries |-> outbox'[e].retries] : e \in Batch(limit)}
              /\ Holds(r)' = Batch(limit)
              /\ \A q \in Relays : q # r => held'[q] = held[q] /\ Holds(q)' = Holds(q)
  <1>1. PICK limit \in 1 .. BatchSize :
           /\ Allowed(r) /\ ClaimRows(Batch(limit))
           /\ held' = [held EXCEPT ![r] =
                          {[id |-> e, retries |-> outbox'[e].retries] : e \in Batch(limit)}]
           /\ UNCHANGED outcome
    BY DEF ClaimOutboxEvents
  <1>2. Holds(r) = {} /\ outcome[r] = None
    BY <1>1, AllowedTypes
  <1> DEFINE batch == Batch(limit)
             new == {[id |-> e, retries |-> outbox'[e].retries] : e \in batch}
  <1>3. ClaimRows(batch) /\ held' = [held EXCEPT ![r] = new]
    BY <1>1
  <1>7. {c.id : c \in new} = batch
    <2>1. \A e \in batch : [id |-> e, retries |-> outbox'[e].retries].id = e
      OBVIOUS
    <2> HIDE DEF batch
    <2> QED
      BY <2>1
  <1> HIDE DEF batch, new
  <1>4. held'[r] = new /\ \A q \in Relays : q # r => held'[q] = held[q]
    BY <1>3 DEF TypeOK
  <1>5. Holds(r)' = batch
    BY <1>1, <1>2, <1>4, <1>7 DEF Holds
  <1>6. \A q \in Relays : q # r => Holds(q)' = Holds(q)
    BY <1>1, <1>4 DEF Holds
  <1> QED
    BY <1>1, <1>2, <1>3, <1>4, <1>5, <1>6 DEF batch, new

\* No step deletes a row, and a row is only ever COMPLETED by an outcome that worked.
LEMMA RowsRemain ==
    ASSUME TypeOK, ClaimsExist, [Next]_vars, NEW e \in Events
    PROVE  /\ outbox[e] # None => outbox'[e] # None
           /\ outbox'[e] # None /\ outbox'[e].status = "COMPLETED" =>
                 \/ outbox[e] # None /\ outbox[e].status = "COMPLETED"
                 \/ \E r \in Relays :
                       outcome[r] # None /\ outcome[r].result = "ok" /\ outcome[r].claim.id = e
  <1> DEFINE Goal ==
        /\ outbox[e] # None => outbox'[e] # None
        /\ outbox'[e] # None /\ outbox'[e].status = "COMPLETED" =>
              \/ outbox[e] # None /\ outbox[e].status = "COMPLETED"
              \/ \E r \in Relays :
                    outcome[r] # None /\ outcome[r].result = "ok" /\ outcome[r].claim.id = e
  <1> SUFFICES Goal
    OBVIOUS
  <1>1. CASE UNCHANGED outbox
    BY <1>1
  <1>2. ASSUME NEW f \in Events, Publish(f) \/ ReplayOutboxDLQ(f) PROVE Goal
    <2>1. outbox' = [outbox EXCEPT ![f] = Fresh]
      BY <1>2 DEF Publish, ReplayOutboxDLQ, Replayed
    <2>2. Fresh # None /\ Fresh.status = "PENDING"
      BY RowUpdates, NoneOK DEF Fresh
    <2> QED
      BY <2>1, <2>2 DEF TypeOK
  <1>3. ASSUME NEW f \in Events, LeaseExpires(f) PROVE Goal
    <2>1. outbox[f] \in EventRow /\ outbox[f].status = "PROCESSING"
      BY <1>3 DEF LeaseExpires, Arrived, TypeOK
    <2>2. LET row == [outbox[f] EXCEPT !.orphan = TRUE]
          IN  row \in EventRow /\ row.status = "PROCESSING"
      BY <2>1 DEF EventRow
    <2> QED
      BY <1>3, <2>2, NoneOK DEF LeaseExpires, TypeOK
  <1>4. ASSUME NEW limit \in 1 .. BatchSize, ClaimRows(Batch(limit)) PROVE Goal
    <2>1. CASE e \in Batch(limit)
      <3>1. outbox[e] \in EventRow /\ outbox'[e] = Claimed(outbox[e]) /\ outbox'[e] \in EventRow
        BY <1>4, <2>1, ClaimedRows
      <3> QED
        BY <3>1, NoneOK, RowPhases
    <2>2. CASE e \notin Batch(limit)
      BY <1>4, <2>2, ClaimedRows
    <2> QED
      BY <2>1, <2>2
  <1>5. ASSUME NEW r \in Relays,
               MarkOutboxCompleted(r) \/ MarkOutboxFailed(r) \/ MoveOutboxToDLQ(r)
        PROVE  Goal
    <2> DEFINE id == outcome[r].claim.id
               row == outbox[id]
    <2>1. /\ outcome[r] # None /\ id \in Events /\ row \in EventRow
          /\ \/ Finalise(r, "complete", Completed(row))
             \/ Finalise(r, "retry", Failed(row))
             \/ Finalise(r, "bury", Dead(row))
      BY <1>5, FinalisedRow
    <2>2. CASE Finalise(r, "complete", Completed(row))
      <3>1. outcome[r].result = "ok"
        BY <2>2 DEF Finalise, Verdict
      <3>2. outbox' = [outbox EXCEPT ![id] = Completed(row)] /\ Completed(row) # None
        BY <2>1, <2>2, RowUpdates, NoneOK DEF Finalise
      <3> QED
        BY <2>1, <3>1, <3>2 DEF TypeOK
    <2>3. ASSUME NEW new \in {Failed(row), Dead(row)}, outbox' = [outbox EXCEPT ![id] = new]
          PROVE  Goal
      <3>1. /\ Failed(row) \in EventRow /\ Failed(row).status = "PENDING"
            /\ Dead(row) \in EventRow /\ Dead(row).status = "DLQ"
        BY <2>1, RowUpdates, RowPhases
      <3>2. new # None /\ new.status # "COMPLETED"
        BY <3>1, NoneOK
      <3> QED
        BY <2>1, <2>3, <3>2 DEF TypeOK
    <2> QED
      BY <2>1, <2>2, <2>3 DEF Finalise
  <1>6. ASSUME NEW r \in Relays, Sends(r) PROVE Goal
    BY <1>1, <1>6
    DEF Sends, AbortBatch, RefundTransaction, PublishNotice, GatewayMissing, SaveCompensation
  <1>7. ASSUME NEW r \in Relays, ClaimError(r) PROVE Goal
    BY <1>1, <1>4, <1>7 DEF ClaimError
  <1>8. ASSUME NEW r \in Relays, Claims(r) PROVE Goal
    BY <1>1, <1>4, <1>7, <1>8 DEF Claims, ClaimOutboxEvents, NothingToClaim, Return, NewProcess
  <1>9. ASSUME NEW r \in Relays, Crash(r) \/ FinaliseError(r) PROVE Goal
    BY <1>1, <1>9 DEF Crash, NewProcess, FinaliseError
  <1>10. ASSUME NEW r \in Relays, NEW how \in {"quit", "cancelled"}, Shutdown(r, how) PROVE Goal
    BY <1>1, <1>10 DEF Shutdown
  <1>11. ASSUME NEW f \in Events, Ages(f) PROVE Goal
    BY <1>1, <1>11 DEF Ages
  <1>12. CASE UNCHANGED vars
    BY <1>1, <1>12 DEF vars
  <1> QED
    BY <1>2, <1>3, <1>5, <1>6, <1>7, <1>8, <1>9, <1>10, <1>11, <1>12 DEF Next, PhaseC

\* No step leaves a relay with a claim of a row that is not there.
LEMMA NextClaimsExist == TypeOK /\ ClaimsExist /\ [Next]_vars => ClaimsExist'
  <1> SUFFICES ASSUME TypeOK, ClaimsExist, [Next]_vars, NEW q \in Relays, NEW e \in Holds(q)'
               PROVE  outbox'[e] # None
    BY DEF ClaimsExist
  <1>1. ASSUME e \in Holds(q) PROVE outbox'[e] # None
    BY <1>1, HeldEvents, RowsRemain DEF ClaimsExist
  <1>2. ASSUME NEW r \in Relays, ClaimOutboxEvents(r), e \notin Holds(q) PROVE outbox'[e] # None
    <2>1. PICK limit \in 1 .. BatchSize :
             /\ ClaimRows(Batch(limit))
             /\ Holds(r)' = Batch(limit)
             /\ \A p \in Relays : p # r => Holds(p)' = Holds(p)
      BY <1>2, ClaimedHolds
    <2>2. e \in Batch(limit)
      BY <1>2, <2>1
    <2> QED
      BY <2>1, <2>2, ClaimedRows, NoneOK
  <1> QED
    BY <1>1, <1>2, HoldsShrink

-----------------------------------------------------------------------------
(* The money.                                                               *)

\* A decision leaves one verdict per event and money sent back where it is "ok".
LEMMA GatewayRemembers ==
    ASSUME TypeOK, GatewayMemory, NEW c \in Claim, NEW verdict \in {"ok", "rejected"},
           GatewayDecides(c, verdict)
    PROVE  /\ GatewayMemory'
           /\ Decided(c.id, verdict)'
           /\ answers \subseteq answers'
           /\ \A e \in Events : refunds[e] > 0 => refunds'[e] > 0
           /\ \A e \in Events : e # c.id => refunds'[e] = refunds[e]
           /\ verdict = "ok" => refunds'[c.id] > 0
           /\ verdict = "rejected" => refunds'[c.id] = refunds[c.id]
  <1> DEFINE key == <<c.id>>
             known == {a \in answers : a[1] = key}
  <1>1. c.id \in Events
    BY DEF Claim
  <1>2. /\ known # {} => <<key, verdict>> \in known
        /\ answers' = answers \cup {<<key, verdict>>}
        /\ refunds' = [refunds EXCEPT ![c.id] =
                          IF known = {} /\ verdict = "ok" /\ @ < 2 THEN @ + 1 ELSE @]
    BY DEF GatewayDecides, Key
  <1>3. \A e \in Events : e # c.id => refunds'[e] = refunds[e]
    BY <1>2 DEF TypeOK
  <1>4. refunds'[c.id] = IF known = {} /\ verdict = "ok" /\ refunds[c.id] < 2
                         THEN refunds[c.id] + 1 ELSE refunds[c.id]
    BY <1>1, <1>2 DEF TypeOK
  <1>5. ASSUME NEW e \in Events, e # c.id, NEW v
        PROVE  Decided(e, v)' <=> Decided(e, v)
    BY <1>2, <1>5 DEF Decided
  <1>6. ASSUME NEW v PROVE Decided(c.id, v)' <=> Decided(c.id, v) \/ v = verdict
    BY <1>2 DEF Decided
  <1>7. CASE known = {}
    <2>1. ASSUME NEW v PROVE ~Decided(c.id, v)
      BY <1>7 DEF Decided
    <2>2. refunds[c.id] = 0
      BY <1>1, <2>1 DEF GatewayMemory
    <2>3. refunds'[c.id] = IF verdict = "ok" THEN 1 ELSE 0
      BY <1>4, <1>7, <2>2
    <2> HIDE DEF known
    <2> QED
      BY <1>1, <1>2, <1>3, <1>5, <1>6, <2>1, <2>2, <2>3 DEF GatewayMemory
  <1>8. CASE known # {}
    <2>1. Decided(c.id, verdict)
      BY <1>2, <1>8 DEF Decided
    <2>2. refunds'[c.id] = refunds[c.id]
      BY <1>4, <1>8
    <2>3. \A v : Decided(c.id, v)' <=> Decided(c.id, v)
      BY <1>6, <2>1
    <2>4. verdict = "ok" => refunds[c.id] = 1
      BY <1>1, <2>1 DEF GatewayMemory
    <2> HIDE DEF known
    <2> QED
      BY <1>1, <1>2, <1>3, <1>5, <2>1, <2>2, <2>3, <2>4 DEF GatewayMemory
  <1> QED
    BY <1>7, <1>8

\* Steps that touch neither the money nor what was published.
LEMMA QuietMoney ==
    ASSUME TypeOK, Money,
           UNCHANGED <<kind, answers, refunds, published, compensation, turnedAway>>,
           \A r \in Relays : outcome'[r] = None \/ outcome'[r] = outcome[r]
    PROVE  Money' /\ \A e \in Events : Handled(e)' <=> Handled(e)
  <1>1. \A e \in Events : Handled(e)' <=> Handled(e)
    BY DEF Handled
  <1>2. /\ \A e, v : Decided(e, v)' <=> Decided(e, v)
        /\ \A e : Refused(e)' <=> Refused(e)
    BY DEF Decided, Refused
  <1>3. GatewayMemory' /\ CompensationTrue'
    BY <1>2 DEF Money, GatewayMemory, CompensationTrue
  <1>4. OutcomesTrue'
    <2> SUFFICES ASSUME NEW r \in Relays, outcome'[r] # None PROVE Remembered(outcome[r])'
      BY DEF OutcomesTrue
    <2>1. outcome'[r] = outcome[r] /\ Remembered(outcome[r])
      BY DEF Money, OutcomesTrue
    <2>2. outcome[r].claim.id \in Events
      BY <2>1 DEF TypeOK, Outcome, Claim
    <2> QED
      BY <1>1, <1>2, <2>1, <2>2 DEF Remembered
  <1> QED
    BY <1>1, <1>3, <1>4 DEF Money

\* A step about one relay's outcome, when what was true of the others stays true.
LEMMA OneOutcome ==
    ASSUME TypeOK, OutcomesTrue, NEW r \in Relays, NEW o, UNCHANGED kind,
           \A e \in Events : Handled(e) => Handled(e)',
           answers \subseteq answers', turnedAway \subseteq turnedAway',
           outcome'[r] = o, Remembered(o)',
           \A q \in Relays : q # r => outcome'[q] = outcome[q]
    PROVE  OutcomesTrue'
  <1> SUFFICES ASSUME NEW q \in Relays, outcome'[q] # None PROVE Remembered(outcome[q])'
    BY DEF OutcomesTrue
  <1>1. CASE q = r
    BY <1>1 DEF Remembered, Handled, Decided, Refused
  <1>2. CASE q # r
    <2>1. outcome'[q] = outcome[q] /\ Remembered(outcome[q])
      BY <1>2 DEF OutcomesTrue
    <2>2. outcome[q].claim.id \in Events
      BY <2>1 DEF TypeOK, Outcome, Claim
    <2> QED
      BY <2>1, <2>2 DEF Remembered, Decided, Refused
  <1> QED
    BY <1>1, <1>2

\* What sending an event does to the money: the outcome remembered of it is true.
LEMMA RefundMoney ==
    ASSUME TypeOK, Money, NEW r \in Relays, NEW c \in held[r], RefundTransaction(r, c)
    PROVE  Money' /\ \A e \in Events : Handled(e) => Handled(e)'
  <1>1. PICK result \in Results :
           /\ Sent(r, c, result)
           /\ \/ /\ \E verdict \in {"ok", "rejected"} :
                       result \in Answers(verdict) /\ GatewayDecides(c, verdict)
                 /\ UNCHANGED turnedAway
              \/ /\ result \in Undecided
                 /\ turnedAway' = IF result = "rejected" THEN turnedAway \cup {c.id}
                                                       ELSE turnedAway
                 /\ UNCHANGED gateway
    BY DEF RefundTransaction
  <1> DEFINE o == [claim |-> c, result |-> result]
             Answered == /\ GatewayMemory'
                         /\ answers \subseteq answers' /\ turnedAway \subseteq turnedAway'
                         /\ \A e \in Events : refunds[e] > 0 => refunds'[e] > 0
                         /\ result = "ok" => refunds'[c.id] > 0
                         /\ result = "rejected" => Refused(c.id)'
  <1>2. /\ c \in Claim /\ c.id \in Events
        /\ outcome'[r] = o
        /\ \A q \in Relays : q # r => outcome'[q] = outcome[q]
    BY <1>1, SentClaims
  <1>3. UNCHANGED <<kind, published, compensation>> /\ kind[c.id] = "refund"
    BY DEF RefundTransaction
  <1>4. Answered
    <2>1. ASSUME result \in Undecided, UNCHANGED gateway,
                 turnedAway' = IF result = "rejected" THEN turnedAway \cup {c.id}
                                                    ELSE turnedAway
          PROVE  Answered
      BY <2>1 DEF gateway, Money, GatewayMemory, Decided, Refused, Undecided
    <2>2. ASSUME NEW verdict \in {"ok", "rejected"}, result \in Answers(verdict),
                 GatewayDecides(c, verdict), UNCHANGED turnedAway
          PROVE  Answered
      <3>1. result \in {verdict, "error"}
        BY <2>2 DEF Answers
      <3> QED
        BY <1>2, <2>2, <3>1, GatewayRemembers DEF Money, Refused
    <2> QED
      BY <1>1, <2>1, <2>2
  <1>5. \A e \in Events : Handled(e) => Handled(e)'
    BY <1>3, <1>4 DEF Handled
  <1>6. Remembered(o)'
    BY <1>2, <1>3, <1>4 DEF Remembered, Handled
  <1>7. OutcomesTrue'
    BY <1>2, <1>3, <1>4, <1>5, <1>6, OneOutcome DEF Money
  <1>8. CompensationTrue'
    BY <1>3, <1>4 DEF Money, CompensationTrue, Decided, Refused
  <1> QED
    BY <1>4, <1>5, <1>7, <1>8 DEF Money

\* A notice is published before its outcome is remembered; an error says nothing.
LEMMA NoticeMoney ==
    ASSUME TypeOK, Money, NEW r \in Relays, NEW c \in held[r],
           PublishNotice(r, c) \/ GatewayMissing(r, c)
    PROVE  Money' /\ \A e \in Events : Handled(e) => Handled(e)'
  <1>1. PICK result \in Results :
           /\ Sent(r, c, result)
           /\ \/ result = "error" /\ UNCHANGED published
              \/ result = "ok" /\ kind[c.id] = "notice" /\ published' = published \cup {c.id}
    BY DEF PublishNotice, GatewayMissing, Results
  <1> DEFINE o == [claim |-> c, result |-> result]
  <1>2. /\ c \in Claim /\ c.id \in Events
        /\ outcome'[r] = o
        /\ \A q \in Relays : q # r => outcome'[q] = outcome[q]
    BY <1>1, SentClaims
  <1>3. UNCHANGED <<kind, answers, refunds, compensation, turnedAway>>
    BY DEF PublishNotice, GatewayMissing, gateway, histories
  <1>4. published \subseteq published'
    BY <1>1
  <1>5. \A e \in Events : Handled(e) => Handled(e)'
    BY <1>3, <1>4 DEF Handled
  <1>6. Remembered(o)'
    BY <1>1, <1>2, <1>3 DEF Remembered, Handled
  <1>7. OutcomesTrue'
    BY <1>2, <1>3, <1>5, <1>6, OneOutcome DEF Money
  <1>8. GatewayMemory' /\ CompensationTrue'
    BY <1>3 DEF Money, GatewayMemory, CompensationTrue, Decided, Refused
  <1> QED
    BY <1>5, <1>7, <1>8 DEF Money

\* The compensation of a rejection is that of an event that was refused.
LEMMA SavedCompensation ==
    ASSUME TypeOK, Money, NEW r \in Relays, SaveCompensation(r)
    PROVE  Money' /\ \A e \in Events : Handled(e) => Handled(e)'
  <1> DEFINE e == outcome[r].claim.id
             Insert == compensation = None /\ compensation' = e
  <1>1. PICK inboxErr \in BOOLEAN :
           /\ outcome' = [outcome EXCEPT ![r].result = Absorbed(inboxErr)]
           /\ \/ ~inboxErr /\ Insert
              \/ inboxErr /\ (UNCHANGED compensation \/ Insert)
    BY DEF SaveCompensation, InboxTakes
  <1>2. /\ outcome[r] \in Outcome /\ outcome[r].result = "rejected"
        /\ UNCHANGED <<kind, answers, refunds, published, turnedAway>>
    BY DEF SaveCompensation, Terminal, TypeOK, gateway, histories
  <1>3. /\ e \in Events /\ e # None
        /\ Refused(e) /\ kind[e] = "refund"
    <2>1. outcome[r] # None
      BY DEF SaveCompensation
    <2> QED
      BY <1>2, <2>1, NoneOK DEF Outcome, Claim, Money, OutcomesTrue, Remembered
  <1> DEFINE o == [outcome[r] EXCEPT !.result = Absorbed(inboxErr)]
  <1>4. /\ outcome'[r] = o /\ o.claim = outcome[r].claim /\ o.result = Absorbed(inboxErr)
        /\ \A q \in Relays : q # r => outcome'[q] = outcome[q]
    BY <1>1, <1>2 DEF TypeOK, Outcome
  <1>5. \A f \in Events : Handled(f) => Handled(f)'
    BY <1>1, <1>2, NoneOK DEF Handled
  <1>6. ~inboxErr => Handled(e)'
    BY <1>1, <1>2, <1>3 DEF Handled
  <1>7. Remembered(o)'
    BY <1>4, <1>6 DEF Remembered, Absorbed
  <1>8. OutcomesTrue'
    BY <1>2, <1>4, <1>5, <1>7, OneOutcome DEF Money
  <1>9. CompensationTrue' /\ GatewayMemory'
    BY <1>1, <1>2, <1>3 DEF Money, GatewayMemory, CompensationTrue, Decided, Refused
  <1> QED
    BY <1>5, <1>8, <1>9 DEF Money

LEMMA NextMoney ==
    ASSUME TypeOK, ClaimsExist, Money, [Next]_vars
    PROVE  Money' /\ \A e \in Events : Handled(e) => Handled(e)'
  <1> DEFINE Goal == Money' /\ \A e \in Events : Handled(e) => Handled(e)'
             Quiet == /\ UNCHANGED <<kind, answers, refunds, published, compensation, turnedAway>>
                      /\ \A r \in Relays : outcome'[r] = None \/ outcome'[r] = outcome[r]
  <1> USE DEF gateway, stops, relays, histories
  <1>1. ASSUME Quiet PROVE Goal
    BY <1>1, QuietMoney
  <1>2. ASSUME NEW r \in Relays, Sends(r) PROVE Goal
    <2>1. CASE AbortBatch(r)
      BY <1>1, <2>1 DEF AbortBatch
    <2>2. CASE SaveCompensation(r)
      BY <2>2, SavedCompensation
    <2>3. ASSUME NEW c \in held[r], RefundTransaction(r, c) PROVE Goal
      BY <2>3, RefundMoney
    <2>4. ASSUME NEW c \in held[r], PublishNotice(r, c) \/ GatewayMissing(r, c) PROVE Goal
      BY <2>4, NoticeMoney
    <2> QED
      BY <1>2, <2>1, <2>2, <2>3, <2>4 DEF Sends
  <1>3. ASSUME NEW r \in Relays, PhaseC(r) \/ FinaliseError(r) PROVE Quiet
    BY <1>3
    DEF PhaseC, MarkOutboxCompleted, MarkOutboxFailed, MoveOutboxToDLQ, Finalise, FinaliseError,
        TypeOK
  <1>4. ASSUME NEW r \in Relays, NewProcess(r) PROVE Quiet
    BY <1>4 DEF NewProcess, TypeOK
  <1>5. ASSUME NEW r \in Relays, ClaimError(r) PROVE Quiet
    BY <1>5 DEF ClaimError
  <1>6. ASSUME NEW r \in Relays, Claims(r) PROVE Quiet
    BY <1>4, <1>5, <1>6 DEF Claims, ClaimOutboxEvents, NothingToClaim, Return
  <1>7. ASSUME NEW r \in Relays, Crash(r) PROVE Quiet
    BY <1>4, <1>7 DEF Crash
  <1>8. ASSUME NEW r \in Relays, NEW how \in {"quit", "cancelled"}, Shutdown(r, how) PROVE Quiet
    BY <1>8 DEF Shutdown
  <1>9. ASSUME NEW e \in Events, Publish(e) \/ LeaseExpires(e) \/ Ages(e) \/ ReplayOutboxDLQ(e)
        PROVE  Quiet
    BY <1>9 DEF Publish, LeaseExpires, Ages, ReplayOutboxDLQ
  <1>10. CASE UNCHANGED vars
    BY <1>1, <1>10 DEF vars
  <1> HIDE DEF Quiet
  <1> QED
    BY <1>1, <1>2, <1>3, <1>5, <1>6, <1>7, <1>8, <1>9, <1>10 DEF Next

-----------------------------------------------------------------------------
(* The invariant.                                                           *)

LEMMA InitInv == Init => Inv
  <1> SUFFICES ASSUME Init PROVE Inv
    OBVIOUS
  <1>1. \A r \in Relays : Holds(r) = {}
    BY DEF Init, Holds
  <1>2. Money
    BY DEF Init, Money, GatewayMemory, OutcomesTrue, CompensationTrue, Decided
  <1>3. ClaimsExist /\ CompletedMeansHandled
    BY <1>1 DEF Init, ClaimsExist, CompletedMeansHandled, Arrived
  <1> QED
    BY <1>2, <1>3, InitTypeOK DEF Inv

LEMMA NextInv == Inv /\ [Next]_vars => Inv'
  <1> SUFFICES ASSUME Inv, [Next]_vars PROVE Inv'
    OBVIOUS
  <1>1. TypeOK /\ ClaimsExist /\ Money /\ CompletedMeansHandled
    BY DEF Inv
  <1>2. TypeOK' /\ ClaimsExist'
    BY <1>1, NextTypeOK, NextClaimsExist
  <1>3. Money' /\ \A e \in Events : Handled(e) => Handled(e)'
    BY <1>1, NextMoney
  <1>4. CompletedMeansHandled'
    <2> SUFFICES ASSUME NEW e \in Events, outbox'[e] # None, outbox'[e].status = "COMPLETED"
                 PROVE  Handled(e)'
      BY DEF CompletedMeansHandled, Arrived
    <2>1. \/ outbox[e] # None /\ outbox[e].status = "COMPLETED"
          \/ \E r \in Relays :
                outcome[r] # None /\ outcome[r].result = "ok" /\ outcome[r].claim.id = e
      BY <1>1, RowsRemain
    <2>2. Handled(e)
      BY <1>1, <2>1 DEF CompletedMeansHandled, Arrived, Money, OutcomesTrue, Remembered
    <2> QED
      BY <1>3, <2>2
  <1> QED
    BY <1>2, <1>3, <1>4 DEF Inv

LEMMA SpecInv == Spec => []Inv
  BY InitInv, NextInv, PTL DEF Spec

\* Every variable keeps its type.
THEOREM TypeCorrect == Spec => []TypeOK
  <1>1. Inv => TypeOK
    BY DEF Inv
  <1> QED
    BY <1>1, SpecInv, PTL

\* A COMPLETED row's event was handled, whoever completed it and however late
\* (consumeBatch's err and Phase C).
THEOREM Completion == Spec => []CompletedMeansHandled
  <1>1. Inv => CompletedMeansHandled
    BY DEF Inv
  <1> QED
    BY <1>1, SpecInv, PTL

\* An event's money goes back at most once, and next to its compensation only if a
\* request was refused undecided (RefundTransaction's idempotency key, the
\* compensation branch).
THEOREM OneFate == Spec => []RefundOrCompensation
  <1>1. Inv => RefundOrCompensation
    <2> SUFFICES ASSUME Inv, NEW e \in Events
                 PROVE  /\ refunds[e] <= 1
                        /\ refunds[e] = 1 /\ compensation = e => e \in turnedAway
      BY DEF RefundOrCompensation
    <2>1. refunds[e] = IF Decided(e, "ok") THEN 1 ELSE 0
      BY DEF Inv, Money, GatewayMemory
    <2>2. compensation = e => ~Decided(e, "ok") \/ e \in turnedAway
      BY NoneOK DEF Inv, Money, GatewayMemory, CompensationTrue, Refused
    <2> QED
      BY <2>1, <2>2
  <1> QED
    BY <1>1, SpecInv, PTL

-----------------------------------------------------------------------------
(* The claims: their size and their order.                                  *)

\* Apart from claims, a step writes one row at most, and gives it no new lease.
LEMMA RowSteps ==
    ASSUME TypeOK, ClaimsExist, [Next]_vars
    PROVE  \/ outbox' = outbox
           \/ \E e \in Events, row \in EventRow :
                 /\ outbox' = [outbox EXCEPT ![e] = row]
                 /\ row.status = "PROCESSING" => row.orphan
           \/ \E limit \in 1 .. BatchSize : ClaimRows(Batch(limit))
  <1> DEFINE OneRow == \E e \in Events, row \in EventRow :
                          /\ outbox' = [outbox EXCEPT ![e] = row]
                          /\ row.status = "PROCESSING" => row.orphan
             Claim1 == \E limit \in 1 .. BatchSize : ClaimRows(Batch(limit))
             Goal == outbox' = outbox \/ OneRow \/ Claim1
  <1>1. ASSUME NEW e \in Events, Publish(e) \/ ReplayOutboxDLQ(e) PROVE OneRow
    <2>1. outbox' = [outbox EXCEPT ![e] = Fresh]
      BY <1>1 DEF Publish, ReplayOutboxDLQ, Replayed
    <2>2. Fresh \in EventRow /\ Fresh.status = "PENDING"
      BY RowUpdates DEF Fresh
    <2> QED
      BY <2>1, <2>2
  <1>2. ASSUME NEW e \in Events, LeaseExpires(e) PROVE OneRow
    <2> DEFINE row == [outbox[e] EXCEPT !.orphan = TRUE]
    <2>1. outbox[e] \in EventRow
      BY <1>2 DEF LeaseExpires, Arrived, TypeOK
    <2>2. row \in EventRow /\ row.orphan
      BY <2>1 DEF EventRow
    <2>3. outbox' = [outbox EXCEPT ![e] = row]
      BY <1>2 DEF LeaseExpires
    <2> HIDE DEF row
    <2> QED
      BY <2>2, <2>3
  <1>3. ASSUME NEW r \in Relays,
               MarkOutboxCompleted(r) \/ MarkOutboxFailed(r) \/ MoveOutboxToDLQ(r)
        PROVE  OneRow
    <2> DEFINE id == outcome[r].claim.id
               row == outbox[id]
    <2>1. /\ id \in Events /\ row \in EventRow
          /\ \E new \in {Completed(row), Failed(row), Dead(row)} :
                outbox' = [outbox EXCEPT ![id] = new]
      BY <1>3, FinalisedRow DEF Finalise
    <2>2. \A new \in {Completed(row), Failed(row), Dead(row)} :
             new \in EventRow /\ new.status # "PROCESSING"
      <3>1. /\ Completed(row).status = "COMPLETED"
            /\ Failed(row).status = "PENDING" /\ Dead(row).status = "DLQ"
        BY <2>1 DEF Completed, Failed, Dead, EventRow
      <3> HIDE DEF row
      <3> QED
        BY <2>1, <3>1, RowUpdates
    <2> HIDE DEF id, row
    <2> QED
      BY <2>1, <2>2
  <1>4. ASSUME NEW r \in Relays, Sends(r) PROVE outbox' = outbox
    BY <1>4
    DEF Sends, AbortBatch, RefundTransaction, PublishNotice, GatewayMissing, SaveCompensation
  <1>5. ASSUME NEW r \in Relays, ClaimError(r) PROVE outbox' = outbox \/ Claim1
    BY <1>5 DEF ClaimError
  <1>6. ASSUME NEW r \in Relays, Claims(r) PROVE outbox' = outbox \/ Claim1
    BY <1>5, <1>6 DEF Claims, ClaimOutboxEvents, NothingToClaim, Return, NewProcess
  <1>7. ASSUME NEW r \in Relays, Crash(r) \/ FinaliseError(r) PROVE outbox' = outbox
    BY <1>7 DEF Crash, NewProcess, FinaliseError
  <1>8. ASSUME NEW r \in Relays, NEW how \in {"quit", "cancelled"}, Shutdown(r, how)
        PROVE  outbox' = outbox
    BY <1>8 DEF Shutdown
  <1>9. ASSUME NEW e \in Events, Ages(e) PROVE outbox' = outbox
    BY <1>9 DEF Ages
  <1>10. ASSUME UNCHANGED vars PROVE outbox' = outbox
    BY <1>10 DEF vars
  <1>11. ASSUME NEW r \in Relays, PhaseC(r) PROVE Goal
    BY <1>3, <1>7, <1>11 DEF PhaseC
  <1> HIDE DEF OneRow, Claim1
  <1>12. Goal
    BY <1>1, <1>2, <1>4, <1>5, <1>6, <1>7, <1>8, <1>9, <1>10, <1>11 DEF Next
  <1> QED
    BY <1>12 DEF OneRow, Claim1

\* Only finitely many events have arrived, so a batch can be counted.
FewClaims ==
    /\ IsFiniteSet(Arrived)
    /\ \A r \in Relays : IsFiniteSet(Holds(r)) /\ Cardinality(Holds(r)) <= BatchSize

LEMMA NextFewClaims == TypeOK /\ ClaimsExist /\ FewClaims /\ [Next]_vars => FewClaims'
  <1> SUFFICES ASSUME TypeOK, ClaimsExist, FewClaims, [Next]_vars PROVE FewClaims'
    OBVIOUS
  <1>1. IsFiniteSet(Arrived')
    <2>1. ASSUME outbox' = outbox PROVE Arrived' \subseteq Arrived
      BY <2>1 DEF Arrived
    <2>2. ASSUME NEW e \in Events, NEW row \in EventRow, outbox' = [outbox EXCEPT ![e] = row]
          PROVE  Arrived' \subseteq Arrived \cup {e}
      BY <2>2 DEF Arrived, TypeOK
    <2>3. ASSUME NEW limit \in 1 .. BatchSize, ClaimRows(Batch(limit))
          PROVE  Arrived' \subseteq Arrived
      BY <2>3, ClaimedRows, NoneOK DEF Arrived
    <2>4. \A e : IsFiniteSet(Arrived \cup {e})
      BY FS_AddElement DEF FewClaims
    <2> QED
      BY <2>1, <2>2, <2>3, <2>4, RowSteps, FS_Subset DEF FewClaims
  <1>2. ASSUME NEW r \in Relays, ClaimOutboxEvents(r)
        PROVE  /\ IsFiniteSet(Holds(r)') /\ Cardinality(Holds(r)') <= BatchSize
               /\ \A q \in Relays : q # r => Holds(q)' = Holds(q)
    <2> DEFINE due == {e \in Arrived : Due(e)}
    <2>1. PICK limit \in 1 .. BatchSize :
             /\ Holds(r)' = Batch(limit)
             /\ \A q \in Relays : q # r => Holds(q)' = Holds(q)
      BY <1>2, ClaimedHolds
    <2>2. due \in SUBSET Nat /\ due \in SUBSET Arrived
      BY OutboxConstants DEF Arrived
    <2>3. IsFiniteSet(due)
      BY <2>2, FS_Subset DEF FewClaims
    <2>4. Batch(limit) = Oldest(due, limit) /\ limit \in Nat /\ limit <= BatchSize
      BY OutboxConstants DEF Batch
    <2> HIDE DEF due
    <2>5. IsFiniteSet(Batch(limit)) /\ Cardinality(Batch(limit)) <= limit
      BY <2>2, <2>3, <2>4, OldestAreFew
    <2>6. Cardinality(Batch(limit)) \in Nat
      BY <2>5, FS_CardinalityType
    <2> QED
      BY <2>1, <2>4, <2>5, <2>6, OutboxConstants
  <1>3. ASSUME NEW q \in Relays, Holds(q)' \subseteq Holds(q)
        PROVE  IsFiniteSet(Holds(q)') /\ Cardinality(Holds(q)') <= BatchSize
    <2>1. IsFiniteSet(Holds(q)') /\ Cardinality(Holds(q)') <= Cardinality(Holds(q))
      BY <1>3, FS_Subset DEF FewClaims
    <2>2. Cardinality(Holds(q)') \in Nat /\ Cardinality(Holds(q)) \in Nat
      BY <2>1, FS_CardinalityType DEF FewClaims
    <2> QED
      BY <2>1, <2>2, OutboxConstants DEF FewClaims
  <1>4. \A q \in Relays : IsFiniteSet(Holds(q)') /\ Cardinality(Holds(q)') <= BatchSize
    BY <1>2, <1>3, HoldsShrink DEF FewClaims
  <1> QED
    BY <1>1, <1>4 DEF FewClaims

LEMMA SpecFewClaims == Spec => [](Inv /\ FewClaims)
  <1>1. ASSUME Init PROVE FewClaims
    <2>1. Arrived = {} /\ \A r \in Relays : Holds(r) = {}
      BY <1>1 DEF Init, Arrived, Holds
    <2> QED
      BY <2>1, FS_EmptySet, OutboxConstants DEF FewClaims
  <1>2. Inv => TypeOK /\ ClaimsExist
    BY DEF Inv
  <1> QED
    BY <1>1, <1>2, InitInv, NextInv, NextFewClaims, PTL DEF Spec

\* A relay is never responsible for more events than one claim may take: it claims again
\* only when its batch is finalised, lost or abandoned (Start, consumeBatch).
BatchesAreBounded ==
    \A r \in Relays : IsFiniteSet(Holds(r)) /\ Cardinality(Holds(r)) <= BatchSize

\* However rows come back, a relay holds one batch at most.
THEOREM BoundedBatches == Spec => []BatchesAreBounded
  <1>1. FewClaims => BatchesAreBounded
    BY DEF FewClaims, BatchesAreBounded
  <1> QED
    BY <1>1, SpecFewClaims, PTL

\* A claim is the only way a row gets a new lease.
Leased(e) ==
    /\ Claimable(outbox[e])
    /\ outbox'[e].status = "PROCESSING" /\ ~outbox'[e].orphan

\* No claim, whatever its limit, passes over an older row that is due to take a younger
\* one, and none takes a pending row of more than 48 hours (ClaimOutboxEvents).
DueOldestFirst ==
    [][ \A e, f \in Arrived :
          Leased(e) => /\ Due(e)
                       /\ f < e /\ Due(f) => Leased(f) ]_vars

\* Claims respect the order of arrival and the age limit.
THEOREM ClaimsInOrder == Spec => DueOldestFirst
  <1> DEFINE InOrder == \A e, f \in Arrived :
                           Leased(e) => /\ Due(e)
                                        /\ f < e /\ Due(f) => Leased(f)
  <1>1. ASSUME Inv, FewClaims, [Next]_vars PROVE InOrder
    <2>1. SUFFICES ASSUME NEW e \in Arrived, NEW f \in Arrived, Leased(e)
                   PROVE  Due(e) /\ (f < e /\ Due(f) => Leased(f))
      OBVIOUS
    <2>2. outbox[e] \in EventRow /\ outbox[f] \in EventRow /\ e \in Events /\ f \in Events
      BY <1>1 DEF Arrived, Inv, TypeOK
    <2>3. outbox'[e] # outbox[e]
      BY <2>1 DEF Leased, Claimable
    <2>4. ASSUME NEW d \in Events, NEW row \in EventRow, outbox' = [outbox EXCEPT ![d] = row],
                 row.status = "PROCESSING" => row.orphan
          PROVE  FALSE
      <3>1. outbox'[e] = row
        BY <1>1, <2>2, <2>3, <2>4 DEF Inv, TypeOK
      <3> QED
        BY <2>1, <2>4, <3>1 DEF Leased, EventRow
    <2>5. PICK limit \in 1 .. BatchSize : ClaimRows(Batch(limit))
      BY <1>1, <2>3, <2>4, RowSteps DEF Inv
    <2> DEFINE due == {d \in Arrived : Due(d)}
    <2>6. /\ Batch(limit) = Oldest(due, limit)
          /\ \A d \in Events : d \notin Batch(limit) => outbox'[d] = outbox[d]
          /\ \A d \in Batch(limit) : outbox'[d] = Claimed(outbox[d])
      BY <1>1, <2>5, ClaimedRows DEF Inv, Batch
    <2>7. e \in Oldest(due, limit)
      BY <2>2, <2>3, <2>6
    <2>8. Due(e)
      BY <2>7 DEF Oldest
    <2>9. ASSUME f < e, Due(f) PROVE Leased(f)
      <3>1. due \in SUBSET Nat /\ due \in SUBSET Arrived
        BY OutboxConstants DEF Arrived
      <3>2. IsFiniteSet(due)
        BY <1>1, <3>1, FS_Subset DEF FewClaims
      <3>3. f \in due /\ limit \in Nat \ {0}
        BY <2>9, OutboxConstants
      <3>4. f \in Oldest(due, limit)
        <4> HIDE DEF due
        <4> QED
          BY <2>7, <2>9, <3>1, <3>2, <3>3, OldestComeFirst
      <3>5. outbox'[f] = Claimed(outbox[f])
        BY <2>6, <3>4
      <3> QED
        BY <2>9, <3>5 DEF Leased, Claimed, Due
    <2> QED
      BY <2>8, <2>9
  <1>2. QED
    BY <1>1, SpecFewClaims, PTL DEF DueOldestFirst, Spec

-----------------------------------------------------------------------------
(* The leases.                                                              *)

\* Steps that give no relay anything new.
LEMMA LessHeldOnce ==
    ASSUME HeldOnce,
           \A r \in Relays :
              /\ held'[r] \subseteq held[r]
              /\ \/ outcome'[r] = None
                 \/ outcome[r] # None /\ outcome'[r].claim = outcome[r].claim
    PROVE  HeldOnce'
  BY DEF HeldOnce

\* An event that is sent leaves the batch.
LEMMA SentHeldOnce ==
    ASSUME TypeOK, HeldOnce, NEW r \in Relays, NEW c \in held[r], NEW result \in Results,
           Sent(r, c, result)
    PROVE  HeldOnce'
  <1>1. /\ outcome'[r] = [claim |-> c, result |-> result]
        /\ held'[r] = held[r] \ {c}
        /\ \A q \in Relays : q # r => outcome'[q] = outcome[q] /\ held'[q] = held[q]
    BY SentClaims
  <1>2. outcome'[r].claim = c
    BY <1>1
  <1>3. \A d \in held'[r] : d.id # c.id
    BY <1>1 DEF HeldOnce
  <1> QED
    BY <1>1, <1>2, <1>3 DEF HeldOnce

LEMMA NextHeldOnce == TypeOK /\ HeldOnce /\ [Next]_vars => HeldOnce'
  <1> SUFFICES ASSUME TypeOK, HeldOnce, [Next]_vars PROVE HeldOnce'
    OBVIOUS
  <1> DEFINE Less == \A r \in Relays :
                        /\ held'[r] \subseteq held[r]
                        /\ \/ outcome'[r] = None
                           \/ outcome[r] # None /\ outcome'[r].claim = outcome[r].claim
  <1> USE DEF gateway, stops, relays
  <1>1. ASSUME UNCHANGED <<held, outcome>> PROVE HeldOnce'
    BY <1>1 DEF HeldOnce
  <1>2. ASSUME NEW r \in Relays, ClaimOutboxEvents(r) PROVE HeldOnce'
    <2>1. PICK limit \in 1 .. BatchSize :
             /\ outcome[r] = None /\ UNCHANGED outcome
             /\ held'[r] = {[id |-> e, retries |-> outbox'[e].retries] : e \in Batch(limit)}
             /\ \A q \in Relays : q # r => held'[q] = held[q]
      BY <1>2, ClaimedHolds
    <2>2. ASSUME NEW c \in held'[r], NEW d \in held'[r], c.id = d.id PROVE c = d
      BY <2>1, <2>2
    <2> QED
      BY <2>1, <2>2 DEF HeldOnce
  <1>3. ASSUME NEW r \in Relays, Sends(r) PROVE HeldOnce'
    <2>1. ASSUME AbortBatch(r) PROVE Less
      BY <2>1 DEF AbortBatch, TypeOK
    <2>2. ASSUME SaveCompensation(r) PROVE Less
      <3>1. PICK inboxErr \in BOOLEAN :
               outcome' = [outcome EXCEPT ![r].result = Absorbed(inboxErr)]
        BY <2>2 DEF SaveCompensation
      <3>2. outcome[r] \in Outcome /\ outcome[r] # None /\ UNCHANGED held
        BY <2>2 DEF SaveCompensation, TypeOK
      <3>3. /\ outcome'[r].claim = outcome[r].claim
            /\ \A q \in Relays : q # r => outcome'[q] = outcome[q]
        BY <3>1, <3>2 DEF Outcome, TypeOK
      <3>4. \A q \in Relays : outcome'[q].claim = outcome[q].claim
        BY <3>3
      <3>5. \A q \in Relays : outcome[q] = None => outcome'[q] = None
        BY <3>2, <3>3
      <3> QED
        BY <3>2, <3>4, <3>5
    <2>3. ASSUME NEW c \in held[r], RefundTransaction(r, c) PROVE HeldOnce'
      BY <2>3, SentHeldOnce DEF RefundTransaction
    <2>4. ASSUME NEW c \in held[r], PublishNotice(r, c) \/ GatewayMissing(r, c) PROVE HeldOnce'
      BY <2>4, SentHeldOnce DEF PublishNotice, GatewayMissing, Results
    <2> HIDE DEF Less
    <2>5. Less => HeldOnce'
      BY LessHeldOnce DEF Less
    <2> QED
      BY <1>3, <2>1, <2>2, <2>3, <2>4, <2>5 DEF Sends
  <1>4. ASSUME NEW r \in Relays, PhaseC(r) \/ FinaliseError(r) PROVE Less
    BY <1>4
    DEF PhaseC, MarkOutboxCompleted, MarkOutboxFailed, MoveOutboxToDLQ, Finalise, FinaliseError,
        TypeOK
  <1>5. ASSUME NEW r \in Relays, NewProcess(r) PROVE Less
    BY <1>5 DEF NewProcess, TypeOK
  <1>6. ASSUME NEW r \in Relays, ClaimError(r) PROVE HeldOnce'
    BY <1>1, <1>6 DEF ClaimError
  <1> HIDE DEF Less
  <1>7. Less => HeldOnce'
    BY LessHeldOnce DEF Less
  <1>8. ASSUME NEW r \in Relays, Claims(r) PROVE HeldOnce'
    BY <1>1, <1>2, <1>5, <1>6, <1>7, <1>8 DEF Claims, NothingToClaim, Return
  <1>9. ASSUME NEW r \in Relays, Crash(r) PROVE HeldOnce'
    BY <1>5, <1>7, <1>9 DEF Crash
  <1>10. ASSUME NEW r \in Relays, NEW how \in {"quit", "cancelled"}, Shutdown(r, how)
         PROVE  HeldOnce'
    BY <1>1, <1>10 DEF Shutdown
  <1>11. ASSUME NEW e \in Events, Publish(e) \/ LeaseExpires(e) \/ Ages(e) \/ ReplayOutboxDLQ(e)
         PROVE  HeldOnce'
    BY <1>1, <1>11 DEF Publish, LeaseExpires, Ages, ReplayOutboxDLQ
  <1>12. CASE UNCHANGED vars
    BY <1>1, <1>12 DEF vars
  <1> QED
    BY <1>3, <1>4, <1>6, <1>7, <1>8, <1>9, <1>10, <1>11, <1>12 DEF Next

\* Nobody gets a row and the rows in somebody's hands stay as they are.
LEMMA LessLease ==
    ASSUME LeaseKept,
           \A q \in Relays : Holds(q)' \subseteq Holds(q),
           \A q \in Relays : \A e \in Holds(q)' : outbox'[e] = outbox[e]
    PROVE  LeaseKept'
  BY DEF LeaseKept, Exact, Exclusive

\* A claim takes rows that are in nobody's hands.
LEMMA BatchIsFree ==
    ASSUME LeaseKept, TypeOK, NEW limit \in 1 .. BatchSize, ClaimRows(Batch(limit)),
           NEW q \in Relays, NEW e \in Holds(q)
    PROVE  e \notin Batch(limit) /\ outbox'[e] = outbox[e]
  <1>1. e \in Events /\ outbox[e].status = "PROCESSING" /\ ~outbox[e].orphan
    BY HeldEvents DEF LeaseKept, Exact
  <1>2. ~Claimable(outbox[e])
    BY <1>1 DEF Claimable
  <1> QED
    BY <1>1, <1>2, ClaimedRows

LEMMA ClaimLease ==
    ASSUME TypeOK, LeaseKept, NEW r \in Relays, ClaimOutboxEvents(r)
    PROVE  LeaseKept'
  <1>1. PICK limit \in 1 .. BatchSize :
           /\ ClaimRows(Batch(limit))
           /\ Holds(r)' = Batch(limit)
           /\ \A q \in Relays : q # r => Holds(q)' = Holds(q)
    BY ClaimedHolds
  <1>2. \A q \in Relays : \A e \in Holds(q) : e \notin Batch(limit) /\ outbox'[e] = outbox[e]
    BY <1>1, BatchIsFree
  <1>3. \A e \in Batch(limit) : outbox'[e].status = "PROCESSING" /\ ~outbox'[e].orphan
    BY <1>1, ClaimedRows, RowPhases
  <1>4. Exact'
    <2> SUFFICES ASSUME NEW q \in Relays, NEW e \in Holds(q)'
                 PROVE  outbox'[e].status = "PROCESSING" /\ ~outbox'[e].orphan
      BY DEF Exact
    <2>1. CASE q = r
      BY <1>1, <1>3, <2>1
    <2>2. CASE q # r
      BY <1>1, <1>2, <2>2 DEF LeaseKept, Exact
    <2> QED
      BY <2>1, <2>2
  <1>5. Exclusive'
    <2> SUFFICES ASSUME NEW p \in Relays, NEW q \in Relays, NEW e,
                        e \in Holds(p)', e \in Holds(q)', p # q
                 PROVE  FALSE
      BY DEF Exclusive
    <2>1. CASE p = r
      BY <1>1, <1>2, <2>1
    <2>2. CASE q = r
      BY <1>1, <1>2, <2>2
    <2>3. CASE p # r /\ q # r
      BY <1>1, <2>3 DEF LeaseKept, Exclusive
    <2> QED
      BY <2>1, <2>2, <2>3
  <1> QED
    BY <1>4, <1>5 DEF LeaseKept

\* Phase C writes the row of the claim it gives up.
LEMMA FinaliseLease ==
    ASSUME TypeOK, ClaimsExist, HeldOnce, LeaseKept, NEW r \in Relays,
           MarkOutboxCompleted(r) \/ MarkOutboxFailed(r) \/ MoveOutboxToDLQ(r)
    PROVE  LeaseKept'
  <1> DEFINE id == outcome[r].claim.id
  <1>1. /\ outcome[r] # None
        /\ outcome' = [outcome EXCEPT ![r] = None]
        /\ UNCHANGED held
        /\ \E row : outbox' = [outbox EXCEPT ![id] = row]
    BY DEF MarkOutboxCompleted, MarkOutboxFailed, MoveOutboxToDLQ, Finalise
  <1>2. /\ id \in Holds(r)
        /\ Holds(r)' = {c.id : c \in held[r]}
        /\ \A q \in Relays : q # r => Holds(q)' = Holds(q)
        /\ \A q \in Relays : Holds(q)' \subseteq Holds(q)
    BY <1>1, ClearedOutcome
  <1>3. id \notin Holds(r)'
    BY <1>1, <1>2 DEF HeldOnce
  <1>4. \A q \in Relays : q # r => id \notin Holds(q)'
    BY <1>2 DEF LeaseKept, Exclusive
  <1>5. \A q \in Relays : \A e \in Holds(q)' : outbox'[e] = outbox[e]
    <2> SUFFICES ASSUME NEW q \in Relays, NEW e \in Holds(q)' PROVE outbox'[e] = outbox[e]
      OBVIOUS
    <2>1. e # id
      BY <1>3, <1>4
    <2>2. e \in Events
      BY <1>2, HeldEvents
    <2> QED
      BY <1>1, <2>1, <2>2 DEF TypeOK
  <1> QED
    BY <1>2, <1>5, LessLease

LEMMA NextLeaseInv == TypeOK /\ ClaimsExist /\ LeaseInv /\ [Next]_vars => LeaseInv'
  <1> SUFFICES ASSUME TypeOK, ClaimsExist, LeaseInv, [Next]_vars PROVE LeaseInv'
    OBVIOUS
  <1>1. HeldOnce /\ HeldOnce'
    BY NextHeldOnce DEF LeaseInv
  <1> SUFFICES ASSUME ~overrun' PROVE LeaseKept'
    BY <1>1 DEF LeaseInv
  <1> USE DEF gateway, stops, relays, histories
  <1>2. ~overrun
    BY DEF Next, vars, Publish, LeaseExpires, Ages, ReplayOutboxDLQ, Claims, ClaimOutboxEvents,
           NothingToClaim, ClaimError, Return, NewProcess, Sends, AbortBatch, SaveCompensation,
           RefundTransaction, PublishNotice, GatewayMissing, PhaseC, MarkOutboxCompleted,
           MarkOutboxFailed, MoveOutboxToDLQ, Finalise, FinaliseError, Crash, Shutdown
  <1>3. LeaseKept
    BY <1>2 DEF LeaseInv
  <1>4. ASSUME NEW r \in Relays, ClaimOutboxEvents(r) PROVE LeaseKept'
    BY <1>3, <1>4, ClaimLease
  <1> SUFFICES ASSUME \A r \in Relays : ~ClaimOutboxEvents(r) PROVE LeaseKept'
    BY <1>4
  <1>5. \A q \in Relays : Holds(q)' \subseteq Holds(q)
    BY HoldsShrink
  <1> DEFINE Same == \A q \in Relays : \A e \in Holds(q)' : outbox'[e] = outbox[e]
  <1>6. Same => LeaseKept'
    BY <1>3, <1>5, LessLease
  <1>7. ASSUME UNCHANGED outbox PROVE Same
    BY <1>7
  <1>8. ASSUME NEW e \in Events, \A q \in Relays : e \notin Holds(q),
               \E row : outbox' = [outbox EXCEPT ![e] = row]
        PROVE  Same
    <2> SUFFICES ASSUME NEW q \in Relays, NEW f \in Holds(q)' PROVE outbox'[f] = outbox[f]
      OBVIOUS
    <2>1. f \in Events /\ f # e
      BY <1>5, <1>8, HeldEvents
    <2> QED
      BY <1>8, <2>1 DEF TypeOK
  <1>9. ASSUME NEW e \in Events, Publish(e) PROVE Same
    <2>1. \A q \in Relays : e \notin Holds(q)
      BY <1>9 DEF Publish, ClaimsExist
    <2> QED
      BY <1>8, <1>9, <2>1 DEF Publish
  <1>10. ASSUME NEW e \in Events, LeaseExpires(e) PROVE Same
    <2>1. \A q \in Relays : e \notin Holds(q)
      BY <1>10 DEF LeaseExpires
    <2>2. outbox' = [outbox EXCEPT ![e] = [outbox[e] EXCEPT !.orphan = TRUE]]
      BY <1>10 DEF LeaseExpires
    <2> QED
      BY <1>8, <2>1, <2>2
  <1>11. ASSUME NEW e \in Events, ReplayOutboxDLQ(e) PROVE Same
    <2>1. \A q \in Relays : e \notin Holds(q)
      BY <1>3, <1>11 DEF ReplayOutboxDLQ, LeaseKept, Exact
    <2> QED
      BY <1>8, <1>11, <2>1 DEF ReplayOutboxDLQ
  <1>12. ASSUME NEW r \in Relays, ClaimError(r) PROVE Same
    <2>1. CASE UNCHANGED outbox
      BY <1>7, <2>1
    <2>2. ASSUME NEW limit \in 1 .. BatchSize, ClaimRows(Batch(limit)) PROVE Same
      BY <1>3, <1>5, <2>2, BatchIsFree
    <2> QED
      BY <1>12, <2>1, <2>2 DEF ClaimError
  <1> HIDE DEF Same
  <1>13. ASSUME NEW r \in Relays, Sends(r) PROVE Same
    BY <1>7, <1>13
    DEF Sends, AbortBatch, RefundTransaction, PublishNotice, GatewayMissing, SaveCompensation
  <1>14. ASSUME NEW r \in Relays, Claims(r) PROVE Same
    BY <1>7, <1>12, <1>14 DEF Claims, NothingToClaim, Return, NewProcess
  <1>15. ASSUME NEW r \in Relays, FinaliseError(r) \/ Crash(r) PROVE Same
    BY <1>7, <1>15 DEF FinaliseError, Crash, NewProcess
  <1>16. ASSUME NEW r \in Relays, PhaseC(r) PROVE LeaseKept'
    BY <1>1, <1>3, <1>6, <1>15, <1>16, FinaliseLease DEF PhaseC
  <1>17. ASSUME NEW r \in Relays, NEW how \in {"quit", "cancelled"}, Shutdown(r, how) PROVE Same
    BY <1>7, <1>17 DEF Shutdown
  <1>18. ASSUME NEW e \in Events, Ages(e) PROVE Same
    BY <1>7, <1>18 DEF Ages
  <1>19. CASE UNCHANGED vars
    BY <1>6, <1>7, <1>19 DEF vars
  <1> QED
    BY <1>6, <1>9, <1>10, <1>11, <1>12, <1>13, <1>14, <1>15, <1>16, <1>17, <1>18, <1>19 DEF Next

LEMMA InitLeaseInv == Init => LeaseInv
  <1> SUFFICES ASSUME Init PROVE LeaseInv
    OBVIOUS
  <1>1. \A r \in Relays : Holds(r) = {} /\ held[r] = {} /\ outcome[r] = None
    BY DEF Init, Holds
  <1> QED
    BY <1>1 DEF LeaseInv, HeldOnce, LeaseKept, Exact, Exclusive

LEMMA SpecLeaseInv == Spec => []LeaseInv
  <1>1. Inv /\ LeaseInv /\ [Next]_vars => LeaseInv'
    BY NextLeaseInv DEF Inv
  <1> QED
    BY <1>1, InitLeaseInv, SpecInv, PTL DEF Spec

-----------------------------------------------------------------------------
(* The refinement.                                                          *)

LEMMA PhaseOfRows ==
    /\ Phase(None) = "absent"
    /\ \A row \in EventRow : /\ Phase(row) \in {"waiting", "done", "dead"}
                             /\ Phase(Claimed(row)) = "waiting"
                             /\ Phase(Completed(row)) = "done"
                             /\ Phase(Failed(row)) = "waiting"
                             /\ Phase(Dead(row)) = "dead"
                             /\ row.status \in {"PENDING", "PROCESSING"} => Phase(row) = "waiting"
                             /\ row.status = "DLQ" => Phase(row) = "dead"
    /\ Phase(Fresh) = "waiting"
  <1>1. Phase(None) = "absent"
    BY DEF Phase
  <1>2. ASSUME NEW row \in EventRow
        PROVE  /\ Phase(row) \in {"waiting", "done", "dead"}
               /\ row.status \in {"PENDING", "PROCESSING"} => Phase(row) = "waiting"
               /\ row.status = "DLQ" => Phase(row) = "dead"
               /\ row.status = "COMPLETED" => Phase(row) = "done"
    BY NoneOK DEF Phase, EventRow, RowStatus
  <1>3. Fresh.status = "PENDING"
    BY DEF Fresh
  <1> QED
    BY <1>1, <1>2, <1>3, RowUpdates, RowPhases

\* An UPDATE of one row moves one event.
LEMMA OneEventMoves ==
    ASSUME TypeOK, NEW e \in Events, NEW row \in EventRow, NEW next, Phase(row) = next,
           outbox' = [outbox EXCEPT ![e] = row],
           \A f \in Events : Handled(f)' <=> Handled(f), UNCHANGED overrun
    PROVE  Queue!MoveTo(e, next)
  <1> DEFINE before == [f \in Events |-> Phase(outbox[f])]
             after == [f \in Events |-> Phase(outbox'[f])]
  <1>1. outbox'[e] = row /\ \A f \in Events : f # e => outbox'[f] = outbox[f]
    BY DEF TypeOK
  <1>2. /\ before = [f \in Events |-> before[f]] /\ after = [f \in Events |-> after[f]]
        /\ DOMAIN before = Events /\ DOMAIN after = Events
    OBVIOUS
  <1>3. after[e] = next
    BY <1>1
  <1>4. ASSUME NEW f \in Events, f # e PROVE after[f] = before[f]
    BY <1>1, <1>4
  <1> HIDE DEF before, after
  <1>5. after = [before EXCEPT ![e] = next]
    BY <1>2, <1>3, <1>4
  <1>6. {f \in Events : Handled(f)'} = {f \in Events : Handled(f)}
    OBVIOUS
  <1> QED
    BY <1>5, <1>6 DEF Queue!MoveTo, before, after

\* Steps that only touch what no event's handling depends on.
LEMMA SameHandled ==
    ASSUME UNCHANGED <<kind, refunds, published, compensation>>
    PROVE  \A f \in Events : Handled(f)' <=> Handled(f)
  BY DEF Handled

\* Whatever a relay holds, it may work on.
LEMMA HeldIsAtWork ==
    ASSUME TypeOK, ClaimsExist, LeaseInv, NEW r \in Relays, NEW e \in Holds(r)
    PROVE  e \in Events /\ outbox[e] \in EventRow /\ Queue!AtWork(e)
  <1>1. e \in Events /\ outbox[e] \in EventRow
    BY HeldEvents DEF ClaimsExist, TypeOK
  <1>2. CASE overrun
    BY <1>1, <1>2, PhaseOfRows DEF Queue!AtWork
  <1>3. CASE ~overrun
    <2>1. outbox[e].status = "PROCESSING"
      BY <1>3 DEF LeaseInv, LeaseKept, Exact
    <2>2. Phase(outbox[e]) = "waiting"
      BY <1>1, <2>1, PhaseOfRows
    <2> QED
      BY <1>1, <2>2 DEF Queue!AtWork
  <1> QED
    BY <1>1, <1>2, <1>3

\* A step that moves no event and handles none.
LEMMA NothingMoves ==
    ASSUME \A e \in Events : Phase(outbox'[e]) = Phase(outbox[e]),
           \A e \in Events : Handled(e)' <=> Handled(e), UNCHANGED overrun
    PROVE  UNCHANGED Queue!vars
  BY DEF Queue!vars

\* A step about one event a relay holds applies its work or nothing.
LEMMA OneEventHandled ==
    ASSUME TypeOK, ClaimsExist, LeaseInv, NEW r \in Relays, NEW e \in Holds(r),
           UNCHANGED <<outbox, overrun>>,
           \A f \in Events : Handled(f) => Handled(f)',
           \A f \in Events : f # e => (Handled(f)' <=> Handled(f))
    PROVE  Queue!Next \/ UNCHANGED Queue!vars
  <1>1. e \in Events /\ Queue!AtWork(e)
    BY HeldIsAtWork
  <1>2. CASE Handled(e)' <=> Handled(e)
    BY <1>2, NothingMoves
  <1>3. CASE Handled(e)'
    <2>1. {f \in Events : Handled(f)'} = {f \in Events : Handled(f)} \cup {e}
      BY <1>1, <1>3
    <2>2. Queue!Apply(e)
      BY <1>1, <2>1 DEF Queue!Apply
    <2> QED
      BY <1>1, <2>2 DEF Queue!Next
  <1> QED
    BY <1>1, <1>2, <1>3

\* Phase C is the end of the work on an event, one way or another.
LEMMA FinaliseMoves ==
    ASSUME Inv, LeaseInv, NEW r \in Relays,
           MarkOutboxCompleted(r) \/ MarkOutboxFailed(r) \/ MoveOutboxToDLQ(r)
    PROVE  Queue!Next
  <1> DEFINE id == outcome[r].claim.id
             row == outbox[id]
  <1>1. TypeOK /\ ClaimsExist
    BY DEF Inv
  <1>2. /\ outcome[r] # None /\ id \in Events /\ row \in EventRow
        /\ \/ Finalise(r, "complete", Completed(row))
           \/ Finalise(r, "retry", Failed(row))
           \/ Finalise(r, "bury", Dead(row))
    BY <1>1, FinalisedRow
  <1>3. Queue!AtWork(id)
    <2>1. id \in Holds(r)
      BY <1>2 DEF Holds
    <2> QED
      BY <1>1, <2>1, HeldIsAtWork
  <1>4. UNCHANGED overrun /\ \A f \in Events : Handled(f)' <=> Handled(f)
    BY <1>2, SameHandled DEF Finalise, histories, gateway
  <1>5. /\ Completed(row) \in EventRow /\ Phase(Completed(row)) = "done"
        /\ Failed(row) \in EventRow /\ Phase(Failed(row)) = "waiting"
        /\ Dead(row) \in EventRow /\ Phase(Dead(row)) = "dead"
    BY <1>2, RowUpdates, PhaseOfRows
  <1>6. CASE Finalise(r, "complete", Completed(row))
    <2>1. outcome[r].result = "ok"
      BY <1>6 DEF Finalise, Verdict
    <2>2. Handled(id)
      BY <1>2, <2>1 DEF Inv, Money, OutcomesTrue, Remembered
    <2>3. outbox' = [outbox EXCEPT ![id] = Completed(row)]
      BY <1>6 DEF Finalise
    <2>4. Queue!MoveTo(id, "done")
      BY <1>1, <1>2, <1>4, <1>5, <2>3, OneEventMoves
    <2> QED
      BY <1>2, <1>3, <2>2, <2>4 DEF Queue!Next, Queue!Finish
  <1>7. CASE Finalise(r, "retry", Failed(row))
    <2>1. outbox' = [outbox EXCEPT ![id] = Failed(row)]
      BY <1>7 DEF Finalise
    <2>2. Queue!MoveTo(id, "waiting")
      BY <1>1, <1>2, <1>4, <1>5, <2>1, OneEventMoves
    <2> QED
      BY <1>2, <1>3, <2>2 DEF Queue!Next, Queue!Retry
  <1>8. CASE Finalise(r, "bury", Dead(row))
    <2>1. outbox' = [outbox EXCEPT ![id] = Dead(row)]
      BY <1>8 DEF Finalise
    <2>2. Queue!MoveTo(id, "dead")
      BY <1>1, <1>2, <1>4, <1>5, <2>1, OneEventMoves
    <2> QED
      BY <1>2, <1>3, <2>2 DEF Queue!Next, Queue!Bury
  <1> QED
    BY <1>2, <1>6, <1>7, <1>8

\* A claim moves nothing: its rows are still waiting.
LEMMA ClaimMoves ==
    ASSUME TypeOK, NEW limit \in 1 .. BatchSize, ClaimRows(Batch(limit)),
           UNCHANGED <<kind, refunds, published, compensation, overrun>>
    PROVE  UNCHANGED Queue!vars
  <1> SUFFICES ASSUME NEW e \in Events PROVE Phase(outbox'[e]) = Phase(outbox[e])
    BY SameHandled, NothingMoves
  <1>1. CASE e \in Batch(limit)
    <2>1. /\ outbox[e] \in EventRow /\ outbox'[e] = Claimed(outbox[e])
          /\ outbox[e].status \in {"PENDING", "PROCESSING"}
      BY <1>1, ClaimedRows DEF Claimable
    <2> QED
      BY <2>1, PhaseOfRows
  <1>2. CASE e \notin Batch(limit)
    BY <1>2, ClaimedRows
  <1> QED
    BY <1>1, <1>2

\* Sending an event, or compensating its rejection, applies the work of that event.
LEMMA SendsMove ==
    ASSUME Inv, LeaseInv, NEW r \in Relays, Sends(r), [Next]_vars
    PROVE  Queue!Next \/ UNCHANGED Queue!vars
  <1> USE DEF gateway, stops, histories
  <1>1. TypeOK /\ ClaimsExist /\ Money /\ UNCHANGED <<outbox, overrun>>
    BY DEF Inv, Sends, AbortBatch, RefundTransaction, PublishNotice, GatewayMissing,
           SaveCompensation
  <1>2. \A e \in Events : Handled(e) => Handled(e)'
    BY <1>1, NextMoney
  <1> DEFINE Only(e) == \A f \in Events : f # e => (Handled(f)' <=> Handled(f))
             Goal == Queue!Next \/ UNCHANGED Queue!vars
  <1>3. ASSUME NEW e \in Holds(r), Only(e) PROVE Goal
    BY <1>1, <1>2, <1>3, OneEventHandled
  <1>4. CASE AbortBatch(r)
    BY <1>1, <1>4, SameHandled, NothingMoves DEF AbortBatch
  <1>5. CASE SaveCompensation(r)
    <2> DEFINE e == outcome[r].claim.id
    <2>1. e \in Holds(r) /\ e \in Events
      BY <1>1, <1>5, HeldEvents DEF SaveCompensation, Holds
    <2>2. /\ UNCHANGED <<kind, refunds, published>>
          /\ UNCHANGED compensation \/ (compensation = None /\ compensation' = e)
      BY <1>5 DEF SaveCompensation, InboxTakes
    <2>3. Only(e)
      BY <2>2, NoneOK DEF Handled
    <2> QED
      BY <1>3, <2>1, <2>3
  <1>6. ASSUME NEW c \in held[r], RefundTransaction(r, c) PROVE Goal
    <2>1. c \in Claim /\ c.id \in Holds(r)
      BY <1>1, <1>6, SentClaims DEF RefundTransaction
    <2>2. \A f \in Events : f # c.id => refunds'[f] = refunds[f]
      <3>1. CASE UNCHANGED gateway
        BY <3>1
      <3>2. ASSUME NEW verdict \in {"ok", "rejected"}, GatewayDecides(c, verdict)
            PROVE  \A f \in Events : f # c.id => refunds'[f] = refunds[f]
        BY <1>1, <2>1, <3>2, GatewayRemembers DEF Money
      <3> QED
        BY <1>6, <3>1, <3>2 DEF RefundTransaction
    <2>3. Only(c.id)
      BY <1>6, <2>2 DEF RefundTransaction, Handled
    <2> QED
      BY <1>3, <2>1, <2>3
  <1>7. ASSUME NEW c \in held[r], PublishNotice(r, c) PROVE Goal
    <2>1. c.id \in Holds(r)
      BY DEF Holds
    <2>2. Only(c.id)
      BY <1>7 DEF PublishNotice, Handled
    <2> QED
      BY <1>3, <2>1, <2>2
  <1>8. ASSUME NEW c \in held[r], GatewayMissing(r, c) PROVE Goal
    BY <1>1, <1>8, SameHandled, NothingMoves DEF GatewayMissing
  <1> QED
    BY <1>4, <1>5, <1>6, <1>7, <1>8 DEF Sends

\* Every step of the relays is a step of the queue or leaves it alone.
LEMMA StepImplements == Inv /\ LeaseInv /\ [Next]_vars => [Queue!Next]_Queue!vars
  <1> SUFFICES ASSUME Inv, LeaseInv, [Next]_vars PROVE Queue!Next \/ UNCHANGED Queue!vars
    OBVIOUS
  <1> DEFINE Goal == Queue!Next \/ UNCHANGED Queue!vars
             Still == UNCHANGED <<outbox, kind, refunds, published, compensation, overrun>>
  <1> USE DEF gateway, stops, relays, histories
  <1>1. TypeOK /\ ClaimsExist
    BY DEF Inv
  <1>2. ASSUME Still PROVE Goal
    BY <1>2, SameHandled, NothingMoves
  <1>3. ASSUME NEW e \in Events, Publish(e) PROVE Goal
    <2>1. outbox' = [outbox EXCEPT ![e] = Fresh] /\ UNCHANGED overrun
      BY <1>3 DEF Publish
    <2>2. \A f \in Events : Handled(f)' <=> Handled(f)
      BY <1>3, SameHandled DEF Publish
    <2>3. Queue!MoveTo(e, "waiting")
      BY <1>1, <2>1, <2>2, RowUpdates, PhaseOfRows, OneEventMoves
    <2> QED
      BY <1>3, <2>3, PhaseOfRows DEF Publish, Queue!Next, Queue!Arrive
  <1>4. ASSUME NEW e \in Events, ReplayOutboxDLQ(e) PROVE Goal
    <2>1. outbox' = [outbox EXCEPT ![e] = Fresh] /\ UNCHANGED overrun
      BY <1>4 DEF ReplayOutboxDLQ, Replayed
    <2>2. \A f \in Events : Handled(f)' <=> Handled(f)
      BY <1>4, SameHandled DEF ReplayOutboxDLQ
    <2>3. Queue!MoveTo(e, "waiting")
      BY <1>1, <2>1, <2>2, RowUpdates, PhaseOfRows, OneEventMoves
    <2>4. Phase(outbox[e]) = "dead"
      BY <1>1, <1>4, PhaseOfRows DEF ReplayOutboxDLQ, Arrived, TypeOK
    <2> QED
      BY <2>3, <2>4 DEF Queue!Next, Queue!Replay
  <1>5. ASSUME NEW e \in Events, LeaseExpires(e) PROVE Goal
    <2> DEFINE row == [outbox[e] EXCEPT !.orphan = TRUE]
    <2>1. outbox[e] \in EventRow /\ outbox[e].status = "PROCESSING"
      BY <1>1, <1>5 DEF LeaseExpires, Arrived, TypeOK
    <2>2. row \in EventRow /\ row.status = "PROCESSING"
      BY <2>1 DEF EventRow
    <2>3. outbox' = [outbox EXCEPT ![e] = row] /\ (overrun' = overrun \/ overrun' = TRUE)
      BY <1>1, <1>5 DEF LeaseExpires, TypeOK
    <2> HIDE DEF row
    <2>4. Phase(row) = Phase(outbox[e])
      BY <2>1, <2>2, PhaseOfRows
    <2>5. \A f \in Events : Phase(outbox'[f]) = Phase(outbox[f])
      BY <1>1, <2>3, <2>4 DEF TypeOK
    <2>6. \A f \in Events : Handled(f)' <=> Handled(f)
      BY <1>5, SameHandled DEF LeaseExpires
    <2>7. CASE overrun' = overrun
      BY <2>5, <2>6, <2>7, NothingMoves
    <2>8. CASE overrun' = TRUE
      BY <2>5, <2>6, <2>8 DEF Queue!Next, Queue!Overrun
    <2> QED
      BY <2>3, <2>7, <2>8
  <1>6. ASSUME NEW r \in Relays, ClaimOutboxEvents(r) PROVE Goal
    BY <1>1, <1>6, ClaimMoves DEF ClaimOutboxEvents
  <1>7. ASSUME NEW r \in Relays, ClaimError(r) PROVE Goal
    BY <1>1, <1>2, <1>7, ClaimMoves DEF ClaimError
  <1>8. ASSUME NEW r \in Relays, NewProcess(r) PROVE Goal
    BY <1>2, <1>8 DEF NewProcess
  <1>9. ASSUME NEW r \in Relays, Claims(r) PROVE Goal
    BY <1>2, <1>6, <1>7, <1>8, <1>9 DEF Claims, NothingToClaim, Return
  <1>10. ASSUME NEW r \in Relays, Sends(r) PROVE Goal
    BY <1>10, SendsMove
  <1>11. ASSUME NEW r \in Relays, FinaliseError(r) PROVE Goal
    BY <1>2, <1>11 DEF FinaliseError
  <1>12. ASSUME NEW r \in Relays, PhaseC(r) PROVE Goal
    BY <1>11, <1>12, FinaliseMoves DEF PhaseC
  <1>13. ASSUME NEW r \in Relays, Crash(r) PROVE Goal
    BY <1>8, <1>13 DEF Crash
  <1>14. ASSUME NEW r \in Relays, NEW how \in {"quit", "cancelled"}, Shutdown(r, how) PROVE Goal
    BY <1>2, <1>14 DEF Shutdown
  <1>15. ASSUME NEW e \in Events, Ages(e) PROVE Goal
    BY <1>2, <1>15 DEF Ages
  <1>16. CASE UNCHANGED vars
    BY <1>2, <1>16 DEF vars
  <1> QED
    BY <1>3, <1>4, <1>5, <1>7, <1>9, <1>10, <1>11, <1>12, <1>13, <1>14, <1>15, <1>16 DEF Next

\* The outbox is the work queue of EventQueue for any number of relays and events.
THEOREM QueueRefinement == Spec => ImplementsQueue
  <1>1. Init => Queue!Init
    <2> SUFFICES ASSUME Init PROVE Queue!Init
      OBVIOUS
    <2>1. \A e \in Events : ~Handled(e)
      BY NoneOK DEF Init, Handled
    <2>2. [e \in Events |-> Phase(outbox[e])] = [e \in Events |-> "absent"]
      BY DEF Init, Phase
    <2> QED
      BY <2>1, <2>2 DEF Init, Queue!Init
  <1> QED
    BY <1>1, SpecInv, SpecLeaseInv, StepImplements, PTL DEF Spec, ImplementsQueue, Queue!Spec

=============================================================================
