----------------------------- MODULE OutboxRelay -----------------------------
(***************************************************************************)
(* internal/core/worker/outbox_relay.go: relays that claim batches of       *)
(* outbox rows, send each event on outside any database transaction, and    *)
(* finalise its row afterwards, by id.                                     *)
(*                                                                         *)
(* One relay runs in each process and is the only user of that process's    *)
(* breaker, so a whole Allow or RecordResult is one step here; whether a    *)
(* result trips a closed breaker is left open (CircuitBreaker says when).   *)
(* The gateway is external: a request it decides on gets the same verdict   *)
(* whenever the idempotency key is the same.  Any request may be refused    *)
(* before it comes to that (the API key was changed, a proxy answers), and  *)
(* the adapters take such a refusal for the gateway's verdict.              *)
(*                                                                         *)
(* A process is told to stop by Stop or by cancelling its context; another  *)
(* one takes its place when its loop returns, or when it dies.             *)
(***************************************************************************)
EXTENDS EventTable, ClaimOrder

CONSTANTS
    Relays,
    Events,         \* outbox ids, numbered in order of created_at
    Kinds,          \* which kinds of event the instance has
    BatchSize,      \* the largest claim (10 in the code)
    IdsInUse,       \* refunds whose payment's id is the external id of a row in the inbox
    MaxFaults,      \* bound on crashes, shutdowns, database errors and operator replays
    None

ASSUME OutboxConstants ==
    /\ Events \subseteq Nat
    /\ Kinds \subseteq {"refund", "notice", "unroutable"}
    /\ BatchSize \in Nat \ {0}
    /\ IdsInUse \subseteq Events
    /\ MaxFaults \in Nat

VARIABLES
    outbox,         \* the rows; None before the payment service inserts it
    kind,           \* what each event is
    aged,           \* rows created more than 48 hours ago
    answers,        \* the gateway's verdicts: {<<idempotency key, verdict>>}
    refunds,        \* how often the gateway sent an event's money back, up to 2
    published,      \* notices that went out
    compensation,   \* the event whose compensation is in the inbox, or None
    breaker,        \* state of each process's breaker
    held,           \* claims each relay still has to send: {[id, retries]}
    outcome,        \* the claim it has just sent and the result
    told,           \* whether its process was told to stop, and how
    asking,         \* relays told between batches, before Allow let them try one
    turnedAway,     \* history: events one of whose requests was refused undecided
    overrun,        \* history: some live relay has outlived the lease of a row it holds
    faults          \* crashes, errors and replays so far

vars == <<outbox, kind, aged, answers, refunds, published, compensation, breaker,
          held, outcome, told, asking, turnedAway, overrun, faults>>
gateway == <<answers, refunds>>
stops == <<told, asking>>
relays == <<breaker, held, outcome, stops>>
histories == <<turnedAway, overrun>>

Claim == [id : Events, retries : Retries]
Results == {"ok", "error", "rejected"}
Outcome == [claim : Claim, result : Results]

ASSUME NoneOK == None \notin EventRow /\ None \notin Outcome /\ None \notin Events

-----------------------------------------------------------------------------

Arrived == {e \in Events : outbox[e] # None}

\* Ids a relay has claimed and not finalised.
Holds(r) ==
    {c.id : c \in held[r]} \cup (IF outcome[r] = None THEN {} ELSE {outcome[r].claim.id})

BetweenBatches(r) == held[r] = {} /\ outcome[r] = None

Cancelled(r) == told[r] = "cancelled"

Fault == faults < MaxFaults /\ faults' = faults + 1

\* A call fails for its own reasons, or because its context is cancelled.
Fails(r) == IF Cancelled(r) THEN UNCHANGED faults ELSE Fault

-----------------------------------------------------------------------------

\* External: a committed payment transaction inserts a row (SaveOutboxEvent).
Publish(e) ==
    /\ outbox[e] = None
    /\ \A f \in Events : f < e => outbox[f] # None
    /\ outbox' = [outbox EXCEPT ![e] = Fresh]
    /\ UNCHANGED <<kind, aged, gateway, published, compensation, relays, histories, faults>>

\* Fault: orphans are rescued only while they are young.
Due_OnlyYoung(e) == Claimable(outbox[e]) /\ e \notin aged

\* A pending row is sent in its first 48 hours; an orphan whatever its age.
Due(e) == Claimable(outbox[e]) /\ (outbox[e].status = "PENDING" => e \notin aged)

\* Start: Allow lets the relay try a batch, as it is or, once ResetTimeout is over,
\* to test the provider.  Denied, the relay sleeps and asks again.
Allowed(r) ==
    /\ BetweenBatches(r)
    /\ breaker[r] \in {"CLOSED", "OPEN"}
    /\ told[r] # "no" => r \in asking
    /\ breaker' = [breaker EXCEPT ![r] = IF @ = "OPEN" THEN "HALF_OPEN" ELSE @]
    /\ asking' = asking \ {r}
    /\ UNCHANGED told

\* ClaimOutboxEvents: one UPDATE ... RETURNING, committed at once.  The limit
\* shrinks with the failure probability, never below one.
Batch(limit) == Oldest({e \in Arrived : Due(e)}, limit)

ClaimRows(batch) ==
    /\ batch # {}
    /\ outbox' = [e \in Events |-> IF e \in batch THEN Claimed(outbox[e]) ELSE outbox[e]]

ClaimOutboxEvents(r) ==
    \E limit \in 1 .. BatchSize :
        /\ Allowed(r)
        /\ ~Cancelled(r)
        /\ ClaimRows(Batch(limit))
        /\ held' = [held EXCEPT ![r] =
                       {[id |-> e, retries |-> outbox'[e].retries] : e \in Batch(limit)}]
        /\ UNCHANGED <<kind, aged, gateway, published, compensation, outcome, histories,
                       faults>>

\* The claim finds nothing: back to Allow after a pause, the breaker as Allow left it.
NothingToClaim(r) ==
    /\ Allowed(r)
    /\ ~Cancelled(r)
    /\ \A e \in Arrived : ~Due(e)
    /\ UNCHANGED <<outbox, kind, aged, gateway, published, compensation, held, outcome,
                   histories, faults>>

\* The claim fails, or its answer is lost: then nobody holds the rows.
ClaimError(r) ==
    /\ Fails(r)
    /\ Allowed(r)
    /\ \/ UNCHANGED outbox
       \/ \E limit \in 1 .. BatchSize : ClaimRows(Batch(limit))
    /\ UNCHANGED <<kind, aged, gateway, published, compensation, held, outcome, histories>>

-----------------------------------------------------------------------------
(***************************************************************************)
(* Phase B, one event of the batch                                         *)
(***************************************************************************)

\* GetState lets the batch go on; c is its next event, the rows come in any order.
Sent(r, c, result) ==
    /\ outcome[r] = None
    /\ c \in held[r]
    /\ breaker[r] # "OPEN"
    /\ held' = [held EXCEPT ![r] = @ \ {c}]
    /\ outcome' = [outcome EXCEPT ![r] = [claim |-> c, result |-> result]]

\* The breaker opened: the rest of the batch is dropped, its rows stay as they are.
AbortBatch(r) ==
    /\ outcome[r] = None
    /\ held[r] # {}
    /\ breaker[r] = "OPEN"
    /\ held' = [held EXCEPT ![r] = {}]
    /\ UNCHANGED <<outbox, kind, aged, gateway, published, compensation, breaker,
                   outcome, stops, histories, faults>>

\* RecordResult(err): a test decides, otherwise the failure rate may trip.
RecordResult(r, result) ==
    \E next \in {"CLOSED", "OPEN"} :
        /\ breaker[r] = "HALF_OPEN" => next = IF result = "ok" THEN "CLOSED" ELSE "OPEN"
        /\ breaker' = [breaker EXCEPT ![r] = next]

\* Fault: a key per attempt.
Key_PerAttempt(c) == <<c.id, c.retries>>

\* The idempotency key is the id of the outbox event.
Key(c) == <<c.id>>

\* External: the gateway decides on a request, unless it has decided before.
\* It never sends money back that it has already sent, unless under a new key.
GatewayDecides(c, verdict) ==
    LET known == {a \in answers : a[1] = Key(c)} IN
    /\ known # {} => <<Key(c), verdict>> \in known
    /\ answers' = answers \cup {<<Key(c), verdict>>}
    /\ refunds' = [refunds EXCEPT ![c.id] =
                      IF known = {} /\ verdict = "ok" /\ @ < 2 THEN @ + 1 ELSE @]

\* What the adapters make of a verdict: themselves, or an error when the answer is
\* lost, a server's error, or at Asaas any refusal that lists its reasons.
Answers(verdict) == {verdict, "error"}

\* What they make of a request the gateway did not decide on: an error, or, when it
\* was answered 401, 403 or 404, the same as a verdict.
Undecided == {"error", "rejected"}

\* RefundTransaction, whatever the gateway decided before.  Once the context is
\* cancelled every answer is an error.
RefundTransaction(r, c) ==
    /\ kind[c.id] = "refund"
    /\ \E result \in Results :
          /\ Cancelled(r) => result = "error"
          /\ Sent(r, c, result)
          /\ RecordResult(r, result)
          /\ \/ /\ \E verdict \in {"ok", "rejected"} :
                      result \in Answers(verdict) /\ GatewayDecides(c, verdict)
                /\ UNCHANGED turnedAway
             \/ /\ result \in Undecided
                /\ turnedAway' = IF result = "rejected" THEN turnedAway \cup {c.id}
                                                      ELSE turnedAway
                /\ UNCHANGED gateway
    /\ UNCHANGED <<outbox, kind, aged, published, compensation, stops, overrun, faults>>

\* PAYMENT_CONFIRMED, PAYMENT_FAILED, PAYMENT_ANOMALY and the types it ignores.
PublishNotice(r, c) ==
    /\ kind[c.id] = "notice"
    /\ Sent(r, c, "ok")
    /\ published' = published \cup {c.id}
    /\ UNCHANGED <<outbox, kind, aged, gateway, compensation, breaker, stops, histories,
                   faults>>

\* The registry does not know the provider.
GatewayMissing(r, c) ==
    /\ kind[c.id] = "unroutable"
    /\ Sent(r, c, "error")
    /\ UNCHANGED <<outbox, kind, aged, gateway, published, compensation, breaker,
                   stops, histories, faults>>

\* Fault: a failed insertion absorbs the rejection too.
Absorbed_Always(inboxErr) == "ok"

\* err = nil only in the else branch of SaveInboxEvent.
Absorbed(inboxErr) == IF inboxErr THEN "error" ELSE "ok"

\* Fault: every failure is taken for a rejection.
Terminal_AnyError(result) == result # "ok"

\* errors.Is(err, ErrTerminalGatewayRejection)
Terminal(result) == result = "rejected"

\* A terminal rejection becomes an inbox event.  NewInboxEvent leaves its
\* fingerprint empty and (SYSTEM_INTERNAL, "") is unique: the table takes one.  Its
\* external id is the payment's id and unique as well: the table takes none if that
\* is what the provider calls its notices.
InboxTakes(e) == compensation = None /\ e \notin IdsInUse

\* A database error may come before the insertion or after it.
SaveCompensation(r) ==
    LET e == outcome[r].claim.id
        Insert == InboxTakes(e) /\ compensation' = e
    IN
    /\ outcome[r] # None
    /\ Terminal(outcome[r].result)
    /\ \E inboxErr \in BOOLEAN :
          /\ outcome' = [outcome EXCEPT ![r].result = Absorbed(inboxErr)]
          /\ \/ ~inboxErr /\ ~Cancelled(r) /\ Insert /\ UNCHANGED faults
             \/ inboxErr /\ ~InboxTakes(e) /\ UNCHANGED <<compensation, faults>>
             \/ inboxErr /\ Fails(r) /\ (UNCHANGED compensation \/ Insert)
    /\ UNCHANGED <<outbox, kind, aged, gateway, published, breaker, held, stops, histories>>

-----------------------------------------------------------------------------
(***************************************************************************)
(* Phase C                                                                 *)
(***************************************************************************)

\* Decided on the retry count read at the claim.
Verdict(o) ==
    CASE o.result = "ok" -> "complete"
      [] o.result = "error" /\ o.claim.retries >= MaxRetries -> "bury"
      [] o.result = "error" /\ o.claim.retries < MaxRetries -> "retry"
      [] OTHER -> "compensate"

Finalise(r, verdict, newRow) ==
    /\ outcome[r] # None
    /\ ~Cancelled(r)
    /\ Verdict(outcome[r]) = verdict
    /\ outbox' = [outbox EXCEPT ![outcome[r].claim.id] = newRow]
    /\ outcome' = [outcome EXCEPT ![r] = None]
    /\ UNCHANGED <<kind, aged, gateway, published, compensation, breaker, held, stops,
                   histories, faults>>

MarkOutboxCompleted(r) == Finalise(r, "complete", Completed(outbox[outcome[r].claim.id]))
MarkOutboxFailed(r) == Finalise(r, "retry", Failed(outbox[outcome[r].claim.id]))
MoveOutboxToDLQ(r) == Finalise(r, "bury", Dead(outbox[outcome[r].claim.id]))

\* The finalising UPDATE fails: it is logged and the batch goes on.
FinaliseError(r) ==
    /\ Fails(r)
    /\ outcome[r] # None
    /\ Verdict(outcome[r]) # "compensate"
    /\ outcome' = [outcome EXCEPT ![r] = None]
    /\ UNCHANGED <<outbox, kind, aged, gateway, published, compensation, breaker,
                   held, stops, histories>>

\* Another process takes the place of this one, with a breaker of its own.
NewProcess(r) ==
    /\ breaker' = [breaker EXCEPT ![r] = "CLOSED"]
    /\ held' = [held EXCEPT ![r] = {}]
    /\ outcome' = [outcome EXCEPT ![r] = None]
    /\ told' = [told EXCEPT ![r] = "no"]
    /\ asking' = asking \ {r}
    /\ UNCHANGED <<outbox, kind, aged, gateway, published, compensation, histories>>

Crash(r) ==
    /\ Fault
    /\ NewProcess(r)

\* Stop closes quit, or the host cancels the context, while the relay is in a batch
\* or asks the breaker for one.  In the pause between the two it returns at once,
\* which is a Crash between batches.
Shutdown(r, how) ==
    /\ Fault
    /\ told[r] = "no"
    /\ told' = [told EXCEPT ![r] = how]
    /\ asking' = IF BetweenBatches(r) THEN asking \cup {r} ELSE asking
    /\ UNCHANGED <<outbox, kind, aged, gateway, published, compensation, breaker, held,
                   outcome, histories>>

\* Fault: the loop looks at its context only.
Ready_CancelledOnly(r) == Cancelled(r)

\* What the select after a batch sees.
Ready(r) == told[r] # "no"

\* Start returns from the select after a batch, never while Allow denies one.
Return(r) ==
    /\ Ready(r)
    /\ BetweenBatches(r)
    /\ r \notin asking
    /\ NewProcess(r)
    /\ UNCHANGED faults

\* Five minutes pass over a row in processing, whether its relay still lives or not.
LeaseExpires(e) ==
    /\ e \in Arrived
    /\ outbox[e].status = "PROCESSING"
    /\ ~outbox[e].orphan
    /\ outbox' = [outbox EXCEPT ![e].orphan = TRUE]
    /\ overrun' = (overrun \/ \E r \in Relays : e \in Holds(r))
    /\ UNCHANGED <<kind, aged, gateway, published, compensation, relays, turnedAway, faults>>

\* 48 hours pass since the row was created.
Ages(e) ==
    /\ e \in Arrived \ aged
    /\ \A f \in Events : f < e => f \in aged
    /\ aged' = aged \cup {e}
    /\ UNCHANGED <<outbox, kind, gateway, published, compensation, relays, histories, faults>>

\* Engine.ReplayOutboxDLQ, from the CLI.
ReplayOutboxDLQ(e) ==
    /\ Fault
    /\ e \in Arrived
    /\ outbox[e].status = "DLQ"
    /\ outbox' = [outbox EXCEPT ![e] = Replayed(outbox[e])]
    /\ UNCHANGED <<kind, aged, gateway, published, compensation, relays, histories>>

Init ==
    /\ outbox = [e \in Events |-> None]
    /\ kind \in [Events -> Kinds]
    /\ aged = {}
    /\ answers = {}
    /\ refunds = [e \in Events |-> 0]
    /\ published = {}
    /\ compensation = None
    /\ breaker = [r \in Relays |-> "CLOSED"]
    /\ held = [r \in Relays |-> {}]
    /\ outcome = [r \in Relays |-> None]
    /\ told = [r \in Relays |-> "no"]
    /\ asking = {}
    /\ turnedAway = {}
    /\ overrun = FALSE
    /\ faults = 0

Claims(r) ==
    ClaimOutboxEvents(r) \/ NothingToClaim(r) \/ (Cancelled(r) /\ ClaimError(r)) \/ Return(r)
Sends(r) ==
    \/ AbortBatch(r)
    \/ SaveCompensation(r)
    \/ \E c \in held[r] : RefundTransaction(r, c) \/ PublishNotice(r, c) \/ GatewayMissing(r, c)
PhaseC(r) ==
    \/ MarkOutboxCompleted(r) \/ MarkOutboxFailed(r) \/ MoveOutboxToDLQ(r)
    \/ Cancelled(r) /\ FinaliseError(r)

Next ==
    \/ \E e \in Events : Publish(e) \/ LeaseExpires(e) \/ Ages(e) \/ ReplayOutboxDLQ(e)
    \/ \E r \in Relays :
          Claims(r) \/ Sends(r) \/ PhaseC(r)
          \/ ClaimError(r) \/ FinaliseError(r) \/ Crash(r)
          \/ \E how \in {"quit", "cancelled"} : Shutdown(r, how)

Spec == Init /\ [][Next]_vars

\* The relays' loops run, the gateway answers (with an error if need be), and
\* ResetTimeout and the leases run out.  Nothing makes an event arrive or age,
\* an operator replay or a host shut a process down.
Fairness ==
    /\ \A r \in Relays :
          WF_vars(Claims(r)) /\ WF_vars(Sends(r)) /\ WF_vars(PhaseC(r))
    /\ \A e \in Events : WF_vars(LeaseExpires(e))

FairSpec == Spec /\ Fairness

-----------------------------------------------------------------------------
(***************************************************************************)
(* Properties                                                              *)
(***************************************************************************)

TypeOK ==
    /\ outbox \in [Events -> EventRow \cup {None}]
    /\ kind \in [Events -> Kinds]
    /\ aged \subseteq Events
    /\ answers \subseteq {<<e>> : e \in Events} \X {"ok", "rejected"}
    /\ refunds \in [Events -> 0 .. 2]
    /\ published \subseteq Events
    /\ compensation \in Events \cup {None}
    /\ breaker \in [Relays -> {"CLOSED", "OPEN", "HALF_OPEN"}]
    /\ held \in [Relays -> SUBSET Claim]
    /\ outcome \in [Relays -> Outcome \cup {None}]
    /\ told \in [Relays -> {"no", "quit", "cancelled"}]
    /\ asking \subseteq Relays
    /\ turnedAway \subseteq Events
    /\ overrun \in BOOLEAN
    /\ faults \in 0 .. MaxFaults

\* The event's work was done: its money went back or its rejection is being
\* compensated, or the notice went out.
Handled(e) ==
    \/ kind[e] = "refund" /\ (refunds[e] > 0 \/ compensation = e)
    \/ kind[e] = "notice" /\ e \in published

\* A COMPLETED row means the event was handled, even when relays outlive their
\* lease, answers and insertions are lost and other relays own the row by now
\* (consumeBatch's err and Phase C).
CompletedMeansHandled ==
    \A e \in Arrived : outbox[e].status = "COMPLETED" => Handled(e)

\* Over all retries, rescues and replays an event's money goes back at most once, and
\* together with the compensation that says it could not only if one of its requests
\* was refused undecided: no lost answer, server's error or expired lease does that
\* (RefundTransaction's idempotency key, the compensation branch).
RefundOrCompensation ==
    \A e \in Events :
        /\ refunds[e] <= 1
        /\ refunds[e] = 1 /\ compensation = e => e \in turnedAway

\* The outbox is the work queue of EventQueue: done only after the work was applied
\* and, while every relay keeps its lease, done for ever.
Phase(row) ==
    IF row = None THEN "absent"
    ELSE CASE row.status = "COMPLETED" -> "done"
           [] row.status = "DLQ" -> "dead"
           [] OTHER -> "waiting"

Queue == INSTANCE EventQueue WITH
    phase <- [e \in Events |-> Phase(outbox[e])],
    applied <- {e \in Events : Handled(e)},
    late <- overrun

ImplementsQueue == Queue!Spec

IsSettled(e) == outbox[e] # None /\ outbox[e].status \in {"COMPLETED", "DLQ"}

\* While some process's breaker keeps leaving half-open, every event is completed,
\* dead or too old in the end, through aborted batches and any bounded number of
\* crashes, errors and replays (Start's loop, the lease, the limit on retries).
EventsMoveOn ==
    (\E r \in Relays : []<>(breaker[r] # "HALF_OPEN")) =>
        \A e \in Events :
            outbox[e] # None ~> IsSettled(e) \/ (e \in aged /\ outbox[e].status = "PENDING")

\* A process that is told to stop does stop, batch or no batch, unless its breaker
\* stays half-open: then Allow denies every batch and Start never comes to the
\* select that would end it.
StopsWhenTold ==
    \A r \in Relays :
        []<>(breaker[r] # "HALF_OPEN") => (told[r] # "no" ~> told[r] = "no")

\* documentos/estrutura/core_worker.md:26: a refund the gateway rejects for good
\* puts a compensation event in the inbox.  The database works here.
Rejected(r) == outcome[r] # None /\ outcome[r].result = "rejected"

RejectionsAreCompensated ==
    [][ \A r \in Relays :
          Rejected(r) /\ ~Rejected(r)' /\ faults' = faults
              => compensation' = outcome[r].claim.id ]_vars

\* README.md:126: a half-open breaker tries a test request to decide whether the
\* circuit closes.
HalfOpenIsDecided ==
    \A r \in Relays : breaker[r] = "HALF_OPEN" ~> breaker[r] # "HALF_OPEN"

\* domain/entity/errors.go:5 and adapters/asaas/adapter.go:99: what is taken for a
\* terminal rejection is the gateway's definite refusal, so the compensation is never
\* made of a refund that went through.
RejectionIsDefinite == \A e \in Events : compensation = e => refunds[e] = 0

=============================================================================
