---------------------------- MODULE InboxConsumer ----------------------------
(***************************************************************************)
(* internal/core/worker/inbox_consumer.go: workers that claim batches of    *)
(* inbox rows, hand each event to the payment service outside any database  *)
(* transaction, and finalise its row afterwards, by id.                     *)
(*                                                                         *)
(* The service call is one atomic step on the payment's status: that is     *)
(* what PaymentServiceProofs shows of it for payments whose row exists.     *)
(* What the service is asked for is in the notice or, at Mercado Pago, read *)
(* from the gateway's API anew at each attempt.                            *)
(* Several workers run (one per replica); any of them may die between any   *)
(* two steps, and its rows come back when their five-minute lease is over.  *)
(***************************************************************************)
EXTENDS EventTable, ClaimOrder, TransactionFSM

CONSTANTS
    Workers,
    Events,         \* inbox ids, numbered in order of created_at
    Txs,            \* payments, each with a row
    Payloads,       \* what an event may carry: [kind, tx, target] records
    BatchSize,      \* the claim's LIMIT (10 in the code)
    MaxFaults,      \* bound on crashes, database errors and operator replays
    None

ASSUME InboxConstants ==
    /\ Events \subseteq Nat
    /\ Payloads \subseteq [kind : {"good", "live", "malformed", "nil"}, tx : Txs, target : Status]
    /\ BatchSize \in Nat \ {0}
    /\ MaxFaults \in Nat

VARIABLES
    inbox,          \* the rows; None before the webhook handler inserts it
    payload,        \* what each event carries
    transactions,   \* status of each payment
    held,           \* claims each worker still has to process: {[id, retries]}
    outcome,        \* the claim it has just processed and whether that worked
    faults,         \* crashes, errors and replays so far
    overrun,        \* history: some live worker has outlived the lease of a row it holds
    attempts,       \* history: claims of the event since it was inserted or replayed
    accepted,       \* history: events the service has accepted
    effects         \* history: how often an event changed its payment, up to 3

vars == <<inbox, payload, transactions, held, outcome, faults, overrun,
          attempts, accepted, effects>>
histories == <<overrun, attempts, accepted, effects>>
workers == <<held, outcome>>

Claim == [id : Events, retries : Retries]
Outcome == [claim : Claim, ok : BOOLEAN]

ASSUME NoneOK == None \notin EventRow /\ None \notin Outcome

-----------------------------------------------------------------------------

Arrived == {e \in Events : inbox[e] # None}
Idle(w) == held[w] = {} /\ outcome[w] = None

\* Ids a worker has claimed and not finalised.
Holds(w) ==
    {c.id : c \in held[w]} \cup (IF outcome[w] = None THEN {} ELSE {outcome[w].claim.id})

Fault == faults < MaxFaults /\ faults' = faults + 1

-----------------------------------------------------------------------------

\* External: the webhook handler inserts a row (SaveInboxEvent).
Ingest(e) ==
    /\ inbox[e] = None
    /\ \A f \in Events : f < e => inbox[f] # None
    /\ inbox' = [inbox EXCEPT ![e] = Fresh]
    /\ UNCHANGED <<payload, transactions, workers, faults, histories>>

\* ClaimInboxEvents: one UPDATE ... RETURNING, committed at once.
ClaimInboxEvents(w) ==
    LET batch == Oldest({e \in Arrived : Claimable(inbox[e])}, BatchSize) IN
    /\ Idle(w)
    /\ batch # {}
    /\ inbox' = [e \in Events |-> IF e \in batch THEN Claimed(inbox[e]) ELSE inbox[e]]
    /\ held' = [held EXCEPT ![w] =
                   {[id |-> e, retries |-> inbox'[e].retries] : e \in batch}]
    /\ attempts' = [e \in Events |->
                       IF e \in batch /\ attempts[e] <= MaxRetries
                       THEN attempts[e] + 1 ELSE attempts[e]]
    /\ UNCHANGED <<payload, transactions, outcome, faults, overrun, accepted, effects>>

\* The worker has processed a claim of its batch, the rows come in any order.
Processed(w, c, ok) ==
    /\ outcome[w] = None
    /\ c \in held[w]
    /\ held' = [held EXCEPT ![w] = @ \ {c}]
    /\ outcome' = [outcome EXCEPT ![w] = [claim |-> c, ok |-> ok]]

\* Fault: the policies are not consulted.
Legal_Unchecked(p, s) == TRUE

Legal(p, s) == Evaluate(transactions[p.tx], s)

\* What MapMercadoPagoStatus makes of the statuses of a payment there.
LiveStatus == {Pending, "PAID", "FAILED", "REFUNDED", "CANCELED"}

\* TranslatePayload: the status in the notice, or the one the payment has by now.
Reads(p) ==
    CASE p.kind = "good" -> {p.target}
      [] p.kind = "live" -> LiveStatus
      [] OTHER           -> {}

\* The service accepts the transition; the payment moves unless it is there.
Transition(e, p) ==
    \E s \in Reads(p) :
        /\ Legal(p, s)
        /\ transactions' = [transactions EXCEPT ![p.tx] = s]
        /\ accepted' = accepted \cup {e}
        /\ effects' = [effects EXCEPT ![e] =
                         IF transactions[p.tx] # s /\ @ < 3 THEN @ + 1 ELSE @]

Accept(w, c) ==
    /\ Processed(w, c, TRUE)
    /\ Transition(c.id, payload[c.id])
    /\ UNCHANGED <<inbox, payload, faults, overrun, attempts>>

\* Translation fails, its request to the gateway included, or the state machine
\* refuses: no change.
Refuse(w, c) ==
    LET p == payload[c.id] IN
    /\ p.kind = "malformed" \/ \E s \in Reads(p) : ~Legal(p, s)
    /\ Processed(w, c, FALSE)
    /\ UNCHANGED <<inbox, payload, transactions, faults, histories>>

\* A database error: the transaction rolled back, or it committed and only the
\* answer to COMMIT was lost.
ServiceError(w, c) ==
    /\ Fault
    /\ payload[c.id].kind # "nil"
    /\ Processed(w, c, FALSE)
    /\ \/ UNCHANGED <<transactions, accepted, effects>>
       \/ Transition(c.id, payload[c.id])
    /\ UNCHANGED <<inbox, payload, overrun, attempts>>

\* An adapter that returns no transaction and no error: tx.ID is dereferenced
\* in the log line that follows and the panic takes the process with it.
Panic(w, c) ==
    /\ outcome[w] = None
    /\ c \in held[w]
    /\ payload[c.id].kind = "nil"
    /\ held' = [held EXCEPT ![w] = {}]
    /\ UNCHANGED <<inbox, payload, transactions, outcome, faults, histories>>

-----------------------------------------------------------------------------

\* Fault: failures are finished as successes.
Verdict_NeverFails(o) == "complete"

\* Phase C, decided on the retry count read at the claim.
Verdict(o) ==
    CASE o.ok -> "complete"
      [] ~o.ok /\ o.claim.retries >= MaxRetries -> "bury"
      [] OTHER -> "retry"

Finalise(w, verdict, newRow) ==
    /\ outcome[w] # None
    /\ Verdict(outcome[w]) = verdict
    /\ inbox' = [inbox EXCEPT ![outcome[w].claim.id] = newRow]
    /\ outcome' = [outcome EXCEPT ![w] = None]
    /\ UNCHANGED <<payload, transactions, held, faults, histories>>

MarkInboxCompleted(w) == Finalise(w, "complete", Completed(inbox[outcome[w].claim.id]))
MarkInboxFailed(w) == Finalise(w, "retry", Failed(inbox[outcome[w].claim.id]))
MoveInboxToDLQ(w) == Finalise(w, "bury", Dead(inbox[outcome[w].claim.id]))

\* The finalising UPDATE fails: it is logged and the batch goes on.
FinaliseError(w) ==
    /\ Fault
    /\ outcome[w] # None
    /\ outcome' = [outcome EXCEPT ![w] = None]
    /\ UNCHANGED <<inbox, payload, transactions, held, histories>>

Crash(w) ==
    /\ Fault
    /\ ~Idle(w)
    /\ held' = [held EXCEPT ![w] = {}]
    /\ outcome' = [outcome EXCEPT ![w] = None]
    /\ UNCHANGED <<inbox, payload, transactions, histories>>

\* Five minutes pass over a row in processing, whether its worker still lives or not.
LeaseExpires(e) ==
    /\ e \in Arrived
    /\ inbox[e].status = "PROCESSING"
    /\ ~inbox[e].orphan
    /\ inbox' = [inbox EXCEPT ![e].orphan = TRUE]
    /\ overrun' = (overrun \/ \E w \in Workers : e \in Holds(w))
    /\ UNCHANGED <<payload, transactions, workers, faults, attempts, accepted, effects>>

\* Engine.ReplayInboxDLQ, from the CLI.
ReplayInboxDLQ(e) ==
    /\ Fault
    /\ e \in Arrived
    /\ inbox[e].status = "DLQ"
    /\ inbox' = [inbox EXCEPT ![e] = Replayed(inbox[e])]
    /\ attempts' = [attempts EXCEPT ![e] = 0]
    /\ UNCHANGED <<payload, transactions, workers, overrun, accepted, effects>>

\* The host asks the service for a refund.
HostRefund(t) ==
    /\ transactions[t] \in Settled
    /\ transactions' = [transactions EXCEPT ![t] = "REFUND_PROCESSING"]
    /\ UNCHANGED <<inbox, payload, workers, faults, histories>>

Init ==
    /\ inbox = [e \in Events |-> None]
    /\ payload \in [Events -> Payloads]
    /\ transactions = [t \in Txs |-> Pending]
    /\ held = [w \in Workers |-> {}]
    /\ outcome = [w \in Workers |-> None]
    /\ faults = 0
    /\ overrun = FALSE
    /\ attempts = [e \in Events |-> 0]
    /\ accepted = {}
    /\ effects = [e \in Events |-> 0]

Process(w) == \E c \in held[w] : Accept(w, c) \/ Refuse(w, c) \/ Panic(w, c)
PhaseC(w) == MarkInboxCompleted(w) \/ MarkInboxFailed(w) \/ MoveInboxToDLQ(w)

Next ==
    \/ \E e \in Events : Ingest(e) \/ LeaseExpires(e) \/ ReplayInboxDLQ(e)
    \/ \E w \in Workers :
          \/ ClaimInboxEvents(w) \/ Process(w) \/ PhaseC(w)
          \/ \E c \in held[w] : ServiceError(w, c)
          \/ FinaliseError(w) \/ Crash(w)
    \/ \E t \in Txs : HostRefund(t)

Spec == Init /\ [][Next]_vars

\* The workers' loops run, and time passes.  Nothing makes an event arrive, a
\* host ask for a refund or an operator replay.
Fairness ==
    /\ \A w \in Workers : WF_vars(ClaimInboxEvents(w)) /\ WF_vars(Process(w)) /\ WF_vars(PhaseC(w))
    /\ \A e \in Events : WF_vars(LeaseExpires(e))

FairSpec == Spec /\ Fairness

-----------------------------------------------------------------------------
(***************************************************************************)
(* Properties                                                              *)
(***************************************************************************)

TypeOK ==
    /\ inbox \in [Events -> EventRow \cup {None}]
    /\ payload \in [Events -> Payloads]
    /\ transactions \in [Txs -> Status]
    /\ held \in [Workers -> SUBSET Claim]
    /\ outcome \in [Workers -> Outcome \cup {None}]
    /\ faults \in 0 .. MaxFaults
    /\ overrun \in BOOLEAN
    /\ attempts \in [Events -> 0 .. MaxRetries + 1]
    /\ accepted \subseteq Events
    /\ effects \in [Events -> 0 .. 3]

\* The claims a worker is responsible for.
Claims(w) == held[w] \cup (IF outcome[w] = None THEN {} ELSE {outcome[w].claim})

\* While every worker keeps its lease, SKIP LOCKED and the lease hand a row to one
\* worker at a time, and what that worker remembers of it, its retry count above
\* all, is still what the table says when Phase C decides on it
\* (ClaimInboxEvents, consume).
ClaimsAreExclusive ==
    ~overrun =>
        \A w \in Workers : \A c \in Claims(w) :
            /\ inbox[c.id] = [status |-> "PROCESSING", retries |-> c.retries, orphan |-> FALSE]
            /\ \A v \in Workers : \A d \in Claims(v) : d.id = c.id => v = w /\ d = c

\* While every worker keeps its lease, an event reaches the DLQ only after
\* maxRetries retries of its own, whichever mix of failures, crashes and lost
\* updates consumed them.
DeadOnlyWhenExhausted ==
    ~overrun =>
        \A e \in Arrived : inbox[e].status = "DLQ" => attempts[e] = MaxRetries + 1

\* A COMPLETED row means the service has accepted the event, even when workers
\* outlive their lease and finalise rows that others own by now.
CompletedMeansAccepted ==
    \A e \in Arrived : inbox[e].status = "COMPLETED" => e \in accepted

\* However often crashes, rescues, lost answers and replays make the service see an
\* event, it changes its payment at most once; one whose status is read anew at each
\* attempt does so twice at most, as the money comes and goes (TransitionTo's
\* idempotence and a state machine without cycles).  The payments have rows: two first
\* calls can overwrite each other, and an event be applied again for it (PaymentService's
\* SerializedUpdates).
EffectOnce ==
    \A e \in Events : effects[e] <= IF payload[e].kind = "live" THEN 2 ELSE 1

\* The inbox is the work queue of EventQueue: done only after the work was applied
\* and, while every worker keeps its lease, done for ever.
Phase(row) ==
    IF row = None THEN "absent"
    ELSE CASE row.status = "COMPLETED" -> "done"
           [] row.status = "DLQ" -> "dead"
           [] OTHER -> "waiting"

Queue == INSTANCE EventQueue WITH
    phase <- [e \in Events |-> Phase(inbox[e])],
    applied <- accepted,
    late <- overrun

ImplementsQueue == Queue!Spec

IsSettled(e) == inbox[e] # None /\ inbox[e].status \in {"COMPLETED", "DLQ"}
NoPoison == \A e \in Events : payload[e].kind # "nil"

\* Unless some adapter returns nothing for an event, every event that arrives is
\* completed or dead in the end, through any bounded number of crashes, errors and
\* replays (Start's loop, the lease, the limit on retries).  A single such event
\* can keep its whole batch from settling: it kills the worker each time, before
\* or after the others are processed.
EveryEventSettles == \A e \in Events : inbox[e] # None /\ NoPoison ~> IsSettled(e)

\* README.md:130-131: an event that cannot be processed moves to the DLQ after
\* its retries, at least while every worker keeps its lease.
PoisonIsBuried ==
    []~overrun =>
        \A e \in Events :
            inbox[e] # None /\ payload[e].kind = "nil"
                ~> inbox[e] # None /\ inbox[e].status = "DLQ"

=============================================================================
