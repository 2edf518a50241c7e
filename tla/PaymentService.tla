--------------------------- MODULE PaymentService ---------------------------
(***************************************************************************)
(* PaymentService.ProcessPaymentWithMetadata run by concurrent callers over *)
(* the transactions and outbox tables of PostgresRepository.                *)
(*                                                                         *)
(* A call is one READ COMMITTED database transaction of four statements:    *)
(* SELECT ... FOR UPDATE of the payment's row, the in-memory transition,    *)
(* the upsert of the row and the INSERT of the notice, then COMMIT.  Each    *)
(* statement is an action, so calls interleave between any two of them.     *)
(* The subtle part is FOR UPDATE: it locks a row, so while the row does not *)
(* exist it locks nothing.                                                  *)
(***************************************************************************)
EXTENDS TransactionFSM, Naturals, Sequences, FiniteSets

CONSTANTS
    Workers,        \* concurrent callers: inbox consumers and host code
    Txs,            \* payments
    Preloaded,      \* payments whose PENDING row exists before any call
    HostCreated,    \* payments the host saves itself after creating them at
                    \* the gateway (examples/basic_server)
    Targets,        \* statuses callers ask for
    ABSENT,         \* no row / GetTransactionByID returned nil
    None            \* nobody holds the row lock

ASSUME ConstantsOK ==
    /\ Preloaded \subseteq Txs
    /\ HostCreated \subseteq Txs \ Preloaded
    /\ Targets \subseteq Status
    /\ ABSENT \notin Status
    /\ None \notin Workers

VARIABLES
    transactions,   \* committed rows: [Txs -> Status \cup {ABSENT}]
    outbox,         \* committed notices of each payment, oldest first
    rowLock,        \* who holds the payment's row lock
    pc,             \* the statement each caller executes next
    job,            \* the request: payment and target status
    found,          \* what the caller's SELECT returned
    wrote,          \* uncommitted upsert of the caller (ABSENT: none yet)
    staged,         \* uncommitted outbox inserts of the caller
    uncreated       \* payments whose host-side save is still to come

vars == <<transactions, outbox, rowLock, pc, job, found, wrote, staged, uncreated>>
dbVars == <<transactions, outbox, uncreated>>

Steps == {"idle", "fetch", "decide", "save", "publish", "commit"}
Job == [tx : Txs, target : Targets]
NoJob == [tx |-> None, target |-> ABSENT]

-----------------------------------------------------------------------------

Row == Status \cup {ABSENT}

\* The entity the call works on: the restored row, or the caller's own
\* NewTransaction, which is born PENDING.
Entity(row) == IF row = ABSENT THEN Pending ELSE row

\* Fault: the idempotence test forgotten.
NewEvent_Always(row, target) == <<EventType(target)>>

\* TransitionTo changes the status and returns an event, unless it is asked
\* for the status the entity already has.
NewEvent(row, target) ==
    IF target = Entity(row) THEN <<>> ELSE <<EventType(target)>>

\* Fault: locks that do not exclude anyone.
LockFree_Ignored(w, t) == TRUE

\* Postgres makes a writer wait for the row's lock; re-locking is free.
LockFree(w, t) == rowLock[t] \in {None, w}

\* Fault: a plain SELECT.
LockForUpdate_PlainRead(w, t) == UNCHANGED rowLock

\* FOR UPDATE takes the lock of a row that exists; no row, no lock, no wait.
LockForUpdate(w, t) ==
    IF transactions[t] = ABSENT
    THEN UNCHANGED rowLock
    ELSE /\ LockFree(w, t)
         /\ rowLock' = [rowLock EXCEPT ![t] = w]

\* Fault: the transaction is left open.
Unlock_Leaked(w) == rowLock

Unlock(w) == [t \in Txs |-> IF rowLock[t] = w THEN None ELSE rowLock[t]]

-----------------------------------------------------------------------------

Begin(w) ==
    /\ pc[w] = "idle"
    /\ \E j \in Job : job' = [job EXCEPT ![w] = j]
    /\ pc' = [pc EXCEPT ![w] = "fetch"]
    /\ UNCHANGED <<dbVars, rowLock, found, wrote, staged>>

Fetch(w) ==
    /\ pc[w] = "fetch"
    /\ LockForUpdate(w, job[w].tx)
    /\ found' = [found EXCEPT ![w] = transactions[job[w].tx]]
    /\ pc' = [pc EXCEPT ![w] = "decide"]
    /\ UNCHANGED <<dbVars, job, wrote, staged>>

Accepts(w) == Evaluate(Entity(found[w]), job[w].target)

Decide(w) ==
    /\ pc[w] = "decide"
    /\ Accepts(w)
    /\ pc' = [pc EXCEPT ![w] = "save"]
    /\ UNCHANGED <<dbVars, rowLock, job, found, wrote, staged>>

\* What ends a database transaction, either way.
Finish(w) ==
    /\ rowLock' = Unlock(w)
    /\ pc' = [pc EXCEPT ![w] = "idle"]
    /\ found' = [found EXCEPT ![w] = ABSENT]
    /\ wrote' = [wrote EXCEPT ![w] = ABSENT]
    /\ staged' = [staged EXCEPT ![w] = <<>>]
    /\ job' = [job EXCEPT ![w] = NoJob]

Reject(w) ==
    /\ pc[w] = "decide"
    /\ ~Accepts(w)
    /\ Finish(w)
    /\ UNCHANGED dbVars

\* INSERT ... ON CONFLICT (id) DO UPDATE: waits for whoever holds the row or
\* is inserting it, then owns it; the status written is the entity's.
SaveTransaction(w) ==
    LET t == job[w].tx IN
    /\ pc[w] = "save"
    /\ LockFree(w, t)
    /\ rowLock' = [rowLock EXCEPT ![t] = w]
    /\ wrote' = [wrote EXCEPT ![w] = job[w].target]
    /\ pc' = [pc EXCEPT ![w] =
                 IF NewEvent(found[w], job[w].target) = <<>> THEN "commit" ELSE "publish"]
    /\ UNCHANGED <<dbVars, job, found, staged>>

SaveOutboxEvent(w) ==
    /\ pc[w] = "publish"
    /\ staged' = [staged EXCEPT ![w] = NewEvent(found[w], job[w].target)]
    /\ pc' = [pc EXCEPT ![w] = "commit"]
    /\ UNCHANGED <<dbVars, rowLock, job, found, wrote>>

Commit(w) ==
    LET t == job[w].tx IN
    /\ pc[w] = "commit"
    /\ transactions' = [transactions EXCEPT ![t] = wrote[w]]
    /\ outbox' = [outbox EXCEPT ![t] = @ \o staged[w]]
    /\ Finish(w)
    /\ UNCHANGED uncreated

\* A statement fails, the context is cancelled or the process dies: the
\* database rolls the transaction back.
Fail(w) ==
    /\ pc[w] # "idle"
    /\ Finish(w)
    /\ UNCHANGED dbVars

\* The example host creates the payment at the gateway first and saves it,
\* PENDING, afterwards: an auto-committed upsert with no read before it.
SaveLocally(t) ==
    /\ t \in uncreated
    /\ rowLock[t] = None
    /\ transactions' = [transactions EXCEPT ![t] = Pending]
    /\ uncreated' = uncreated \ {t}
    /\ UNCHANGED <<outbox, rowLock, pc, job, found, wrote, staged>>

Statement(w) ==
    Fetch(w) \/ Decide(w) \/ Reject(w) \/ SaveTransaction(w) \/ SaveOutboxEvent(w) \/ Commit(w)

Init ==
    /\ transactions = [t \in Txs |-> IF t \in Preloaded THEN Pending ELSE ABSENT]
    /\ outbox = [t \in Txs |-> <<>>]
    /\ rowLock = [t \in Txs |-> None]
    /\ pc = [w \in Workers |-> "idle"]
    /\ job = [w \in Workers |-> NoJob]
    /\ found = [w \in Workers |-> ABSENT]
    /\ wrote = [w \in Workers |-> ABSENT]
    /\ staged = [w \in Workers |-> <<>>]
    /\ uncreated = HostCreated

Next ==
    \/ \E w \in Workers : Begin(w) \/ Statement(w) \/ Fail(w)
    \/ \E t \in Txs : SaveLocally(t)

Spec == Init /\ [][Next]_vars

\* Statements are executed; those that wait for a row lock get it, because
\* Postgres queues the waiters of a row in arrival order.
Fairness ==
    \A w \in Workers :
        /\ WF_vars(Statement(w))
        /\ SF_vars(Fetch(w))
        /\ SF_vars(SaveTransaction(w))

FairSpec == Spec /\ Fairness

-----------------------------------------------------------------------------
(***************************************************************************)
(* Properties                                                              *)
(***************************************************************************)

TypeOK ==
    /\ transactions \in [Txs -> Row]
    /\ outbox \in [Txs -> Seq(Notice)]
    /\ rowLock \in [Txs -> Workers \cup {None}]
    /\ pc \in [Workers -> Steps]
    /\ job \in [Workers -> Job \cup {NoJob}]
    /\ found \in [Workers -> Row]
    /\ wrote \in [Workers -> Row]
    /\ staged \in [Workers -> Seq(Notice)]
    /\ uncreated \subseteq HostCreated
    /\ \A w \in Workers : pc[w] # "idle" => job[w] \in Job

Current(t) == Entity(transactions[t])

\* Payments whose row precedes every call behave as the ledger promises, however
\* calls interleave and fail: ProcessPaymentWithMetadata is one atomic legal
\* transition with its notice.
Ledger == INSTANCE PaymentLedger WITH
    Txs <- Preloaded,
    status <- [t \in Preloaded |-> Current(t)],
    notices <- [t \in Preloaded |-> outbox[t]]

ImplementsLedger == Ledger!Spec

\* The committed notices of a preloaded payment are exactly the history of its
\* status: one REFUND_STARTED at most, never before a PAYMENT_CONFIRMED.
NoticesTellStatus == Ledger!NoticesTellStatus

\* A call that has passed FOR UPDATE on an existing row decides on the row as it
\* still is: nobody commits a change of that row before the call ends
\* (GetTransactionByID's lock, held across the service's four statements).
NoStaleDecision ==
    \A w \in Workers :
        pc[w] \in {"decide", "save", "publish", "commit"} /\ found[w] # ABSENT
            => found[w] = transactions[job[w].tx]

\* The next statement of a call waits for a row lock that another call has.
Waits(w) ==
    /\ pc[w] = "save" \/ (pc[w] = "fetch" /\ transactions[job[w].tx] # ABSENT)
    /\ ~LockFree(w, job[w].tx)

\* No call ends with a row's lock, whichever statement fails or finds nothing to do, and
\* whoever has one needs no lock that another one has (FOR UPDATE, the upsert and the end
\* of the transaction).  A call locks the row of its one payment only.
LocksComeFree ==
    \A t \in Txs : rowLock[t] # None => pc[rowLock[t]] # "idle" /\ ~Waits(rowLock[t])

\* Every call ends, also under contention for one row and whatever fails on the way.
CallsFinish == \A w \in Workers : pc[w] # "idle" ~> pc[w] = "idle"

-----------------------------------------------------------------------------
(***************************************************************************)
(* What the documentation says of updates.                                 *)
(***************************************************************************)

\* documentos/estrutura/core_repository.md:9: FOR UPDATE serialises concurrent
\* updates of one transactions row, so each committed change is a legal step
\* from the row it replaces.
SerializedUpdates ==
    [][\A t \in Txs :
        transactions[t] # ABSENT => Evaluate(transactions[t], transactions'[t])]_vars

=============================================================================
