----------------------------- MODULE EventTable -----------------------------
(***************************************************************************)
(* One row of the inbox or outbox table and what each UPDATE of             *)
(* PostgresRepository does to it.  Every finalising UPDATE says only         *)
(* WHERE id = $1: it applies to the row whatever its status has become.     *)
(*                                                                         *)
(* retry_count is only ever compared with >= maxRetries, so it saturates    *)
(* there.  The age of updated_at is the one bit the claim asks of it,       *)
(* orphan: PROCESSING for more than five minutes.                          *)
(***************************************************************************)
EXTENDS Naturals

CONSTANT MaxRetries                     \* SetMaxRetries; 5 by default

ASSUME MaxRetriesOK == MaxRetries \in Nat

Retries == 0 .. MaxRetries
RowStatus == {"PENDING", "PROCESSING", "COMPLETED", "DLQ"}
EventRow == [status : RowStatus, retries : Retries, orphan : BOOLEAN]

-----------------------------------------------------------------------------

OneMore(n) == IF n < MaxRetries THEN n + 1 ELSE n

Fresh == [status |-> "PENDING", retries |-> 0, orphan |-> FALSE]

\* Faults: rows in processing are claimed without waiting for their lease, or
\* are never rescued.
Claimable_NoLease(r) == r.status \in {"PENDING", "PROCESSING"}
Claimable_PendingOnly(r) == r.status = "PENDING"

\* PENDING, or left behind in PROCESSING.
Claimable(r) ==
    \/ r.status = "PENDING"
    \/ r.status = "PROCESSING" /\ r.orphan

\* A rescue counts as an attempt.
Claimed(r) ==
    [status  |-> "PROCESSING",
     retries |-> IF r.status = "PROCESSING" THEN OneMore(r.retries) ELSE r.retries,
     orphan  |-> FALSE]

Completed(r) == [r EXCEPT !.status = "COMPLETED", !.orphan = FALSE]

\* Fault: a status of its own for failures.
Failed_AsFailed(r) == [status |-> "FAILED", retries |-> OneMore(r.retries), orphan |-> FALSE]

Failed(r) == [status |-> "PENDING", retries |-> OneMore(r.retries), orphan |-> FALSE]
Dead(r) == [r EXCEPT !.status = "DLQ", !.orphan = FALSE]

\* Fault: a replay keeps the retries that killed the event.
Replayed_KeepsRetries(r) == [r EXCEPT !.status = "PENDING"]

\* WHERE status = 'DLQ' is the guard of the replay actions.
Replayed(r) == Fresh

=============================================================================
