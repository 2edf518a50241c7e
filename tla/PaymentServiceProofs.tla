------------------------ MODULE PaymentServiceProofs ------------------------
(***************************************************************************)
(* Proofs about PaymentService for any number of callers and payments: the  *)
(* row lock makes every call on an existing row decide on the committed     *)
(* status, so the service implements PaymentLedger for those payments.      *)
(***************************************************************************)
EXTENDS PaymentService, Lemmas

Reading == {"decide", "save", "publish", "commit"}   \* the SELECT is done
Accepted == {"save", "publish", "commit"}            \* the policy has agreed
Writing == {"publish", "commit"}                     \* the upsert is done

\* A call that found a row holds its lock and knows its committed status.
LockProtects ==
    \A w \in Workers :
        pc[w] \in Reading /\ found[w] # ABSENT =>
            /\ rowLock[job[w].tx] = w
            /\ found[w] = transactions[job[w].tx]

\* A preloaded row exists for good, so no call ever reads it as absent.
RowsStay ==
    /\ \A t \in Preloaded : transactions[t] # ABSENT
    /\ \A w \in Workers :
          pc[w] \in Reading /\ found[w] = ABSENT => job[w].tx \notin Preloaded

\* What a call has decided and written so far.
WriteSet ==
    \A w \in Workers :
        /\ pc[w] \in Accepted => Accepts(w)
        /\ pc[w] \in Writing => /\ rowLock[job[w].tx] = w
                                /\ wrote[w] = job[w].target
        /\ pc[w] \in {"idle", "fetch", "decide", "save"} => staged[w] = <<>>
        /\ pc[w] = "commit" => staged[w] = NewEvent(found[w], job[w].target)

Inv == TypeOK /\ LockProtects /\ RowsStay /\ WriteSet

-----------------------------------------------------------------------------

\* NewEvent returns a sequence of notices.
LEMMA NewEventType ==
    ASSUME NEW r \in Row, NEW s \in Status
    PROVE  NewEvent(r, s) \in Seq(Notice)
  <1>1. EventType(s) \in Notice
    BY DEF EventType, Notice
  <1>2. QED
    BY <1>1 DEF NewEvent

\* The invariant holds initially.
LEMMA InitInv == Init => Inv
  <1> SUFFICES ASSUME Init PROVE Inv
    OBVIOUS
  <1> USE ConstantsOK DEF Init
  <1>1. TypeOK
    <2>1. NoJob \in Job \cup {NoJob}
      OBVIOUS
    <2>2. Pending \in Row /\ ABSENT \in Row
      BY DEF Row, Status, Pending
    <2>3. QED
      BY <2>1, <2>2 DEF TypeOK, Steps
  <1>2. LockProtects
    BY DEF LockProtects, Reading
  <1>3. RowsStay
    BY DEF RowsStay, Reading, Pending, Status
  <1>4. WriteSet
    BY DEF WriteSet, Accepted, Writing
  <1>5. QED
    BY <1>1, <1>2, <1>3, <1>4 DEF Inv

\* Every step keeps the types.
LEMMA NextTypeOK == TypeOK /\ [Next]_vars => TypeOK'
  <1> SUFFICES ASSUME TypeOK, [Next]_vars PROVE TypeOK'
    OBVIOUS
  <1> USE ConstantsOK DEF TypeOK, dbVars, Steps
  <1>1. ASSUME NEW w \in Workers, Begin(w) PROVE TypeOK'
    BY <1>1 DEF Begin
  <1>2. ASSUME NEW w \in Workers, Fetch(w) PROVE TypeOK'
    <2>1. rowLock' \in [Txs -> Workers \cup {None}]
      BY <1>2 DEF Fetch, LockForUpdate
    <2>2. found' \in [Workers -> Row]
      BY <1>2 DEF Fetch, Job
    <2>3. QED
      BY <1>2, <2>1, <2>2 DEF Fetch
  <1>3. ASSUME NEW w \in Workers, Finish(w), UNCHANGED <<transactions, outbox, uncreated>>
        PROVE TypeOK'
    <2>1. rowLock' \in [Txs -> Workers \cup {None}]
      BY <1>3 DEF Finish, Unlock
    <2>2. ABSENT \in Row /\ <<>> \in Seq(Notice)
      BY DEF Row
    <2>3. QED
      BY <1>3, <2>1, <2>2 DEF Finish
  <1>4. ASSUME NEW w \in Workers, Decide(w) PROVE TypeOK'
    BY <1>4 DEF Decide
  <1>5. ASSUME NEW w \in Workers, SaveTransaction(w) PROVE TypeOK'
    <2>1. job[w] \in Job /\ job[w].target \in Row /\ job[w].tx \in Txs
      BY <1>5 DEF SaveTransaction, Job, Row
    <2>2. QED
      BY <1>5, <2>1 DEF SaveTransaction
  <1>6. ASSUME NEW w \in Workers, SaveOutboxEvent(w) PROVE TypeOK'
    <2>1. job[w].target \in Status /\ found[w] \in Row
      BY <1>6 DEF SaveOutboxEvent, Job
    <2>2. NewEvent(found[w], job[w].target) \in Seq(Notice)
      BY <2>1, NewEventType
    <2>3. QED
      BY <1>6, <2>2 DEF SaveOutboxEvent
  <1>7. ASSUME NEW w \in Workers, Commit(w) PROVE TypeOK'
    <2>1. job[w].tx \in Txs /\ wrote[w] \in Row /\ staged[w] \in Seq(Notice)
      BY <1>7 DEF Commit, Job
    <2>2. transactions' \in [Txs -> Row]
      BY <1>7, <2>1 DEF Commit
    <2>3. outbox' \in [Txs -> Seq(Notice)]
      <3>1. outbox[job[w].tx] \o staged[w] \in Seq(Notice)
        BY <2>1, ConcatProperties
      <3>2. QED
        BY <1>7, <2>1, <3>1 DEF Commit
    <2>4. rowLock' \in [Txs -> Workers \cup {None}]
      BY <1>7 DEF Commit, Finish, Unlock
    <2>5. ABSENT \in Row /\ <<>> \in Seq(Notice)
      BY DEF Row
    <2>6. QED
      BY <1>7, <2>2, <2>3, <2>4, <2>5 DEF Commit, Finish
  <1>8. ASSUME NEW t \in Txs, SaveLocally(t) PROVE TypeOK'
    BY <1>8 DEF SaveLocally, Row, Pending, Status
  <1>9. CASE UNCHANGED vars
    BY <1>9 DEF vars
  <1>10. QED
    BY <1>1, <1>2, <1>3, <1>4, <1>5, <1>6, <1>7, <1>8, <1>9
       DEF Next, Statement, Reject, Fail

\* Starting, reading and deciding keep the invariant: they change no row and
\* release no lock.
LEMMA ReadPhaseInv ==
    ASSUME Inv, TypeOK', NEW w \in Workers, Begin(w) \/ Fetch(w) \/ Decide(w)
    PROVE  Inv'
  <1> USE DEF Inv, TypeOK, dbVars
  <1>1. CASE Begin(w)
    <2>1. LockProtects'
      BY <1>1 DEF Begin, LockProtects, Reading
    <2>2. RowsStay'
      BY <1>1 DEF Begin, RowsStay, Reading
    <2>3. WriteSet'
      BY <1>1 DEF Begin, WriteSet, Accepted, Writing, Accepts
    <2>4. QED
      BY <2>1, <2>2, <2>3
  <1>2. CASE Fetch(w)
    <2>1. \A v \in Workers, t \in Txs : v # w /\ rowLock[t] = v => rowLock'[t] = v
      BY <1>2, ConstantsOK DEF Fetch, LockForUpdate, LockFree
    <2>2. \A v \in Workers : pc[v] # "idle" => job[v].tx \in Txs
      BY DEF Job
    <2>3. LockProtects'
      BY <1>2, <2>1, <2>2 DEF Fetch, LockForUpdate, LockProtects, Reading
    <2>4. RowsStay'
      BY <1>2 DEF Fetch, RowsStay, Reading
    <2>5. WriteSet'
      BY <1>2, <2>1, <2>2 DEF Fetch, WriteSet, Accepted, Writing, Accepts
    <2>6. QED
      BY <2>3, <2>4, <2>5
  <1>3. CASE Decide(w)
    <2>1. LockProtects'
      BY <1>3 DEF Decide, LockProtects, Reading
    <2>2. RowsStay'
      BY <1>3 DEF Decide, RowsStay, Reading
    <2>3. WriteSet'
      BY <1>3 DEF Decide, WriteSet, Accepted, Writing, Accepts
    <2>4. QED
      BY <2>1, <2>2, <2>3
  <1>4. QED
    BY <1>1, <1>2, <1>3

\* The two write statements keep the invariant: they touch the caller's own
\* write set, under the row's lock.
LEMMA WritePhaseInv ==
    ASSUME Inv, TypeOK', NEW w \in Workers, SaveTransaction(w) \/ SaveOutboxEvent(w)
    PROVE  Inv'
  <1> USE DEF Inv, TypeOK, dbVars
  <1>1. CASE SaveTransaction(w)
    <2>1. \A v \in Workers, t \in Txs : v # w /\ rowLock[t] = v => rowLock'[t] = v
      BY <1>1, ConstantsOK DEF SaveTransaction, LockFree
    <2>2. \A v \in Workers : pc[v] # "idle" => job[v].tx \in Txs
      BY DEF Job
    <2>3. LockProtects'
      BY <1>1, <2>1, <2>2 DEF SaveTransaction, LockProtects, Reading
    <2>4. RowsStay'
      BY <1>1 DEF SaveTransaction, RowsStay, Reading
    <2>5. WriteSet'
      BY <1>1, <2>1, <2>2 DEF SaveTransaction, WriteSet, Accepted, Writing, Accepts
    <2>6. QED
      BY <2>3, <2>4, <2>5
  <1>2. CASE SaveOutboxEvent(w)
    <2>1. LockProtects'
      BY <1>2 DEF SaveOutboxEvent, LockProtects, Reading
    <2>2. RowsStay'
      BY <1>2 DEF SaveOutboxEvent, RowsStay, Reading
    <2>3. WriteSet'
      BY <1>2 DEF SaveOutboxEvent, WriteSet, Accepted, Writing, Accepts
    <2>4. QED
      BY <2>1, <2>2, <2>3
  <1>3. QED
    BY <1>1, <1>2

\* Ending a call keeps the invariant, whether it changed its own row (which
\* then nobody else has locked) or nothing.
LEMMA FinishInv ==
    ASSUME Inv, TypeOK', NEW w \in Workers, Finish(w), UNCHANGED uncreated,
           \/ UNCHANGED transactions
           \/ Commit(w)
    PROVE  Inv'
  <1> USE DEF Inv, TypeOK
  <1> DEFINE mine == job[w].tx
  <1>1. \A v \in Workers, t \in Txs : v # w /\ rowLock[t] = v => rowLock'[t] = v
    BY ConstantsOK DEF Finish, Unlock
  <1>2. \A v \in Workers : pc[v] # "idle" => job[v].tx \in Txs
    BY DEF Job
  <1>3. \A t \in Txs : rowLock[t] # w => transactions'[t] = transactions[t]
    BY DEF Commit, WriteSet, Writing
  <1>4. \A t \in Txs : transactions[t] # ABSENT => transactions'[t] # ABSENT
    <2>1. CASE UNCHANGED transactions
      BY <2>1
    <2>2. CASE Commit(w)
      <3>1. wrote[w] = job[w].target /\ job[w].target \in Status
        BY <2>2, ConstantsOK DEF Commit, WriteSet, Writing, Job
      <3>2. QED
        BY <2>2, <3>1, ConstantsOK DEF Commit
    <2>3. QED
      BY <2>1, <2>2
  <1>5. pc' = [pc EXCEPT ![w] = "idle"] /\ job' = [job EXCEPT ![w] = NoJob]
        /\ found' = [found EXCEPT ![w] = ABSENT] /\ wrote' = [wrote EXCEPT ![w] = ABSENT]
        /\ staged' = [staged EXCEPT ![w] = <<>>]
    BY DEF Finish
  <1>6. LockProtects'
    <2> SUFFICES ASSUME NEW v \in Workers, pc'[v] \in Reading, found'[v] # ABSENT
                 PROVE  rowLock'[job'[v].tx] = v /\ found'[v] = transactions'[job'[v].tx]
      BY DEF LockProtects
    <2>1. v # w
      BY <1>5 DEF Reading
    <2>2. rowLock[job[v].tx] = v /\ found[v] = transactions[job[v].tx] /\ job[v].tx \in Txs
      BY <1>2, <1>5, <2>1 DEF LockProtects, Reading
    <2>3. QED
      BY <1>1, <1>3, <1>5, <2>1, <2>2
  <1>7. RowsStay'
    BY <1>4, <1>5, ConstantsOK DEF RowsStay, Reading
  <1>8. WriteSet'
    <2> SUFFICES ASSUME NEW v \in Workers
                 PROVE  /\ pc'[v] \in Accepted => Accepts(v)'
                        /\ pc'[v] \in Writing => /\ rowLock'[job'[v].tx] = v
                                                 /\ wrote'[v] = job'[v].target
                        /\ pc'[v] \in {"idle", "fetch", "decide", "save"} => staged'[v] = <<>>
                        /\ pc'[v] = "commit" => staged'[v] = NewEvent(found'[v], job'[v].target)
      BY DEF WriteSet
    <2>1. CASE v = w
      BY <1>5, <2>1 DEF Accepted, Writing
    <2>2. CASE v # w
      BY <1>1, <1>2, <1>5, <2>2 DEF WriteSet, Accepted, Writing, Accepts
    <2>3. QED
      BY <2>1, <2>2
  <1>9. QED
    BY <1>6, <1>7, <1>8

\* The host's own save keeps the invariant: it waits for the row lock and
\* never touches a preloaded payment.
LEMMA SaveLocallyInv ==
    ASSUME Inv, TypeOK', NEW t \in Txs, SaveLocally(t)
    PROVE  Inv'
  <1> USE DEF Inv, TypeOK
  <1>1. t \notin Preloaded /\ Pending # ABSENT
    BY ConstantsOK DEF SaveLocally, Status
  <1>2. LockProtects'
    BY ConstantsOK DEF SaveLocally, LockProtects, Job
  <1>3. RowsStay'
    BY <1>1 DEF SaveLocally, RowsStay
  <1>4. WriteSet'
    BY DEF SaveLocally, WriteSet, Accepts
  <1>5. QED
    BY <1>2, <1>3, <1>4

\* The invariant is inductive.
LEMMA NextInv == Inv /\ [Next]_vars => Inv'
  <1> SUFFICES ASSUME Inv, [Next]_vars PROVE Inv'
    OBVIOUS
  <1>1. TypeOK'
    BY NextTypeOK DEF Inv
  <1>2. ASSUME NEW w \in Workers, Begin(w) \/ Statement(w) \/ Fail(w) PROVE Inv'
    <2>1. CASE Begin(w) \/ Fetch(w) \/ Decide(w)
      BY <1>1, <2>1, ReadPhaseInv
    <2>2. CASE SaveTransaction(w) \/ SaveOutboxEvent(w)
      BY <1>1, <2>2, WritePhaseInv
    <2>3. CASE Reject(w) \/ Fail(w)
      BY <1>1, <2>3, FinishInv DEF Reject, Fail, dbVars
    <2>4. CASE Commit(w)
      <3>1. Finish(w) /\ UNCHANGED uncreated
        BY <2>4 DEF Commit
      <3>2. QED
        BY <1>1, <2>4, <3>1, FinishInv
    <2>5. QED
      BY <1>2, <2>1, <2>2, <2>3, <2>4 DEF Statement
  <1>3. ASSUME NEW t \in Txs, SaveLocally(t) PROVE Inv'
    BY <1>1, <1>3, SaveLocallyInv
  <1>4. CASE UNCHANGED vars
    BY <1>4 DEF vars, Inv, TypeOK, LockProtects, RowsStay, WriteSet, Accepts
  <1>5. QED
    BY <1>2, <1>3, <1>4 DEF Next

\* The strengthened invariant holds in every reachable state, for any number of
\* callers and payments.
THEOREM Invariance == Spec => []Inv
  BY InitInv, NextInv, PTL DEF Spec

\* TypeOK: every table and every caller's variables stay in their types
\* (ProcessPaymentWithMetadata and the repository under it).
THEOREM TypeCorrect == Spec => []TypeOK
  <1>1. Inv => TypeOK
    BY DEF Inv
  <1>2. QED
    BY <1>1, Invariance, PTL

\* NoStaleDecision: a call that found a row decides on what is committed, which
\* is what FOR UPDATE is for (GetTransactionByID).
THEOREM DecisionsAreFresh == Spec => []NoStaleDecision
  <1>1. Inv => NoStaleDecision
    BY DEF Inv, LockProtects, NoStaleDecision, Reading
  <1>2. QED
    BY <1>1, Invariance, PTL

-----------------------------------------------------------------------------
(***************************************************************************)
(* Refinement: a commit on a preloaded payment is one Advance of the ledger *)
(* or a stutter, and nothing else touches it.                              *)
(***************************************************************************)

\* The initial states are the ledger's.
LEMMA LedgerInit == Init => Ledger!Init
  <1> SUFFICES ASSUME Init PROVE Ledger!Init
    OBVIOUS
  <1>1. \A t \in Preloaded : Current(t) = Pending
    BY ConstantsOK DEF Init, Current, Entity
  <1>2. \A t \in Preloaded : outbox[t] = <<>>
    BY ConstantsOK DEF Init
  <1>3. QED
    BY <1>1, <1>2 DEF Ledger!Init, Pending, Ledger!Pending

\* A committed call moves its payment one step along the ledger, or not at all.
LEMMA LedgerCommit ==
    ASSUME Inv, NEW w \in Workers, Commit(w)
    PROVE  [Ledger!Next]_(Ledger!vars)
  <1> USE DEF Inv
  <1>1. PICK t \in Txs, s \in Status : t = job[w].tx /\ s = job[w].target
    BY ConstantsOK DEF Commit, TypeOK, Job
  <1>2. /\ transactions' = [transactions EXCEPT ![t] = s]
        /\ outbox' = [outbox EXCEPT ![t] = @ \o NewEvent(found[w], s)]
        /\ rowLock[t] = w
        /\ Evaluate(Entity(found[w]), s)
    BY <1>1 DEF Commit, WriteSet, Writing, Accepted, Accepts
  <1>3. CASE t \notin Preloaded
    <2>1. \A p \in Preloaded : transactions'[p] = transactions[p] /\ outbox'[p] = outbox[p]
      BY <1>2, <1>3, ConstantsOK DEF TypeOK
    <2>2. QED
      BY <2>1 DEF Ledger!vars, Current
  <1>4. CASE t \in Preloaded
    <2>1. found[w] = transactions[t] /\ found[w] # ABSENT
      BY <1>1, <1>4 DEF Commit, RowsStay, LockProtects, Reading
    <2>2. Entity(found[w]) = Current(t) /\ Current(t) = transactions[t]
      BY <2>1 DEF Current, Entity
    <2>3. \A p \in Preloaded :
             Current(p)' = IF p = t THEN s ELSE Current(p)
      BY <1>1, <1>2, ConstantsOK DEF TypeOK, Current, Entity
    <2>4. CASE s = Current(t)
      <3>1. NewEvent(found[w], s) = <<>>
        BY <2>2, <2>4 DEF NewEvent
      <3>2. outbox[t] \o <<>> = outbox[t]
        BY <1>1, ConcatEmptySeq DEF TypeOK
      <3>3. \A p \in Preloaded : outbox'[p] = outbox[p] /\ Current(p)' = Current(p)
        BY <1>2, <2>3, <2>4, <3>1, <3>2, ConstantsOK DEF TypeOK
      <3>4. QED
        BY <3>3 DEF Ledger!vars
    <2>5. CASE s # Current(t)
      <3>1. NewEvent(found[w], s) = <<EventType(s)>>
        BY <2>2, <2>5 DEF NewEvent
      <3>2. outbox[t] \o <<EventType(s)>> = Append(outbox[t], EventType(s))
        <4>1. EventType(s) \in Notice
          BY DEF EventType, Notice
        <4>2. QED
          BY <1>1, <4>1, AppendIsConcat DEF TypeOK
      <3>3. \A p \in Preloaded :
               outbox'[p] = IF p = t THEN Append(outbox[p], EventType(s)) ELSE outbox[p]
        BY <1>1, <1>2, <3>1, <3>2, ConstantsOK DEF TypeOK
      <3>4. Ledger!Evaluate(Current(t), s)
        BY <1>2, <2>2 DEF Evaluate, Successors, Settled, Pending,
              Ledger!Evaluate, Ledger!Successors, Ledger!Settled, Ledger!Pending
      <3>5. Ledger!EventType(s) = EventType(s)
        BY DEF EventType, Ledger!EventType, Settled, Ledger!Settled
      <3>6. s \in Ledger!Status
        BY <1>1 DEF Status, Ledger!Status, Settled, Ledger!Settled, Pending, Ledger!Pending
      <3>7. Ledger!Advance(t, s)
        BY <1>4, <2>3, <2>5, <3>3, <3>4, <3>5 DEF Ledger!Advance
      <3>8. QED
        BY <1>4, <3>6, <3>7 DEF Ledger!Next
    <2>6. QED
      BY <2>4, <2>5
  <1>5. QED
    BY <1>3, <1>4

\* Every step of the service is a step of the ledger or leaves it unchanged.
LEMMA LedgerNext == Inv /\ [Next]_vars => [Ledger!Next]_(Ledger!vars)
  <1> SUFFICES ASSUME Inv, [Next]_vars PROVE [Ledger!Next]_(Ledger!vars)
    OBVIOUS
  <1>1. ASSUME UNCHANGED <<transactions, outbox>> PROVE UNCHANGED Ledger!vars
    BY <1>1 DEF Ledger!vars, Current
  <1>2. ASSUME NEW w \in Workers, Commit(w) PROVE [Ledger!Next]_(Ledger!vars)
    BY <1>2, LedgerCommit
  <1>3. ASSUME NEW t \in Txs, SaveLocally(t) PROVE UNCHANGED Ledger!vars
    <2>1. \A p \in Preloaded : transactions'[p] = transactions[p] /\ outbox'[p] = outbox[p]
      BY <1>3, ConstantsOK DEF SaveLocally, Inv, TypeOK
    <2>2. QED
      BY <2>1 DEF Ledger!vars, Current
  <1>4. QED
    BY <1>1, <1>2, <1>3
       DEF Next, Statement, Begin, Fetch, Decide, Reject, SaveTransaction, SaveOutboxEvent,
           Fail, dbVars, vars

\* ImplementsLedger: for payments whose row precedes the calls, the service is
\* the atomic ledger, with any number of concurrent callers failing anywhere.
THEOREM Refinement == Spec => ImplementsLedger
  BY LedgerInit, LedgerNext, Invariance, PTL DEF Spec, ImplementsLedger, Ledger!Spec

-----------------------------------------------------------------------------

\* The ledger's own invariant, carried over by the refinement.
LEMMA LedgerHistory ==
    ASSUME Ledger!NoticesTellStatus, [Ledger!Next]_(Ledger!vars)
    PROVE  Ledger!NoticesTellStatus'
  <1> DEFINE st == [t \in Preloaded |-> Current(t)]
             nt == [t \in Preloaded |-> outbox[t]]
  <1>1. CASE UNCHANGED Ledger!vars
    BY <1>1 DEF Ledger!vars, Ledger!NoticesTellStatus
  <1>2. ASSUME NEW t \in Preloaded, NEW s \in Ledger!Status, Ledger!Advance(t, s)
        PROVE  Ledger!NoticesTellStatus'
    <2>1. st[t] \in Ledger!Reachable /\ nt[t] = Ledger!History(st[t])
      BY DEF Ledger!NoticesTellStatus
    <2>2. s \in Ledger!Successors(st[t])
      BY <1>2 DEF Ledger!Advance, Ledger!Evaluate
    <2>3. s \in Ledger!Reachable
      BY <2>1, <2>2 DEF Ledger!Successors, Ledger!Reachable, Ledger!Status, Ledger!Settled
    <2>4. Append(Ledger!History(st[t]), Ledger!EventType(s)) = Ledger!History(s)
      <3> USE DEF Ledger!Settled, Settled, Ledger!Pending, Pending
      <3>1. st[t] \in Status
        BY <2>1 DEF Ledger!Reachable, Ledger!Status, Status
      <3>2. s \in Successors(st[t])
        BY <2>2 DEF Ledger!Successors, Successors
      <3>3. /\ Ledger!History(st[t]) = History(st[t])
            /\ Ledger!History(s) = History(s)
        BY DEF Ledger!History, History
      <3>4. Ledger!EventType(s) = EventType(s)
        BY DEF Ledger!EventType, EventType
      <3> HIDE DEF st
      <3> QED
        BY <3>1, <3>2, <3>3, <3>4, HistoryGrows
    <2>5. /\ st' = [st EXCEPT ![t] = s]
          /\ nt' = [nt EXCEPT ![t] = Append(@, Ledger!EventType(s))]
      BY <1>2 DEF Ledger!Advance
    <2>6. \A p \in Preloaded : st'[p] \in Ledger!Reachable /\ nt'[p] = Ledger!History(st'[p])
      BY <2>1, <2>3, <2>4, <2>5 DEF Ledger!NoticesTellStatus
    <2>7. QED
      BY <2>6 DEF Ledger!NoticesTellStatus
  <1>3. QED
    BY <1>1, <1>2 DEF Ledger!Next

\* NoticesTellStatus: the outbox of a payment is the history of its status, so
\* it is asked to be refunded at most once and only after its confirmation.
THEOREM HistoryIsExact == Spec => []NoticesTellStatus
  <1>1. Ledger!Init => Ledger!NoticesTellStatus
    <2>1. Ledger!History(Ledger!Pending) = <<>>
      BY DEF Ledger!History, Ledger!Pending, Ledger!Settled
    <2>2. Ledger!Pending \in Ledger!Reachable
      BY DEF Ledger!Reachable, Ledger!Status, Ledger!Pending
    <2>3. QED
      BY <2>1, <2>2 DEF Ledger!Init, Ledger!NoticesTellStatus
  <1>2. Ledger!NoticesTellStatus /\ [Ledger!Next]_(Ledger!vars) => Ledger!NoticesTellStatus'
    BY LedgerHistory
  <1>3. QED
    BY <1>1, <1>2, LedgerInit, LedgerNext, Invariance, PTL DEF Spec, NoticesTellStatus

-----------------------------------------------------------------------------
(***************************************************************************)
(* Locks: a call has the lock of its own payment only, and only once it has *)
(* read its row or written it.                                             *)
(***************************************************************************)

LocksAreOwn ==
    \A t \in Txs : rowLock[t] # None =>
        LET w == rowLock[t] IN
        /\ job[w].tx = t
        /\ (pc[w] \in Reading /\ found[w] # ABSENT) \/ pc[w] \in Writing

LEMMA NextLocksAreOwn == Inv /\ LocksAreOwn /\ [Next]_vars => LocksAreOwn'
  <1> SUFFICES ASSUME Inv, LocksAreOwn, [Next]_vars PROVE LocksAreOwn'
    OBVIOUS
  <1> USE ConstantsOK DEF Inv, TypeOK
  <1>1. \A t \in Txs : rowLock[t] # None => rowLock[t] \in Workers
    OBVIOUS
  <1>2. ASSUME NEW w \in Workers, Begin(w) PROVE LocksAreOwn'
    BY <1>1, <1>2 DEF Begin, LocksAreOwn, Reading, Writing
  <1>3. ASSUME NEW w \in Workers, Fetch(w) PROVE LocksAreOwn'
    <2>1. job[w].tx \in Txs /\ \A t \in Txs : rowLock[t] # w
      BY <1>1, <1>3 DEF Fetch, LocksAreOwn, Reading, Writing, Job
    <2>2. \A t \in Txs : rowLock'[t] = rowLock[t]
                        \/ (t = job[w].tx /\ rowLock'[t] = w /\ transactions[t] # ABSENT)
      BY <1>3, <2>1 DEF Fetch, LockForUpdate
    <2> QED
      BY <1>1, <1>3, <2>1, <2>2 DEF Fetch, LocksAreOwn, Reading, Writing
  <1>4. ASSUME NEW w \in Workers, Decide(w) \/ SaveOutboxEvent(w) PROVE LocksAreOwn'
    <2>1. UNCHANGED <<rowLock, job, found>>
      BY <1>4 DEF Decide, SaveOutboxEvent
    <2>2. /\ \A v \in Workers : v # w => pc'[v] = pc[v]
          /\ pc[w] \in Reading /\ pc'[w] \in Reading
          /\ pc[w] \in Writing => pc'[w] \in Writing
      BY <1>4 DEF Decide, SaveOutboxEvent, Reading, Writing
    <2> QED
      BY <1>1, <2>1, <2>2 DEF LocksAreOwn
  <1>5. ASSUME NEW w \in Workers, SaveTransaction(w) PROVE LocksAreOwn'
    <2>1. job[w].tx \in Txs
      BY <1>5 DEF SaveTransaction, Job
    <2>2. \A t \in Txs : rowLock'[t] = IF t = job[w].tx THEN w ELSE rowLock[t]
      BY <1>5, <2>1 DEF SaveTransaction
    <2> QED
      BY <1>1, <1>5, <2>1, <2>2 DEF SaveTransaction, LocksAreOwn, Reading, Writing
  <1>6. ASSUME NEW w \in Workers, Finish(w) PROVE LocksAreOwn'
    <2>1. \A t \in Txs : rowLock'[t] # None => rowLock'[t] = rowLock[t] /\ rowLock[t] # w
      BY <1>6 DEF Finish, Unlock
    <2> QED
      BY <1>1, <1>6, <2>1 DEF Finish, LocksAreOwn
  <1>7. ASSUME NEW t \in Txs, SaveLocally(t) PROVE LocksAreOwn'
    BY <1>7 DEF SaveLocally, LocksAreOwn
  <1>8. CASE UNCHANGED vars
    BY <1>8 DEF vars, LocksAreOwn
  <1> QED
    BY <1>2, <1>3, <1>4, <1>5, <1>6, <1>7, <1>8
    DEF Next, Statement, Reject, Commit, Fail

\* LocksComeFree: a lock does not outlive its call, and who has one waits for none
\* (GetTransactionByID, SaveTransaction and the end of the transaction).  That the calls
\* all end then is for TLC.
THEOREM NoDeadlock == Spec => []LocksComeFree
  <1>1. Init => LocksAreOwn
    BY DEF Init, LocksAreOwn
  <1>2. Inv /\ LocksAreOwn => LocksComeFree
    BY DEF Inv, TypeOK, LocksAreOwn, LocksComeFree, Waits, LockFree, Reading, Writing
  <1> QED
    BY <1>1, <1>2, NextLocksAreOwn, Invariance, PTL DEF Spec

-----------------------------------------------------------------------------
(***************************************************************************)
(* What of the documentation's SerializedUpdates is so.                    *)
(***************************************************************************)

\* Payment t has a row, the host's save of it is over, and no call is under way that
\* found no row.
FirstCallsOver(t) ==
    /\ transactions[t] # ABSENT
    /\ t \notin uncreated
    /\ \A w \in Workers : pc[w] \in Reading /\ job[w].tx = t => found[w] # ABSENT

\* From then on for good, each committed change is a legal step from the row it replaces
\* (core_repository.md's promise of FOR UPDATE, which the first calls break).
SerializedAfterFirstCalls ==
    [][\A t \in Txs : FirstCallsOver(t) =>
          /\ Evaluate(transactions[t], transactions'[t])
          /\ FirstCallsOver(t)']_vars

LEMMA NextSerialized ==
    ASSUME Inv, [Next]_vars, NEW t \in Txs, FirstCallsOver(t)
    PROVE  Evaluate(transactions[t], transactions'[t]) /\ FirstCallsOver(t)'
  <1> USE ConstantsOK DEF Inv, TypeOK
  <1>1. ASSUME UNCHANGED <<transactions, uncreated>>,
               \A w \in Workers : pc'[w] \in Reading /\ job'[w].tx = t => found'[w] # ABSENT
        PROVE  Evaluate(transactions[t], transactions'[t]) /\ FirstCallsOver(t)'
    BY <1>1 DEF FirstCallsOver, Evaluate
  <1>2. ASSUME NEW w \in Workers, Begin(w) \/ Fetch(w) \/ Decide(w) \/ SaveTransaction(w)
                                  \/ SaveOutboxEvent(w)
        PROVE  Evaluate(transactions[t], transactions'[t]) /\ FirstCallsOver(t)'
    <2>1. ASSUME NEW v \in Workers, v # w
          PROVE  pc'[v] \in Reading /\ job'[v].tx = t => found'[v] # ABSENT
      BY <1>2, <2>1
      DEF Begin, Fetch, Decide, SaveTransaction, SaveOutboxEvent, dbVars, FirstCallsOver
    <2>2. pc'[w] \in Reading /\ job'[w].tx = t => found'[w] # ABSENT
      BY <1>2 DEF Begin, Fetch, Decide, SaveTransaction, SaveOutboxEvent, dbVars,
                  FirstCallsOver, Reading
    <2> QED
      BY <1>1, <1>2, <2>1, <2>2
      DEF Begin, Fetch, Decide, SaveTransaction, SaveOutboxEvent, dbVars
  <1>3. ASSUME NEW w \in Workers, Finish(w)
        PROVE  \A v \in Workers : pc'[v] \in Reading /\ job'[v].tx = t => found'[v] # ABSENT
    BY <1>3 DEF Finish, FirstCallsOver, Reading
  <1>4. ASSUME NEW w \in Workers, Commit(w)
        PROVE  Evaluate(transactions[t], transactions'[t]) /\ FirstCallsOver(t)'
    <2>1. job[w] \in Job /\ Accepts(w) /\ wrote[w] = job[w].target
      BY <1>4 DEF Commit, WriteSet, Accepted, Writing
    <2>2. CASE job[w].tx # t
      BY <1>1, <1>3, <1>4, <2>1, <2>2 DEF Commit, Job, FirstCallsOver, Evaluate
    <2>3. CASE job[w].tx = t
      <3>1. found[w] = transactions[t] /\ found[w] # ABSENT
        BY <1>4, <2>3 DEF Commit, FirstCallsOver, LockProtects, Reading
      <3>2. transactions'[t] = job[w].target /\ job[w].target # ABSENT
        BY <1>4, <2>1, <2>3 DEF Commit, Job
      <3>3. Evaluate(transactions[t], transactions'[t])
        BY <2>1, <3>1, <3>2 DEF Accepts, Entity
      <3> QED
        BY <1>3, <1>4, <3>2, <3>3 DEF Commit, FirstCallsOver
    <2> QED
      BY <2>2, <2>3
  <1>5. ASSUME NEW u \in Txs, SaveLocally(u)
        PROVE  Evaluate(transactions[t], transactions'[t]) /\ FirstCallsOver(t)'
    BY <1>5 DEF SaveLocally, FirstCallsOver, Evaluate
  <1>6. CASE UNCHANGED vars
    BY <1>1, <1>6 DEF vars, FirstCallsOver
  <1> QED
    BY <1>1, <1>2, <1>3, <1>4, <1>5, <1>6 DEF Next, Statement, Reject, Fail, dbVars

\* Once the first calls about a payment are over, its updates are serialised, for any
\* number of callers; whoever breaks the promise found no row, or is the host's own save.
THEOREM SerializedInTheEnd == Spec => SerializedAfterFirstCalls
  <1>1. Inv /\ [Next]_vars =>
           [\A t \in Txs : FirstCallsOver(t) =>
               /\ Evaluate(transactions[t], transactions'[t])
               /\ FirstCallsOver(t)']_vars
    BY NextSerialized
  <1> QED
    BY <1>1, Invariance, PTL DEF Spec, SerializedAfterFirstCalls

=============================================================================
