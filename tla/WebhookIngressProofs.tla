------------------------ MODULE WebhookIngressProofs ------------------------
(***************************************************************************)
(* Proofs about WebhookIngress for any number of payments, statuses,        *)
(* handlers, admins, rotations and faults.                                 *)
(*                                                                         *)
(* A status the gateway has announced is in the mail or in a row, and a row *)
(* that was read has been told: so an answer is a promise kept.  The        *)
(* primary secret is always the newest; while rotations wait for each other *)
(* one admin at a time has loaded it, so the secret it retires is the one   *)
(* in use and the gateway has none but the newest left to be given.        *)
(***************************************************************************)
EXTENDS WebhookIngress, SequenceTheorems, TLAPS

\* Whatever was announced is still being delivered or has its row.
AnnouncedIsKept ==
    \A n \in Notice :
        0 < n.status /\ n.status <= remote[n.payment] =>
            n \in mail \/ \E i \in DOMAIN inbox : inbox[i].notice = n

\* Asaas: the engine knows what it has read.
ReadIsTold ==
    \A i \in DOMAIN inbox :
        inbox[i].read => told[inbox[i].notice.payment] >= inbox[i].notice.status

Kept == AnnouncedIsKept /\ ReadIsTold

\* Rotations that wait for each other: one admin at a time, with the secret in use.
OneRotation ==
    \A a \in Admins : loaded[a] # None =>
        loaded[a] = newest /\ \A b \in Admins : loaded[b] # None => b = a

Keys ==
    /\ keyring.primary = newest
    /\ ~hasty => /\ OneRotation /\ untold \subseteq {newest}
                 /\ \A secret \in InUse : Accepts(secret)

-----------------------------------------------------------------------------
(* The rows.                                                                *)

\* Positions of a sequence that may have grown by one.
LEMMA Positions ==
    ASSUME NEW S, NEW s \in Seq(S), NEW x \in S
    PROVE  /\ DOMAIN s \subseteq DOMAIN Append(s, x)
           /\ \A i \in DOMAIN s : Append(s, x)[i] = s[i]
           /\ \E i \in DOMAIN Append(s, x) :
                 Append(s, x)[i] = x /\ \A j \in DOMAIN Append(s, x) : j = i \/ j \in DOMAIN s
  <1> DEFINE t == Append(s, x)
             n == Len(s)
  <1>1. n \in Nat /\ DOMAIN s = 1 .. n
    BY LenProperties
  <1>2. /\ t \in Seq(S) /\ Len(t) = n + 1
        /\ \A i \in 1 .. n : t[i] = s[i]
        /\ t[n + 1] = x
    BY AppendProperties
  <1>3. DOMAIN t = 1 .. n + 1
    BY <1>2, LenProperties
  <1> HIDE DEF t, n
  <1>4. /\ 1 .. n \subseteq 1 .. n + 1 /\ n + 1 \in 1 .. n + 1
        /\ \A j \in 1 .. n + 1 : j = n + 1 \/ j \in 1 .. n
    BY <1>1
  <1>5. \A i \in DOMAIN s : t[i] = s[i]
    BY <1>1, <1>2
  <1>6. \E i \in DOMAIN t : t[i] = x /\ \A j \in DOMAIN t : j = i \/ j \in DOMAIN s
    BY <1>1, <1>2, <1>3, <1>4
  <1>7. DOMAIN s \subseteq DOMAIN t
    BY <1>1, <1>3, <1>4
  <1> QED
    BY <1>5, <1>6, <1>7 DEF t

\* A saved notice has its row afterwards, a new one unless it was recorded, and the
\* rows before it stay.
LEMMA SavedRows ==
    ASSUME TypeOK, NEW h \in Handlers, SaveInboxEvent(h)
    PROVE  LET n == request[h].notice
               row == [notice |-> n, read |-> FALSE]
           IN  /\ n \in Notice
               /\ inbox' \in Seq(Row)
               /\ DOMAIN inbox \subseteq DOMAIN inbox'
               /\ \A i \in DOMAIN inbox : inbox'[i] = inbox[i]
               /\ Recorded(n) => inbox' = inbox
               /\ ~Recorded(n) =>
                     \E i \in DOMAIN inbox' :
                        /\ inbox'[i] = row
                        /\ \A j \in DOMAIN inbox' : j = i \/ j \in DOMAIN inbox
  <1> DEFINE n == request[h].notice
             row == [notice |-> n, read |-> FALSE]
  <1>1. n \in Notice
    BY DEF TypeOK, SaveInboxEvent, Validated, Request
  <1>2. inbox' = IF Recorded(n) THEN inbox ELSE Append(inbox, row)
    BY DEF SaveInboxEvent
  <1>3. row \in Row /\ inbox \in Seq(Row)
    BY <1>1 DEF Row, TypeOK
  <1> HIDE DEF row, n
  <1>4. CASE Recorded(n)
    BY <1>1, <1>2, <1>3, <1>4 DEF n
  <1>5. CASE ~Recorded(n)
    <2>1. inbox' = Append(inbox, row) /\ inbox' \in Seq(Row)
      BY <1>2, <1>3, <1>5, AppendProperties
    <2>2. /\ DOMAIN inbox \subseteq DOMAIN inbox'
          /\ \A i \in DOMAIN inbox : inbox'[i] = inbox[i]
          /\ \E i \in DOMAIN inbox' :
                inbox'[i] = row /\ \A j \in DOMAIN inbox' : j = i \/ j \in DOMAIN inbox
      BY <1>3, <2>1, Positions
    <2> QED
      BY <1>1, <1>5, <2>1, <2>2 DEF n, row
  <1> QED
    BY <1>4, <1>5 DEF n, row

\* Reading a row only marks it.
LEMMA ReadRows ==
    ASSUME TypeOK, NEW i \in DOMAIN inbox, Read(i)
    PROVE  /\ inbox[i] \in Row
           /\ inbox' \in Seq(Row)
           /\ DOMAIN inbox' = DOMAIN inbox
           /\ \A j \in DOMAIN inbox : inbox'[j].notice = inbox[j].notice
           /\ \A j \in DOMAIN inbox : j # i => inbox'[j] = inbox[j]
  <1> DEFINE row == [inbox[i] EXCEPT !.read = TRUE]
  <1>1. inbox \in Seq(Row) /\ DOMAIN inbox = 1 .. Len(inbox)
    BY DEF TypeOK
  <1>2. i \in 1 .. Len(inbox) /\ inbox[i] \in Row
    BY <1>1, ElementOfSeq
  <1>3. row \in Row /\ row.notice = inbox[i].notice
    BY <1>2 DEF Row
  <1>4. inbox' = [inbox EXCEPT ![i] = row]
    BY DEF Read
  <1> HIDE DEF row
  <1>5. /\ inbox' \in Seq(Row)
        /\ \A j \in DOMAIN inbox : inbox'[j] = IF j = i THEN row ELSE inbox[j]
    BY <1>1, <1>2, <1>3, <1>4, ExceptSeq
  <1>6. DOMAIN inbox' = DOMAIN inbox
    BY <1>4
  <1> QED
    BY <1>2, <1>3, <1>5, <1>6

\* Every row is of its type.
LEMMA RowTypes == TypeOK => \A i \in DOMAIN inbox : inbox[i] \in Row
  <1> SUFFICES ASSUME TypeOK, NEW i \in DOMAIN inbox PROVE inbox[i] \in Row
    OBVIOUS
  <1>1. inbox \in Seq(Row) /\ i \in 1 .. Len(inbox)
    BY DEF TypeOK
  <1> QED
    BY <1>1, ElementOfSeq

-----------------------------------------------------------------------------
(* Types.                                                                   *)

\* What is read of a row is a status, and the engine's knowledge never shrinks.
LEMMA ToldGrows ==
    ASSUME TypeOK, NEW i \in DOMAIN inbox, Read(i)
    PROVE  /\ told' \in [Payments -> Statuses]
           /\ \A p \in Payments : told[p] <= told'[p]
           /\ TranslatePayload(inbox[i].notice) <= told'[inbox[i].notice.payment]
  <1> DEFINE n == inbox[i].notice
             now == TranslatePayload(n)
  <1>1. n.payment \in Payments /\ n.status \in Statuses
    BY ReadRows DEF Row, Notice
  <1>2. now \in Statuses
    BY <1>1 DEF TranslatePayload, TypeOK
  <1>3. told' = [told EXCEPT ![n.payment] = IF now > @ THEN now ELSE @]
    BY DEF Read
  <1> HIDE DEF now
  <1>4. \A p \in Payments : told[p] \in Int /\ now \in Int
    BY <1>2, IngressConstants DEF TypeOK, Statuses
  <1>5. told' \in [Payments -> Statuses]
    BY <1>1, <1>2, <1>3 DEF TypeOK
  <1>6. /\ told'[n.payment] = IF now > told[n.payment] THEN now ELSE told[n.payment]
        /\ \A p \in Payments : p # n.payment => told'[p] = told[p]
    BY <1>1, <1>3 DEF TypeOK
  <1>7. \A p \in Payments : told[p] <= told'[p]
    BY <1>4, <1>6
  <1>8. now <= told'[n.payment]
    BY <1>1, <1>4, <1>6
  <1> QED
    BY <1>5, <1>7, <1>8 DEF now

LEMMA InitTypeOK == Init => TypeOK
  <1> SUFFICES ASSUME Init PROVE TypeOK
    OBVIOUS
  <1>1. 0 \in Statuses /\ 0 \in Secrets /\ 0 \in 0 .. MaxFaults
    BY IngressConstants DEF Statuses, Secrets
  <1>2. inbox \in Seq(Row)
    BY EmptySeq DEF Init
  <1> QED
    BY <1>1, <1>2 DEF Init, TypeOK

LEMMA NextTypeOK == TypeOK /\ [Next]_vars => TypeOK'
  <1> SUFFICES ASSUME TypeOK, [Next]_vars PROVE TypeOK'
    OBVIOUS
  <1> USE DEF keys
  <1>1. ASSUME NEW p \in Payments, Change(p) PROVE TypeOK'
    <2>1. remote[p] + 1 \in Statuses
      BY <1>1, IngressConstants DEF Change, TypeOK, Statuses
    <2>2. [payment |-> p, status |-> remote[p] + 1] \in Notice
      BY <2>1 DEF Notice
    <2> QED
      BY <1>1, <2>1, <2>2 DEF Change, TypeOK
  <1>2. ASSUME NEW h \in Handlers, NEW n \in mail, Deliver(h, n) PROVE TypeOK'
    <2>1. [notice |-> n, secret |-> signing, valid |-> FALSE] \in Request
      BY DEF TypeOK, Request
    <2> QED
      BY <1>2, <2>1 DEF Deliver, TypeOK
  <1>3. ASSUME NEW h \in Handlers, ServeHTTP(h) PROVE TypeOK'
    <2>1. ASSUME request' = [request EXCEPT ![h] = None]
          PROVE  request' \in [Handlers -> Request \cup {None}]
      BY <2>1 DEF TypeOK
    <2>2. CASE Validate(h)
      <3>1. [request[h] EXCEPT !.valid = TRUE] \in Request
        BY <2>2 DEF Validate, TypeOK, Request
      <3> QED
        BY <2>2, <3>1 DEF Validate, TypeOK
    <2>3. CASE Unauthorized(h)
      BY <2>1, <2>3 DEF Unauthorized, Answer, TypeOK
    <2>4. CASE SaveInboxEvent(h)
      <3>1. inbox' \in Seq(Row)
        BY <2>4, SavedRows
      <3>2. mail' \subseteq mail
        BY <2>4 DEF SaveInboxEvent
      <3>3. faults' \in 0 .. MaxFaults
        BY <2>4, IngressConstants DEF SaveInboxEvent, TypeOK
      <3> QED
        BY <2>1, <2>4, <3>1, <3>2, <3>3 DEF SaveInboxEvent, Answer, TypeOK
    <2>5. CASE NotSaved(h)
      <3>1. faults' \in 0 .. MaxFaults
        BY <2>5, IngressConstants DEF NotSaved, TypeOK
      <3> QED
        BY <2>1, <2>5, <3>1 DEF NotSaved, Answer, TypeOK
    <2> QED
      BY <1>3, <2>2, <2>3, <2>4, <2>5 DEF ServeHTTP
  <1>4. ASSUME NEW a \in Admins, LoadKeyring(a) PROVE TypeOK'
    <2>1. keyring.primary \in Secrets
      BY DEF TypeOK
    <2> QED
      BY <1>4, <2>1 DEF LoadKeyring, TypeOK
  <1>5. ASSUME NEW a \in Admins, StoreKeyring(a) PROVE TypeOK'
    <2>1. newest + 1 \in Secrets
      BY <1>5, IngressConstants DEF StoreKeyring, TypeOK, Secrets
    <2>2. keyring' \in [primary : Secrets, secondary : Secrets \cup {None}, live : BOOLEAN]
      BY <1>5, <2>1 DEF StoreKeyring, Rotate, TypeOK
    <2> QED
      BY <1>5, <2>1, <2>2 DEF StoreKeyring, TypeOK
  <1>6. ASSUME GraceEnds PROVE TypeOK'
    BY <1>6 DEF GraceEnds, TypeOK
  <1>7. ASSUME NEW secret \in untold, SwitchGateway(secret) PROVE TypeOK'
    BY <1>7 DEF SwitchGateway, TypeOK
  <1>8. ASSUME NEW i \in DOMAIN inbox, Read(i) PROVE TypeOK'
    BY <1>8, ReadRows, ToldGrows DEF Read, TypeOK
  <1>9. CASE UNCHANGED vars
    BY <1>9 DEF vars, TypeOK
  <1> QED
    BY <1>1, <1>2, <1>3, <1>4, <1>5, <1>6, <1>7, <1>8, <1>9 DEF Next

\* Every variable keeps its type; the inbox is a sequence of rows.
THEOREM TypeCorrect == Spec => []TypeOK
  BY InitTypeOK, NextTypeOK, PTL DEF Spec

-----------------------------------------------------------------------------
(* One row per notice.                                                      *)

\* A step that is neither the saving nor the reading of a row leaves the inbox alone.
LEMMA InboxSteps ==
    ASSUME [Next]_vars,
           \A h \in Handlers : ~SaveInboxEvent(h),
           \A i \in DOMAIN inbox : ~Read(i)
    PROVE  UNCHANGED <<inbox, told>>
  BY DEF Next, vars, ServeHTTP, Change, Deliver, Validate, Unauthorized, NotSaved, Answer,
         LoadKeyring, StoreKeyring, GraceEnds, SwitchGateway

LEMMA NextOneRow == TypeOK /\ OneRowPerNotice /\ [Next]_vars => OneRowPerNotice'
  <1> SUFFICES ASSUME TypeOK, OneRowPerNotice, [Next]_vars PROVE OneRowPerNotice'
    OBVIOUS
  <1>2. ASSUME NEW h \in Handlers, SaveInboxEvent(h) PROVE OneRowPerNotice'
    <2> DEFINE n == request[h].notice
               row == [notice |-> n, read |-> FALSE]
    <2>1. /\ \A i \in DOMAIN inbox : inbox'[i] = inbox[i]
          /\ Recorded(n) => inbox' = inbox
          /\ ~Recorded(n) =>
                \E i \in DOMAIN inbox' :
                   inbox'[i] = row /\ \A j \in DOMAIN inbox' : j = i \/ j \in DOMAIN inbox
      BY <1>2, SavedRows
    <2>2. CASE Recorded(n)
      BY <2>1, <2>2 DEF OneRowPerNotice
    <2>3. CASE ~Recorded(n)
      <3>1. PICK new \in DOMAIN inbox' :
               inbox'[new] = row /\ \A j \in DOMAIN inbox' : j = new \/ j \in DOMAIN inbox
        BY <2>1, <2>3
      <3>2. ASSUME NEW i \in DOMAIN inbox PROVE inbox'[i].notice # inbox'[new].notice
        <4>1. inbox[i].notice # n
          BY <2>3 DEF Recorded
        <4> QED
          BY <2>1, <3>1, <4>1
      <3> QED
        BY <2>1, <3>1, <3>2 DEF OneRowPerNotice
    <2> QED
      BY <2>2, <2>3
  <1>3. ASSUME NEW i \in DOMAIN inbox, Read(i) PROVE OneRowPerNotice'
    BY <1>3, ReadRows DEF OneRowPerNotice
  <1>4. CASE UNCHANGED inbox
    BY <1>4 DEF OneRowPerNotice
  <1> QED
    BY <1>2, <1>3, <1>4, InboxSteps

\* A notice becomes one row, however often and concurrently it is delivered
\* (Fingerprint and the unique index).
THEOREM Deduplication == Spec => []OneRowPerNotice
  <1>1. Init => OneRowPerNotice
    BY DEF Init, OneRowPerNotice
  <1> QED
    BY <1>1, InitTypeOK, NextTypeOK, NextOneRow, PTL DEF Spec

-----------------------------------------------------------------------------
(* The promise of the 202.                                                  *)

\* At Asaas a row with the fingerprint of a notice is about that very notice.
LEMMA AsaasFingerprints ==
    ASSUME Adapter = "asaas", NEW m \in Notice, NEW n \in Notice,
           Fingerprint(m) = Fingerprint(n)
    PROVE  m = n
  <1>1. /\ Fingerprint(m) = <<m.payment, m.status>>
        /\ Fingerprint(n) = <<n.payment, n.status>>
    BY DEF Fingerprint
  <1>2. <<m.payment, m.status>> = <<n.payment, n.status>>
    BY <1>1
  <1>3. m.payment = n.payment /\ m.status = n.status
    BY <1>2
  <1>4. /\ m = [payment |-> m.payment, status |-> m.status]
        /\ n = [payment |-> n.payment, status |-> n.status]
    BY DEF Notice
  <1> QED
    BY <1>3, <1>4

LEMMA NextAnnounced ==
    ASSUME Adapter = "asaas", TypeOK, AnnouncedIsKept, [Next]_vars
    PROVE  AnnouncedIsKept'
  <1> DEFINE HasRow(rows, n) == \E i \in DOMAIN rows : rows[i].notice = n
  <1>2. ASSUME NEW p \in Payments, Change(p) PROVE AnnouncedIsKept'
    <2> SUFFICES ASSUME NEW n \in Notice, 0 < n.status, n.status <= remote'[n.payment],
                        ~HasRow(inbox, n)
                 PROVE  n \in mail'
      BY <1>2 DEF AnnouncedIsKept, Change
    <2>1. /\ n.payment \in Payments /\ n.status \in Int /\ remote[n.payment] \in Int
          /\ n = [payment |-> n.payment, status |-> n.status]
      BY IngressConstants DEF Notice, Statuses, TypeOK
    <2>2. CASE n.status <= remote[n.payment]
      BY <1>2, <2>2 DEF AnnouncedIsKept, Change
    <2>3. CASE ~(n.status <= remote[n.payment])
      <3>1. n.payment = p /\ n.status = remote[p] + 1
        BY <1>2, <2>1, <2>3 DEF Change, TypeOK
      <3> QED
        BY <1>2, <2>1, <3>1 DEF Change
    <2> QED
      BY <2>2, <2>3
  <1>3. ASSUME NEW h \in Handlers, SaveInboxEvent(h) PROVE AnnouncedIsKept'
    <2> DEFINE m == request[h].notice
    <2>1. /\ m \in Notice
          /\ DOMAIN inbox \subseteq DOMAIN inbox'
          /\ \A i \in DOMAIN inbox : inbox'[i] = inbox[i]
          /\ ~Recorded(m) => \E i \in DOMAIN inbox' : inbox'[i] = [notice |-> m, read |-> FALSE]
      BY <1>3, SavedRows
    <2>2. UNCHANGED remote /\ (UNCHANGED mail \/ mail' = mail \ {m})
      BY <1>3 DEF SaveInboxEvent, Answer
    <2> HIDE DEF m
    <2>3. ASSUME NEW n, HasRow(inbox, n) PROVE HasRow(inbox', n)
      BY <2>1, <2>3
    <2>4. HasRow(inbox', m)
      <3>1. CASE Recorded(m)
        <4>1. PICK i \in DOMAIN inbox : Fingerprint(inbox[i].notice) = Fingerprint(m)
          BY <3>1 DEF Recorded
        <4>2. inbox[i].notice \in Notice
          BY RowTypes DEF Row
        <4>3. inbox[i].notice = m
          BY <2>1, <4>1, <4>2, AsaasFingerprints
        <4> QED
          BY <2>3, <4>3
      <3>2. CASE ~Recorded(m)
        BY <2>1, <3>2
      <3> QED
        BY <3>1, <3>2
    <2> SUFFICES ASSUME NEW n \in Notice, 0 < n.status, n.status <= remote'[n.payment],
                        n \notin mail'
                 PROVE  HasRow(inbox', n)
      BY DEF AnnouncedIsKept
    <2>5. n \in mail \/ HasRow(inbox, n)
      BY <2>2 DEF AnnouncedIsKept
    <2>6. n = m \/ HasRow(inbox, n)
      BY <2>2, <2>5
    <2> HIDE DEF HasRow
    <2> QED
      BY <2>3, <2>4, <2>6
  <1>4. ASSUME NEW i \in DOMAIN inbox, Read(i) PROVE AnnouncedIsKept'
    BY <1>4, ReadRows DEF AnnouncedIsKept, Read
  <1>5. ASSUME UNCHANGED <<remote, mail, inbox>> PROVE AnnouncedIsKept'
    BY <1>5 DEF AnnouncedIsKept
  <1>6. ASSUME NEW h \in Handlers, ServeHTTP(h) PROVE AnnouncedIsKept'
    BY <1>3, <1>5, <1>6 DEF ServeHTTP, Validate, Unauthorized, NotSaved, Answer
  <1>7. ASSUME NEW a \in Admins, LoadKeyring(a) \/ StoreKeyring(a) PROVE AnnouncedIsKept'
    BY <1>5, <1>7 DEF LoadKeyring, StoreKeyring
  <1>8. ASSUME NEW h \in Handlers, NEW n \in mail, Deliver(h, n) PROVE AnnouncedIsKept'
    BY <1>5, <1>8 DEF Deliver
  <1>9. ASSUME GraceEnds \/ \E secret \in untold : SwitchGateway(secret) PROVE AnnouncedIsKept'
    BY <1>5, <1>9 DEF GraceEnds, SwitchGateway
  <1>10. CASE UNCHANGED vars
    BY <1>5, <1>10 DEF vars
  <1> QED
    BY <1>2, <1>4, <1>6, <1>7, <1>8, <1>9, <1>10 DEF Next

LEMMA NextRead ==
    ASSUME Adapter = "asaas", TypeOK, ReadIsTold, [Next]_vars
    PROVE  ReadIsTold'
  <1>2. ASSUME NEW h \in Handlers, SaveInboxEvent(h) PROVE ReadIsTold'
    <2> DEFINE row == [notice |-> request[h].notice, read |-> FALSE]
    <2>1. /\ \A i \in DOMAIN inbox : inbox'[i] = inbox[i]
          /\ \A i \in DOMAIN inbox' : i \in DOMAIN inbox \/ inbox'[i] = row
      BY <1>2, SavedRows
    <2>2. UNCHANGED told /\ ~row.read
      BY <1>2 DEF SaveInboxEvent, Answer
    <2> HIDE DEF row
    <2> QED
      BY <2>1, <2>2 DEF ReadIsTold
  <1>3. ASSUME NEW i \in DOMAIN inbox, Read(i) PROVE ReadIsTold'
    <2>1. /\ DOMAIN inbox' = DOMAIN inbox
          /\ \A j \in DOMAIN inbox : inbox'[j].notice = inbox[j].notice
          /\ \A j \in DOMAIN inbox : j # i => inbox'[j] = inbox[j]
      BY <1>3, ReadRows
    <2>2. /\ told' \in [Payments -> Statuses]
          /\ \A p \in Payments : told[p] <= told'[p]
          /\ inbox[i].notice.status <= told'[inbox[i].notice.payment]
      BY <1>3, ToldGrows DEF TranslatePayload
    <2>3. ASSUME NEW j \in DOMAIN inbox, inbox'[j].read
          PROVE  told'[inbox[j].notice.payment] >= inbox[j].notice.status
      <3> DEFINE p == inbox[j].notice.payment
                 s == inbox[j].notice.status
      <3>1. p \in Payments /\ s \in Statuses
        BY RowTypes DEF Row, Notice
      <3>2. told[p] \in Statuses /\ told'[p] \in Statuses /\ told[p] <= told'[p]
        BY <2>2, <3>1 DEF TypeOK
      <3>3. s <= told[p] \/ s <= told'[p]
        <4>1. CASE j = i
          BY <2>2, <4>1
        <4>2. CASE j # i
          <5>1. told[p] >= s
            BY <2>1, <2>3, <4>2 DEF ReadIsTold
          <5> HIDE DEF p, s
          <5> QED
            BY <3>1, <3>2, <5>1, IngressConstants DEF Statuses
        <4> QED
          BY <4>1, <4>2
      <3> HIDE DEF p, s
      <3>4. told'[p] >= s
        BY <3>1, <3>2, <3>3, IngressConstants DEF Statuses
      <3> QED
        BY <3>4 DEF p, s
    <2> QED
      BY <2>1, <2>3 DEF ReadIsTold
  <1>4. CASE UNCHANGED <<inbox, told>>
    BY <1>4 DEF ReadIsTold
  <1> QED
    BY <1>2, <1>3, <1>4, InboxSteps

\* At Asaas a notice that was answered 202 has reached the engine or will be read,
\* duplicates included (ServeHTTP's two answers 202, Fingerprint).
THEOREM AsaasKeepsWhatItAnswers ==
    ASSUME Adapter = "asaas" PROVE Spec => []AnsweredIsKept
  <1>1. Init => Kept
    <2> SUFFICES ASSUME Init PROVE Kept
      OBVIOUS
    <2>1. ReadIsTold
      BY DEF Init, ReadIsTold
    <2>2. ASSUME NEW n \in Notice, 0 < n.status, n.status <= remote[n.payment] PROVE FALSE
      BY <2>2, IngressConstants DEF Init, Notice, Statuses
    <2> QED
      BY <2>1, <2>2 DEF Kept, AnnouncedIsKept
  <1>2. TypeOK /\ Kept /\ [Next]_vars => Kept'
    BY NextAnnounced, NextRead DEF Kept
  <1>3. TypeOK /\ Kept => AnsweredIsKept
    <2> SUFFICES ASSUME TypeOK, Kept, NEW n \in Notice, 0 < n.status,
                        n.status <= remote[n.payment], n \notin mail,
                        ~(told[n.payment] >= n.status)
                 PROVE  \E i \in DOMAIN inbox :
                           /\ ~inbox[i].read
                           /\ inbox[i].notice.payment = n.payment
                           /\ TranslatePayload(inbox[i].notice) >= n.status
      BY DEF AnsweredIsKept
    <2>1. PICK i \in DOMAIN inbox : inbox[i].notice = n
      BY DEF Kept, AnnouncedIsKept
    <2>2. ~inbox[i].read
      BY <2>1 DEF Kept, ReadIsTold
    <2>3. TranslatePayload(n) = n.status /\ n.status >= n.status
      BY IngressConstants DEF TranslatePayload, Notice, Statuses
    <2> QED
      BY <2>1, <2>2, <2>3
  <1> QED
    BY <1>1, <1>2, <1>3, InitTypeOK, NextTypeOK, PTL DEF Spec

-----------------------------------------------------------------------------
(* The keyring.                                                             *)

\* What a step that leaves the keyring alone may sign with.
LEMMA KeysStay ==
    ASSUME TypeOK, Keys, UNCHANGED <<keyring, loaded, newest, hasty>>,
           untold' \subseteq untold, ~hasty => InUse' \subseteq InUse \cup {newest}
    PROVE  Keys'
  <1>1. keyring' = keyring /\ newest' = newest
    OBVIOUS
  <1>2. Accepts(newest)
    BY DEF Keys, Accepts
  <1>3. \A secret : Accepts(secret)' <=> Accepts(secret)
    BY DEF Accepts
  <1>4. OneRotation' <=> OneRotation
    BY DEF OneRotation
  <1> QED
    BY <1>2, <1>3, <1>4 DEF Keys

LEMMA NextKeys == TypeOK /\ Keys /\ [Next]_vars => Keys'
  <1> SUFFICES ASSUME TypeOK, Keys, [Next]_vars PROVE Keys'
    OBVIOUS
  <1> USE DEF keys
  <1>1. ASSUME NEW p \in Payments, Change(p) PROVE Keys'
    BY <1>1, KeysStay DEF Change, InUse
  <1>2. ASSUME NEW h \in Handlers, NEW n \in mail, Deliver(h, n) PROVE Keys'
    <2>1. request'[h].secret = signing /\ \A g \in Handlers : g # h => request'[g] = request[g]
      BY <1>2 DEF Deliver, TypeOK
    <2>2. InUse' \subseteq InUse
      BY <1>2, <2>1 DEF Deliver, InUse
    <2> QED
      BY <1>2, <2>2, KeysStay DEF Deliver
  <1>3. ASSUME NEW h \in Handlers, ServeHTTP(h) PROVE Keys'
    <2>1. /\ UNCHANGED keys
          /\ \A g \in Handlers :
                request'[g] = None \/ (request[g] # None /\ request'[g].secret = request[g].secret)
      <3>1. CASE Validate(h)
        <4>1. request[h] \in Request /\ request' = [request EXCEPT ![h].valid = TRUE]
          BY <3>1 DEF Validate, TypeOK
        <4>2. /\ request'[h].secret = request[h].secret
              /\ \A g \in Handlers : g # h => request'[g] = request[g]
          BY <4>1 DEF TypeOK, Request
        <4> QED
          BY <3>1, <4>2 DEF Validate
      <3>2. CASE request' = [request EXCEPT ![h] = None] /\ UNCHANGED keys
        BY <3>2 DEF TypeOK
      <3> QED
        BY <1>3, <3>1, <3>2 DEF ServeHTTP, Unauthorized, SaveInboxEvent, NotSaved, Answer
    <2>2. InUse' \subseteq InUse
      BY <2>1 DEF InUse
    <2> QED
      BY <2>1, <2>2, KeysStay
  <1>4. ASSUME NEW a \in Admins, LoadKeyring(a) PROVE Keys'
    <2>1. /\ keyring.primary = newest
          /\ loaded' = [loaded EXCEPT ![a] = newest]
          /\ hasty' = (hasty \/ \E b \in Admins : loaded[b] # None)
          /\ UNCHANGED <<keyring, newest, untold, signing, request>>
      BY <1>4 DEF LoadKeyring, Keys
    <2>2. /\ \A secret : Accepts(secret)' <=> Accepts(secret)
          /\ InUse' = InUse
      BY <2>1 DEF Accepts, InUse
    <2>3. ~hasty' => OneRotation'
      BY <2>1 DEF OneRotation, TypeOK
    <2> QED
      BY <2>1, <2>2, <2>3 DEF Keys
  <1>5. ASSUME NEW a \in Admins, StoreKeyring(a) PROVE Keys'
    <2>1. /\ loaded[a] # None
          /\ newest' = newest + 1
          /\ keyring' = [primary |-> newest + 1, secondary |-> loaded[a], live |-> TRUE]
          /\ loaded' = [loaded EXCEPT ![a] = None]
          /\ untold' = untold \cup {newest + 1}
          /\ hasty' = (hasty \/ ~RotationOver)
          /\ UNCHANGED <<signing, request>>
      BY <1>5 DEF StoreKeyring, Rotate
    <2>2. ASSUME ~hasty'
          PROVE  /\ OneRotation' /\ untold' \subseteq {newest'}
                 /\ \A secret \in InUse' : Accepts(secret)'
      <3>1. loaded[a] = newest /\ \A b \in Admins : loaded[b] # None => b = a
        BY <2>1, <2>2 DEF Keys, OneRotation
      <3>2. OneRotation'
        BY <2>1, <3>1 DEF OneRotation, TypeOK
      <3>3. InUse' = {newest} /\ untold' = {newest + 1}
        BY <2>1, <2>2 DEF InUse, RotationOver
      <3> QED
        BY <2>1, <3>1, <3>2, <3>3 DEF Accepts
    <2> QED
      BY <2>1, <2>2 DEF Keys
  <1>6. ASSUME GraceEnds PROVE Keys'
    <2>1. /\ keyring' = [keyring EXCEPT !.live = FALSE]
          /\ hasty' = (hasty \/ ~RotationOver)
          /\ UNCHANGED <<signing, request, loaded, newest, untold>>
      BY <1>6 DEF GraceEnds
    <2>2. keyring'.primary = newest
      BY <2>1 DEF Keys, TypeOK
    <2>3. InUse' = InUse /\ (OneRotation' <=> OneRotation)
      BY <2>1 DEF InUse, OneRotation
    <2> QED
      BY <2>1, <2>2, <2>3 DEF Keys, Accepts, RotationOver
  <1>7. ASSUME NEW secret \in untold, SwitchGateway(secret) PROVE Keys'
    <2>1. ~hasty => InUse' \subseteq InUse \cup {newest}
      BY <1>7 DEF SwitchGateway, InUse, Keys
    <2> QED
      BY <1>7, <2>1, KeysStay DEF SwitchGateway
  <1>8. ASSUME NEW i \in DOMAIN inbox, Read(i) PROVE Keys'
    BY <1>8, KeysStay DEF Read, InUse
  <1>9. CASE UNCHANGED vars
    BY <1>9, KeysStay DEF vars, InUse
  <1> QED
    BY <1>1, <1>2, <1>3, <1>4, <1>5, <1>6, <1>7, <1>8, <1>9 DEF Next

\* Rotations that wait for the one before refuse nothing that is under way
\* (RotateWebhookSecret, IsSecondaryValid, ValidateWebhook).
THEOREM SmoothRotation == Spec => []RotationIsSmooth
  <1>1. Init => Keys
    BY DEF Init, Keys, OneRotation, InUse, Accepts
  <1>2. Keys => RotationIsSmooth
    BY DEF Keys, RotationIsSmooth
  <1> QED
    BY <1>1, <1>2, InitTypeOK, NextTypeOK, NextKeys, PTL DEF Spec

=============================================================================
