--------------------------- MODULE WebhookIngress ---------------------------
(***************************************************************************)
(* The way of a gateway's notices into the inbox: WebhookHandler.ServeHTTP, *)
(* the adapter's keyring and fingerprint, the unique index of the inbox and *)
(* the adapter's reading of the row later on.                              *)
(*                                                                         *)
(* The gateway is external: it announces each change of a payment, signs    *)
(* every delivery with the secret it has been given and repeats a notice    *)
(* until it is answered 2xx, several deliveries at a time if answers are    *)
(* slow.  Its operators give it the secrets of the rotations in any order   *)
(* and it signs with the one it was given last.  The k-th secret is the     *)
(* number k, the k-th status of a payment the number k.                    *)
(***************************************************************************)
EXTENDS Naturals, Sequences

CONSTANTS
    Payments,
    LastStatus,     \* a payment at the gateway goes from status 0 to this one
    Handlers,       \* requests served at a time
    Admins,         \* callers of RotateGatewaySecret
    Adapter,        \* "asaas" or "mercadopago"
    MaxRotations,   \* bound on rotations
    MaxFaults,      \* bound on unreadable requests, lost answers, database errors
    None

ASSUME IngressConstants ==
    /\ LastStatus \in Nat
    /\ Adapter \in {"asaas", "mercadopago"}
    /\ MaxRotations \in Nat
    /\ MaxFaults \in Nat

VARIABLES
    remote,         \* the status of each payment at the gateway
    mail,           \* notices the gateway has not had an answer to
    signing,        \* the secret it signs with
    keyring,        \* primary, secondary and whether the latter's grace still runs
    loaded,         \* the primary secret each admin's rotation has read
    newest,         \* the last secret made
    untold,         \* secrets the gateway has not been given yet
    request,        \* what each handler serves
    inbox,          \* the rows, in order of insertion
    told,           \* the latest status of each payment the engine was handed
    faults,
    hasty           \* history: a rotation did not wait for the one before it to be over

vars == <<remote, mail, signing, keyring, loaded, newest, untold, request, inbox, told,
          faults, hasty>>
keys == <<signing, keyring, loaded, newest, untold, hasty>>

Statuses == 0 .. LastStatus
Secrets == 0 .. MaxRotations
Notice == [payment : Payments, status : Statuses]
Request == [notice : Notice, secret : Secrets, valid : BOOLEAN]
Row == [notice : Notice, read : BOOLEAN]

ASSUME NoneOK == None \notin Secrets /\ None \notin Request

-----------------------------------------------------------------------------
(* The gateway.                                                            *)

\* External: a payment changes and the gateway announces it.
Change(p) ==
    /\ remote[p] < LastStatus
    /\ remote' = [remote EXCEPT ![p] = @ + 1]
    /\ mail' = mail \cup {[payment |-> p, status |-> remote[p] + 1]}
    /\ UNCHANGED <<keys, request, inbox, told, faults>>

\* External: a delivery, the first or a repeated one.
Deliver(h, n) ==
    /\ request[h] = None
    /\ n \in mail
    /\ request' = [request EXCEPT ![h] = [notice |-> n, secret |-> signing, valid |-> FALSE]]
    /\ UNCHANGED <<remote, mail, keys, inbox, told, faults>>

-----------------------------------------------------------------------------
(* The keyring.                                                            *)

\* Faults: the rotation forgets to install the new secret, or installs it second.
Rotate_Unset(old, new) == [primary |-> None, secondary |-> old, live |-> TRUE]
Rotate_Swapped(old, new) == [primary |-> old, secondary |-> new, live |-> TRUE]

Rotate(old, new) == [primary |-> new, secondary |-> old, live |-> TRUE]

\* Fault: the grace period is ignored.
Accepts_PrimaryOnly(secret) == secret = keyring.primary

\* Both keys of one snapshot of the keyring.
Accepts(secret) ==
    \/ secret = keyring.primary
    \/ keyring.live /\ secret = keyring.secondary

\* Secrets that notices on their way may be signed with.
InUse == {signing} \cup {request[h].secret : h \in {g \in Handlers : request[g] # None}}

\* The last rotation has come to its end: nothing else is used or waits to be.
RotationOver == InUse = {newest} /\ untold = {}

\* RotateWebhookSecret: Load and Store are atomic, the two together are not.
LoadKeyring(a) ==
    /\ loaded[a] = None
    /\ newest < MaxRotations
    /\ loaded' = [loaded EXCEPT ![a] = keyring.primary]
    /\ hasty' = (hasty \/ \E b \in Admins : loaded[b] # None)
    /\ UNCHANGED <<remote, mail, signing, keyring, newest, untold, request, inbox, told,
                   faults>>

StoreKeyring(a) ==
    /\ loaded[a] # None
    /\ newest < MaxRotations
    /\ newest' = newest + 1
    /\ keyring' = Rotate(loaded[a], newest + 1)
    /\ loaded' = [loaded EXCEPT ![a] = None]
    /\ untold' = untold \cup {newest + 1}
    /\ hasty' = (hasty \/ ~RotationOver)
    /\ UNCHANGED <<remote, mail, signing, request, inbox, told, faults>>

\* time.Now() passes SecondaryExpiry.
GraceEnds ==
    /\ keyring.live
    /\ keyring' = [keyring EXCEPT !.live = FALSE]
    /\ hasty' = (hasty \/ ~RotationOver)
    /\ UNCHANGED <<remote, mail, signing, loaded, newest, untold, request, inbox, told,
                   faults>>

\* External: the gateway is given a rotation's secret, each once.  Of two rotations
\* that cross, the last to be given may be the one the keyring has dropped.
SwitchGateway(secret) ==
    /\ secret \in untold
    /\ signing' = secret
    /\ untold' = untold \ {secret}
    /\ UNCHANGED <<remote, mail, keyring, loaded, newest, hasty, request, inbox, told,
                   faults>>

-----------------------------------------------------------------------------
(* The handler.                                                            *)

Answer(h) ==
    /\ request' = [request EXCEPT ![h] = None]
    /\ UNCHANGED <<remote, keys, told>>

\* ValidateWebhook, 401 or on to the next step.
Validate(h) ==
    /\ request[h] # None
    /\ ~request[h].valid
    /\ Accepts(request[h].secret)
    /\ request' = [request EXCEPT ![h].valid = TRUE]
    /\ UNCHANGED <<remote, mail, keys, inbox, told, faults>>

Unauthorized(h) ==
    /\ request[h] # None
    /\ ~request[h].valid
    /\ ~Accepts(request[h].secret)
    /\ Answer(h)
    /\ UNCHANGED <<mail, inbox, faults>>

Validated(h) == request[h] # None /\ request[h].valid

\* Fault: Asaas notices without their status.
Fingerprint_Resource(n) == <<n.payment>>

\* Asaas: the payment and its status, value and due date.  Mercado Pago: the type,
\* resource and action, which every update of a payment has in common.
Fingerprint(n) ==
    CASE Adapter = "asaas"                        -> <<n.payment, n.status>>
      [] Adapter = "mercadopago" /\ n.status = 1  -> <<n.payment, "payment.created">>
      [] OTHER                                    -> <<n.payment, "payment.updated">>

\* Asaas: the id of the event or, at worst, of the delivery, which nothing but another
\* delivery of the same event can share.  Mercado Pago: the id of the payment.
SameExternalID(m, n) == Adapter = "mercadopago" /\ m.payment = n.payment

\* Fault: no index on the fingerprint.
Recorded_PerDelivery(n) == FALSE

\* The row is there: ON CONFLICT (provider, fingerprint) DO NOTHING.
Recorded(n) == \E i \in DOMAIN inbox : Fingerprint(inbox[i].notice) = Fingerprint(n)

\* external_id is UNIQUE too, and no ON CONFLICT names it.
Storable(n) ==
    Recorded(n) \/ \A i \in DOMAIN inbox : ~SameExternalID(inbox[i].notice, n)

\* SaveInboxEvent, a new row or ErrDuplicateFingerprint: 202 either way.  The
\* gateway may have stopped listening.
SaveInboxEvent(h) ==
    LET n == request[h].notice IN
    /\ Validated(h)
    /\ Storable(n)
    /\ inbox' = IF Recorded(n) THEN inbox ELSE Append(inbox, [notice |-> n, read |-> FALSE])
    /\ \/ mail' = mail \ {n} /\ UNCHANGED faults
       \/ faults < MaxFaults /\ faults' = faults + 1 /\ UNCHANGED mail
    /\ Answer(h)

\* The insertion may fail on external_id: the row is not storable, or another delivery
\* of the notice is stored meanwhile and that index is the first to see it.
Collides(n) == ~Storable(n) \/ \E i \in DOMAIN inbox : inbox[i].notice = n

\* 400 or 500: the insertion fails so or, a fault, the body of this delivery cannot be
\* read or the database fails.
NotSaved(h) ==
    /\ Validated(h)
    /\ ~Collides(request[h].notice) => faults < MaxFaults
    /\ faults' = IF Collides(request[h].notice) THEN faults ELSE faults + 1
    /\ Answer(h)
    /\ UNCHANGED <<mail, inbox>>

-----------------------------------------------------------------------------
(* The consumer.                                                           *)

\* What the adapter will say of a row: Asaas trusts the payload, Mercado Pago asks
\* the gateway.
TranslatePayload(n) == IF Adapter = "asaas" THEN n.status ELSE remote[n.payment]

\* The consumer reads a row once; EventQueue tells what becomes of it.
Read(i) ==
    LET n == inbox[i].notice IN
    /\ ~inbox[i].read
    /\ inbox' = [inbox EXCEPT ![i].read = TRUE]
    /\ told' = [told EXCEPT ![n.payment] = IF TranslatePayload(n) > @ THEN TranslatePayload(n) ELSE @]
    /\ UNCHANGED <<remote, mail, keys, request, faults>>

-----------------------------------------------------------------------------

Init ==
    /\ remote = [p \in Payments |-> 0]
    /\ mail = {}
    /\ signing = 0
    /\ keyring = [primary |-> 0, secondary |-> None, live |-> FALSE]
    /\ loaded = [a \in Admins |-> None]
    /\ newest = 0
    /\ untold = {}
    /\ request = [h \in Handlers |-> None]
    /\ inbox = <<>>
    /\ told = [p \in Payments |-> 0]
    /\ faults = 0
    /\ hasty = FALSE

ServeHTTP(h) ==
    Validate(h) \/ Unauthorized(h) \/ SaveInboxEvent(h) \/ NotSaved(h)

Next ==
    \/ \E p \in Payments : Change(p)
    \/ \E h \in Handlers : ServeHTTP(h) \/ \E n \in mail : Deliver(h, n)
    \/ \E a \in Admins : LoadKeyring(a) \/ StoreKeyring(a)
    \/ GraceEnds
    \/ \E secret \in untold : SwitchGateway(secret)
    \/ \E i \in DOMAIN inbox : Read(i)

Spec == Init /\ [][Next]_vars

\* Requests are served and rows are read; the gateway repeats what is not answered
\* and is given every secret in the end.
Fairness ==
    /\ \A h \in Handlers : WF_vars(ServeHTTP(h))
    /\ \A n \in Notice : SF_vars(\E h \in Handlers : Deliver(h, n))
    /\ WF_vars(\E secret \in untold : SwitchGateway(secret))
    /\ WF_vars(\E i \in DOMAIN inbox : Read(i))

FairSpec == Spec /\ Fairness

-----------------------------------------------------------------------------
(***************************************************************************)
(* Properties                                                              *)
(***************************************************************************)

TypeOK ==
    /\ remote \in [Payments -> Statuses]
    /\ mail \subseteq Notice
    /\ signing \in Secrets
    /\ keyring \in [primary : Secrets, secondary : Secrets \cup {None}, live : BOOLEAN]
    /\ loaded \in [Admins -> Secrets \cup {None}]
    /\ newest \in Secrets
    /\ untold \subseteq Secrets
    /\ request \in [Handlers -> Request \cup {None}]
    /\ inbox \in Seq(Row)
    /\ told \in [Payments -> Statuses]
    /\ faults \in 0 .. MaxFaults
    /\ hasty \in BOOLEAN

\* The 202 is a promise: the status the gateway announced, or a later one, has been
\* handed to the engine or is in a row that will hand it over.  A notice dropped as
\* a duplicate repeats something the engine knows or has to read (ServeHTTP's two
\* answers 202, Fingerprint; core_deduplication.md:14-20).
AnsweredIsKept ==
    \A n \in Notice :
        0 < n.status /\ n.status <= remote[n.payment] /\ n \notin mail =>
            \/ told[n.payment] >= n.status
            \/ \E i \in DOMAIN inbox :
                  /\ ~inbox[i].read
                  /\ inbox[i].notice.payment = n.payment
                  /\ TranslatePayload(inbox[i].notice) >= n.status

\* However often and however concurrently the gateway repeats a notice, it becomes
\* one row (Fingerprint and the unique index, whichever delivery comes first).
OneRowPerNotice ==
    \A i, j \in DOMAIN inbox : inbox[i].notice = inbox[j].notice => i = j

\* As long as every rotation waits until the one before it is over, and no grace period
\* ends before the gateway has the new secret and everything signed with the older one
\* has arrived, nothing the gateway sends or has sent is refused (Rotate,
\* IsSecondaryValid, ValidateWebhook).
RotationIsSmooth == ~hasty => \A secret \in InUse : Accepts(secret)

\* Every status the gateway announces is handed to the engine in the end, whatever lost
\* answers and errors there are on the way and however many rotations: patient ones, or
\* any after which the gateway is left with a secret the keyring has.
NothingMissed ==
    []~hasty \/ <>[]Accepts(signing) =>
        \A p \in Payments : \A s \in 1 .. LastStatus :
            remote[p] >= s ~> told[p] >= s

=============================================================================
