--------------------------- MODULE MCInboxConsumer ---------------------------
(***************************************************************************)
(* Small instances of InboxConsumer for TLC: two workers, two or three      *)
(* events about one payment, so that batches overlap, order matters and a   *)
(* repeated event meets a payment that has moved on.                       *)
(***************************************************************************)
EXTENDS InboxConsumer

CONSTANTS w1, w2, t1

Two == {w1, w2}
OneWorker == {w1}
Payment == {t1}

About(target) == [kind |-> "good", tx |-> t1, target |-> target]
Malformed == [kind |-> "malformed", tx |-> t1, target |-> Pending]
Live == [kind |-> "live", tx |-> t1, target |-> Pending]
Nil == [kind |-> "nil", tx |-> t1, target |-> Pending]

\* A confirmation, the end of a refund, a body that cannot be translated.
Mixed == {About("PAID"), About("REFUNDED"), Malformed}
\* Those, a notice that only names the payment, and an adapter that says nothing.
Anything == Mixed \cup {Live, Nil}
\* An adapter with nothing to say about the event.
Poison == {About("PAID"), Nil}
Events2 == {1, 2}

\* To keep the instance small, a notice that only names the payment comes first and
\* is followed by one that carries a status.
OneLiveInit == Init /\ payload[2] # Live /\ (payload[1] = Live => payload[2].kind = "good")
OneLiveSpec == OneLiveInit /\ [][Next]_vars /\ Fairness
=============================================================================
