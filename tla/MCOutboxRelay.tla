---------------------------- MODULE MCOutboxRelay ----------------------------
(***************************************************************************)
(* Small instances of OutboxRelay for TLC: one or two relays and two        *)
(* events, so that a batch can be aborted between them and two rejections   *)
(* compete for the inbox.                                                  *)
(***************************************************************************)
EXTENDS OutboxRelay, Backoff

CONSTANTS r1, r2

TwoRelays == {r1, r2}
OneRelay == {r1}
AllKinds == {"refund", "notice", "unroutable"}
RefundsAndNotices == {"refund", "notice"}
Refunds == {"refund"}
\* Empty batches in a row, past the width of the shift.
Idles == 0 .. 70
Events1 == {1}
Events2 == {1, 2}
\* The provider of the second refund names its notices by the payment.
Second == {2}

\* The pauses between batches, which take no part in the state.
ASSUME PauseIsExponential
=============================================================================
