----------------------------- MODULE EventQueue -----------------------------
(***************************************************************************)
(* What the inbox and outbox tables promise as work queues: an event that   *)
(* arrived is worked on until it is done or dead; it is done only after its *)
(* work was applied, and then for ever; only a dead event can be replayed.  *)
(*                                                                         *)
(* All of it rests on workers that finish a batch within its lease.  Once   *)
(* one is late, several work on the same event and the last one to finish   *)
(* has the say; what remains is that nothing is done without being applied. *)
(*                                                                         *)
(* Abstract specification: InboxConsumer and OutboxRelay implement it.      *)
(***************************************************************************)
CONSTANT Events

VARIABLES
    phase,          \* [Events -> {"absent", "waiting", "done", "dead"}]
    applied,        \* events whose work has been applied
    late            \* some worker has outlived its lease

vars == <<phase, applied, late>>

Init ==
    /\ phase = [e \in Events |-> "absent"]
    /\ applied = {}
    /\ late = FALSE

\* Someone may be working on the event.
AtWork(e) == phase[e] = "waiting" \/ (late /\ phase[e] # "absent")

MoveTo(e, next) ==
    /\ phase' = [phase EXCEPT ![e] = next]
    /\ UNCHANGED <<applied, late>>

Arrive(e) == phase[e] = "absent" /\ MoveTo(e, "waiting")
Finish(e) == AtWork(e) /\ e \in applied /\ MoveTo(e, "done")
Retry(e) == AtWork(e) /\ MoveTo(e, "waiting")
Bury(e) == AtWork(e) /\ MoveTo(e, "dead")
Replay(e) == phase[e] = "dead" /\ MoveTo(e, "waiting")

\* The work is applied at least once.
Apply(e) ==
    /\ AtWork(e)
    /\ applied' = applied \cup {e}
    /\ UNCHANGED <<phase, late>>

Overrun ==
    /\ late' = TRUE
    /\ UNCHANGED <<phase, applied>>

Next ==
    \/ \E e \in Events :
          Arrive(e) \/ Apply(e) \/ Finish(e) \/ Retry(e) \/ Bury(e) \/ Replay(e)
    \/ Overrun

Spec == Init /\ [][Next]_vars

=============================================================================
