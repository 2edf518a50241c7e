--------------------------- MODULE CircuitBreaker ---------------------------
(***************************************************************************)
(* internal/core/resilience/breaker.go shared by concurrent goroutines, at  *)
(* the granularity of its synchronisation: every critical section of mu and *)
(* every atomic operation on pFailure and requestCount is one action.       *)
(*                                                                         *)
(* A caller behaves as OutboxRelay does: Allow, then zero or more external  *)
(* calls each followed by RecordResult, looking at GetState in between.     *)
(*                                                                         *)
(* Abstractions.  The failure estimate P is an integer in 0..Scale, the     *)
(* EWMA weights are the integers Keep : Weight, and the division rounds     *)
(* down.  requestCount is only compared with MinRequests, so it saturates   *)
(* there.  Time is the one bit the code asks of it: has ResetTimeout gone   *)
(* by since the lastTransition the reader holds.                           *)
(***************************************************************************)
EXTENDS Naturals, FiniteSets

CONSTANTS
    Callers,            \* goroutines sharing the breaker
    Forgetful,          \* those that may end without recording any result
    Scale, Keep, Weight,
    FailureThreshold,   \* tau, in 0..Scale
    MinRequests,
    NoCaller

ASSUME BreakerConstants ==
    /\ Forgetful \subseteq Callers
    /\ Scale \in Nat \ {0} /\ Keep \in Nat /\ Weight \in Nat \ {0}
    /\ FailureThreshold \in 0 .. Scale
    /\ MinRequests \in Nat
    /\ NoCaller \notin Callers

VARIABLES
    state,          \* cb.state
    expired,        \* the current OPEN has lasted longer than ResetTimeout
    pFailure,       \* cb.pFailure
    requestCount,   \* cb.requestCount, saturated at MinRequests
    pc,             \* where each caller is
    lapsed,         \* the lastTransition this caller read is older than ResetTimeout
    failed,         \* the result this caller records is an error
    oldP,           \* RecordResult: P read before the compare-and-swap
    currentP,       \* RecordResult: P read after it
    totalReq,       \* RecordResult: requestCount read after it
    prober          \* history: who made the breaker HALF_OPEN

vars == <<state, expired, pFailure, requestCount, pc, lapsed, failed, oldP,
          currentP, totalReq, prober>>
breaker == <<state, expired, prober>>
estimate == <<pFailure, requestCount>>
locals == <<lapsed, failed, oldP, currentP, totalReq>>

Recording == {"load", "cas", "count", "readP", "readCount", "decide"}
Steps == {"idle", "check", "escalate", "allowed", "more"} \cup Recording

-----------------------------------------------------------------------------

\* Fault: the old estimate is not discounted.
Ewma_Accumulates(p, isError) ==
    p + (Weight * (IF isError THEN Scale ELSE 0)) \div (Keep + Weight)

\* P_new = (1 - alpha) * P_old + alpha * result
Ewma(p, isError) ==
    (Keep * p + Weight * (IF isError THEN Scale ELSE 0)) \div (Keep + Weight)

Saturated(n) == IF n > MinRequests THEN MinRequests ELSE n

\* Moving to the state the breaker is in keeps lastTransition.
SetState(next) ==
    /\ state' = next
    /\ expired' = (expired /\ state = next)

Goto(c, step) == pc' = [pc EXCEPT ![c] = step]

\* Back to the top of the caller's loop; its locals are dead.
Return(c) ==
    /\ Goto(c, "idle")
    /\ lapsed' = [lapsed EXCEPT ![c] = FALSE]
    /\ UNCHANGED <<failed, oldP, currentP, totalReq>>

-----------------------------------------------------------------------------
(***************************************************************************)
(* Allow                                                                   *)
(***************************************************************************)

\* The read-locked snapshot, and the returns that depend on it alone.
Snapshot(c) ==
    /\ pc[c] = "idle"
    /\ \/ /\ state = "CLOSED"
          /\ Goto(c, "allowed")
          /\ UNCHANGED locals
       \/ /\ state = "HALF_OPEN"
          /\ Return(c)
       \/ /\ state = "OPEN"
          /\ Goto(c, "check")
          /\ lapsed' = [lapsed EXCEPT ![c] = expired]
          /\ UNCHANGED <<failed, oldP, currentP, totalReq>>
    /\ UNCHANGED <<breaker, estimate>>

\* time.Since(lastT) > ResetTimeout, on the lastTransition of the snapshot.
CheckElapsed(c) ==
    /\ pc[c] = "check"
    /\ \/ /\ lapsed[c]
          /\ Goto(c, "escalate")
          /\ UNCHANGED locals
       \/ /\ ~lapsed[c]
          /\ Return(c)
    /\ UNCHANGED <<breaker, estimate>>

\* Faults: the state is not looked at again under the write lock; the time is
\* compared the wrong way round.
MayProbe_NoRecheck == state # "CLOSED"
MayProbe_Inverted == state = "OPEN" /\ ~expired

\* The second look of the double-checked locking.
MayProbe == state = "OPEN" /\ expired

EnterHalfOpen(c) ==
    /\ pc[c] = "escalate"
    /\ \/ /\ MayProbe
          /\ SetState("HALF_OPEN")
          /\ prober' = c
          /\ Goto(c, "allowed")
          /\ lapsed' = [lapsed EXCEPT ![c] = FALSE]
          /\ UNCHANGED <<failed, oldP, currentP, totalReq>>
       \/ /\ ~MayProbe
          /\ Return(c)
          /\ UNCHANGED breaker
    /\ UNCHANGED estimate

-----------------------------------------------------------------------------
(***************************************************************************)
(* RecordResult                                                            *)
(***************************************************************************)

\* The external call answers, well or badly.
Answer(c) ==
    /\ pc[c] = "allowed"
    /\ \E isError \in BOOLEAN : failed' = [failed EXCEPT ![c] = isError]
    /\ Goto(c, "load")
    /\ UNCHANGED <<breaker, estimate, lapsed, oldP, currentP, totalReq>>

\* A batch with nothing to send to a gateway records nothing.
Skip(c) ==
    /\ pc[c] = "allowed"
    /\ c \in Forgetful
    /\ Return(c)
    /\ UNCHANGED <<breaker, estimate>>

LoadOld(c) ==
    /\ pc[c] = "load"
    /\ oldP' = [oldP EXCEPT ![c] = pFailure]
    /\ Goto(c, "cas")
    /\ UNCHANGED <<breaker, estimate, lapsed, failed, currentP, totalReq>>

CompareAndSwap(c) ==
    /\ pc[c] = "cas"
    /\ \/ /\ pFailure = oldP[c]
          /\ pFailure' = Ewma(oldP[c], failed[c])
          /\ Goto(c, "count")
       \/ /\ pFailure # oldP[c]
          /\ Goto(c, "load")
          /\ UNCHANGED pFailure
    /\ oldP' = [oldP EXCEPT ![c] = 0]
    /\ UNCHANGED <<breaker, requestCount, lapsed, failed, currentP, totalReq>>

AddCount(c) ==
    /\ pc[c] = "count"
    /\ requestCount' = Saturated(requestCount + 1)
    /\ Goto(c, "readP")
    /\ UNCHANGED <<breaker, pFailure, locals>>

ReadP(c) ==
    /\ pc[c] = "readP"
    /\ currentP' = [currentP EXCEPT ![c] = pFailure]
    /\ Goto(c, "readCount")
    /\ UNCHANGED <<breaker, estimate, lapsed, failed, oldP, totalReq>>

ReadCount(c) ==
    /\ pc[c] = "readCount"
    /\ totalReq' = [totalReq EXCEPT ![c] = requestCount]
    /\ Goto(c, "decide")
    /\ UNCHANGED <<breaker, estimate, lapsed, failed, oldP, currentP>>

\* Faults: a success closes the breaker whatever its state; only a failure
\* may trip it.
Closes_Always(c) == ~failed[c]
Trips_OnFailure(c) ==
    failed[c] /\ totalReq[c] >= MinRequests /\ currentP[c] > FailureThreshold

Closes(c) == state = "HALF_OPEN" /\ ~failed[c]
Trips(c) == totalReq[c] >= MinRequests /\ currentP[c] > FailureThreshold

\* Fault: a failed test leaves the breaker half-open.
Reopens_ByRate(c) == Trips(c)

Reopens(c) == state = "HALF_OPEN" \/ Trips(c)

\* The write-locked analysis.  A first result decides HALF_OPEN; otherwise the
\* rates read before the lock do.
Decide(c) ==
    /\ pc[c] = "decide"
    /\ \/ /\ Closes(c)
          /\ SetState("CLOSED")
          /\ pFailure' = 0
       \/ /\ ~Closes(c)
          /\ Reopens(c)
          /\ SetState("OPEN")
          /\ UNCHANGED pFailure
       \/ /\ ~Closes(c)
          /\ ~Reopens(c)
          /\ UNCHANGED <<state, expired, pFailure>>
    /\ prober' = IF state' = "HALF_OPEN" THEN prober ELSE NoCaller
    /\ Goto(c, "more")
    /\ failed' = [failed EXCEPT ![c] = FALSE]
    /\ currentP' = [currentP EXCEPT ![c] = 0]
    /\ totalReq' = [totalReq EXCEPT ![c] = 0]
    /\ UNCHANGED <<requestCount, lapsed, oldP>>

-----------------------------------------------------------------------------

\* The next event of the batch: GetState stops the batch when it says OPEN.
NextCall(c) ==
    /\ pc[c] = "more"
    /\ state # "OPEN"
    /\ Goto(c, "allowed")
    /\ UNCHANGED <<breaker, estimate, locals>>

EndBatch(c) ==
    /\ pc[c] = "more"
    /\ Return(c)
    /\ UNCHANGED <<breaker, estimate>>

\* ResetTimeout goes by; whoever read this lastTransition will see it.
Lapse ==
    /\ state = "OPEN"
    /\ ~expired
    /\ expired' = TRUE
    /\ lapsed' = [c \in Callers |-> lapsed[c] \/ pc[c] = "check"]
    /\ UNCHANGED <<state, prober, estimate, pc, failed, oldP, currentP, totalReq>>

Init ==
    /\ state = "CLOSED"
    /\ expired = FALSE
    /\ pFailure = 0
    /\ requestCount = 0
    /\ pc = [c \in Callers |-> "idle"]
    /\ lapsed = [c \in Callers |-> FALSE]
    /\ failed = [c \in Callers |-> FALSE]
    /\ oldP = [c \in Callers |-> 0]
    /\ currentP = [c \in Callers |-> 0]
    /\ totalReq = [c \in Callers |-> 0]
    /\ prober = NoCaller

Allow(c) == Snapshot(c) \/ CheckElapsed(c) \/ EnterHalfOpen(c)

RecordResult(c) ==
    LoadOld(c) \/ CompareAndSwap(c) \/ AddCount(c) \/ ReadP(c) \/ ReadCount(c) \/ Decide(c)

Step(c) ==
    Allow(c) \/ Answer(c) \/ Skip(c) \/ RecordResult(c) \/ NextCall(c) \/ EndBatch(c)

Next == Lapse \/ \E c \in Callers : Step(c)

Spec == Init /\ [][Next]_vars

\* Goroutines are scheduled, external calls answer (with an error if need be),
\* a relay's loop comes back to Allow, and time passes.
Fairness == WF_vars(Lapse) /\ \A c \in Callers : WF_vars(Step(c))

FairSpec == Spec /\ Fairness

-----------------------------------------------------------------------------
(***************************************************************************)
(* Properties                                                              *)
(***************************************************************************)

TypeOK ==
    /\ state \in {"CLOSED", "OPEN", "HALF_OPEN"}
    /\ expired \in BOOLEAN
    /\ pFailure \in 0 .. Scale
    /\ requestCount \in 0 .. MinRequests
    /\ pc \in [Callers -> Steps]
    /\ lapsed \in [Callers -> BOOLEAN]
    /\ failed \in [Callers -> BOOLEAN]
    /\ oldP \in [Callers -> 0 .. Scale]
    /\ currentP \in [Callers -> 0 .. Scale]
    /\ totalReq \in [Callers -> 0 .. MinRequests]
    /\ prober \in Callers \cup {NoCaller}

\* Callers that have been let through and still owe a result.
Outstanding(c) == pc[c] \in {"allowed"} \cup Recording

\* A half-open breaker denies everyone, so it must never be half-open unless the
\* call that is to decide it is still on its way, or its caller is one that may
\* end without a result (Allow's double-checked escalation against RecordResult).
ProbeIsOut ==
    state = "HALF_OPEN" =>
        prober \in Callers /\ (Outstanding(prober) \/ prober \in Forgetful)

\* RecordResult reads P and the count outside the lock, in separate steps, while
\* other results come in.  Still no trip is lost: whenever the breaker is closed
\* over a failure rate above the threshold, some recorder will still open it.
WillTrip(c) ==
    \/ pc[c] \in {"count", "readP"}
    \/ pc[c] = "readCount" /\ currentP[c] > FailureThreshold
    \/ pc[c] = "decide" /\ Trips(c)

NoTripLost ==
    (/\ state = "CLOSED"
     /\ requestCount >= MinRequests
     /\ pFailure > FailureThreshold) => \E c \in Callers : WillTrip(c)

\* An open breaker is left only by a test after ResetTimeout, and closed only
\* from half-open: no stale success recorded late closes an open breaker.
ReopensByTest ==
    [][ /\ state = "OPEN" => state' = "OPEN" \/ (state' = "HALF_OPEN" /\ expired)
        /\ state = "CLOSED" => state' \in {"CLOSED", "OPEN"} ]_vars

\* While one test is out nobody else gets through Allow, however old the state
\* and time it read.
OneProbe ==
    [][ state = "HALF_OPEN" =>
          \A c \in Callers :
              pc[c] \in {"idle", "check", "escalate"} => pc'[c] # "allowed" ]_vars

\* An open breaker is eventually tested.
OpenIsTested == state = "OPEN" ~> state = "HALF_OPEN"

\* A test whose caller records its result is eventually decided, whoever's
\* result comes first.
HalfOpenResolves ==
    state = "HALF_OPEN" /\ prober \notin Forgetful ~> state # "HALF_OPEN"

=============================================================================
