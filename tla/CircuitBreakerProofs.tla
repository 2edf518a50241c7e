------------------------ MODULE CircuitBreakerProofs ------------------------
(***************************************************************************)
(* Proofs about CircuitBreaker for any number of goroutines, any threshold  *)
(* and any EWMA weights.                                                   *)
(***************************************************************************)
EXTENDS CircuitBreaker, TLAPS

\* The estimate is an average, so it stays between 0 and Scale.
LEMMA EwmaBounds ==
    ASSUME NEW p \in 0 .. Scale, NEW e \in BOOLEAN
    PROVE  Ewma(p, e) \in 0 .. Scale
  <1> DEFINE r == IF e THEN Scale ELSE 0
             d == Keep + Weight
             x == Keep * p + Weight * r
  <1>1. Scale \in Nat /\ Keep \in Nat /\ Weight \in Nat /\ d \in Nat /\ d > 0
    BY BreakerConstants
  <1>2. p \in Nat /\ r \in Nat /\ p <= Scale /\ r <= Scale
    BY <1>1
  <1>3. Keep * p \in Nat /\ Keep * p <= Keep * Scale
    BY <1>1, <1>2
  <1>4. Weight * r \in Nat /\ Weight * r <= Weight * Scale
    BY <1>1, <1>2
  <1>5. x \in Nat /\ x <= d * Scale
    BY <1>1, <1>3, <1>4
  <1>6. Ewma(p, e) = x \div d
    BY DEF Ewma
  <1> HIDE DEF x, d, r
  <1>7. x \div d \in 0 .. Scale
    BY <1>1, <1>5
  <1>8. QED
    BY <1>6, <1>7

\* The saturated count stays within its bound.
LEMMA SaturatedBounds ==
    ASSUME NEW n \in 0 .. MinRequests
    PROVE  Saturated(n + 1) \in 0 .. MinRequests /\ Saturated(n + 1) >= n
  BY BreakerConstants DEF Saturated

\* The initial state satisfies every invariant.
LEMMA InitOK == Init => TypeOK /\ ProbeIsOut /\ NoTripLost
  <1> SUFFICES ASSUME Init PROVE TypeOK /\ ProbeIsOut /\ NoTripLost
    OBVIOUS
  <1>1. TypeOK
    <2>1. 0 \in 0 .. Scale /\ 0 \in 0 .. MinRequests
      BY BreakerConstants
    <2>2. QED
      BY <2>1 DEF Init, TypeOK, Steps, Recording
  <1>2. ProbeIsOut
    BY DEF Init, ProbeIsOut
  <1>3. NoTripLost
    BY BreakerConstants DEF Init, NoTripLost
  <1>4. QED
    BY <1>1, <1>2, <1>3

\* Every step keeps the types.
LEMMA NextTypeOK == TypeOK /\ [Next]_vars => TypeOK'
  <1> SUFFICES ASSUME TypeOK, [Next]_vars PROVE TypeOK'
    OBVIOUS
  <1> USE BreakerConstants DEF TypeOK, Steps, Recording, breaker, estimate, locals, Goto, Return,
          SetState
  <1>1. ASSUME NEW c \in Callers, Allow(c) PROVE TypeOK'
    BY <1>1 DEF Allow, Snapshot, CheckElapsed, EnterHalfOpen
  <1>2. ASSUME NEW c \in Callers, Answer(c) \/ Skip(c) \/ NextCall(c) \/ EndBatch(c)
        PROVE TypeOK'
    BY <1>2 DEF Answer, Skip, NextCall, EndBatch
  <1>3. ASSUME NEW c \in Callers, LoadOld(c) \/ ReadP(c) \/ ReadCount(c) PROVE TypeOK'
    BY <1>3 DEF LoadOld, ReadP, ReadCount
  <1>4. ASSUME NEW c \in Callers, CompareAndSwap(c) PROVE TypeOK'
    <2>1. Ewma(oldP[c], failed[c]) \in 0 .. Scale
      BY EwmaBounds
    <2>2. QED
      BY <1>4, <2>1 DEF CompareAndSwap
  <1>5. ASSUME NEW c \in Callers, AddCount(c) PROVE TypeOK'
    <2>1. Saturated(requestCount + 1) \in 0 .. MinRequests
      BY SaturatedBounds
    <2>2. QED
      BY <1>5, <2>1 DEF AddCount
  <1>6. ASSUME NEW c \in Callers, Decide(c) PROVE TypeOK'
    <2>1. 0 \in 0 .. Scale /\ 0 \in 0 .. MinRequests
      OBVIOUS
    <2>2. state' \in {"CLOSED", "OPEN", "HALF_OPEN"} /\ expired' \in BOOLEAN
          /\ pFailure' \in 0 .. Scale
      BY <1>6, <2>1 DEF Decide
    <2>3. prober' \in Callers \cup {NoCaller}
      BY <1>6 DEF Decide
    <2>4. QED
      BY <1>6, <2>1, <2>2, <2>3 DEF Decide
  <1>7. CASE Lapse
    BY <1>7 DEF Lapse
  <1>8. CASE UNCHANGED vars
    BY <1>8 DEF vars
  <1>9. QED
    BY <1>1, <1>2, <1>3, <1>4, <1>5, <1>6, <1>7, <1>8 DEF Next, Step, RecordResult

\* TypeOK: the estimate stays a probability and every local stays in its range
\* (RecordResult's lock-free arithmetic).
THEOREM TypeCorrect == Spec => []TypeOK
  <1>1. Init => TypeOK
    BY InitOK
  <1>2. QED
    BY <1>1, NextTypeOK, PTL DEF Spec

-----------------------------------------------------------------------------

\* No step leaves the breaker half-open without its test on the way, unless the
\* tester may end without a result.
LEMMA NextProbeIsOut == TypeOK /\ ProbeIsOut /\ [Next]_vars => ProbeIsOut'
  <1> SUFFICES ASSUME TypeOK, ProbeIsOut, [Next]_vars PROVE ProbeIsOut'
    OBVIOUS
  <1> USE DEF TypeOK, ProbeIsOut, Outstanding, Recording, breaker, Goto, Return, SetState
  <1>1. ASSUME NEW c \in Callers, Allow(c) PROVE ProbeIsOut'
    BY <1>1 DEF Allow, Snapshot, CheckElapsed, EnterHalfOpen, MayProbe
  <1>2. ASSUME NEW c \in Callers, Answer(c) \/ Skip(c) \/ NextCall(c) \/ EndBatch(c)
        PROVE ProbeIsOut'
    BY <1>2 DEF Answer, Skip, NextCall, EndBatch
  <1>3. ASSUME NEW c \in Callers,
               LoadOld(c) \/ CompareAndSwap(c) \/ AddCount(c) \/ ReadP(c) \/ ReadCount(c)
        PROVE ProbeIsOut'
    BY <1>3 DEF LoadOld, CompareAndSwap, AddCount, ReadP, ReadCount
  <1>4. ASSUME NEW c \in Callers, Decide(c) PROVE ProbeIsOut'
    <2>1. state' # "HALF_OPEN"
      BY <1>4 DEF Decide, Reopens
    <2>2. QED
      BY <2>1
  <1>5. CASE Lapse
    BY <1>5 DEF Lapse
  <1>6. CASE UNCHANGED vars
    BY <1>6 DEF vars
  <1>7. QED
    BY <1>1, <1>2, <1>3, <1>4, <1>5, <1>6 DEF Next, Step, RecordResult

\* ProbeIsOut: a breaker whose callers all record their results is never
\* half-open with nobody left to decide it (Allow against RecordResult).
THEOREM HalfOpenHasProbe == Spec => []ProbeIsOut
  <1>1. Init => ProbeIsOut
    BY InitOK
  <1>2. TypeOK /\ ProbeIsOut /\ [Next]_vars => ProbeIsOut'
    BY NextProbeIsOut
  <1>3. QED
    BY <1>1, <1>2, TypeCorrect, PTL DEF Spec

-----------------------------------------------------------------------------

\* A step of one caller that leaves the breaker, the estimate and the values the
\* others read alone keeps every other caller's promise to trip.
LEMMA TripStable ==
    ASSUME TypeOK, NEW c \in Callers, NEW d \in Callers, c # d, WillTrip(d),
           UNCHANGED <<pc[d], currentP[d], totalReq[d]>>
    PROVE  WillTrip(d)'
  BY DEF WillTrip, Trips

\* No step forgets a trip that is due.
LEMMA NextNoTripLost == TypeOK /\ NoTripLost /\ [Next]_vars => NoTripLost'
  <1> SUFFICES ASSUME TypeOK, NoTripLost, [Next]_vars,
                      state' = "CLOSED", requestCount' >= MinRequests,
                      pFailure' > FailureThreshold
               PROVE  \E c \in Callers : WillTrip(c)'
    BY DEF NoTripLost
  <1> USE BreakerConstants DEF TypeOK, breaker, estimate, locals, Goto, Return, SetState
  \* A caller outside RecordResult's last steps promises nothing, so its own
  \* steps elsewhere cannot break a promise.
  <1>1. ASSUME NEW c \in Callers, ~WillTrip(c), UNCHANGED estimate, state = "CLOSED",
               \A d \in Callers \ {c} : UNCHANGED <<pc[d], currentP[d], totalReq[d]>>
        PROVE  \E d \in Callers : WillTrip(d)'
    <2>1. PICK d \in Callers : WillTrip(d)
      BY <1>1 DEF NoTripLost
    <2>2. QED
      BY <1>1, <2>1, TripStable
  <1>2. ASSUME NEW c \in Callers, Allow(c) PROVE \E d \in Callers : WillTrip(d)'
    BY <1>1, <1>2 DEF Allow, Snapshot, CheckElapsed, EnterHalfOpen, WillTrip
  <1>3. ASSUME NEW c \in Callers,
               Answer(c) \/ Skip(c) \/ NextCall(c) \/ EndBatch(c) \/ LoadOld(c)
        PROVE \E d \in Callers : WillTrip(d)'
    BY <1>1, <1>3 DEF Answer, Skip, NextCall, EndBatch, LoadOld, WillTrip
  <1>4. ASSUME NEW c \in Callers, CompareAndSwap(c) PROVE \E d \in Callers : WillTrip(d)'
    <2>1. CASE pFailure = oldP[c]
      BY <1>4, <2>1 DEF CompareAndSwap, WillTrip
    <2>2. CASE pFailure # oldP[c]
      BY <1>1, <1>4, <2>2 DEF CompareAndSwap, WillTrip
    <2>3. QED
      BY <2>1, <2>2
  <1>5. ASSUME NEW c \in Callers, AddCount(c) PROVE \E d \in Callers : WillTrip(d)'
    BY <1>5 DEF AddCount, WillTrip
  <1>6. ASSUME NEW c \in Callers, ReadP(c) PROVE \E d \in Callers : WillTrip(d)'
    BY <1>6 DEF ReadP, WillTrip
  <1>7. ASSUME NEW c \in Callers, ReadCount(c) PROVE \E d \in Callers : WillTrip(d)'
    <2>1. CASE currentP[c] > FailureThreshold
      BY <1>7, <2>1 DEF ReadCount, WillTrip, Trips
    <2>2. CASE ~(currentP[c] > FailureThreshold)
      BY <1>1, <1>7, <2>2 DEF ReadCount, WillTrip
    <2>3. QED
      BY <2>1, <2>2
  \* A decision that leaves the breaker closed is one that was not due to trip.
  <1>8. ASSUME NEW c \in Callers, Decide(c) PROVE \E d \in Callers : WillTrip(d)'
    <2>1. ~Closes(c) /\ ~Reopens(c) /\ state = "CLOSED" /\ UNCHANGED estimate
      BY <1>8 DEF Decide
    <2>2. ~WillTrip(c)
      BY <1>8, <2>1 DEF Decide, WillTrip, Reopens
    <2>3. QED
      BY <1>1, <1>8, <2>1, <2>2 DEF Decide
  <1>9. CASE Lapse
    BY <1>9 DEF Lapse
  <1>10. CASE UNCHANGED vars
    BY <1>10 DEF vars, NoTripLost, WillTrip, Trips
  <1>11. QED
    BY <1>2, <1>3, <1>4, <1>5, <1>6, <1>7, <1>8, <1>9, <1>10 DEF Next, Step, RecordResult

\* NoTripLost: although RecordResult reads the rate and the count outside the
\* lock, a failure rate above the threshold always has a recorder that will act.
THEOREM TripsAreNotLost == Spec => []NoTripLost
  <1>1. Init => NoTripLost
    BY InitOK
  <1>2. QED
    BY <1>1, NextNoTripLost, TypeCorrect, PTL DEF Spec

-----------------------------------------------------------------------------

\* ReopensByTest: no step closes an open breaker or tests it early.
THEOREM OpenIsLeftByTest == Spec => ReopensByTest
  <1> DEFINE Legal ==
        /\ state = "OPEN" => state' = "OPEN" \/ (state' = "HALF_OPEN" /\ expired)
        /\ state = "CLOSED" => state' \in {"CLOSED", "OPEN"}
  <1>1. TypeOK /\ [Next]_vars => [Legal]_vars
    <2> SUFFICES ASSUME TypeOK, Next PROVE Legal
      BY DEF vars
    <2> USE DEF breaker, SetState
    <2>1. ASSUME NEW c \in Callers, Allow(c) PROVE Legal
      BY <2>1 DEF Allow, Snapshot, CheckElapsed, EnterHalfOpen, MayProbe
    <2>2. ASSUME NEW c \in Callers, RecordResult(c) PROVE Legal
      BY <2>2 DEF RecordResult, LoadOld, CompareAndSwap, AddCount, ReadP, ReadCount, Decide,
            Closes
    <2>3. ASSUME NEW c \in Callers, Answer(c) \/ Skip(c) \/ NextCall(c) \/ EndBatch(c)
          PROVE Legal
      BY <2>3 DEF Answer, Skip, NextCall, EndBatch
    <2>4. CASE Lapse
      BY <2>4 DEF Lapse
    <2>5. QED
      BY <2>1, <2>2, <2>3, <2>4 DEF Next, Step
  <1>2. QED
    BY <1>1, TypeCorrect, PTL DEF Spec, ReopensByTest

-----------------------------------------------------------------------------

\* OneProbe: while the breaker is half-open no step lets anybody else through
\* Allow, whatever state and time the caller read before.
THEOREM SingleProbe == Spec => OneProbe
  <1> DEFINE Denied ==
        state = "HALF_OPEN" =>
          \A c \in Callers :
              pc[c] \in {"idle", "check", "escalate"} => pc'[c] # "allowed"
  <1>1. TypeOK /\ [Next]_vars => [Denied]_vars
    <2> SUFFICES ASSUME TypeOK, Next, state = "HALF_OPEN" PROVE Denied
      BY DEF vars
    <2> USE DEF TypeOK, breaker, locals, Goto, Return
    <2>1. ASSUME NEW c \in Callers, Allow(c) PROVE Denied
      BY <2>1 DEF Allow, Snapshot, CheckElapsed, EnterHalfOpen, MayProbe
    <2>2. ASSUME NEW c \in Callers, RecordResult(c) PROVE Denied
      BY <2>2 DEF RecordResult, LoadOld, CompareAndSwap, AddCount, ReadP, ReadCount, Decide
    <2>3. ASSUME NEW c \in Callers, Answer(c) \/ Skip(c) \/ NextCall(c) \/ EndBatch(c)
          PROVE Denied
      BY <2>3 DEF Answer, Skip, NextCall, EndBatch
    <2>4. CASE Lapse
      BY <2>4 DEF Lapse
    <2>5. QED
      BY <2>1, <2>2, <2>3, <2>4 DEF Next, Step
  <1>2. QED
    BY <1>1, TypeCorrect, PTL DEF Spec, OneProbe

=============================================================================
