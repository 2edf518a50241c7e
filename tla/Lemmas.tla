------------------------------- MODULE Lemmas -------------------------------
(***************************************************************************)
(* What the proofs need of the payment state machine and of the claims'     *)
(* order: no policy leads a payment back, so its status tells the notices   *)
(* it has published; and a claim takes the oldest rows, no more than its    *)
(* limit, and some if there are any.                                       *)
(***************************************************************************)
EXTENDS TransactionFSM, ClaimOrder, SequenceTheorems, FiniteSetTheorems, WellFoundedInduction,
        TLAPS

-----------------------------------------------------------------------------
(* The state machine.                                                       *)

\* What a payment can be once it was s.
Later(s) ==
    CASE s = Pending             -> Status
      [] s \in Settled           -> {s, "REFUND_PROCESSING", "REFUNDED", "REFUND_FAILED"}
      [] s = "REFUND_PROCESSING" -> {s, "REFUNDED", "REFUND_FAILED"}
      [] OTHER                   -> {s}

LEMMA NoWayBack ==
    /\ \A s \in Status : s \in Later(s) /\ Later(s) \subseteq Status
    /\ \A s, t, u \in Status : t \in Later(s) /\ Evaluate(t, u) => u \in Later(s)
    /\ \A s, t \in Status : t \in Later(s) /\ Evaluate(t, s) => t = s
  BY DEF Later, Status, Evaluate, Successors, Settled, Pending

\* Appending to a literal sequence.
LEMMA AppendLiteral ==
    ASSUME NEW a, NEW b, NEW c
    PROVE  /\ Append(<<a>>, b) = <<a, b>>
           /\ Append(<<a, b>>, c) = <<a, b, c>>
  <1> DEFINE S == {a, b, c}
             s1 == Append(<<a>>, b)
             s2 == Append(<<a, b>>, c)
  <1>1. <<a>> \in Seq(S) /\ <<a, b>> \in Seq(S) /\ <<a, b, c>> \in Seq(S)
    OBVIOUS
  <1>2. s1 = <<a, b>>
    <2>1. s1 \in Seq(S) /\ Len(s1) = 2 /\ s1[1] = a /\ s1[2] = b
      BY <1>1, AppendProperties
    <2>2. Len(<<a, b>>) = 2 /\ <<a, b>>[1] = a /\ <<a, b>>[2] = b
      OBVIOUS
    <2> HIDE DEF s1, S
    <2>3. QED
      BY <1>1, <2>1, <2>2, SeqEqual
  <1>3. s2 = <<a, b, c>>
    <2>1. s2 \in Seq(S) /\ Len(s2) = 3 /\ s2[1] = a /\ s2[2] = b /\ s2[3] = c
      BY <1>1, AppendProperties
    <2>2. Len(<<a, b, c>>) = 3 /\ <<a, b, c>>[1] = a /\ <<a, b, c>>[2] = b
          /\ <<a, b, c>>[3] = c
      OBVIOUS
    <2> HIDE DEF s2, S
    <2>3. QED
      BY <1>1, <2>1, <2>2, SeqEqual
  <1>4. QED
    BY <1>2, <1>3

\* A step along the machine adds the notice that its new status calls for.
LEMMA HistoryGrows ==
    ASSUME NEW r \in Status, NEW s \in Successors(r)
    PROVE  /\ s \in Status
           /\ Append(History(r), EventType(s)) = History(s)
  <1> USE DEF Settled, Pending
  <1>1. CASE r = Pending
    <2>1. s \in Settled \cup {"FAILED"}
      BY <1>1 DEF Successors
    <2>2. History(r) = <<>>
      BY <1>1 DEF History
    <2>3. History(s) = <<EventType(s)>>
      BY <2>1 DEF History, EventType
    <2> QED
      BY <2>1, <2>2, <2>3 DEF Status
  <1>2. CASE r \in Settled
    <2>1. s = "REFUND_PROCESSING"
      BY <1>2 DEF Successors
    <2>2. History(r) = <<"PAYMENT_CONFIRMED">>
      BY <1>2 DEF History
    <2>3. History(s) = <<"PAYMENT_CONFIRMED", "REFUND_STARTED">>
      BY <2>1 DEF History
    <2>4. EventType(s) = "REFUND_STARTED"
      BY <2>1 DEF EventType
    <2> QED
      BY <2>1, <2>2, <2>3, <2>4, AppendLiteral DEF Status
  <1>3. CASE r = "REFUND_PROCESSING"
    <2>1. s \in {"REFUNDED", "REFUND_FAILED"}
      BY <1>3 DEF Successors
    <2>2. History(r) = <<"PAYMENT_CONFIRMED", "REFUND_STARTED">>
      BY <1>3 DEF History
    <2>3. History(s) = <<"PAYMENT_CONFIRMED", "REFUND_STARTED", "PAYMENT_UPDATED">>
      BY <2>1 DEF History
    <2>4. EventType(s) = "PAYMENT_UPDATED"
      BY <2>1 DEF EventType
    <2> QED
      BY <2>1, <2>2, <2>3, <2>4, AppendLiteral DEF Status
  <1> QED
    BY <1>1, <1>2, <1>3 DEF Successors

-----------------------------------------------------------------------------
(* The order of the claims.                                                 *)

LEMMA LeastOf ==
    ASSUME NEW S \in SUBSET Nat, S # {}
    PROVE  \E m \in S : \A n \in S : m <= n
  <1> DEFINE less == {pair \in Nat \X Nat : pair[1] < pair[2]}
  <1>1. IsWellFoundedOn(less, Nat)
    BY NatLessThanWellFounded DEF OpToRel
  <1> HIDE DEF less
  <1>2. PICK m \in S : \A n \in S : ~(<<n, m>> \in less)
    BY <1>1, WFMin
  <1>3. \A n \in S : ~(n < m)
    BY <1>2 DEF less
  <1> QED
    BY <1>3

\* The element with the fewest above it is above all others.
LEMMA GreatestOf ==
    ASSUME NEW S \in SUBSET Nat, IsFiniteSet(S), S # {}
    PROVE  \E m \in S : \A n \in S : n <= m
  <1> DEFINE above == [e \in S |-> {f \in S : e < f}]
             counts == {Cardinality(above[e]) : e \in S}
  <1>1. ASSUME NEW e \in S
        PROVE  /\ above[e] \in SUBSET S /\ IsFiniteSet(above[e])
               /\ Cardinality(above[e]) \in Nat
    BY FS_Subset, FS_CardinalityType
  <1>2. counts \in SUBSET Nat /\ counts # {}
    BY <1>1
  <1>3. PICK c \in counts : \A d \in counts : c <= d
    BY <1>2, LeastOf
  <1>4. PICK m \in S : \A e \in S : Cardinality(above[m]) <= Cardinality(above[e])
    BY <1>3
  <1>5. ASSUME NEW n \in S, ~(n <= m) PROVE FALSE
    <2>0. \A x \in S : x \in Nat
      OBVIOUS
    <2>1. above[n] \in SUBSET above[m] /\ n \in above[m] /\ n \notin above[n]
      <3>1. m \in Nat /\ n \in Nat /\ m < n /\ ~(n < n)
        BY <1>5, <2>0
      <3>2. \A f \in S : n < f => m < f
        BY <2>0, <3>1
      <3> QED
        BY <3>1, <3>2
    <2>2. Cardinality(above[n]) <= Cardinality(above[m]) /\ Cardinality(above[n]) # Cardinality(above[m])
      BY <1>1, <2>1, FS_Subset
    <2> QED
      BY <1>1, <1>4, <2>2
  <1> QED
    BY <1>4, <1>5

\* Among finitely many rows a claim takes n at most.
LEMMA OldestAreFew ==
    ASSUME NEW S \in SUBSET Nat, IsFiniteSet(S), NEW n \in Nat
    PROVE  /\ Oldest(S, n) \subseteq S
           /\ IsFiniteSet(Oldest(S, n))
           /\ Cardinality(Oldest(S, n)) <= n
  <1> DEFINE B == Oldest(S, n)
  <1>1. B \in SUBSET S /\ IsFiniteSet(B) /\ Cardinality(B) \in Nat
    <2>1. B \in SUBSET S
      BY DEF Oldest
    <2> QED
      BY <2>1, FS_Subset, FS_CardinalityType
  <1>2. CASE B = {}
    BY <1>1, <1>2, FS_EmptySet
  <1>3. CASE B # {}
    <2>1. PICK m \in B : \A e \in B : e <= m
      BY <1>1, <1>3, GreatestOf
    <2> DEFINE before == {f \in S : f < m}
    <2>2. Cardinality(before) < n /\ IsFiniteSet(before) /\ Cardinality(before) \in Nat
      <3>1. before \in SUBSET S
        OBVIOUS
      <3> QED
        BY <2>1, <3>1, FS_Subset, FS_CardinalityType DEF Oldest
    <2>3. B \ {m} \in SUBSET before
      <3>1. \A x \in B : x \in S /\ x \in Nat
        BY <1>1
      <3>2. \A x \in B : x # m => x < m
        BY <2>1, <3>1
      <3> QED
        BY <3>1, <3>2
    <2>4. Cardinality(B \ {m}) = Cardinality(B) - 1
      BY <1>1, <2>1, FS_RemoveElement
    <2>5. Cardinality(B \ {m}) <= Cardinality(before)
      BY <2>2, <2>3, FS_Subset
    <2> QED
      BY <1>1, <2>2, <2>4, <2>5
  <1> QED
    BY <1>1, <1>2, <1>3

\* It takes a row if there is one, and leaves none behind that is older than one it takes.
LEMMA OldestComeFirst ==
    ASSUME NEW S \in SUBSET Nat, IsFiniteSet(S), NEW n \in Nat \ {0}
    PROVE  /\ S # {} => Oldest(S, n) # {}
           /\ \A e \in Oldest(S, n) : \A f \in S : f < e => f \in Oldest(S, n)
  <1>1. ASSUME S # {} PROVE Oldest(S, n) # {}
    <2>1. PICK m \in S : \A e \in S : m <= e
      BY <1>1, LeastOf
    <2>2. {f \in S : f < m} = {}
      <3>1. m \in Nat /\ \A f \in S : f \in Nat
        OBVIOUS
      <3>2. \A f \in S : ~(f < m)
        BY <2>1, <3>1
      <3> QED
        BY <3>2
    <2>3. m \in Oldest(S, n)
      BY <2>2, FS_EmptySet DEF Oldest
    <2> QED
      BY <2>3
  <1>2. ASSUME NEW e \in Oldest(S, n), NEW f \in S, f < e
        PROVE  f \in Oldest(S, n)
    <2> DEFINE older(d) == {g \in S : g < d}
    <2>1. e \in S /\ Cardinality(older(e)) < n
      BY DEF Oldest
    <2>2. older(f) \in SUBSET older(e) /\ older(e) \in SUBSET S
      <3>1. e \in Nat /\ f \in Nat /\ \A g \in S : g \in Nat
        BY <2>1
      <3>2. \A g \in S : g < f => g < e
        BY <1>2, <3>1
      <3> QED
        BY <3>2
    <2>3. /\ Cardinality(older(f)) <= Cardinality(older(e))
          /\ Cardinality(older(f)) \in Nat /\ Cardinality(older(e)) \in Nat
      BY <2>2, FS_Subset, FS_CardinalityType
    <2>4. Cardinality(older(f)) < n
      BY <2>1, <2>3
    <2> QED
      BY <2>4 DEF Oldest
  <1> QED
    BY <1>1, <1>2

\* A claim remembers no more than one thing of each row.
LEMMA ImageIsFew ==
    ASSUME NEW S, IsFiniteSet(S), NEW f
    PROVE  /\ IsFiniteSet({f[x] : x \in S})
           /\ Cardinality({f[x] : x \in S}) <= Cardinality(S)
  <1> DEFINE T == {f[x] : x \in S}
             g == [x \in S |-> f[x]]
  <1>1. g \in Surjection(S, T)
    BY DEF Surjection
  <1> QED
    BY <1>1, FS_Surjection

=============================================================================
