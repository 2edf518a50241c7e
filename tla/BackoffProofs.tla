---------------------------- MODULE BackoffProofs ----------------------------
(***************************************************************************)
(* The pause between batches is min(baseT * 2^k, maxT) for every k: once    *)
(* bits are lost, all that remain are above those of maxT.                 *)
(***************************************************************************)
EXTENDS Backoff, TLAPS

\* The two numbers, as far as the argument needs them.
LEMMA Ranges == baseT # {} /\ baseT \subseteq 8 .. 28 /\ maxT \subseteq 0 .. 34 /\ Sign = 63
  BY SMT DEF baseT, maxT, Sign

LEMMA ProductInt == ASSUME NEW k \in Nat PROVE Product(k) \subseteq Nat
  BY Ranges DEF Product

\* As long as no bit reaches the sign the shift is exact.
LEMMA Exact ==
  ASSUME NEW k \in Nat, \A b \in Product(k) : b < Sign
  PROVE  Shifted(k) = Product(k) /\ ~NotPositive(Shifted(k))
<1>1. Product(k) \subseteq Bits
  BY Ranges, ProductInt DEF Bits
<1>2. Product(k) # {}
  BY Ranges DEF Product
<1> QED
  BY <1>1, <1>2, Ranges DEF Shifted, NotPositive

\* Otherwise every bit that is left, or lost, is above those of maxT.
LEMMA Overflown ==
  ASSUME NEW k \in Nat, NEW d \in Product(k), d >= Sign
  PROVE  \A b \in Product(k) : \A c \in maxT : c < b
<1>1. k >= 35
  BY Ranges DEF Product
<1> QED
  BY <1>1, Ranges DEF Product

LEMMA HigherExceeds ==
  ASSUME NEW m, m # {}, NEW n, \A b \in m : \A c \in n : c \in Int /\ b \in Int /\ c < b
  PROVE  Exceeds(m, n)
<1>1. PICK b \in m : TRUE
  OBVIOUS
<1>2. b \notin n
  BY <1>1
<1> QED
  BY <1>1, <1>2 DEF Exceeds

\* However long the queue stays empty, the pause is the exponential one, cut at
\* 30 seconds (Start of OutboxRelay and of InboxConsumer).
THEOREM PauseCorrect == PauseIsExponential
<1> SUFFICES ASSUME NEW k \in Idle
             PROVE  backoff(k) = IF Exceeds(Product(k), maxT) THEN maxT ELSE Product(k)
  BY DEF PauseIsExponential
<1>0. k \in Nat
  BY IdleOK
<1>1. CASE \A b \in Product(k) : b < Sign
  <2>1. Sign \notin Product(k)
    BY <1>1, Ranges
  <2> QED
    BY <1>0, <1>1, <2>1, Exact DEF backoff
<1>2. CASE \E b \in Product(k) : ~(b < Sign)
  <2>1. PICK d \in Product(k) : d >= Sign
    BY <1>2, <1>0, ProductInt, Ranges
  <2>2. \A b \in Product(k) : \A c \in maxT : c < b
    BY <1>0, <2>1, Overflown
  <2>3. Product(k) \subseteq Int /\ maxT \subseteq Int
    BY <1>0, ProductInt, Ranges
  <2>4. Exceeds(Product(k), maxT)
    BY <2>1, <2>2, <2>3, HigherExceeds
  <2>5. Shifted(k) = {} \/ Exceeds(Shifted(k), maxT)
    BY <2>2, <2>3, HigherExceeds DEF Shifted
  <2> QED
    BY <2>4, <2>5 DEF backoff, NotPositive
<1> QED
  BY <1>1, <1>2

=============================================================================
