------------------------------- MODULE Backoff -------------------------------
(***************************************************************************)
(* The pause between batches, in the Start loops of OutboxRelay and         *)
(* InboxConsumer: baseT << k, cut to maxT, where k counts the batches in a  *)
(* row that were empty.  Nothing bounds k, and the shift is one of a signed *)
(* 64-bit integer of nanoseconds: bits that leave on the left are gone, the *)
(* leftmost one that stays is the sign.  A number is the set of its one     *)
(* bits here.                                                              *)
(***************************************************************************)
EXTENDS Integers

CONSTANT Idle           \* the values of k an instance looks at

ASSUME IdleOK == Idle \subseteq Nat

Sign == 63
Bits == 0 .. Sign

\* 500 ms and 30 s, in nanoseconds.
baseT == {8, 10, 13, 14, 16, 18, 19, 22, 23, 24, 26, 27, 28}
maxT == {10, 11, 13, 15, 16, 17, 21, 26, 27, 28, 29, 30, 31, 33, 34}

\* baseT * 2^k, with all the bits it takes.
Product(k) == {b + k : b \in baseT}

\* int64(baseT) << k
Shifted(k) == Product(k) \cap Bits

\* m > n for numbers that are not negative: they differ first in a bit of m.
Exceeds(m, n) == \E b \in m \ n : \A c \in n \ m : c < b

NotPositive(n) == n = {} \/ Sign \in n

backoff(k) ==
    IF NotPositive(Shifted(k)) \/ (Sign \notin Shifted(k) /\ Exceeds(Shifted(k), maxT))
    THEN maxT
    ELSE Shifted(k)

-----------------------------------------------------------------------------

\* README.md:114-118: without work the pause grows exponentially up to 30 seconds,
\* and stays there however long that lasts, also when the shift has overflowed.
PauseIsExponential ==
    \A k \in Idle :
        backoff(k) = IF Exceeds(Product(k), maxT) THEN maxT ELSE Product(k)

=============================================================================
