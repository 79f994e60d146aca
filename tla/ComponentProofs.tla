--------------------------- MODULE ComponentProofs ---------------------------
(***************************************************************************)
(* Proofs about three smaller components: a job in Failures, with the      *)
(* integers of Backoff, the publisher and the reporters.                   *)
(***************************************************************************)
EXTENDS Failures, Publisher, Reporters, FiniteSetTheorems, TLAPS

-----------------------------------------------------------------------------
(* Powers of two, and the ranges of what Backoff computes.                  *)
LEMMA TwoToThe == ASSUME NEW n \in Nat PROVE 2^n \in Nat \ {0}
<1>1. IsFiniteSet(1 .. n) /\ Cardinality(1 .. n) = n
  BY FS_Interval
<1>2. IsFiniteSet(SUBSET (1 .. n)) /\ Cardinality(SUBSET (1 .. n)) = 2^n
  BY <1>1, FS_SUBSET
<1>3. SUBSET (1 .. n) # {}
  OBVIOUS
<1> QED BY <1>2, <1>3, FS_EmptySet, FS_CardinalityType

(* Half of the sets of numbers up to n + 1 contain n + 1. *)
LEMMA TwiceTwoToThe == ASSUME NEW n \in Nat PROVE 2^(n + 1) = 2 * 2^n
<1> DEFINE A == SUBSET (1 .. n)
           B == {s \cup {n + 1} : s \in A}
<1>1. /\ IsFiniteSet(1 .. n) /\ Cardinality(1 .. n) = n
      /\ IsFiniteSet(1 .. n + 1) /\ Cardinality(1 .. n + 1) = n + 1
  BY FS_Interval
<1>2. /\ IsFiniteSet(A) /\ Cardinality(A) = 2^n
      /\ Cardinality(SUBSET (1 .. n + 1)) = 2^(n + 1)
  BY <1>1, FS_SUBSET
<1>3. SUBSET (1 .. n + 1) = A \cup B
  <2>1. ASSUME NEW s \in SUBSET (1 .. n + 1) PROVE s \in A \cup B
    <3>1. s \ {n + 1} \in A
      OBVIOUS
    <3>2. CASE n + 1 \in s
      <4>1. s = (s \ {n + 1}) \cup {n + 1}
        BY <3>2
      <4> QED BY <3>1, <4>1
    <3> QED BY <3>1, <3>2
  <2>2. \A s \in A : s \in SUBSET (1 .. n + 1) /\ s \cup {n + 1} \in SUBSET (1 .. n + 1)
    OBVIOUS
  <2>3. \A t \in B : t \in SUBSET (1 .. n + 1)
    BY <2>2
  <2> HIDE DEF A, B
  <2> QED BY <2>1, <2>2, <2>3
<1>4. A \cap B = {}
  OBVIOUS
<1>5. ExistsBijection(A, B)
  <2> DEFINE f == [s \in A |-> s \cup {n + 1}]
  <2>1. \A s, t \in A : f[s] = f[t] => s = t
    <3>1. \A s \in A : s = f[s] \ {n + 1}
      OBVIOUS
    <3> QED BY <3>1
  <2>2. f \in [A -> B] /\ \A t \in B : \E s \in A : f[s] = t
    OBVIOUS
  <2> HIDE DEF f
  <2>3. f \in Bijection(A, B)
    BY <2>1, <2>2 DEF Bijection, Injection, Surjection, IsInjective
  <2> QED BY <2>3 DEF ExistsBijection
<1>6. IsFiniteSet(B) /\ Cardinality(B) = 2^n
  BY <1>2, <1>5, FS_Bijection
<1> HIDE DEF A, B
<1>7. 2^(n + 1) = Cardinality(A \cup B)
  BY <1>2, <1>3
<1>8. Cardinality(A \cup B) = Cardinality(A) + Cardinality(B) - Cardinality(A \cap B)
  BY <1>2, <1>6, FS_Union
<1>9. Cardinality(A \cap B) = 0 /\ 2^n \in Nat
  BY <1>4, FS_EmptySet, TwoToThe
<1>10. 2^(n + 1) = 2^n + 2^n
  BY <1>2, <1>6, <1>7, <1>8, <1>9
<1> QED BY <1>9, <1>10

\* Integers run from -Half to Half - 1.
Half == 2^(Width - 1)

LEMMA Widths ==
    /\ Width \in Nat \ {0, 1, 2} /\ Half \in Nat \ {0} /\ 2^Width = 2 * Half
    /\ MaxDelay \in Nat \ {0} /\ 4 * MaxDelay <= Half
<1>1. {Width - 1, Width - 2, Width - 3} \subseteq Nat
  BY WidthAssumption
<1>2. /\ 2^(Width - 3) \in Nat \ {0} /\ 2^(Width - 2) = 2 * 2^(Width - 3)
      /\ 2^(Width - 1) = 2 * 2^(Width - 2) /\ 2^Width = 2 * 2^(Width - 1)
  <2>1. \A n \in Nat : 2^n \in Nat \ {0} /\ 2^(n + 1) = 2 * 2^n
    BY TwoToThe, TwiceTwoToThe
  <2>2. /\ (Width - 3) + 1 = Width - 2 /\ (Width - 2) + 1 = Width - 1 /\ (Width - 1) + 1 = Width
    BY WidthAssumption
  <2> QED BY <1>1, <2>1, <2>2
<1> QED BY <1>2, WidthAssumption, MaxDelayAssumption DEF Half

-----------------------------------------------------------------------------
(* Wrap is the one integer in range that differs by a multiple of 2^Width.  *)
LEMMA WrapRange ==
    ASSUME NEW x \in Int
    PROVE  Wrap(x) \in -Half .. Half - 1 /\ \E k \in Int : Wrap(x) = x + k * 2^Width
<1> DEFINE m == 2^Width
           h == Half
<1>1. m \in Nat \ {0} /\ h \in Nat /\ m = 2 * h
  BY Widths
<1>2. Wrap(x) = ((x + h) % m) - h
  BY DEF Wrap, Half
<1> HIDE DEF m, h
<1>3. /\ x + h = m * ((x + h) \div m) + ((x + h) % m) /\ (x + h) \div m \in Int
      /\ (x + h) % m \in 0 .. m - 1
  BY <1>1
<1>4. Wrap(x) = x + (-((x + h) \div m)) * m
  BY <1>1, <1>2, <1>3
<1>5. Wrap(x) \in -h .. h - 1
  BY <1>1, <1>2, <1>3
<1> QED BY <1>3, <1>4, <1>5 DEF m, h

LEMMA WrapIs ==
    ASSUME NEW x \in Int, NEW y \in -Half .. Half - 1, NEW k \in Int, y = x + k * 2^Width
    PROVE  Wrap(x) = y
<1> DEFINE m == 2^Width
           h == Half
<1>1. m \in Nat \ {0} /\ h \in Nat /\ m = 2 * h
  BY Widths
<1>2. PICK l \in Int : Wrap(x) = x + l * m
  BY WrapRange
<1>3. Wrap(x) \in -h .. h - 1 /\ y \in -h .. h - 1 /\ y = x + k * m
  BY WrapRange
<1> HIDE DEF m, h
<1>4. y - Wrap(x) = (k - l) * m
  BY <1>1, <1>2, <1>3
<1>5. -m < (k - l) * m /\ (k - l) * m < m
  BY <1>1, <1>3, <1>4
<1>6. k - l = 0
  BY <1>1, <1>5
<1> QED BY <1>1, <1>2, <1>3, <1>6

(* What is in range is kept. *)
LEMMA WrapKeeps == ASSUME NEW x \in -Half .. Half - 1 PROVE Wrap(x) = x
<1>1. Half \in Nat /\ 2^Width \in Int
  BY Widths
<1> QED BY <1>1, WrapIs, x = x + 0 * 2^Width

-----------------------------------------------------------------------------
(* The delay before its jitter doubles, as long as the integers hold it.    *)
LEMMA MultiplierDoubles ==
    ASSUME NEW n \in Nat
    PROVE  /\ Multiplier(n) \in Int
           /\ \E k \in Int : Multiplier(n + 1) = 2 * Multiplier(n) + k * 2^Width
<1>1. /\ 2^n \in Int /\ 2^(n + 1) \in Int /\ 2^(n + 1) = 2 * 2^n
      /\ 2^Width \in Nat /\ Width \in Nat
  BY TwoToThe, TwiceTwoToThe, Widths
<1>2. Multiplier(n) \in Int
  BY <1>1, WrapRange, Widths DEF Multiplier
<1>3. CASE n >= Width
  <2>1. Multiplier(n + 1) = 2 * Multiplier(n) + 0 * 2^Width
    BY <1>1, <1>3 DEF Multiplier
  <2> QED BY <1>2, <2>1
<1>4. CASE n < Width
  <2>1. PICK k \in Int : Multiplier(n) = 2^n + k * 2^Width
    BY <1>1, <1>4, WrapRange DEF Multiplier
  <2>2. CASE n + 1 = Width
    <3>1. Multiplier(n + 1) = 0 /\ 2^(n + 1) = 2^Width
      BY <1>1, <2>2 DEF Multiplier
    <3>2. 0 = 2 * Multiplier(n) + (-1 - 2 * k) * 2^Width
      BY <1>1, <2>1, <3>1
    <3> QED BY <1>2, <3>1, <3>2
  <2>3. CASE n + 1 < Width
    <3>1. PICK l \in Int : Multiplier(n + 1) = 2^(n + 1) + l * 2^Width
      BY <1>1, <2>3, WrapRange DEF Multiplier
    <3>2. Multiplier(n + 1) = 2 * Multiplier(n) + (l - 2 * k) * 2^Width
      BY <1>1, <2>1, <3>1
    <3> QED BY <1>2, <3>2
  <2> QED BY <1>1, <1>4, <2>2, <2>3
<1> QED BY <1>1, <1>2, <1>3, <1>4

\* The delay before the jitter, and with it.
Plain(n, base)    == Wrap(Multiplier(n) * base)
Jittered(n, base) == Wrap(Plain(n, base) + Jitter(Plain(n, base), n))

LEMMA PlainDoubles ==
    ASSUME NEW n \in Nat, NEW base \in Int
    PROVE  /\ Plain(n, base) \in -Half .. Half - 1
           /\ Plain(n + 1, base) = Wrap(2 * Plain(n, base))
<1> DEFINE m == 2^Width
           x == Multiplier(n)
           y == Multiplier(n + 1)
           d == Plain(n, base)
           e == Plain(n + 1, base)
<1>1. m \in Int /\ x \in Int /\ y \in Int
  BY Widths, MultiplierDoubles
<1>2. PICK k \in Int : y = 2 * x + k * m
  BY MultiplierDoubles
<1>3. x * base \in Int /\ y * base \in Int
  BY <1>1
<1>4. d \in -Half .. Half - 1 /\ e \in -Half .. Half - 1 /\ Half \in Nat
  BY <1>3, WrapRange, Widths DEF Plain
<1>5. PICK i \in Int : d = x * base + i * m
  BY <1>3, WrapRange DEF Plain
<1>6. PICK j \in Int : e = y * base + j * m
  BY <1>3, WrapRange DEF Plain
<1> HIDE DEF m, x, y, d, e
<1>7. y * base = 2 * (x * base) + (k * base) * m
  BY <1>1, <1>2
<1>8. x * base = d - i * m /\ i * m \in Int /\ (k * base) * m \in Int /\ j * m \in Int
      /\ d \in Int /\ e \in Int
  BY <1>1, <1>3, <1>4, <1>5
<1>9. e = 2 * d - 2 * (i * m) + (k * base) * m + j * m
  BY <1>6, <1>7, <1>8
<1>10. e = 2 * d + (j + k * base - 2 * i) * m
  BY <1>1, <1>8, <1>9
<1>11. 2 * d \in Int /\ j + k * base - 2 * i \in Int
  BY <1>8
<1>12. Wrap(2 * d) = e
  BY <1>4, <1>10, <1>11, WrapIs DEF m
<1> QED BY <1>4, <1>12 DEF d, e

(* The jitter has the sign of the delay, and is between a twentieth and a    *)
(* tenth of it.                                                              *)
LEMMA JitterBounds ==
    ASSUME NEW d \in Int, NEW n \in Nat
    PROVE  /\ Jitter(d, n) \in Int
           /\ d >= 0 => d \div 20 <= Jitter(d, n) /\ Jitter(d, n) <= d \div 10
           /\ d < 0 => Jitter(d, n) <= 0 /\ 10 * Jitter(d, n) >= d
<1> DEFINE c == 10 + (n % 10)
<1>1. c \in 10 .. 19
  OBVIOUS
<1> HIDE DEF c
<1>2. ASSUME NEW q \in Nat
      PROVE  q * c \in Nat /\ 10 * q <= q * c /\ q * c <= 20 * q
  BY <1>1
<1>3. ASSUME d >= 0
      PROVE  Jitter(d, n) \in Int /\ d \div 20 <= Jitter(d, n) /\ Jitter(d, n) <= d \div 10
  <2> DEFINE q == d \div 10
  <2>1. q \in Nat /\ Truncated(d, 10) = q
    BY <1>3 DEF Truncated
  <2>2. Jitter(d, n) = (q * c) \div 20
    BY <1>2, <2>1 DEF Jitter, Truncated, c
  <2>3. d \div 20 <= (10 * q) \div 20
    BY <1>3
  <2> HIDE DEF q
  <2>4. (10 * q) \div 20 <= (q * c) \div 20 /\ (q * c) \div 20 <= q /\ (q * c) \div 20 \in Int
    BY <1>2, <2>1
  <2> QED BY <2>1, <2>2, <2>3, <2>4 DEF q
<1>4. ASSUME d < 0 PROVE Jitter(d, n) \in Int /\ Jitter(d, n) <= 0 /\ 10 * Jitter(d, n) >= d
  <2> DEFINE q == (0 - d) \div 10
  <2>1. q \in Nat /\ Truncated(d, 10) = 0 - q /\ 10 * q <= 0 - d
    BY <1>4 DEF Truncated
  <2> HIDE DEF q
  <2>2. q * c \in Nat /\ q * c <= 20 * q /\ (0 - q) * c = 0 - (q * c)
    BY <1>1, <1>2, <2>1
  <2>3. Jitter(d, n) = 0 - ((q * c) \div 20)
    BY <2>1, <2>2 DEF Jitter, Truncated, c
  <2>4. (q * c) \div 20 \in Nat /\ (q * c) \div 20 <= q
    BY <2>1, <2>2
  <2> QED BY <2>1, <2>3, <2>4
<1> QED BY <1>3, <1>4

(* A delay is an integer, and no longer than the cap. *)
LEMMA DelayIsCapped ==
    ASSUME NEW n \in Nat, NEW base \in Int
    PROVE  /\ Plain(n, base) \in -Half .. Half - 1 /\ Jittered(n, base) \in -Half .. Half - 1
           /\ ExponentialBackoff(n, base) =
                 IF Jittered(n, base) > MaxDelay THEN MaxDelay ELSE Jittered(n, base)
           /\ ExponentialBackoff(n, base) \in Int /\ ExponentialBackoff(n, base) <= MaxDelay
<1>1. Plain(n, base) \in Int /\ Plain(n, base) \in -Half .. Half - 1
  BY PlainDoubles, Widths
<1>2. Plain(n, base) + Jitter(Plain(n, base), n) \in Int
  BY <1>1, JitterBounds
<1>3. Jittered(n, base) \in -Half .. Half - 1
  BY <1>2, WrapRange DEF Jittered
<1>4. ExponentialBackoff(n, base) =
          IF Jittered(n, base) > MaxDelay THEN MaxDelay ELSE Jittered(n, base)
  BY DEF ExponentialBackoff, Jittered, Plain
<1> QED BY <1>1, <1>3, <1>4, Widths

(* Without an overflow the delay is the doubled one with its jitter.        *)
LEMMA ExactDelay ==
    ASSUME NEW n \in Nat, NEW base \in Nat, n < Width, (2^n * base) * 11 < Half * 10
    PROVE  LET exact == 2^n * base
           IN  /\ Smaller(MaxDelay, exact + (exact \div 20)) <= ExponentialBackoff(n, base)
               /\ ExponentialBackoff(n, base) <= Smaller(MaxDelay, exact + (exact \div 10))
<1> DEFINE x == 2^n * base
           j == Jitter(x, n)
<1>1. 2^n \in Nat /\ x \in Nat /\ Half \in Nat /\ MaxDelay \in Nat
  BY TwoToThe, Widths
<1>2. PICK k \in Int : Multiplier(n) = 2^n + k * 2^Width
  <2>1. Multiplier(n) = Wrap(2^n) /\ 2^n \in Int
    BY <1>1, Widths DEF Multiplier
  <2> QED BY <2>1, WrapRange
<1>3. Plain(n, base) = x
  <2> DEFINE m == 2^Width
             p == 2^n
  <2>1. m \in Int /\ p \in Int /\ Multiplier(n) = p + k * m
    BY <1>1, <1>2, Widths
  <2> HIDE DEF m, p
  <2>2. p * base = Multiplier(n) * base + (-(k * base)) * m
    BY <2>1
  <2>3. Multiplier(n) * base \in Int /\ -(k * base) \in Int
    BY <2>1
  <2>4. x = Multiplier(n) * base + (-(k * base)) * 2^Width
    BY <2>2 DEF p, m
  <2>5. x \in -Half .. Half - 1
    BY <1>1
  <2> HIDE DEF x
  <2> QED BY <2>3, <2>4, <2>5, WrapIs DEF Plain
<1>4. 11 * x < Half * 10
  BY <1>1
<1> HIDE DEF x
<1>5. /\ j \in Int /\ x \div 20 <= j /\ j <= x \div 10
      /\ x + j \in -Half .. Half - 1
  <2>1. x >= 0 /\ x \in Int
    BY <1>1
  <2>2. j \in Int /\ x \div 20 <= j /\ j <= x \div 10
    BY <2>1, JitterBounds
  <2> HIDE DEF j
  <2> QED BY <1>1, <1>4, <2>2
<1> HIDE DEF j
<1>6. Jittered(n, base) = x + j
  BY <1>3, <1>5, WrapKeeps DEF Jittered, j
<1>7. ExponentialBackoff(n, base) = IF x + j > MaxDelay THEN MaxDelay ELSE x + j
  <2>1. base \in Int
    OBVIOUS
  <2> QED BY <1>6, <2>1, DelayIsCapped
<1>8. /\ Smaller(MaxDelay, x + (x \div 20)) <= ExponentialBackoff(n, base)
      /\ ExponentialBackoff(n, base) <= Smaller(MaxDelay, x + (x \div 10))
  BY <1>1, <1>5, <1>7 DEF Smaller
<1> QED BY <1>8 DEF x

(* The last delay before one that is not positive is the cap: the doubled    *)
(* delay overflows only when the plain one has passed a quarter of Half.     *)
LEMMA LastPauseIsLongest ==
    ASSUME NEW n \in Nat, NEW base \in Int,
           ExponentialBackoff(n + 1, base) <= 0, ExponentialBackoff(n, base) > 0
    PROVE  ExponentialBackoff(n, base) = MaxDelay
<1> DEFINE h == Half
           d == Plain(n, base)
           i == Jitter(d, n)
           e == Plain(n + 1, base)
           j == Jitter(e, n + 1)
<1>1. /\ h \in Nat \ {0} /\ MaxDelay \in Nat \ {0} /\ 4 * MaxDelay <= h
      /\ d \in -h .. h - 1 /\ e \in -h .. h - 1 /\ e = Wrap(2 * d)
  BY Widths, PlainDoubles
<1>2. /\ i \in Int /\ j \in Int
      /\ d >= 0 => 0 <= i /\ 10 * i <= d
      /\ d < 0 => i <= 0 /\ 10 * i >= d
      /\ e >= 0 => 0 <= j /\ 10 * j <= e
  <2>1. n + 1 \in Nat /\ d \in Int /\ e \in Int
    BY <1>1
  <2> HIDE DEF d, e
  <2>2. /\ i \in Int
        /\ d < 0 => i <= 0 /\ 10 * i >= d
        /\ d >= 0 => d \div 20 <= i /\ i <= d \div 10
    BY <2>1, JitterBounds
  <2>3. j \in Int /\ (e >= 0 => e \div 20 <= j /\ j <= e \div 10)
    BY <2>1, JitterBounds
  <2> HIDE DEF i, j
  <2> QED BY <2>1, <2>2, <2>3
<1>3. Jittered(n, base) = Wrap(d + i) /\ Jittered(n + 1, base) = Wrap(e + j)
  BY DEF Jittered
<1>4. SUFFICES ASSUME Wrap(d + i) > 0, Wrap(d + i) < MaxDelay, Wrap(e + j) <= 0
               PROVE  FALSE
  <2>1. /\ Wrap(d + i) \in Int /\ Wrap(e + j) \in Int
        /\ ExponentialBackoff(n, base) =
              IF Wrap(d + i) > MaxDelay THEN MaxDelay ELSE Wrap(d + i)
        /\ ExponentialBackoff(n + 1, base) =
              IF Wrap(e + j) > MaxDelay THEN MaxDelay ELSE Wrap(e + j)
    <3>1. \A k \in Nat : /\ Jittered(k, base) \in Int
                         /\ ExponentialBackoff(k, base) =
                               IF Jittered(k, base) > MaxDelay THEN MaxDelay ELSE Jittered(k, base)
      <4> TAKE k \in Nat
      <4>1. Jittered(k, base) \in -Half .. Half - 1 /\ Half \in Nat
        BY DelayIsCapped, Widths
      <4> QED BY <4>1, DelayIsCapped
    <3>2. n \in Nat /\ n + 1 \in Nat
      OBVIOUS
    <3> HIDE DEF d, e, i, j
    <3> QED BY <1>3, <3>1, <3>2
  <2> QED BY <1>1, <2>1
<1> HIDE DEF h, d, e, i, j
<1>5. CASE d + i \in -h .. h - 1
  <2>1. d + i > 0 /\ d + i < MaxDelay
    BY <1>4, <1>5, WrapKeeps DEF h
  <2>2. d > 0 /\ d < MaxDelay
    BY <1>1, <1>2, <2>1
  <2>3. 2 * d \in -h .. h - 1
    BY <1>1, <2>2
  <2>4. e = 2 * d
    BY <1>1, <2>3, WrapKeeps DEF h
  <2>5. e + j \in -h .. h - 1 /\ e + j > 0
    BY <1>1, <1>2, <2>2, <2>4
  <2> QED BY <1>4, <2>5, WrapKeeps DEF h
<1>6. CASE d + i >= h
  <2>1. d + i \in Int /\ d + i - 2 * h \in -h .. h - 1 /\ d + i - 2 * h <= 0
    BY <1>1, <1>2, <1>6
  <2>2. d + i - 2 * h = d + i + (-1) * 2^Width
    BY <1>1, <1>2, Widths DEF h
  <2>3. Wrap(d + i) = d + i - 2 * h
    BY <2>1, <2>2, WrapIs DEF h
  <2> QED BY <1>4, <2>1, <2>3
<1>7. CASE d + i < -h
  <2>1. d + i \in Int /\ d + i + 2 * h \in -h .. h - 1 /\ d + i + 2 * h >= MaxDelay
    BY <1>1, <1>2, <1>7
  <2>2. d + i + 2 * h = d + i + 1 * 2^Width
    BY <1>1, <1>2, Widths DEF h
  <2>3. Wrap(d + i) = d + i + 2 * h
    BY <2>1, <2>2, WrapIs DEF h
  <2> QED BY <1>1, <1>4, <2>1, <2>3
<1> QED BY <1>1, <1>2, <1>5, <1>6, <1>7

-----------------------------------------------------------------------------
(* A job: what each stage knows of the time spent and of the errors seen.   *)
Spent(attempts) == attempts * (Deadline + MaxDelay)

InAttempt == stage \in {"waiting", "dispatched", "simulating"}
Counted   == stage \in {"backoff", "succeeded", "failed", "settled"}

\* The attempts made so far, and their time.
TimeInv ==
    /\ attempt <= Retries
    /\ InAttempt => attempt <= job.maxRetries /\ job.timeout > 0
    /\ stage = "backoff" => attempt < job.maxRetries
    /\ elapsed <= Deadline
    /\ busy <= Spent(attempt) + (IF Counted THEN Deadline ELSE 0)

\* A job is tried again only for a reason that may hit the next attempt too.
Doomed == cancelled \/ job.timeout <= ProcessingTime(job.type) \/ Simulated

RaceInv ==
    /\ attempt > 0 \/ stage = "backoff" => Doomed
    /\ stage = "dispatched" =>
          /\ elapsed = ProcessingTime(job.type) /\ elapsed <= job.timeout
          /\ attempt > 0 => ProcessingTime(job.type) = job.timeout \/ Simulated
    /\ stage = "simulating" => Simulated /\ Simulates("timeout")
    /\ stage = "succeeded" /\ attempt > 0 => ProcessingTime(job.type) = job.timeout

\* What a failed job has behind it, and what its error tells of that.
ErrorInv ==
    /\ stage # "settled" => verdict = "none" /\ failure = "none" /\ retryCounter = 0
    /\ stage = "failed" =>
          IF error.from = "context" THEN cancelled /\ attempt < job.maxRetries
          ELSE error.wrapped /\ (job.maxRetries < 0 \/ (attempt = job.maxRetries /\ Doomed))

JobIndInv == TypeOK /\ TimeInv /\ RaceInv /\ ErrorInv /\ RejectionIsEarned
             /\ RetrySucceedsOnlyAfterRace /\ PanicNeedsMissingId

-----------------------------------------------------------------------------
LEMMA JobParts ==
    ASSUME job \in Jobs
    PROVE  /\ {job.retryCount, job.maxRetries, job.delay, job.timeout} \subseteq Int
           /\ Retries \in Nat /\ Deadline \in Nat /\ MaxDelay \in Nat \ {0}
           /\ job.maxRetries <= Retries /\ job.timeout <= Deadline
           /\ ProcessingTime(job.type) \in Nat \ {0}
<1>1. {job.retryCount, job.maxRetries, job.delay, job.timeout} \subseteq Int
  BY ConfigAssumption DEF Jobs
<1>2. ProcessingTime(job.type) \in Nat \ {0}
  BY DEF ProcessingTime
<1> QED BY <1>1, <1>2, Widths DEF Retries, Deadline

LEMMA PauseType ==
    ASSUME job \in Jobs, attempt \in Nat
    PROVE  Pause \in 0 .. MaxDelay
<1>1. job.delay \in Int /\ MaxDelay \in Nat
  BY JobParts
<1>2. Delay(attempt) \in Int /\ Delay(attempt) <= MaxDelay
  BY <1>1, DelayIsCapped DEF Delay
<1> QED BY <1>1, <1>2 DEF Pause

(* An attempt more costs at most its deadline and a backoff at the cap. *)
LEMMA SpentGrows ==
    ASSUME job \in Jobs, NEW n \in Nat
    PROVE  /\ Spent(n) \in Nat
           /\ Spent(n + 1) = Spent(n) + Deadline + MaxDelay
           /\ \A m \in Nat : n <= m => Spent(n) <= Spent(m)
<1> DEFINE c == Deadline + MaxDelay
<1>1. c \in Nat
  BY JobParts
<1> HIDE DEF c
<1>2. n * c \in Nat /\ (n + 1) * c = n * c + c /\ \A m \in Nat : n <= m => n * c <= m * c
  BY <1>1
<1>3. \A m : Spent(m) = m * c
  BY DEF Spent, c
<1>4. Spent(n + 1) = Spent(n) + c
  BY <1>2, <1>3
<1>5. c = Deadline + MaxDelay
  BY DEF c
<1> QED BY <1>2, <1>3, <1>4, <1>5, JobParts
\* Only the retry count of a message could change a job, and no step does.
LEMMA SameJob ==
    ASSUME job' = job
    PROVE  /\ Deadline' = Deadline /\ Retries' = Retries
           /\ Spent(attempt)' = Spent(attempt')
           /\ ProcessingTime(job.type)' = ProcessingTime(job.type)
           /\ (Simulates("error")' <=> Simulates("error"))
           /\ (Simulates("timeout")' <=> Simulates("timeout"))
           /\ (Simulated' <=> Simulated)
BY DEF Deadline, Retries, Spent, ProcessingTime, Simulates, Simulated, SimulatedPause

-----------------------------------------------------------------------------
(* The ends of an attempt. *)
ErrorKinds == {"entry", "wait", "cancelled", "simulated", "timeout"}

LEMMA FailKeeps ==
    ASSUME JobIndInv, NEW from \in ErrorKinds, NEW t \in 0 .. Deadline, Fail(from, t),
           stage = "loop" \/ InAttempt, attempt <= job.maxRetries, Doomed
    PROVE  JobIndInv'
<1>1. /\ job' = job /\ attempt' = attempt /\ cancelled' = cancelled /\ verdict' = verdict
      /\ failure' = failure /\ retryCounter' = retryCounter
      /\ elapsed' = t /\ busy' = busy + t
      /\ stage' = IF attempt = job.maxRetries THEN "failed" ELSE "backoff"
      /\ error' = [from |-> from, wrapped |-> attempt = job.maxRetries]
  BY DEF Fail
<1>2. /\ job \in Jobs /\ attempt \in Nat /\ busy \in Nat /\ Deadline \in Nat
      /\ job.maxRetries \in Int /\ Spent(attempt) \in Nat
  BY JobParts, SpentGrows DEF JobIndInv, TypeOK
<1>3. stage' \in {"failed", "backoff"} /\ stage \notin {"settled", "backoff", "succeeded", "failed"}
  BY <1>1 DEF InAttempt
<1>4. TypeOK'
  BY <1>1, <1>2 DEF JobIndInv, TypeOK, ErrorKinds
<1>5. TimeInv'
  <2>1. stage' = "backoff" => attempt < job.maxRetries
    BY <1>1, <1>2
  <2>2. busy' <= Spent(attempt) + Deadline
    BY <1>1, <1>2, <1>3 DEF JobIndInv, TimeInv, Counted
  <2>3. ~InAttempt' /\ Counted'
    BY <1>3 DEF InAttempt, Counted
  <2> QED BY <1>1, <1>2, <2>1, <2>2, <2>3, SameJob DEF JobIndInv, TimeInv
<1>6. RaceInv' /\ PanicNeedsMissingId' /\ RetrySucceedsOnlyAfterRace'
  <2>1. Doomed'
    BY <1>1, SameJob DEF Doomed
  <2> QED BY <1>1, <1>3, <2>1 DEF RaceInv, PanicNeedsMissingId, RetrySucceedsOnlyAfterRace,
                                  JobIndInv, ErrorInv
<1>7. ErrorInv' /\ RejectionIsEarned'
  <2>1. Doomed' /\ verdict' = "none" /\ failure' = "none"
    BY <1>1, <1>3, SameJob DEF Doomed, JobIndInv, ErrorInv
  <2>2. stage' = "failed" => attempt = job.maxRetries
    BY <1>1
  <2> QED BY <1>1, <1>3, <2>1, <2>2 DEF JobIndInv, ErrorInv, ErrorKinds, RejectionIsEarned
<1> QED BY <1>4, <1>5, <1>6, <1>7 DEF JobIndInv

LEMMA SucceedKeeps ==
    ASSUME JobIndInv, Succeed, stage = "dispatched",
           attempt > 0 => ProcessingTime(job.type) = job.timeout
    PROVE  JobIndInv'
<1>1. /\ job' = job /\ attempt' = attempt /\ cancelled' = cancelled /\ verdict' = verdict
      /\ failure' = failure /\ retryCounter' = retryCounter /\ error' = error
      /\ elapsed' = elapsed /\ busy' = busy + elapsed /\ stage' = "succeeded"
  BY DEF Succeed
<1>2. /\ job \in Jobs /\ attempt \in Nat /\ busy \in Nat /\ elapsed \in Nat /\ Deadline \in Nat
      /\ Spent(attempt) \in Nat
  BY JobParts, SpentGrows DEF JobIndInv, TypeOK
<1>3. TypeOK'
  BY <1>1, <1>2 DEF JobIndInv, TypeOK
<1>4. TimeInv'
  <2>1. busy' <= Spent(attempt) + Deadline
    BY <1>1, <1>2 DEF JobIndInv, TimeInv, Counted
  <2>2. ~InAttempt' /\ Counted'
    BY <1>1 DEF InAttempt, Counted
  <2> QED BY <1>1, <1>2, <2>1, <2>2, SameJob DEF JobIndInv, TimeInv
<1>5. RaceInv'
  <2>1. attempt > 0 => Doomed'
    BY <1>1, SameJob DEF JobIndInv, RaceInv, Doomed
  <2> QED BY <1>1, <2>1, SameJob DEF RaceInv
<1>6. ErrorInv' /\ RejectionIsEarned' /\ PanicNeedsMissingId' /\ RetrySucceedsOnlyAfterRace'
  BY <1>1, SameJob DEF JobIndInv, ErrorInv, RejectionIsEarned, PanicNeedsMissingId,
                       RetrySucceedsOnlyAfterRace
<1> QED BY <1>3, <1>4, <1>5, <1>6 DEF JobIndInv

LEMMA GoToKeeps ==
    ASSUME JobIndInv, NEW next \in {"waiting", "dispatched", "simulating", "panicked"},
           NEW t \in 0 .. Deadline, GoTo(next, t),
           stage = "loop" \/ InAttempt, attempt <= job.maxRetries, job.timeout > 0,
           next = "dispatched" =>
               /\ t = ProcessingTime(job.type) /\ t <= job.timeout
               /\ attempt > 0 => ProcessingTime(job.type) = job.timeout \/ Simulated,
           next = "simulating" => Simulated /\ Simulates("timeout"),
           next = "panicked" => /\ job.id = "missing" /\ job.retryCount = 0
                                /\ job.type # "other" /\ t <= job.timeout
    PROVE  JobIndInv'
<1>1. /\ job' = job /\ attempt' = attempt /\ cancelled' = cancelled /\ verdict' = verdict
      /\ failure' = failure /\ retryCounter' = retryCounter /\ error' = error
      /\ elapsed' = t /\ busy' = busy /\ stage' = next
  BY DEF GoTo
<1>2. /\ job \in Jobs /\ attempt \in Nat /\ busy \in Nat /\ Deadline \in Nat
      /\ Spent(attempt) \in Nat
  BY JobParts, SpentGrows DEF JobIndInv, TypeOK
<1>3. stage \notin {"settled", "backoff", "succeeded", "failed"}
  BY DEF InAttempt
<1>4. TypeOK'
  BY <1>1, <1>2 DEF JobIndInv, TypeOK
<1>5. TimeInv'
  <2>1. busy' <= Spent(attempt)
    BY <1>1, <1>2, <1>3 DEF JobIndInv, TimeInv, Counted
  <2>2. ~Counted'
    BY <1>1 DEF Counted
  <2> QED BY <1>1, <1>2, <2>1, <2>2, SameJob DEF JobIndInv, TimeInv
<1>6. RaceInv'
  <2>1. attempt > 0 => Doomed'
    BY <1>1, SameJob DEF JobIndInv, RaceInv, Doomed
  <2> QED BY <1>1, <2>1, SameJob DEF RaceInv
<1>7. ErrorInv' /\ RejectionIsEarned' /\ PanicNeedsMissingId' /\ RetrySucceedsOnlyAfterRace'
  BY <1>1, <1>3, SameJob DEF JobIndInv, ErrorInv, RejectionIsEarned, PanicNeedsMissingId,
                             RetrySucceedsOnlyAfterRace
<1> QED BY <1>4, <1>5, <1>6, <1>7 DEF JobIndInv

LEMMA EnterKeeps == ASSUME JobIndInv, Enter PROVE JobIndInv'
<1>1. /\ job \in Jobs /\ stage = "loop" /\ attempt <= job.maxRetries /\ 0 \in 0 .. Deadline
      /\ job.timeout \in Int /\ ProcessingTime(job.type) \in Nat
  BY JobParts DEF Enter, TriesLeft, JobIndInv, TypeOK
<1>2. CASE ~cancelled /\ job.timeout > 0 /\ GoTo("waiting", 0)
  BY <1>1, <1>2, GoToKeeps
<1>3. CASE CtxDone(0) /\ Fail("entry", 0)
  <2>1. Doomed
    BY <1>1, <1>3 DEF CtxDone, Doomed
  <2> QED BY <1>1, <1>3, <2>1, FailKeeps DEF ErrorKinds
<1> QED BY <1>2, <1>3 DEF Enter

LEMMA WaitKeeps == ASSUME JobIndInv, WaitEnds \/ WaitCut PROVE JobIndInv'
<1>1. /\ job \in Jobs /\ stage = "waiting" /\ InAttempt
      /\ attempt <= job.maxRetries /\ job.timeout > 0 /\ job.timeout \in Int
      /\ job.timeout <= Deadline /\ Deadline \in Nat /\ ProcessingTime(job.type) \in Nat
  BY JobParts DEF WaitEnds, WaitCut, JobIndInv, TypeOK, InAttempt, TimeInv
<1>2. CASE WaitEnds
  <2> DEFINE t == ProcessingTime(job.type)
  <2>1. ~cancelled /\ t <= job.timeout /\ t \in 0 .. Deadline /\ GoTo("dispatched", t)
    BY <1>1, <1>2 DEF WaitEnds, CtxAlive
  <2>2. attempt > 0 => t = job.timeout \/ Simulated
    BY <1>1, <2>1 DEF JobIndInv, RaceInv, Doomed
  <2> HIDE DEF t
  <2> QED BY <1>1, <2>1, <2>2, GoToKeeps DEF t
<1>3. CASE WaitCut
  <2>1. CASE cancelled /\ Fail("wait", 0)
    BY <1>1, <2>1, FailKeeps DEF ErrorKinds, Doomed
  <2>2. CASE job.timeout <= ProcessingTime(job.type) /\ Fail("wait", job.timeout)
    BY <1>1, <2>2, FailKeeps DEF ErrorKinds, Doomed
  <2> QED BY <1>3, <2>1, <2>2 DEF WaitCut
<1> QED BY <1>2, <1>3

LEMMA DispatchKeeps == ASSUME JobIndInv, Dispatch PROVE JobIndInv'
<1>1. /\ job \in Jobs /\ stage = "dispatched" /\ InAttempt
      /\ attempt <= job.maxRetries /\ job.timeout > 0 /\ job.timeout \in Int
      /\ job.timeout <= Deadline /\ Deadline \in Nat
      /\ elapsed = ProcessingTime(job.type) /\ elapsed <= job.timeout /\ elapsed \in 0 .. Deadline
      /\ attempt > 0 => ProcessingTime(job.type) = job.timeout \/ Simulated
  BY JobParts DEF Dispatch, JobIndInv, TypeOK, InAttempt, TimeInv, RaceInv
<1>2. CASE job.type = "other" /\ Succeed
  <2>1. ~Simulated
    BY <1>2 DEF Simulated
  <2> QED BY <1>1, <1>2, <2>1, SucceedKeeps
<1>3. CASE job.type # "other" /\ CtxDone(elapsed) /\ Fail("cancelled", elapsed)
  <2>1. Doomed
    BY <1>1, <1>3 DEF CtxDone, Doomed
  <2> QED BY <1>1, <1>3, <2>1, FailKeeps DEF ErrorKinds
<1>4. ASSUME job.type # "other", CtxAlive(elapsed),
             CASE Simulates("missing") -> GoTo("panicked", elapsed)
               [] Simulates("error")   -> Fail("simulated", elapsed)
               [] Simulates("timeout") /\ job.type \in DOMAIN SimulatedPause
                                       -> GoTo("simulating", elapsed)
               [] OTHER                -> Succeed
      PROVE  JobIndInv'
  <2>1. CASE Simulates("missing")
    <3>1. GoTo("panicked", elapsed) /\ job.id = "missing" /\ job.retryCount = 0
      BY <1>4, <2>1 DEF Simulates
    <3> QED BY <1>1, <1>4, <3>1, GoToKeeps
  <2>2. CASE Simulates("error")
    <3>1. Fail("simulated", elapsed) /\ Doomed
      BY <1>4, <2>2 DEF Simulates, Doomed, Simulated
    <3> QED BY <1>1, <3>1, FailKeeps DEF ErrorKinds
  <2>3. CASE Simulates("timeout") /\ job.type \in DOMAIN SimulatedPause
    <3>1. GoTo("simulating", elapsed)
      BY <1>4, <2>3 DEF Simulates
    <3>2. Simulated
      BY <1>4, <2>3 DEF Simulated
    <3> QED BY <1>1, <2>3, <3>1, <3>2, GoToKeeps
  <2>4. CASE /\ ~Simulates("missing") /\ ~Simulates("error")
             /\ ~(Simulates("timeout") /\ job.type \in DOMAIN SimulatedPause)
    <3>1. Succeed /\ ~Simulated
      BY <1>4, <2>4 DEF Simulated
    <3> QED BY <1>1, <3>1, SucceedKeeps
  <2> QED BY <2>1, <2>2, <2>3, <2>4
<1> QED BY <1>2, <1>3, <1>4 DEF Dispatch

LEMMA PauseKeeps == ASSUME JobIndInv, PauseEnds \/ PauseCut PROVE JobIndInv'
<1>1. /\ job \in Jobs /\ stage = "simulating" /\ InAttempt /\ Doomed
      /\ attempt <= job.maxRetries /\ job.timeout > 0 /\ job.timeout \in Int
      /\ job.timeout <= Deadline /\ Deadline \in Nat /\ elapsed \in 0 .. Deadline
      /\ PauseEnd \in Nat
  <2>1. stage = "simulating" /\ Simulated /\ job.type \in DOMAIN SimulatedPause
    BY DEF PauseEnds, PauseCut, JobIndInv, RaceInv, Simulated, Simulates
  <2>2. SimulatedPause[job.type] \in Nat
    BY <2>1 DEF SimulatedPause
  <2> QED BY <2>1, <2>2, JobParts
          DEF JobIndInv, TypeOK, InAttempt, TimeInv, Doomed, PauseEnd
<1>2. CASE PauseEnds
  <2>1. PauseEnd \in 0 .. Deadline /\ Fail("timeout", PauseEnd)
    BY <1>1, <1>2 DEF PauseEnds, CtxAlive
  <2> QED BY <1>1, <2>1, FailKeeps DEF ErrorKinds
<1>3. CASE PauseCut
  <2>1. \/ Fail("cancelled", elapsed)
        \/ Fail("cancelled", job.timeout)
    BY <1>3 DEF PauseCut
  <2> QED BY <1>1, <2>1, FailKeeps DEF ErrorKinds
<1> QED BY <1>2, <1>3
-----------------------------------------------------------------------------
(* Between two attempts, and the end. *)
LEMMA BackoffKeeps == ASSUME JobIndInv, BackoffElapsed PROVE JobIndInv'
<1>1. /\ job' = job /\ attempt' = attempt + 1 /\ cancelled' = cancelled /\ verdict' = verdict
      /\ failure' = failure /\ retryCounter' = retryCounter /\ error' = error
      /\ elapsed' = 0 /\ busy' = busy + Pause /\ stage = "backoff" /\ stage' = "loop"
  BY DEF BackoffElapsed
<1>2. /\ job \in Jobs /\ attempt \in Nat /\ busy \in Nat /\ Deadline \in Nat
      /\ Pause \in 0 .. MaxDelay /\ MaxDelay \in Nat /\ Retries \in Nat
      /\ job.maxRetries \in Int /\ job.maxRetries <= Retries
      /\ Spent(attempt) \in Nat /\ Spent(attempt + 1) = Spent(attempt) + Deadline + MaxDelay
  BY JobParts, SpentGrows, PauseType DEF JobIndInv, TypeOK
<1>3. TypeOK'
  BY <1>1, <1>2 DEF JobIndInv, TypeOK
<1>4. TimeInv'
  <2>1. attempt < job.maxRetries /\ busy <= Spent(attempt) + Deadline
    BY <1>1 DEF JobIndInv, TimeInv, Counted
  <2>2. attempt' <= Retries /\ busy' <= Spent(attempt') /\ elapsed' <= Deadline
    BY <1>1, <1>2, <2>1
  <2>3. ~InAttempt' /\ ~Counted'
    BY <1>1 DEF InAttempt, Counted
  <2>4. Deadline' = Deadline /\ Retries' = Retries /\ Spent(attempt)' = Spent(attempt')
    BY <1>1, SameJob
  <2>5. Spent(attempt') \in Nat
    BY <1>1, <1>2
  <2> QED BY <1>1, <2>2, <2>3, <2>4, <2>5 DEF TimeInv
<1>5. RaceInv'
  <2>1. Doomed'
    BY <1>1, SameJob DEF JobIndInv, RaceInv, Doomed
  <2> QED BY <1>1, <2>1 DEF RaceInv
<1>6. ErrorInv' /\ RejectionIsEarned' /\ PanicNeedsMissingId' /\ RetrySucceedsOnlyAfterRace'
  BY <1>1, SameJob DEF JobIndInv, ErrorInv, RejectionIsEarned, PanicNeedsMissingId,
                       RetrySucceedsOnlyAfterRace
<1> QED BY <1>3, <1>4, <1>5, <1>6 DEF JobIndInv

LEMMA ErrorFields ==
    ASSUME NEW from, NEW wrapped \in BOOLEAN
    PROVE  /\ [from |-> from, wrapped |-> wrapped].from = from
           /\ [from |-> from, wrapped |-> wrapped].wrapped = wrapped
OBVIOUS

LEMMA GivingUpKeeps == ASSUME JobIndInv, BackoffCancelled \/ NoAttempt PROVE JobIndInv'
<1>1. /\ job' = job /\ attempt' = attempt /\ cancelled' = cancelled /\ verdict' = verdict
      /\ failure' = failure /\ retryCounter' = retryCounter
      /\ elapsed' = elapsed /\ busy' = busy /\ stage \in {"loop", "backoff"} /\ stage' = "failed"
  BY DEF BackoffCancelled, NoAttempt
<1>2. /\ job \in Jobs /\ attempt \in Nat /\ busy \in Nat /\ Deadline \in Nat
      /\ Spent(attempt) \in Nat /\ job.maxRetries \in Int
  BY JobParts, SpentGrows DEF JobIndInv, TypeOK
<1>3. TypeOK'
  <2>1. error'.from \in {"context", "nil"} /\ error'.wrapped \in BOOLEAN
    BY ErrorFields DEF BackoffCancelled, NoAttempt
  <2> QED BY <1>1, <2>1 DEF JobIndInv, TypeOK
<1>4. TimeInv'
  <2>1. busy' <= Spent(attempt) + Deadline
    BY <1>1, <1>2 DEF JobIndInv, TimeInv, Counted
  <2>2. ~InAttempt' /\ Counted'
    BY <1>1 DEF InAttempt, Counted
  <2> QED BY <1>1, <1>2, <2>1, <2>2, SameJob DEF JobIndInv, TimeInv
<1>5. RaceInv'
  <2>1. attempt > 0 => Doomed'
    BY <1>1, SameJob DEF JobIndInv, RaceInv, Doomed
  <2> QED BY <1>1, <2>1 DEF RaceInv
<1>6. ErrorInv'
  <2>1. CASE BackoffCancelled
    BY <1>1, <2>1 DEF BackoffCancelled, JobIndInv, ErrorInv, TimeInv
  <2>2. CASE NoAttempt
    <3>1. error'.from # "context" /\ error'.wrapped
      BY <2>2, ErrorFields DEF NoAttempt
    <3>2. job.maxRetries < 0
      BY <1>2, <2>2 DEF NoAttempt, TriesLeft, JobIndInv, TimeInv, Retries
    <3> QED BY <1>1, <3>1, <3>2 DEF JobIndInv, ErrorInv
  <2> QED BY <2>1, <2>2
<1>7. RejectionIsEarned' /\ PanicNeedsMissingId' /\ RetrySucceedsOnlyAfterRace'
  <2>1. verdict = "none" /\ failure = "none"
    BY <1>1 DEF JobIndInv, ErrorInv
  <2> QED BY <1>1, <2>1, SameJob DEF JobIndInv, RejectionIsEarned, PanicNeedsMissingId,
                                     RetrySucceedsOnlyAfterRace
<1> QED BY <1>3, <1>4, <1>5, <1>6, <1>7 DEF JobIndInv

LEMMA CancelKeeps == ASSUME JobIndInv, CancelParent PROVE JobIndInv'
<1>1. /\ UNCHANGED <<job, stage, attempt, elapsed, busy, error, verdict, failure, retryCounter>>
      /\ cancelled' = TRUE
  BY DEF CancelParent
<1>2. TypeOK' /\ RejectionIsEarned'
  BY <1>1, SameJob DEF JobIndInv, TypeOK, RejectionIsEarned
<1>5. ErrorInv'
  BY <1>1, SameJob DEF JobIndInv, ErrorInv, Doomed
<1>3. TimeInv'
  BY <1>1, SameJob DEF JobIndInv, TimeInv, InAttempt, Counted
<1>4. RaceInv' /\ PanicNeedsMissingId' /\ RetrySucceedsOnlyAfterRace'
  BY <1>1, SameJob DEF JobIndInv, RaceInv, Doomed, PanicNeedsMissingId, RetrySucceedsOnlyAfterRace
<1> QED BY <1>2, <1>3, <1>4, <1>5 DEF JobIndInv

LEMMA SettleKeeps == ASSUME JobIndInv, Acknowledge \/ HandleFailure PROVE JobIndInv'
<1>1. /\ job' = job /\ attempt' = attempt /\ cancelled' = cancelled /\ error' = error
      /\ elapsed' = elapsed /\ busy' = busy /\ stage \in {"succeeded", "failed"}
      /\ stage' = "settled"
  BY DEF Acknowledge, HandleFailure
<1>2. /\ job \in Jobs /\ attempt \in Nat /\ Retries \in Nat /\ attempt <= Retries
      /\ {job.retryCount, job.maxRetries} \subseteq Int
      /\ failure = "none" /\ retryCounter = 0
  BY <1>1, JobParts DEF JobIndInv, TypeOK, TimeInv, ErrorInv
<1>3. FailureType(error) \in {"retryable", "non_retryable", "max_retries_exceeded",
                              "timeout", "context_cancelled"}
  BY DEF FailureType
<1>4. TypeOK'
  BY <1>1, <1>2, <1>3 DEF JobIndInv, TypeOK, Acknowledge, HandleFailure
<1>5. TimeInv'
  <2>1. ~InAttempt' /\ Counted' /\ Counted
    BY <1>1 DEF InAttempt, Counted
  <2> QED BY <1>1, <2>1, SameJob DEF JobIndInv, TimeInv
<1>6. RaceInv'
  <2>1. attempt > 0 => Doomed'
    BY <1>1, SameJob DEF JobIndInv, RaceInv, Doomed
  <2> QED BY <1>1, <2>1 DEF RaceInv
<1>7. ErrorInv' /\ PanicNeedsMissingId' /\ RetrySucceedsOnlyAfterRace'
  <2>1. verdict' = "ack" => stage = "succeeded"
    BY DEF Acknowledge, HandleFailure
  <2> QED BY <1>1, <2>1, SameJob DEF JobIndInv, RaceInv, ErrorInv, PanicNeedsMissingId,
                                     RetrySucceedsOnlyAfterRace
<1>8. RejectionIsEarned'
  <2>1. CASE Acknowledge
    BY <1>2, <2>1 DEF Acknowledge, RejectionIsEarned
  <2>2. CASE HandleFailure
    <3>1. IF error.from = "context" THEN cancelled /\ attempt < job.maxRetries
          ELSE error.wrapped /\ (job.maxRetries < 0 \/ (attempt = job.maxRetries /\ Doomed))
      BY <2>2 DEF HandleFailure, JobIndInv, ErrorInv
    <3>2. failure' = "context_cancelled" => error.from = "context"
      BY <2>2 DEF HandleFailure, FailureType
    <3>3. ~cancelled /\ Doomed => Simulated \/ job.timeout <= ProcessingTime(job.type)
      BY DEF Doomed
    <3> QED BY <1>1, <3>1, <3>2, <3>3, SameJob DEF RejectionIsEarned
  <2> QED BY <2>1, <2>2
<1> QED BY <1>4, <1>5, <1>6, <1>7, <1>8 DEF JobIndInv

LEMMA JobIndStep == JobIndInv /\ [Next]_vars => JobIndInv'
<1> SUFFICES ASSUME JobIndInv, [Next]_vars PROVE JobIndInv'
  OBVIOUS
<1>1. CASE ProcessMessage
  BY <1>1, EnterKeeps, WaitKeeps, DispatchKeeps, PauseKeeps DEF ProcessMessage
<1>2. CASE UNCHANGED vars
  <2>1. /\ job' = job /\ stage' = stage /\ attempt' = attempt /\ elapsed' = elapsed
        /\ busy' = busy /\ error' = error /\ cancelled' = cancelled /\ verdict' = verdict
        /\ failure' = failure /\ retryCounter' = retryCounter
    BY <1>2 DEF vars
  <2>2. TypeOK' /\ ErrorInv' /\ RejectionIsEarned'
    BY <2>1, SameJob DEF JobIndInv, TypeOK, ErrorInv, Doomed, RejectionIsEarned
  <2>3. TimeInv'
    BY <2>1, SameJob DEF JobIndInv, TimeInv, InAttempt, Counted
  <2>4. RaceInv' /\ PanicNeedsMissingId' /\ RetrySucceedsOnlyAfterRace'
    BY <2>1, SameJob DEF JobIndInv, RaceInv, Doomed, PanicNeedsMissingId, RetrySucceedsOnlyAfterRace
  <2> QED BY <2>2, <2>3, <2>4 DEF JobIndInv
<1> QED BY <1>1, <1>2, BackoffKeeps, GivingUpKeeps, CancelKeeps, SettleKeeps DEF Next, Finished

LEMMA JobInit == Init => JobIndInv
<1> SUFFICES ASSUME Init PROVE JobIndInv
  OBVIOUS
<1>1. /\ job \in Jobs /\ stage = "loop" /\ attempt = 0 /\ elapsed = 0 /\ busy = 0
      /\ error = NoError /\ cancelled = FALSE /\ verdict = "none" /\ failure = "none"
      /\ retryCounter = 0
  BY DEF Init
<1>2. TypeOK
  <2>1. error.from = "nil" /\ error.wrapped = FALSE
    BY <1>1, ErrorFields DEF NoError
  <2>2. error.wrapped \in BOOLEAN /\ cancelled \in BOOLEAN
    BY <1>1, <2>1
  <2>3. /\ job \in Jobs /\ attempt \in Nat /\ elapsed \in Nat /\ busy \in Nat
        /\ retryCounter \in 0 .. 1
    BY <1>1
  <2> QED BY <1>1, <2>1, <2>2, <2>3 DEF TypeOK
<1>3. TimeInv
  <2>1. Retries \in Nat /\ Deadline \in Nat /\ Spent(0) \in Nat /\ ~InAttempt /\ ~Counted
    BY <1>1, JobParts, SpentGrows DEF InAttempt, Counted
  <2> QED BY <1>1, <2>1 DEF TimeInv
<1>4. /\ RaceInv /\ ErrorInv /\ RejectionIsEarned /\ RetrySucceedsOnlyAfterRace
      /\ PanicNeedsMissingId
  BY <1>1 DEF RaceInv, ErrorInv, RejectionIsEarned, RetrySucceedsOnlyAfterRace,
              PanicNeedsMissingId
<1> QED BY <1>2, <1>3, <1>4 DEF JobIndInv

(* Every part of JobIndInv holds of every job, from its start to its end.   *)
THEOREM JobInvariance == Spec => []JobIndInv
BY JobInit, JobIndStep, PTL DEF Spec

(* A retry of processWithRetry succeeds only after an attempt that ended at  *)
(* its deadline, and only a message without an ID makes the handler panic:   *)
(* for every configuration, however many retries.                            *)
THEOREM RetriesRepeatTheFirst == Spec => []JobInv
BY JobInvariance, PTL DEF JobIndInv, JobInv

(* No job keeps its worker longer than its deadlines and capped backoffs,    *)
(* for every number of bits, cap, delay and number of retries.               *)
THEOREM JobsEndInTime == Spec => []JobTimeIsBounded
<1>1. JobIndInv => JobTimeIsBounded
  <2> SUFFICES ASSUME JobIndInv PROVE JobTimeIsBounded
    OBVIOUS
  <2>1. /\ Retries \in Nat /\ Deadline \in Nat /\ MaxDelay \in Nat /\ attempt \in Nat
        /\ busy \in Nat /\ attempt <= Retries /\ elapsed <= Deadline
        /\ job \in Jobs /\ busy <= Spent(attempt) + (IF Counted THEN Deadline ELSE 0)
    BY JobParts DEF JobIndInv, TypeOK, TimeInv
  <2>2. Spent(attempt) \in Nat /\ Spent(Retries) \in Nat /\ Spent(attempt) <= Spent(Retries)
    BY <2>1, SpentGrows
  <2>3. Spent(Retries) + Deadline = (Retries + 1) * Deadline + Retries * MaxDelay
    <3> DEFINE r == Retries
               d == Deadline
    <3>1. r \in Nat /\ d \in Nat
      BY <2>1
    <3> HIDE DEF r, d
    <3>2. r * (d + MaxDelay) + d = (r + 1) * d + r * MaxDelay
      BY <2>1, <3>1
    <3> QED BY <3>2 DEF Spent, r, d
  <2>4. busy <= Spent(Retries) + Deadline
    BY <2>1, <2>2
  <2> QED BY <2>1, <2>3, <2>4 DEF JobTimeIsBounded
<1> QED BY <1>1, JobInvariance, PTL

(* While the pool's context lives a job is rejected only after MaxRetries + 1 *)
(* attempts that could not be done in time, or none for a negative           *)
(* MAX_RETRIES, and a failure called a cancellation is one: for every         *)
(* configuration, type, number of retries and width of the integers.         *)
THEOREM RejectionsAreEarned == Spec => []RejectionIsEarned
BY JobInvariance, PTL DEF JobIndInv

(* Every backoff is the exponential one until the cap, and a delay that      *)
(* overflowed to nothing comes only after the cap: for every width, such as  *)
(* the program's 64 bits, of which the run has a narrow one.                 *)
THEOREM BackoffsGrowToTheCap == Spec => []BackoffGrowsToTheCap
<1>1. ASSUME TypeOK, stage = "backoff" PROVE BackoffGrowsToTheCap
  <2>1. attempt \in Nat /\ job.delay \in Int
    BY <1>1, JobParts DEF TypeOK
  <2>2. ASSUME Fits
        PROVE  LET exact == 2^attempt * job.delay
               IN  /\ Smaller(MaxDelay, exact + (exact \div 20)) <= Delay(attempt)
                   /\ Delay(attempt) <= Smaller(MaxDelay, exact + (exact \div 10))
    <3>1. job.delay \in Nat /\ attempt < Width /\ (2^attempt * job.delay) * 11 < Half * 10
      BY <2>1, <2>2 DEF Fits, Half
    <3> QED BY <2>1, <3>1, ExactDelay DEF Delay
  <2>3. ASSUME attempt > 0, Delay(attempt) <= 0, Delay(attempt - 1) > 0
        PROVE  Delay(attempt - 1) = MaxDelay
    <3>1. attempt - 1 \in Nat /\ (attempt - 1) + 1 = attempt
      BY <2>1, <2>3
    <3> QED BY <2>1, <2>3, <3>1, LastPauseIsLongest DEF Delay
  <2> QED BY <2>2, <2>3 DEF BackoffGrowsToTheCap
<1>2. stage # "backoff" => BackoffGrowsToTheCap
  BY DEF BackoffGrowsToTheCap
<1>3. JobIndInv => BackoffGrowsToTheCap
  BY <1>1, <1>2 DEF JobIndInv
<1> QED BY <1>3, JobInvariance, PTL

-----------------------------------------------------------------------------
(* The publisher.  While the connection lives nothing but the number under  *)
(* way is missing at the broker; when it is lost nothing arrives any more.  *)
LastNumber == IF mode = "cli" THEN TestEvents ELSE MaxCounter

PubInv ==
    /\ PublisherInv
    /\ arrived \in Seq(Nat)
    /\ linked => number = Len(arrived) + (IF pub = "sent" THEN 0 ELSE 1)
    /\ pub \in {"publishing", "sent"} => number <= LastNumber

LEMMA PubStep ==
    ASSUME PubInv, [PublisherNext]_publisherVars
    PROVE  PubInv'
<1>1. /\ mode \in Modes /\ LastNumber \in Nat /\ number \in 1 .. 1 + LastNumber
      /\ arrived \in Seq(Nat) /\ Len(arrived) \in Nat /\ Len(arrived) <= number
      /\ \A i \in 1 .. Len(arrived) : arrived[i] = i
  BY BoundsAssumption
  DEF BoundsAssumption, PubInv, LastNumber, PublisherInv, PublisherTypeOK, ArrivedIsPrefix
<1>2. /\ main \in {"running", "stopping", "closing", "exited"} /\ tick \in BOOLEAN
      /\ pub \in {"idle", "publishing", "sent", "stopped"} /\ linked \in BOOLEAN
      /\ main = "closing" => pub = "stopped"
      /\ linked => number = Len(arrived) + (IF pub = "sent" THEN 0 ELSE 1)
      /\ pub \in {"publishing", "sent"} => number <= LastNumber
  BY DEF PubInv, PublisherInv, PublisherTypeOK, CloseAfterLastPublish
<1>3. ASSUME mode' = mode, number' \in 1 .. 1 + LastNumber,
             main' \in {"running", "stopping", "closing", "exited"}, tick' \in BOOLEAN,
             pub' \in {"idle", "publishing", "sent", "stopped"}, linked' \in BOOLEAN,
             main' = "closing" => pub' = "stopped",
             linked' => number' = Len(arrived') + (IF pub' = "sent" THEN 0 ELSE 1),
             pub' \in {"publishing", "sent"} => number' <= LastNumber,
             arrived' \in Seq(Nat), Len(arrived') <= number',
             \A i \in 1 .. Len(arrived') : arrived'[i] = i
      PROVE  PubInv'
  <2>1. LastNumber' = LastNumber
    BY <1>3 DEF LastNumber
  <2>2. PublisherTypeOK'
    BY <1>1, <1>3, <2>1 DEF PublisherTypeOK, LastNumber
  <2>3. CloseAfterLastPublish' /\ ArrivedIsPrefix'
    BY <1>3 DEF CloseAfterLastPublish, ArrivedIsPrefix
  <2> QED BY <1>3, <2>1, <2>2, <2>3 DEF PubInv, PublisherInv
<1>4. CASE Arrive
  <2>1. /\ arrived' = Append(arrived, number) /\ number = Len(arrived) + 1
        /\ number \in Nat
    BY <1>1, <1>2, <1>4 DEF Arrive
  <2>2. /\ arrived' \in Seq(Nat) /\ Len(arrived') = number
        /\ \A i \in 1 .. Len(arrived') : arrived'[i] = i
    BY <1>1, <2>1
  <2> QED BY <1>1, <1>2, <1>3, <1>4, <2>2 DEF Arrive
<1>5. CASE Tick \/ NextEvent \/ Signal \/ Stop \/ TestEventsDone
           \/ LinkLost
  BY <1>1, <1>2, <1>3, <1>5 DEF Tick, NextEvent, Signal, Stop,
     TestEventsDone, LinkLost, LastNumber
<1>6. CASE Published \/ PublishFailed
  BY <1>1, <1>2, <1>3, <1>6 DEF Published, PublishFailed
<1>7. CASE Close \/ Die
  BY <1>1, <1>2, <1>3, <1>7 DEF Close, Die
<1>8. CASE UNCHANGED publisherVars
  BY <1>1, <1>2, <1>3, <1>8 DEF publisherVars
<1> QED BY <1>4, <1>5, <1>6, <1>7, <1>8 DEF PublisherNext, PublishLoop, Exited

(* Both loops of cmd/publisher send 1, 2, 3, ... without gap or repetition,  *)
(* and the connection is closed behind the last publication: for every       *)
(* number of test events and of ticks.                                       *)
THEOREM EventsArriveInOrder == PublisherSpec => []PublisherInv
<1>1. ASSUME PublisherInit PROVE PubInv
  <2>1. /\ arrived \in Seq(Nat) /\ Len(arrived) = 0 /\ number = 1 /\ linked = TRUE
        /\ mode \in Modes /\ main = "running" /\ pub = "idle" /\ tick = FALSE
    BY <1>1 DEF PublisherInit
  <2>2. 1 \in 1 .. 1 + (IF mode = "cli" THEN TestEvents ELSE MaxCounter)
    BY BoundsAssumption DEF BoundsAssumption
  <2>3. PublisherTypeOK
    BY <2>1, <2>2 DEF PublisherTypeOK
  <2>4. CloseAfterLastPublish /\ ArrivedIsPrefix
    BY <2>1 DEF CloseAfterLastPublish, ArrivedIsPrefix
  <2> QED BY <2>1, <2>3, <2>4 DEF PubInv, PublisherInv
<1>2. PubInv /\ [PublisherNext]_publisherVars => PubInv'
  BY PubStep
<1>3. PubInv => PublisherInv
  BY DEF PubInv
<1> QED BY <1>1, <1>2, <1>3, PTL DEF PublisherSpec
-----------------------------------------------------------------------------
(* The reporters.  Who holds wp.mu, and how far Stop is, can be told from   *)
(* where main and the readers are.                                          *)
Stages == {"select", "inspecting", "reading", "read", "checking", "draining", "ended"}

\* The lock, and the two fields of the pool that Stop writes under it.
RepLockInv ==
    /\ at \in [Reporters -> Stages]
    /\ \A r \in Readers : r \in lock <=> at[r] = "read"
    /\ "main" \in lock <=> mainPc = "stopping"
    /\ ctxDone <=> mainPc \in {"stopping", "waiting", "exited"}
    /\ active <=> mainPc \notin {"waiting", "exited"}

\* What was read of them.
RepSeenInv ==
    /\ stats \in [Readers -> [active : BOOLEAN, contextDone : BOOLEAN]]
    /\ \A r \in Readers : stats[r].contextDone => mainPc \in {"waiting", "exited"}

\* The end.
RepEndInv ==
    /\ at["metrics"] = "ended" => server \in {"closed", "abandoned"}
    /\ server = "closed" => requests = {}
    /\ mainPc # "exited" => ended = "none"
    /\ ended = "graceful" => \A r \in Reporters : at[r] = "ended"

RepInv == ReportersInv /\ RepLockInv /\ RepSeenInv /\ RepEndInv

LEMMA RepNames == /\ Readers = {"report", "health"}
                  /\ Reporters = {"report", "health", "metrics"}
BY DEF Readers, Reporters

(* A reporter's step: it moves nobody else, and takes what it reads from a  *)
(* pool no Stop is inside of.                                               *)
LEMMA ReporterSteps ==
    ASSUME RepInv, mainPc # "exited",
           \/ TickReport \/ Inspected \/ TickHealth
           \/ \E r \in Readers : ReaderStep(r) \/ EndReader(r)
           \/ \E c \in Clients : RequestOpens(c) \/ RequestEnds(c)
           \/ ListenFails \/ ServerDrains \/ ServerCloses \/ ShutdownTimesOut
    PROVE  RepInv'
<1> USE RepNames DEF Rest, ServerOnly, serverVars, Move, RepInv, RepLockInv, RepSeenInv, RepEndInv, Stages,
        ReportersInv, ReportersTypeOK, NoHalfStopIsSeen, GracefulMeansQuiet
<1>1. CASE TickReport \/ Inspected \/ TickHealth
  BY <1>1 DEF TickReport, Inspected, TickHealth
<1>2. ASSUME NEW r \in Readers, GetStats(r) PROVE RepInv'
  BY <1>2 DEF GetStats, CanRead, Snapshot
<1>3. ASSUME NEW r \in Readers, ReadDone(r) PROVE RepInv'
  BY <1>3 DEF ReadDone
<1>4. CASE IsActive
  BY <1>4 DEF IsActive, CanRead
<1>5. ASSUME NEW r \in Readers, EndReader(r) PROVE RepInv'
  BY <1>5 DEF EndReader
<1>6. ASSUME NEW c \in Clients, RequestOpens(c) \/ RequestEnds(c) PROVE RepInv'
  BY <1>6 DEF RequestOpens, RequestEnds
<1>7. CASE ListenFails \/ ServerDrains
  BY <1>7 DEF ListenFails, ServerDrains
<1>8. CASE ServerCloses \/ ShutdownTimesOut
  BY <1>8 DEF ServerCloses, ShutdownTimesOut
<1> QED BY <1>1, <1>2, <1>3, <1>4, <1>5, <1>6, <1>7, <1>8 DEF ReaderStep

(* A step of main: the lock is what it says, and its end is a quiet one.    *)
LEMMA MainSteps ==
    ASSUME RepInv,
           \/ Cancel \/ StopCalled \/ StopBegins \/ StopEnds
           \/ ExitGraceful \/ ExitTimeout
    PROVE  RepInv'
<1> USE RepNames DEF Main, serverVars, RepInv, RepLockInv, RepSeenInv, RepEndInv, Stages,
        ReportersInv, ReportersTypeOK, NoHalfStopIsSeen, GracefulMeansQuiet
<1>1. CASE Cancel \/ StopCalled
  BY <1>1 DEF Cancel, StopCalled
<1>2. CASE StopBegins
  BY <1>2 DEF StopBegins
<1>3. CASE StopEnds
  <2>1. lock = {"main"} /\ lock' = {}
    BY <1>3 DEF StopEnds
  <2> QED BY <1>3, <2>1 DEF StopEnds
<1>4. CASE ExitGraceful
  <2>1. lock = {}
    BY <1>4 DEF ExitGraceful, AllEnded
  <2> QED BY <1>4, <2>1 DEF ExitGraceful, AllEnded
<1>5. CASE ExitTimeout
  BY <1>5 DEF ExitTimeout
<1> QED BY <1>1, <1>2, <1>3, <1>4, <1>5

LEMMA RepStep == RepInv /\ [ReportersNext]_reporterVars => RepInv'
<1> SUFFICES ASSUME RepInv, [ReportersNext]_reporterVars PROVE RepInv'
  OBVIOUS
<1>1. CASE ConnectionLost \/ UNCHANGED reporterVars
  <2>1. /\ mainPc' = mainPc /\ ended' = ended /\ at' = at /\ lock' = lock /\ active' = active
        /\ ctxDone' = ctxDone /\ stats' = stats /\ warned' = warned /\ server' = server
        /\ requests' = requests /\ connected' \in BOOLEAN
    BY <1>1 DEF ConnectionLost, reporterVars, serverVars, RepInv, ReportersInv, ReportersTypeOK
  <2>2. RepLockInv' /\ RepSeenInv' /\ RepEndInv'
    BY <2>1 DEF RepInv, RepLockInv, RepSeenInv, RepEndInv, Readers, Reporters
  <2>3. ReportersTypeOK'
    BY <2>1 DEF RepInv, ReportersInv, ReportersTypeOK, Readers
  <2>4. NoHalfStopIsSeen' /\ GracefulMeansQuiet'
    BY <2>1 DEF RepInv, ReportersInv, NoHalfStopIsSeen, GracefulMeansQuiet, Readers
  <2> QED BY <2>2, <2>3, <2>4 DEF RepInv, ReportersInv
<1> QED BY <1>1, ReporterSteps, MainSteps DEF ReportersNext, MainExited

(* Neither a report nor a health check sees half of a Stop, and when main    *)
(* calls its end graceful nobody reads the pool, no request is accepted and  *)
(* only one that Shutdown gave up on is still open: for any number of        *)
(* clients.                                                                  *)
THEOREM ReportsSeeNoHalfStop == ReportersSpec => []ReportersInv
<1>1. ASSUME ReportersInit PROVE RepInv
  <2>1. /\ at \in [Reporters -> Stages] /\ \A r \in Reporters : at[r] = "select"
        /\ stats \in [Readers -> [active : BOOLEAN, contextDone : BOOLEAN]]
        /\ \A r \in Readers : ~stats[r].contextDone
        /\ mainPc = "running" /\ ended = "none" /\ lock = {} /\ active = TRUE /\ ctxDone = FALSE
        /\ warned = {} /\ server = "open" /\ requests = {}
        /\ connected = TRUE
    BY <1>1 DEF ReportersInit, Snapshot, Stages
  <2>2. RepLockInv /\ RepSeenInv /\ RepEndInv
    BY <2>1, RepNames DEF RepLockInv, RepSeenInv, RepEndInv
  <2>3. ReportersTypeOK /\ NoHalfStopIsSeen /\ GracefulMeansQuiet
    BY <2>1, RepNames DEF ReportersTypeOK, NoHalfStopIsSeen, GracefulMeansQuiet
  <2> QED BY <2>2, <2>3 DEF RepInv, ReportersInv
<1>2. RepInv => ReportersInv
  BY DEF RepInv
<1> QED BY <1>1, <1>2, RepStep, PTL DEF ReportersSpec
=============================================================================
