----------------------------- MODULE Arithmetic -----------------------------
(***************************************************************************)
(* Facts about products, quotients and remainders by a number that is not  *)
(* a literal, which the proofs of the other modules cite.                  *)
(***************************************************************************)
EXTENDS Integers, TLAPS

\* A positive multiple is at least the number.
LEMMA Multiple ==
    ASSUME NEW m \in Nat \ {0}, NEW d \in Int, d >= 1
    PROVE  m * d >= m
BY SMT

\* A product of naturals is a natural.
LEMMA ProductNat ==
    ASSUME NEW m \in Nat, NEW d \in Nat
    PROVE  m * d \in Nat
BY SMT

\* Division with remainder, at a period.
LEMMA DivMod ==
    ASSUME NEW m \in Nat \ {0}, NEW a \in Nat
    PROVE  /\ a % m \in 0..(m - 1)
           /\ a \div m \in Nat
           /\ a = m * (a \div m) + (a % m)
BY SMT

\* The remainder is no larger than the number.
LEMMA ModAtMost ==
    ASSUME NEW m \in Nat \ {0}, NEW a \in Nat
    PROVE  a % m <= a
<1>1. /\ a \div m \in Nat
      /\ a = m * (a \div m) + (a % m)
      /\ a % m \in Nat
  BY DivMod
<1>2. \A q \in Nat : m * q >= 0
  BY SMT
<1> QED BY <1>1, <1>2

\* There is one remainder only.
LEMMA ModUnique ==
    ASSUME NEW m \in Nat \ {0}, NEW a \in Nat, NEW q \in Int,
           NEW r \in 0..(m - 1), a = m * q + r
    PROVE  a % m = r
<1> DEFINE p == a \div m
           s == a % m
<1>1. p \in Nat /\ s \in 0..(m - 1) /\ a = m * p + s
  BY DivMod
<1> SUFFICES s = r
  OBVIOUS
<1> HIDE DEF p, s
<1>2. m * (q - p) = m * q - m * p
  BY <1>1, SMT
<1>3. CASE q - p >= 1
  <2>1. m * (q - p) >= m
    BY <1>1, <1>3, Multiple
  <2> QED BY <1>1, <1>2, <2>1
<1>4. CASE p - q >= 1
  <2>1. m * (p - q) >= m
    BY <1>1, <1>4, Multiple
  <2>2. m * (p - q) = m * p - m * q
    BY <1>1, SMT
  <2> QED BY <1>1, <2>1, <2>2
<1>5. CASE q = p
  BY <1>1, <1>5
<1> QED BY <1>1, <1>3, <1>4, <1>5

\* A number below the period is its own remainder.
LEMMA ModSmall ==
    ASSUME NEW m \in Nat \ {0}, NEW a \in 0..(m - 1)
    PROVE  a % m = a
<1>1. a \in Nat /\ a = m * 0 + a /\ 0 \in Int
  BY SMT
<1> QED BY <1>1, ModUnique

\* A wrapped counter counts on.
LEMMA ModNext ==
    ASSUME NEW m \in Nat \ {0}, NEW a \in Nat
    PROVE  ((a % m) + 1) % m = (a + 1) % m
<1> DEFINE q == a \div m
           r == a % m
<1>1. q \in Nat /\ r \in 0..(m - 1) /\ a = m * q + r
  BY DivMod
<1> SUFFICES (r + 1) % m = (a + 1) % m
  OBVIOUS
<1> HIDE DEF q, r
<1>2. CASE r < m - 1
  <2>1. r + 1 \in 0..(m - 1) /\ a + 1 \in Nat /\ a + 1 = m * q + (r + 1)
    BY <1>1, <1>2
  <2>2. (a + 1) % m = r + 1
    BY <1>1, <2>1, ModUnique
  <2> QED BY <2>1, <2>2, ModSmall
<1>3. CASE r = m - 1
  <2>1. m * (q + 1) = m * q + m
    BY <1>1, SMT
  <2>2. a + 1 \in Nat /\ q + 1 \in Int /\ 0 \in 0..(m - 1)
        /\ a + 1 = m * (q + 1) + 0
    BY <1>1, <1>3, <2>1
  <2>3. (a + 1) % m = 0
    BY <2>2, ModUnique
  <2>4. m \in Nat /\ m = m * 1 + 0 /\ 1 \in Int
    BY SMT
  <2>5. m % m = 0
    BY <2>2, <2>4, ModUnique
  <2> QED BY <1>1, <1>3, <2>3, <2>5
<1> QED BY <1>1, <1>2, <1>3

\* A bound tested by division is the bound on the product.
LEMMA DivisionTest ==
    ASSUME NEW n \in Nat \ {0}, NEW a \in Nat, NEW b \in Nat
    PROVE  a > b \div n <=> n * a > b
<1> DEFINE q == b \div n
           r == b % n
<1>1. q \in Nat /\ r \in 0..(n - 1) /\ b = n * q + r
  BY DivMod
<1> SUFFICES a > q <=> n * a > b
  OBVIOUS
<1> HIDE DEF q, r
<1>2. n * (a - q) = n * a - n * q
  BY <1>1, SMT
<1>3. CASE a > q
  <2>1. n * (a - q) >= n
    BY <1>1, <1>3, Multiple
  <2> QED BY <1>1, <1>2, <1>3, <2>1
<1>4. CASE a <= q
  <2>1. n * (q - a) \in Nat
    BY <1>1, <1>4, ProductNat
  <2>2. n * (q - a) = n * q - n * a
    BY <1>1, SMT
  <2> QED BY <1>1, <1>4, <2>1, <2>2
<1> QED BY <1>1, <1>3, <1>4
============================================================================
